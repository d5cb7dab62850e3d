----------------------------- MODULE WireProofs -----------------------------
(***************************************************************************)
(* The client and its connection's thread keep the promises of Dialogue,   *)
(* and the client's threads are started for the right answers, whatever    *)
(* the lines, the answers, the sizes of the two buffers and the places at  *)
(* which the stream is cut.                                                *)
(***************************************************************************)
EXTENDS Wire, Induction, SequenceTheorems
LOCAL INSTANCE SequencesExt

-----------------------------------------------------------------------------
(* What the server makes of a chunk that has no newline but maybe its last *)
(* byte: the client gives a line only after the answer to the one before,  *)
(* so no other chunk is ever read.                                         *)

Bytes == Letters \cup {NewLine, EOT}

Unrolled(line, chunk, cut) ==
    [k \in 0..Len(chunk) |->
        IF k = 0 THEN [idx |-> 0, end |-> -1, line |-> line, lines |-> <<>>]
        ELSE Scan(chunk, cut[k - 1], chunk[k])]

(* The equation Rounds is defined by has a solution when it has this one.  *)
LEMMA RoundsEquation ==
    ASSUME NEW line, NEW chunk, NEW w, w = Unrolled(line, chunk, w)
    PROVE  Rounds(line, chunk) = Unrolled(line, chunk, Rounds(line, chunk))
<1> DEFINE Solves(cut) == cut = Unrolled(line, chunk, cut)
<1>1. Rounds(line, chunk) = CHOOSE cut : Solves(cut)
  BY Zenon DEF Rounds, Unrolled
<1> HIDE DEF Solves
<1>2. Solves(w)
  BY DEF Solves
<1>3. Solves(Rounds(line, chunk))
  BY <1>1, <1>2, Zenon
<1> QED BY <1>3 DEF Solves

LEMMA OneLineAtMost ==
    ASSUME NEW line \in Seq(Letters), NEW chunk \in Seq(Bytes), chunk # <<>>,
           \A k \in 1..(Len(chunk) - 1) : chunk[k] # NewLine
    PROVE  CutUp(line, chunk) =
               IF chunk[Len(chunk)] # NewLine
               THEN [line |-> line \o chunk, lines |-> <<>>]
               ELSE LET whole == line \o SubSeq(chunk, 1, Len(chunk) - 1)
                    IN  [line |-> <<>>, lines |-> IF whole = <<>> THEN <<>> ELSE <<whole>>]
<1> DEFINE n == Len(chunk)
           Counted(k) == [idx |-> k, end |-> -1, line |-> line, lines |-> <<>>]
           Closed == Scan(chunk, Counted(n - 1), chunk[n])
           w == [k \in 0..n |-> IF k < n THEN Counted(k) ELSE Closed]
           cut == Rounds(line, chunk)
<1>1. n \in Nat \ {0} /\ n - 1 \in Nat
  OBVIOUS
<1>2. \A k \in 1..n : chunk[k] # NewLine => Scan(chunk, Counted(k - 1), chunk[k]) = Counted(k)
  <2> SUFFICES ASSUME NEW k \in 1..n, chunk[k] # NewLine
               PROVE  Scan(chunk, Counted(k - 1), chunk[k]) = Counted(k)
    OBVIOUS
  <2>1. Scan(chunk, Counted(k - 1), chunk[k]) = [Counted(k - 1) EXCEPT !.idx = @ + 1]
    <3> HIDE DEF Counted
    <3> QED BY Zenon DEF Scan
  <2>2. [Counted(k - 1) EXCEPT !.idx = @ + 1] = Counted(k)
    BY <1>1
  <2> HIDE DEF Counted
  <2> QED BY <2>1, <2>2
<1>3. w = Unrolled(line, chunk, w)
  <2>1. ASSUME NEW k \in 0..n
        PROVE  w[k] = IF k = 0 THEN Counted(0) ELSE Scan(chunk, w[k - 1], chunk[k])
    <3>1. CASE k = 0
      BY <3>1, <1>1
    <3>2. CASE k = n
      <4>1. w[k - 1] = Counted(n - 1) /\ w[k] = Closed /\ k # 0
        BY <3>2, <1>1
      <4> HIDE DEF Counted, w
      <4> QED BY <4>1, <3>2
    <3>3. CASE k \in 1..(n - 1)
      <4>1. w[k - 1] = Counted(k - 1) /\ w[k] = Counted(k) /\ k # 0
        BY <3>3, <1>1
      <4> HIDE DEF Counted, w
      <4> QED BY <4>1, <3>3, <1>2
    <3> QED BY <3>1, <3>2, <3>3, <1>1
  <2> HIDE DEF Closed
  <2> QED BY <2>1 DEF Unrolled
<1>4. cut = Unrolled(line, chunk, cut)
  <2> HIDE DEF w
  <2> QED BY <1>3, RoundsEquation
<1> HIDE DEF w, cut, Counted, Closed
<1>5. /\ cut[0] = Counted(0)
      /\ \A k \in 1..n : cut[k] = Scan(chunk, cut[k - 1], chunk[k])
  BY <1>1, <1>4 DEF Unrolled, Counted
<1>6. \A k \in 0..(n - 1) : cut[k] = Counted(k)
  <2> DEFINE S == {k \in 0..(n - 1) : cut[k] = Counted(k)}
  <2>1. 0 \in S
    BY <1>1, <1>5
  <2>2. ASSUME NEW k \in 0..(n - 1 - 1), k \in S PROVE k + 1 \in S
    <3>1. k + 1 \in 1..(n - 1) /\ k + 1 \in 1..n /\ (k + 1) - 1 = k
      BY <1>1
    <3>2. Scan(chunk, Counted(k), chunk[k + 1]) = Counted(k + 1)
      BY <3>1, <1>2
    <3>3. cut[k + 1] = Scan(chunk, cut[k], chunk[k + 1])
      BY <3>1, <1>5
    <3> QED BY <3>1, <3>2, <3>3, <2>2
  <2> HIDE DEF S
  <2>3. \A k \in 0..(n - 1) : k \in S
    BY <1>1, <2>1, <2>2, UpTo
  <2> QED BY <2>3 DEF S
<1>7. cut[n] = Closed
  <2>1. cut[n - 1] = Counted(n - 1) /\ n \in 1..n
    BY <1>1, <1>6
  <2> QED BY <2>1, <1>5 DEF Closed
<1>8. CutUp(line, chunk) = [line |-> Pushed(chunk, Closed), lines |-> Closed.lines]
  BY <1>7 DEF CutUp, cut
<1>9. ASSUME NEW k \in 0..n
      PROVE  Pushed(chunk, Counted(k)) = line \o SubSeq(chunk, 1, k)
  <2>1. CASE k = 0
    <3>1. SubSeq(chunk, 1, 0) = <<>>
      OBVIOUS
    <3>2. line \o <<>> = line
      OBVIOUS
    <3> QED BY <2>1, <3>1, <3>2 DEF Pushed, Counted
  <2>2. CASE k # 0
    BY <2>2 DEF Pushed, Counted
  <2> QED BY <2>1, <2>2
<1>10. CASE chunk[n] # NewLine
  <2>1. Closed = Counted(n) /\ Counted(n).lines = <<>>
    BY <1>10, <1>1, <1>2 DEF Closed, Counted
  <2>2. SubSeq(chunk, 1, n) = chunk
    BY SubSeqFull
  <2>3. Pushed(chunk, Counted(n)) = line \o SubSeq(chunk, 1, n)
    <3>1. n \in 0..n
      BY <1>1
    <3> HIDE DEF n
    <3> QED BY <3>1, <1>9
  <2> QED BY <1>8, <1>10, <2>1, <2>2, <2>3
<1>11. CASE chunk[n] = NewLine
  <2> DEFINE whole == line \o SubSeq(chunk, 1, n - 1)
             rest  == [idx |-> n, end |-> n - 1, line |-> <<>>,
                       lines |-> IF whole = <<>> THEN <<>> ELSE <<whole>>]
  <2>1. Pushed(chunk, Counted(n - 1)) = whole
    <3>1. n - 1 \in 0..n
      BY <1>1
    <3> HIDE DEF n
    <3> QED BY <3>1, <1>9
  <2>2. Closed = rest
    <3> HIDE DEF whole
    <3>1. Append(<<>>, whole) = <<whole>>
      OBVIOUS
    <3> QED BY <1>11, <1>1, <2>1, <3>1 DEF Scan, Closed, Counted
  <2>3. Pushed(chunk, rest) = <<>>
    <3> HIDE DEF whole
    <3> QED BY <1>1 DEF Pushed
  <2> HIDE DEF whole
  <2>4. Pushed(chunk, Closed) = <<>>
    BY <2>2, <2>3
  <2> QED BY <1>8, <1>11, <2>2, <2>4 DEF whole
<1> QED BY <1>10, <1>11

-----------------------------------------------------------------------------
(* The inductive invariant.  Until a handler has answered twice, one       *)
(* command is under way at a time; what the client knows of its ports does *)
(* not depend on that.                                                     *)

WireTypes ==
    /\ client \in {"ready", "polling", "receiving", "gone"}
    /\ server \in {"reading", "running", "ended"}
    /\ toServer \in Seq(Bytes) /\ toClient \in Seq(Bytes) /\ received \in Seq(Bytes)
    /\ toProcess \in Seq(Letters)
    /\ pending \in Seq(Lines) /\ late \in Seq(Kinds)
    /\ given \in Seq(Lines) /\ ran \in Seq(Lines)
    /\ printed \in Seq(Texts) /\ answered \in Seq(Texts)

(* What was run was given, what was printed was answered, and at most one  *)
(* command is under way.                                                   *)
Histories ==
    /\ Len(printed) = IF client = "ready" THEN Len(given) ELSE Len(given) - 1
    /\ Len(printed) <= Len(answered)
    /\ Len(answered) <= Len(ran)
    /\ Len(ran) <= Len(given)
    /\ \A k \in 1..Len(ran) : ran[k] = given[k]
    /\ \A k \in 1..Len(printed) : printed[k] = answered[k]

Current == given[Len(given)]

(* The line is on its way in pieces, waits to be run, or has been run.     *)
LineUnderWay ==
    \/ /\ Len(ran) = Len(given)
       /\ toProcess = <<>> /\ toServer = <<>> /\ pending = <<>> /\ server # "running"
    \/ /\ Len(ran) < Len(given)
       /\ toProcess = <<>> /\ toServer = <<>> /\ pending = <<Current>> /\ server = "running"
    \/ /\ Len(ran) < Len(given)
       /\ toServer # <<>> /\ toProcess \o toServer = Current \o <<NewLine>>
       /\ pending = <<>> /\ server # "running"

(* The answer is a thread's to give, is on its way in pieces, or has been  *)
(* printed.                                                                *)
AnswerUnderWay ==
    /\ late = IF Len(answered) = Len(ran) THEN <<>> ELSE <<KindOf(Current)>>
    /\ Len(answered) # Len(ran) => IsTransfer(Current)
    /\ \/ Len(printed) = Len(answered) /\ received = <<>> /\ toClient = <<>>
       \/ /\ Len(printed) < Len(answered)
          /\ toClient # <<>>
          /\ received \o toClient = answered[Len(answered)] \o <<EOT>>

Orderly == WireTypes /\ Histories /\ LineUnderWay /\ AnswerUnderWay

ClientTypes ==
    /\ client \in {"ready", "polling", "receiving", "gone"}
    /\ errno \in {"none", "EWOULDBLOCK"}
    /\ watching \in SUBSET Kinds
    /\ untainted \in Nat
    /\ given \in Seq(Lines) /\ printed \in Seq(Seq(Bytes))
    /\ Len(printed) = IF client = "ready" THEN Len(given) ELSE Len(given) - 1
    /\ started \in SUBSET ((1..Len(printed)) \X Kinds)
    /\ toClient \in Seq(Bytes) /\ received \in Seq(Bytes)

(* Some transfer of the kind up to the m-th command had no thread since,   *)
(* up to the n-th.                                                         *)
Owed(kind, m, n) ==
    \E j \in 1..m : /\ IsKind(given[j], kind)
                   /\ \A i \in j..n : <<i, kind>> \notin started

Threaded(k, kind) ==
    /\ <<k, kind>> \in started => Has(printed[k], PortText[kind]) /\ Owed(kind, k, k - 1)
    /\ IsKind(given[k], kind) /\ Has(printed[k], PortText[kind]) =>
           <<k, kind>> \in started \/ (kind = "put" /\ k > untainted)

(* A port is looked for while a transfer of the kind is owed a thread; the *)
(* one under way is, unless errno kept its flag from being set.            *)
PortsLookedFor ==
    /\ untainted <= Len(given)
    /\ errno = "none" => untainted = Len(given)
    /\ \A kind \in watching : Owed(kind, Len(given), Len(printed))
    /\ \A kind \in Kinds : client # "ready" /\ IsKind(Current, kind) =>
           kind \in watching \/ (kind = "put" /\ Len(given) > untainted)
    /\ \A k \in 1..Len(printed), kind \in Kinds : Threaded(k, kind)

ClientInv == ClientTypes /\ PortsLookedFor

WireInv == ClientInv /\ (twice \/ Orderly)

-----------------------------------------------------------------------------
(* Lines, answers and streams.                                             *)

LEMMA LinesAreLetters == Lines \subseteq Seq(Letters) /\ <<>> \notin Lines
<1>1. \A l \in Lines : \E m \in 0..MaxLine : l \in [1..m -> Letters]
  BY WireAssumption DEF Lines, BoundedSeq, SeqOf, WireAssumption
<1> QED BY <1>1, WireAssumption DEF Lines, WireAssumption

LEMMA TextsAreLetters == Texts \subseteq Seq(Letters)
<1>1. \A l \in Texts : \E m \in 0..MaxAnswer : l \in [1..m -> Letters]
  BY WireAssumption DEF Texts, BoundedSeq, SeqOf, WireAssumption
<1> QED BY <1>1, WireAssumption DEF WireAssumption

LEMMA LettersAreBytes == Seq(Letters) \subseteq Seq(Bytes)
BY SeqMonotonic DEF Bytes

LEMMA ConcatBytes ==
    ASSUME NEW a \in Seq(Bytes), NEW b \in Seq(Bytes), NEW c \in Seq(Bytes)
    PROVE  (a \o b) \o c = a \o (b \o c)
BY ConcatAssociative

LEMMA LastOfConcat ==
    ASSUME NEW a \in Seq(Bytes), NEW b \in Seq(Bytes), b # <<>>
    PROVE  /\ a \o b \in Seq(Bytes) /\ Len(a \o b) = Len(a) + Len(b)
           /\ Last(a \o b) = b[Len(b)]
BY DEF Last

(* A stream that is cut keeps its bytes.                                   *)
LEMMA CutStream ==
    ASSUME NEW a \in Seq(Bytes), NEW b \in Seq(Bytes), NEW n \in 1..Len(b)
    PROVE  /\ SubSeq(b, 1, n) \in Seq(Bytes) /\ Len(SubSeq(b, 1, n)) = n
           /\ SubSeq(b, n + 1, Len(b)) \in Seq(Bytes)
           /\ Len(SubSeq(b, n + 1, Len(b))) = Len(b) - n
           /\ \A k \in 1..n : SubSeq(b, 1, n)[k] = b[k]
           /\ (a \o SubSeq(b, 1, n)) \o SubSeq(b, n + 1, Len(b)) = a \o b
<1> DEFINE c == SubSeq(b, 1, n)  d == SubSeq(b, n + 1, Len(b))
<1>1. c \in Seq(Bytes) /\ d \in Seq(Bytes) /\ Len(c) = n /\ Len(d) = Len(b) - n
  OBVIOUS
<1>2. \A k \in 1..n : c[k] = b[k]
  OBVIOUS
<1>3. c \o d = b
  BY ConcatAdjacentSubSeq, SubSeqFull
<1> HIDE DEF c, d
<1>4. (a \o c) \o d = a \o (c \o d)
  BY <1>1, ConcatBytes, Zenon
<1> QED BY <1>1, <1>2, <1>3, <1>4 DEF c, d

(* What has come of a text with one byte at its end, and what has not.     *)
Ending(a, b, text, byte) ==
    /\ b[Len(b)] = byte
    /\ \A k \in 1..(Len(b) - 1) : b[k] \in Letters
    /\ a \in Seq(Letters)
    /\ a \o SubSeq(b, 1, Len(b) - 1) = text

LEMMA StreamEnd ==
    ASSUME NEW a \in Seq(Bytes), NEW b \in Seq(Bytes), b # <<>>,
           NEW text \in Seq(Letters), NEW byte \in Bytes,
           a \o b = text \o <<byte>>
    PROVE  Ending(a, b, text, byte)
<1> DEFINE whole == text \o <<byte>>
<1>1. text \in Seq(Bytes) /\ Len(text) \in Nat /\ Len(a) \in Nat /\ Len(b) \in Nat \ {0}
  BY LettersAreBytes
<1>2. /\ Len(whole) = Len(text) + 1
      /\ \A k \in 1..Len(text) : whole[k] = text[k]
      /\ whole[Len(text) + 1] = byte
  BY <1>1
<1>3. /\ Len(whole) = Len(a) + Len(b)
      /\ \A k \in 1..Len(a) : whole[k] = a[k]
      /\ \A k \in 1..Len(b) : whole[Len(a) + k] = b[k]
  <2> HIDE DEF whole
  <2>1. /\ Len(a \o b) = Len(a) + Len(b)
        /\ \A k \in 1..Len(a) : (a \o b)[k] = a[k]
        /\ \A k \in 1..Len(b) : (a \o b)[Len(a) + k] = b[k]
    OBVIOUS
  <2> QED BY <2>1 DEF whole
<1> HIDE DEF whole
<1>4. b[Len(b)] = byte
  BY <1>1, <1>2, <1>3
<1>5. \A k \in 1..(Len(b) - 1) : b[k] = text[Len(a) + k] /\ Len(a) + k \in 1..Len(text)
  BY <1>1, <1>2, <1>3
<1>6. \A k \in 1..Len(a) : a[k] = text[k] /\ k \in 1..Len(text)
  BY <1>1, <1>2, <1>3
<1>7. a \in Seq(Letters)
  <2>1. \A k \in 1..Len(a) : a[k] \in Letters
    BY <1>6
  <2>2. a = [k \in 1..Len(a) |-> a[k]]
    OBVIOUS
  <2> QED BY <2>1, <2>2, <1>1
<1>8. a \o SubSeq(b, 1, Len(b) - 1) = text
  <2> DEFINE d == SubSeq(b, 1, Len(b) - 1)
  <2>1. d \in Seq(Bytes) /\ Len(d) = Len(b) - 1 /\ \A k \in 1..Len(d) : d[k] = b[k]
    BY <1>1
  <2> HIDE DEF d
  <2>2. /\ a \o d \in Seq(Bytes) /\ Len(a \o d) = Len(text)
        /\ \A k \in 1..Len(text) : (a \o d)[k] = IF k <= Len(a) THEN a[k] ELSE d[k - Len(a)]
    BY <1>1, <1>2, <1>3, <2>1
  <2>3. \A k \in 1..Len(text) : (a \o d)[k] = text[k]
    <3> SUFFICES ASSUME NEW k \in 1..Len(text) PROVE (a \o d)[k] = text[k]
      OBVIOUS
    <3>1. CASE k <= Len(a)
      BY <3>1, <2>2, <1>6, <1>1
    <3>2. CASE k > Len(a)
      <4>1. k - Len(a) \in 1..(Len(b) - 1)
        BY <3>2, <1>1, <1>2, <1>3
      <4>2. d[k - Len(a)] = text[Len(a) + (k - Len(a))]
        BY <4>1, <1>5, <2>1
      <4> QED BY <4>2, <3>2, <2>2, <1>1
    <3>3. k <= Len(a) \/ k > Len(a)
      BY <1>1
    <3> QED BY <3>1, <3>2, <3>3, Zenon
  <2> QED BY <2>2, <2>3, <1>1, SeqEqual DEF d
<1>9. \A k \in 1..(Len(b) - 1) : b[k] \in Letters
  BY <1>5
<1> QED BY <1>4, <1>7, <1>8, <1>9 DEF Ending

-----------------------------------------------------------------------------
(* The invariant is kept, action by action.                                *)

LEMMA Lengths ==
    ASSUME WireTypes
    PROVE  /\ Len(given) \in Nat /\ Len(ran) \in Nat /\ Len(answered) \in Nat
           /\ Len(printed) \in Nat
           /\ toServer \in Seq(Bytes) /\ toClient \in Seq(Bytes) /\ received \in Seq(Bytes)
           /\ toProcess \in Seq(Letters) /\ toProcess \in Seq(Bytes)
BY LettersAreBytes DEF WireTypes

(* Between two commands nothing is under way.                              *)
LEMMA Quiet ==
    ASSUME Orderly, client = "ready"
    PROVE  /\ Len(printed) = Len(given) /\ Len(answered) = Len(given) /\ Len(ran) = Len(given)
           /\ toServer = <<>> /\ toClient = <<>> /\ received = <<>>
           /\ toProcess = <<>> /\ pending = <<>> /\ late = <<>>
           /\ server # "running"
BY Lengths DEF Orderly, Histories, LineUnderWay, AnswerUnderWay

LEMMA Waiting ==
    ASSUME Orderly, client # "ready"
    PROVE  /\ Len(given) \in Nat \ {0} /\ Len(printed) = Len(given) - 1
           /\ Current \in Lines
BY Lengths DEF Orderly, Histories, WireTypes, Current

LEMMA InitInv == Init => WireInv
BY DEF Init, WireInv, ClientInv, ClientTypes, PortsLookedFor, Orderly, WireTypes, Histories,
       LineUnderWay, AnswerUnderWay

LEMMA GiveInv ==
    ASSUME Orderly, NEW line \in Lines, Give(line)
    PROVE  Orderly'
<1> USE DEF Give, serverVars, handlerVars
<1>1. /\ client = "ready" /\ client' = "polling"
      /\ Len(printed) = Len(given) /\ Len(answered) = Len(given) /\ Len(ran) = Len(given)
      /\ toServer = <<>> /\ toClient = <<>> /\ received = <<>>
      /\ toProcess = <<>> /\ pending = <<>> /\ late = <<>>
      /\ server # "running"
  BY Quiet
<1>2. WireTypes /\ Histories
  BY DEF Orderly
<1>3. /\ given \in Seq(Lines) /\ Len(given) \in Nat
      /\ given' \in Seq(Lines) /\ Len(given') = Len(given) + 1
      /\ \A k \in 1..Len(given) : given'[k] = given[k]
      /\ Current' = line
  BY <1>2 DEF WireTypes, Current
<1>4. line \in Seq(Letters) /\ line \in Seq(Bytes) /\ line # <<>>
  BY LinesAreLetters, LettersAreBytes
<1>5. /\ toServer' \in Seq(Bytes) /\ toServer' # <<>>
      /\ toProcess' \o toServer' = line \o <<NewLine>>
  <2> DEFINE sent == line \o <<NewLine>>
  <2>1. sent \in Seq(Bytes) /\ sent # <<>>
    BY <1>4 DEF Bytes
  <2>2. (<<>> \o line) \o <<NewLine>> = sent
    <3>1. <<>> \o line = line
      BY <1>4
    <3> QED BY <3>1, Zenon
  <2> HIDE DEF sent
  <2>3. <<>> \o sent = sent
    BY <2>1
  <2> QED BY <1>1, <2>1, <2>2, <2>3 DEF sent
<1>6. WireTypes'
  BY <1>1, <1>2, <1>3, <1>5 DEF WireTypes
<1>7. Histories'
  BY <1>1, <1>2, <1>3 DEF Histories
<1>8. LineUnderWay'
  BY <1>1, <1>3, <1>5 DEF LineUnderWay
<1>9. AnswerUnderWay'
  BY <1>1, <1>3 DEF AnswerUnderWay
<1> QED BY <1>6, <1>7, <1>8, <1>9 DEF Orderly

(* A recv gets a piece of the answer or, with its last byte, the answer.   *)
LEMMA ReceiveOutcome ==
    ASSUME Orderly, NEW n \in 1..ClientBuffer, Receive(n)
    PROVE  LET count == Len(given)
           IN  /\ Len(answered) = count /\ Len(ran) = count /\ late = <<>>
               /\ answered[count] \in Texts
               /\ \/ /\ TakeAnswer(answered[count])
                     /\ toClient' = <<>>
                  \/ /\ client' = "receiving"
                     /\ toClient' \in Seq(Bytes) /\ toClient' # <<>>
                     /\ received' \in Seq(Bytes)
                     /\ received' \o toClient' = answered[count] \o <<EOT>>
                     /\ printed' = printed
<1> DEFINE count == Len(given)  text == answered[count]
           chunk == SubSeq(toClient, 1, n)  all == received \o chunk
<1>1. /\ client \in {"polling", "receiving"}
      /\ n \in 1..Len(toClient) /\ toClient # <<>>
      /\ toClient' = SubSeq(toClient, n + 1, Len(toClient))
  <2>1. n \in Nat \ {0} /\ n <= Len(toClient) /\ Len(toClient) \in Nat
    BY WireAssumption, Lengths DEF Orderly, WireAssumption, Receive
  <2> QED BY <2>1 DEF Receive
<1>2. /\ Len(answered) = count /\ Len(ran) = count /\ late = <<>>
      /\ received \o toClient = text \o <<EOT>>
      /\ count \in Nat \ {0}
  <2>1. count \in Nat \ {0} /\ Len(printed) = count - 1
    BY <1>1, Waiting
  <2>2. Len(printed) < Len(answered) /\ received \o toClient = answered[Len(answered)] \o <<EOT>>
    BY <1>1 DEF Orderly, AnswerUnderWay
  <2>3. Len(answered) = count /\ Len(ran) = count
    BY <2>1, <2>2, Lengths DEF Orderly, Histories
  <2>4. late = <<>>
    BY <2>3 DEF Orderly, AnswerUnderWay
  <2> QED BY <2>1, <2>2, <2>3, <2>4
<1>3. text \in Texts /\ text \in Seq(Letters) /\ text \in Seq(Bytes) /\ EOT \in Bytes
  <2>1. answered \in Seq(Texts) /\ count \in 1..Len(answered)
    BY <1>2 DEF Orderly, WireTypes
  <2>2. answered[count] \in Texts
    <3> HIDE DEF count
    <3> QED BY <2>1
  <2> QED BY <2>2, TextsAreLetters, LettersAreBytes DEF Bytes
<1>4. received \in Seq(Bytes) /\ toClient \in Seq(Bytes)
  BY Lengths DEF Orderly
<1>5. /\ toClient[Len(toClient)] = EOT
      /\ \A k \in 1..(Len(toClient) - 1) : toClient[k] \in Letters
  <2>1. received \o toClient = text \o <<EOT>> /\ toClient # <<>>
    BY <1>1, <1>2
  <2>2. text \in Seq(Letters) /\ EOT \in Bytes
    BY <1>3
  <2> HIDE DEF text
  <2>3. Ending(received, toClient, text, EOT)
    BY <1>4, <2>1, <2>2, StreamEnd
  <2> QED BY <2>3 DEF Ending
<1>6. /\ chunk \in Seq(Bytes) /\ Len(chunk) = n /\ chunk[n] = toClient[n]
      /\ toClient' \in Seq(Bytes) /\ Len(toClient') = Len(toClient) - n
      /\ all \o toClient' = received \o toClient
  <2>1. n \in 1..n /\ Len(toClient) - n \in Int
    BY <1>1, <1>4
  <2> QED BY <1>1, <1>4, <2>1, CutStream, Zenon
<1>7. all \in Seq(Bytes) /\ Len(all) = Len(received) + n /\ Last(all) = toClient[n]
  <2>1. n \in Nat \ {0}
    BY <1>1, <1>4
  <2> HIDE DEF chunk
  <2>2. chunk # <<>>
    BY <1>6, <2>1
  <2>3. Len(all) = Len(received) + Len(chunk) /\ Last(all) = chunk[Len(chunk)] /\ all \in Seq(Bytes)
    BY <1>4, <1>6, <2>2, LastOfConcat
  <2> QED BY <1>6, <2>3
<1>8. CASE n = Len(toClient)
  <2>1. chunk = toClient
    BY <1>4, <1>8, SubSeqFull
  <2>2. all = text \o <<EOT>>
    BY <1>2, <2>1
  <2>3. Last(all) = EOT
    BY <1>5, <1>7, <1>8
  <2>4. Front(text \o <<EOT>>) = text
    BY <1>3 DEF Front
  <2> HIDE DEF chunk, text
  <2>5. TakeAnswer(Front(all))
    BY <2>3 DEF Receive, chunk
  <2>6. TakeAnswer(text)
    BY <2>2, <2>4, <2>5
  <2>7. toClient' = <<>>
    BY <1>1, <1>6, <1>8
  <2> QED BY <1>2, <1>3, <2>6, <2>7 DEF text
<1>9. CASE n # Len(toClient)
  <2>1. Last(all) # EOT
    BY <1>1, <1>5, <1>7, <1>9, WireAssumption DEF WireAssumption
  <2>2. received' = all /\ client' = "receiving" /\ printed' = printed
    BY <2>1 DEF Receive
  <2>3. toClient' # <<>>
    <3>1. Len(toClient) - n # 0
      BY <1>1, <1>4, <1>9
    <3> HIDE DEF chunk
    <3> QED BY <1>6, <3>1
  <2> QED BY <1>2, <1>3, <1>6, <1>7, <2>2, <2>3
<1> QED BY <1>8, <1>9

LEMMA ReceiveInv ==
    ASSUME Orderly, NEW n \in 1..ClientBuffer, Receive(n)
    PROVE  Orderly'
<1> DEFINE count == Len(given)  text == answered[count]
<1>1. /\ client # "ready"
      /\ UNCHANGED <<given, server, toProcess, pending, late, ran, answered, toServer>>
  BY DEF Receive, serverVars, handlerVars
<1>2. /\ Len(answered) = count /\ Len(ran) = count /\ late = <<>> /\ text \in Texts
      /\ \/ /\ TakeAnswer(text)
            /\ toClient' = <<>>
         \/ /\ client' = "receiving"
            /\ toClient' \in Seq(Bytes) /\ toClient' # <<>>
            /\ received' \in Seq(Bytes)
            /\ received' \o toClient' = text \o <<EOT>>
            /\ printed' = printed
  BY ReceiveOutcome, Zenon
<1>3. WireTypes /\ Histories /\ LineUnderWay /\ AnswerUnderWay
  BY DEF Orderly
<1>4. /\ count \in Nat \ {0} /\ Len(printed) = count - 1 /\ Current \in Lines
      /\ Current = given[count]
  BY <1>1, Waiting DEF Current
<1> HIDE DEF text
<1>5. CASE TakeAnswer(text) /\ toClient' = <<>>
  <2>1. /\ client' = "ready" /\ received' = <<>>
        /\ printed' = Append(printed, text)
    BY <1>5 DEF TakeAnswer
  <2>2. /\ printed' \in Seq(Texts) /\ Len(printed') = count /\ printed'[count] = text
        /\ \A k \in 1..Len(printed) : printed'[k] = printed[k]
    BY <1>2, <1>3, <1>4, <2>1 DEF WireTypes
  <2>3. WireTypes'
    BY <1>1, <1>3, <1>5, <2>1, <2>2 DEF WireTypes
  <2>4. Histories'
    <3>1. \A k \in 1..count : printed'[k] = answered[k]
      BY <1>2, <1>3, <1>4, <2>2 DEF Histories, text
    <3> QED BY <1>1, <1>2, <1>3, <2>1, <2>2, <3>1 DEF Histories
  <2>5. LineUnderWay'
    BY <1>1, <1>3 DEF LineUnderWay, Current
  <2>6. AnswerUnderWay'
    BY <1>1, <1>2, <1>5, <2>1, <2>2 DEF AnswerUnderWay
  <2> QED BY <2>3, <2>4, <2>5, <2>6 DEF Orderly
<1>6. CASE /\ client' = "receiving"
           /\ toClient' \in Seq(Bytes) /\ toClient' # <<>>
           /\ received' \in Seq(Bytes)
           /\ received' \o toClient' = text \o <<EOT>>
           /\ printed' = printed
  <2>1. WireTypes' /\ Histories' /\ LineUnderWay'
    BY <1>1, <1>3, <1>6 DEF WireTypes, Histories, LineUnderWay, Current
  <2>2. AnswerUnderWay'
    BY <1>1, <1>2, <1>4, <1>6 DEF AnswerUnderWay, text
  <2> QED BY <2>1, <2>2 DEF Orderly
<1> QED BY <1>2, <1>5, <1>6

LEMMA GiveUpInv ==
    ASSUME Orderly, WouldBlock \/ GiveUp
    PROVE  Orderly'
<1>1. /\ client \in {"polling", "receiving"} /\ client' \in {"polling", "gone"}
      /\ UNCHANGED <<received, given, printed, server, toProcess, pending, late, ran, answered,
                     toServer, toClient>>
  BY DEF WouldBlock, GiveUp, serverVars, handlerVars
<1>2. WireTypes'
  BY <1>1 DEF Orderly, WireTypes
<1>3. Histories' /\ LineUnderWay' /\ AnswerUnderWay'
  BY <1>1 DEF Orderly, Histories, LineUnderWay, AnswerUnderWay, Current
<1> QED BY <1>2, <1>3 DEF Orderly

(* A read gets a piece of the line or, with its last byte, the line.       *)
LEMMA ReadOutcome ==
    ASSUME Orderly, NEW n \in 1..ServerBuffer, Read(n)
    PROVE  /\ Len(ran) < Len(given) /\ server = "reading" /\ Current \in Lines
           /\ \/ /\ toServer' = <<>> /\ toProcess' = <<>>
                 /\ pending' = <<Current>> /\ server' = "running"
              \/ /\ toServer' \in Seq(Bytes) /\ toServer' # <<>>
                 /\ toProcess' \in Seq(Letters)
                 /\ toProcess' \o toServer' = Current \o <<NewLine>>
                 /\ pending' = <<>> /\ server' = "reading"
<1> DEFINE chunk == SubSeq(toServer, 1, n)  cut == CutUp(toProcess, chunk)
<1>1. /\ server = "reading"
      /\ n \in 1..Len(toServer) /\ toServer # <<>>
      /\ toServer' = SubSeq(toServer, n + 1, Len(toServer))
      /\ toProcess' = cut.line
      /\ pending' = cut.lines
      /\ server' = IF cut.lines = <<>> THEN "reading" ELSE "running"
  <2>1. n \in Nat \ {0} /\ n <= Len(toServer) /\ Len(toServer) \in Nat
    BY WireAssumption, Lengths DEF Orderly, WireAssumption, Read
  <2> HIDE DEF cut, chunk
  <2> QED BY <2>1 DEF Read, cut, chunk
<1>2. Len(ran) < Len(given) /\ toProcess \o toServer = Current \o <<NewLine>>
  BY <1>1 DEF Orderly, LineUnderWay
<1>3. Current \in Lines /\ Current \in Seq(Letters) /\ Current # <<>> /\ NewLine \in Bytes
  <2>1. Current \in Lines
    BY <1>2, Lengths DEF Orderly, WireTypes, Histories, Current
  <2> QED BY <2>1, LinesAreLetters DEF Bytes
<1>4. toServer \in Seq(Bytes) /\ toProcess \in Seq(Bytes) /\ toProcess \in Seq(Letters)
  BY Lengths DEF Orderly
<1>5. Ending(toProcess, toServer, Current, NewLine)
  <2>1. toServer # <<>>
    BY <1>1
  <2> QED BY <1>2, <1>3, <1>4, <2>1, StreamEnd
<1>6. /\ chunk \in Seq(Bytes) /\ Len(chunk) = n /\ \A k \in 1..n : chunk[k] = toServer[k]
      /\ toServer' \in Seq(Bytes) /\ Len(toServer') = Len(toServer) - n
      /\ (toProcess \o chunk) \o toServer' = toProcess \o toServer
  BY <1>1, <1>4, CutStream, Zenon
<1>7. n \in Nat \ {0} /\ Len(toServer) \in Nat
  BY <1>1, <1>4
<1>8. /\ chunk # <<>>
      /\ \A k \in 1..(Len(chunk) - 1) : chunk[k] # NewLine
  <2> HIDE DEF chunk
  <2>1. \A k \in 1..(n - 1) : k \in 1..(Len(toServer) - 1) /\ k \in 1..n
    BY <1>1, <1>7
  <2> QED BY <1>5, <1>6, <1>7, <2>1, WireAssumption DEF Ending, WireAssumption
<1>9. cut = IF chunk[n] # NewLine
            THEN [line |-> toProcess \o chunk, lines |-> <<>>]
            ELSE LET whole == toProcess \o SubSeq(chunk, 1, n - 1)
                 IN  [line |-> <<>>, lines |-> IF whole = <<>> THEN <<>> ELSE <<whole>>]
  <2> HIDE DEF chunk
  <2> QED BY <1>4, <1>6, <1>8, OneLineAtMost DEF cut
<1> HIDE DEF cut
<1>10. CASE n = Len(toServer)
  <2>1. chunk = toServer
    BY <1>4, <1>10, SubSeqFull
  <2>2. chunk[n] = NewLine
    BY <1>5, <1>6, <1>7, <1>10 DEF Ending
  <2>3. toProcess \o SubSeq(chunk, 1, n - 1) = Current
    BY <1>5, <1>10, <2>1 DEF Ending
  <2>4. cut = [line |-> <<>>, lines |-> <<Current>>]
    <3> HIDE DEF chunk
    <3> QED BY <1>3, <1>9, <2>2, <2>3
  <2>5. toServer' = <<>>
    <3> HIDE DEF chunk
    <3> QED BY <1>6, <1>7, <1>10
  <2> QED BY <1>1, <1>2, <1>3, <2>4, <2>5
<1>11. CASE n # Len(toServer)
  <2>1. n \in 1..(Len(toServer) - 1)
    BY <1>1, <1>7, <1>11
  <2>2. \A k \in 1..n : chunk[k] \in Letters
    <3> HIDE DEF chunk
    <3>1. \A k \in 1..n : k \in 1..(Len(toServer) - 1)
      BY <1>7, <2>1
    <3> QED BY <1>5, <1>6, <3>1 DEF Ending
  <2>3. chunk[n] # NewLine
    BY <1>7, <2>2, WireAssumption DEF WireAssumption
  <2> HIDE DEF chunk
  <2>4. chunk \in Seq(Letters)
    <3>1. chunk = [k \in 1..n |-> chunk[k]]
      BY <1>6
    <3> QED BY <1>7, <2>2, <3>1
  <2>5. toProcess \o chunk \in Seq(Letters)
    BY <1>4, <2>4
  <2>6. cut.line = toProcess \o chunk /\ cut.lines = <<>>
    BY <1>9, <2>3
  <2>7. toServer' # <<>>
    <3>1. Len(toServer) - n # 0
      BY <1>7, <1>11
    <3> QED BY <1>6, <3>1
  <2>8. toProcess' = toProcess \o chunk /\ pending' = <<>> /\ server' = "reading"
    BY <1>1, <2>6
  <2>9. toProcess' \o toServer' = Current \o <<NewLine>>
    BY <1>2, <1>6, <2>8
  <2> QED BY <1>1, <1>2, <1>3, <1>6, <2>5, <2>7, <2>8, <2>9
<1> QED BY <1>10, <1>11

LEMMA ReadInv ==
    ASSUME Orderly, NEW n \in 1..ServerBuffer, Read(n)
    PROVE  Orderly'
<1>1. UNCHANGED <<late, ran, answered, clientVars, toClient>>
  BY DEF Read, handlerVars
<1>2. /\ Len(ran) < Len(given) /\ server = "reading" /\ Current \in Lines
      /\ \/ /\ toServer' = <<>> /\ toProcess' = <<>>
            /\ pending' = <<Current>> /\ server' = "running"
         \/ /\ toServer' \in Seq(Bytes) /\ toServer' # <<>>
            /\ toProcess' \in Seq(Letters)
            /\ toProcess' \o toServer' = Current \o <<NewLine>>
            /\ pending' = <<>> /\ server' = "reading"
  BY ReadOutcome, Zenon
<1>3. WireTypes'
  <2>1. /\ pending' \in Seq(Lines) /\ toServer' \in Seq(Bytes) /\ toProcess' \in Seq(Letters)
        /\ server' \in {"reading", "running"}
    <3>1. <<Current>> \in Seq(Lines) /\ <<>> \in Seq(Lines) /\ <<>> \in Seq(Bytes)
          /\ <<>> \in Seq(Letters)
      BY <1>2
    <3> QED BY <1>2, <3>1, Zenon
  <2> QED BY <1>1, <2>1 DEF Orderly, WireTypes, clientVars
<1>4. Histories' /\ AnswerUnderWay'
  BY <1>1 DEF Orderly, Histories, AnswerUnderWay, Current, clientVars
<1>5. LineUnderWay'
  BY <1>1, <1>2 DEF LineUnderWay, Current, clientVars
<1> QED BY <1>3, <1>4, <1>5 DEF Orderly

LEMMA ReadEndsInv ==
    ASSUME Orderly, ReadEnds
    PROVE  Orderly'
<1>1. /\ server = "reading" /\ server' = "ended"
      /\ UNCHANGED <<toProcess, pending, late, ran, answered, clientVars, toServer, toClient>>
  BY DEF ReadEnds, handlerVars
<1> USE <1>1 DEF clientVars
<1>2. WireTypes'
  BY DEF Orderly, WireTypes
<1>3. Histories' /\ LineUnderWay' /\ AnswerUnderWay'
  BY DEF Orderly, Histories, LineUnderWay, AnswerUnderWay, Current
<1> QED BY <1>2, <1>3 DEF Orderly

(* What run_command finds: the line that is under way, and no other.       *)
LEMMA RunOutcome ==
    ASSUME Orderly, Ran
    PROVE  /\ client # "ready" /\ Len(given) \in Nat \ {0} /\ Current \in Lines
           /\ Len(ran) = Len(given) - 1 /\ Len(answered) = Len(given) - 1
           /\ Len(printed) = Len(given) - 1
           /\ toServer = <<>> /\ toProcess = <<>> /\ late = <<>>
           /\ received = <<>> /\ toClient = <<>>
           /\ Head(pending) = Current
           /\ ran' = Append(ran, Current) /\ pending' = <<>> /\ server' = "reading"
<1>1. /\ Len(ran) < Len(given) /\ pending = <<Current>>
      /\ toServer = <<>> /\ toProcess = <<>>
  BY DEF Orderly, LineUnderWay, Ran
<1>2. client # "ready"
  BY <1>1, Lengths DEF Orderly, Histories
<1>3. Len(given) \in Nat \ {0} /\ Len(printed) = Len(given) - 1 /\ Current \in Lines
  BY <1>2, Waiting
<1>4. Len(ran) = Len(given) - 1 /\ Len(answered) = Len(given) - 1
  BY <1>1, <1>3, Lengths DEF Orderly, Histories
<1>5. late = <<>> /\ received = <<>> /\ toClient = <<>>
  BY <1>3, <1>4 DEF Orderly, AnswerUnderWay
<1>6. Head(pending) = Current /\ Tail(pending) = <<>> /\ Len(pending) = 1
  BY <1>1
<1> QED BY <1>1, <1>2, <1>3, <1>4, <1>5, <1>6 DEF Ran

(* The answer to the line under way is sent.                               *)
LEMMA SendInv ==
    ASSUME WireTypes, Histories, NEW text \in Texts,
           client # "ready", Len(given) \in Nat \ {0}, Len(printed) = Len(given) - 1,
           Len(answered) = Len(given) - 1,
           received = <<>>, toClient = <<>>,
           Send(text), UNCHANGED <<clientVars>>, late' = <<>>, Len(ran') = Len(given)
    PROVE  /\ answered' \in Seq(Texts) /\ toClient' \in Seq(Bytes)
           /\ Len(answered') = Len(given)
           /\ \A k \in 1..Len(printed) : answered'[k] = answered[k]
           /\ AnswerUnderWay'
<1> USE DEF clientVars
<1>1. text \in Seq(Letters) /\ text \in Seq(Bytes)
  BY TextsAreLetters, LettersAreBytes
<1>2. /\ answered' \in Seq(Texts) /\ Len(answered') = Len(given)
      /\ answered'[Len(given)] = text
      /\ \A k \in 1..(Len(given) - 1) : answered'[k] = answered[k]
  BY DEF Send, WireTypes
<1>3. toClient' = text \o <<EOT>>
  <2>1. <<>> \o text = text
    BY <1>1
  <2> QED BY <2>1, Zenon DEF Send
<1>4. toClient' \in Seq(Bytes) /\ toClient' # <<>>
  BY <1>1, <1>3 DEF Bytes
<1>5. <<>> \o toClient' = toClient'
  BY <1>4
<1>6. AnswerUnderWay'
  BY <1>2, <1>3, <1>4, <1>5 DEF AnswerUnderWay
<1> QED BY <1>2, <1>4, <1>6

LEMMA RunCommandInv ==
    ASSUME Orderly, NEW text \in Texts, RunCommand(text)
    PROVE  Orderly'
<1>1. Ran /\ Send(text)
      /\ UNCHANGED <<late, toProcess, clientVars, toServer>>
  BY DEF RunCommand, Ran, handlerVars
<1>2. /\ client # "ready" /\ Len(given) \in Nat \ {0} /\ Current \in Lines
      /\ Len(ran) = Len(given) - 1 /\ Len(answered) = Len(given) - 1
      /\ Len(printed) = Len(given) - 1
      /\ toServer = <<>> /\ toProcess = <<>> /\ late = <<>>
      /\ received = <<>> /\ toClient = <<>>
      /\ ran' = Append(ran, Current) /\ pending' = <<>> /\ server' = "reading"
  BY <1>1, RunOutcome
<1>3. WireTypes /\ Histories
  BY DEF Orderly
<1>4. /\ ran' \in Seq(Lines) /\ Len(ran') = Len(given) /\ ran'[Len(given)] = Current
      /\ \A k \in 1..(Len(given) - 1) : ran'[k] = ran[k]
  BY <1>2, <1>3 DEF WireTypes
<1>5. /\ answered' \in Seq(Texts) /\ toClient' \in Seq(Bytes) /\ Len(answered') = Len(given)
      /\ \A k \in 1..Len(printed) : answered'[k] = answered[k]
      /\ AnswerUnderWay'
  BY <1>1, <1>2, <1>3, <1>4, SendInv
<1> USE <1>1, <1>2, <1>3, <1>4, <1>5 DEF clientVars
<1>6. WireTypes'
  BY DEF WireTypes
<1>7. Histories'
  <2>1. \A k \in 1..Len(ran') : ran'[k] = given[k]
    BY DEF Histories, Current
  <2> QED BY <2>1 DEF Histories
<1>8. LineUnderWay'
  BY DEF LineUnderWay
<1> QED BY <1>6, <1>7, <1>8 DEF Orderly

LEMMA RunTransferInv ==
    ASSUME Orderly, RunTransfer
    PROVE  Orderly'
<1>1. Ran /\ UNCHANGED <<answered, toClient, toProcess, clientVars, toServer>>
      /\ IsTransfer(Head(pending)) /\ late' = Append(late, KindOf(Head(pending)))
  BY DEF RunTransfer, Ran
<1>2. /\ client # "ready" /\ Len(given) \in Nat \ {0} /\ Current \in Lines
      /\ Len(ran) = Len(given) - 1 /\ Len(answered) = Len(given) - 1
      /\ Len(printed) = Len(given) - 1
      /\ toServer = <<>> /\ toProcess = <<>> /\ late = <<>>
      /\ received = <<>> /\ toClient = <<>>
      /\ Head(pending) = Current
      /\ ran' = Append(ran, Current) /\ pending' = <<>> /\ server' = "reading"
  BY <1>1, RunOutcome
<1>3. WireTypes /\ Histories
  BY DEF Orderly
<1>4. /\ ran' \in Seq(Lines) /\ Len(ran') = Len(given) /\ ran'[Len(given)] = Current
      /\ \A k \in 1..(Len(given) - 1) : ran'[k] = ran[k]
  BY <1>2, <1>3 DEF WireTypes
<1>5. late' = <<KindOf(Current)>> /\ IsTransfer(Current) /\ KindOf(Current) \in Kinds
  BY <1>1, <1>2 DEF KindOf, Kinds
<1> USE <1>1, <1>2, <1>3, <1>4, <1>5 DEF clientVars
<1>6. WireTypes'
  BY DEF WireTypes
<1>7. Histories'
  <2>1. \A k \in 1..Len(ran') : ran'[k] = given[k]
    BY DEF Histories, Current
  <2> QED BY <2>1 DEF Histories
<1>8. LineUnderWay'
  BY DEF LineUnderWay
<1>9. AnswerUnderWay'
  BY DEF AnswerUnderWay, Current
<1> QED BY <1>6, <1>7, <1>8, <1>9 DEF Orderly

(* What a handler that answers late finds.                                 *)
LEMMA LateOutcome ==
    ASSUME Orderly, NEW text \in Texts, LateAnswer(text)
    PROVE  /\ client # "ready" /\ Len(given) \in Nat \ {0}
           /\ Len(ran) = Len(given) /\ Len(answered) = Len(given) - 1
           /\ Len(printed) = Len(given) - 1
           /\ late' = <<>> /\ received = <<>> /\ toClient = <<>>
<1>1. PICK i \in 1..Len(late) : late' = RemoveAt(late, i)
  BY DEF LateAnswer
<1>2. Len(answered) # Len(ran) /\ late = <<KindOf(Current)>> /\ IsTransfer(Current)
  BY <1>1 DEF Orderly, AnswerUnderWay
<1>3. client # "ready"
  BY <1>2, Quiet
<1>4. Len(given) \in Nat \ {0} /\ Len(printed) = Len(given) - 1 /\ Current \in Lines
  BY <1>3, Waiting
<1>5. Len(ran) = Len(given) /\ Len(answered) = Len(given) - 1
  BY <1>2, <1>4, Lengths DEF Orderly, Histories
<1>6. received = <<>> /\ toClient = <<>>
  BY <1>4, <1>5 DEF Orderly, AnswerUnderWay
<1>7. i = 1 /\ late[i] = KindOf(Current)
  BY <1>1, <1>2
<1>8. late' = <<>>
  <2>1. SubSeq(late, 1, 0) = <<>> /\ SubSeq(late, 2, 1) = <<>> /\ Len(late) = 1
    BY <1>2
  <2>2. <<>> \o <<>> = <<>>
    OBVIOUS
  <2> QED BY <1>1, <1>7, <2>1, <2>2 DEF RemoveAt
<1> QED BY <1>3, <1>4, <1>5, <1>6, <1>8

LEMMA LateAnswerInv ==
    ASSUME Orderly, NEW text \in Texts, LateAnswer(text)
    PROVE  Orderly'
<1>1. Send(text) /\ UNCHANGED <<server, toProcess, pending, ran, clientVars, toServer>>
  BY DEF LateAnswer
<1>2. /\ client # "ready" /\ Len(given) \in Nat \ {0}
      /\ Len(ran) = Len(given) /\ Len(answered) = Len(given) - 1
      /\ Len(printed) = Len(given) - 1
      /\ late' = <<>> /\ received = <<>> /\ toClient = <<>>
  BY LateOutcome
<1>3. WireTypes /\ Histories /\ LineUnderWay
  BY DEF Orderly
<1>4. /\ answered' \in Seq(Texts) /\ toClient' \in Seq(Bytes) /\ Len(answered') = Len(given)
      /\ \A k \in 1..Len(printed) : answered'[k] = answered[k]
      /\ AnswerUnderWay'
  BY <1>1, <1>2, <1>3, SendInv
<1> USE <1>1, <1>2, <1>3, <1>4 DEF clientVars
<1>5. WireTypes'
  BY DEF WireTypes
<1>6. Histories'
  BY DEF Histories
<1>7. LineUnderWay'
  BY DEF LineUnderWay, Current
<1> QED BY <1>5, <1>6, <1>7 DEF Orderly

LEMMA OrderlyStep ==
    ASSUME Orderly, [Next]_vars
    PROVE  twice' \/ Orderly'
<1>1. CASE \E n \in 1..ClientBuffer : Receive(n)
  BY <1>1, ReceiveInv
<1>2. CASE GiveUp \/ WouldBlock
  BY <1>2, GiveUpInv
<1>3. CASE \E line \in Lines : Give(line)
  BY <1>3, GiveInv
<1>4. CASE \E n \in 1..ServerBuffer : Read(n)
  BY <1>4, ReadInv
<1>5. CASE ReadEnds
  BY <1>5, ReadEndsInv
<1>6. CASE RunTransfer
  BY <1>6, RunTransferInv
<1>7. CASE \E text \in Texts : RunCommand(text)
  BY <1>7, RunCommandInv
<1>8. CASE \E text \in Texts : LateAnswer(text)
  BY <1>8, LateAnswerInv
<1>9. CASE \E text \in Texts : SecondAnswer(text)
  BY <1>9 DEF SecondAnswer
<1>10. CASE UNCHANGED vars
  BY <1>10 DEF Orderly, WireTypes, Histories, LineUnderWay, AnswerUnderWay, Current,
               vars, clientVars, serverVars, handlerVars
<1> QED BY <1>1, <1>2, <1>3, <1>4, <1>5, <1>6, <1>7, <1>8, <1>9, <1>10 DEF Next, ClientNext

-----------------------------------------------------------------------------
(* What the client knows of its ports.                                     *)

(* Steps of the server may only send.                                      *)
LEMMA ServerStepInv ==
    ASSUME ClientInv, UNCHANGED clientVars,
           toClient' = toClient \/ \E text \in Texts : Send(text)
    PROVE  ClientInv'
<1>1. toClient' \in Seq(Bytes)
  <2>1. ASSUME NEW text \in Texts, Send(text)
        PROVE  toClient' \in Seq(Bytes)
    <3>1. text \in Seq(Bytes) /\ <<EOT>> \in Seq(Bytes) /\ toClient \in Seq(Bytes)
      BY TextsAreLetters, LettersAreBytes DEF ClientInv, ClientTypes, Bytes
    <3> QED BY <2>1, <3>1 DEF Send
  <2> QED BY <2>1 DEF ClientInv, ClientTypes
<1>2. ClientTypes'
  BY <1>1 DEF ClientInv, ClientTypes, clientVars, transferVars
<1>3. PortsLookedFor'
  BY DEF ClientInv, PortsLookedFor, Owed, Threaded, Current, clientVars, transferVars
<1> QED BY <1>2, <1>3 DEF ClientInv

LEMMA ClientLengths ==
    ASSUME ClientTypes
    PROVE  /\ Len(given) \in Nat /\ Len(printed) \in Nat
           /\ client = "ready" => Len(printed) = Len(given)
           /\ client # "ready" => Len(given) \in Nat \ {0} /\ Len(printed) = Len(given) - 1
           /\ \A k, kind : <<k, kind>> \in started => k \in 1..Len(printed) /\ kind \in Kinds
BY DEF ClientTypes

LEMMA GiveClientInv ==
    ASSUME ClientInv, NEW line \in Lines, Give(line)
    PROVE  ClientInv'
<1> DEFINE n == Len(given)
<1>1. /\ client = "ready" /\ client' = "polling"
      /\ given' = Append(given, line) /\ received' = <<>>
      /\ watching' = watching \cup Watched(line)
      /\ untainted' = untainted + (IF errno = "none" THEN 1 ELSE 0)
      /\ UNCHANGED <<printed, errno, started, toClient>>
  BY DEF Give
<1>2. ClientTypes /\ PortsLookedFor
  BY DEF ClientInv
<1>3. /\ n \in Nat /\ Len(printed) = n
      /\ \A k, kind : <<k, kind>> \in started => k \in 1..n
  BY <1>1, <1>2, ClientLengths
<1>4. /\ given' \in Seq(Lines) /\ Len(given') = n + 1
      /\ \A k \in 1..n : given'[k] = given[k]
      /\ given'[n + 1] = line /\ Current' = line
  BY <1>1, <1>2 DEF ClientTypes, Current
<1>5. Watched(line) \subseteq Kinds /\ \A kind \in Watched(line) : IsKind(line, kind)
  BY DEF Watched, Kinds, KindOf, IsKind
<1>6. ClientTypes'
  BY <1>1, <1>2, <1>3, <1>4, <1>5 DEF ClientTypes
<1>7. untainted' <= n + 1 /\ (errno' = "none" => untainted' = n + 1)
  BY <1>1, <1>2, <1>3 DEF PortsLookedFor, ClientTypes
<1>8. untainted \in Nat /\ untainted <= n /\ (untainted < n => errno # "none")
  BY <1>2, <1>3 DEF PortsLookedFor, ClientTypes
<1> HIDE DEF n
<1>9. ASSUME NEW kind \in watching'
      PROVE  \E j \in 1..(n + 1) : /\ IsKind(given'[j], kind)
                                   /\ \A i \in j..n : <<i, kind>> \notin started'
  <2>1. CASE kind \in Watched(line)
    <3>1. IsKind(given'[n + 1], kind) /\ n + 1 \in 1..(n + 1) /\ (n + 1)..n = {}
      BY <1>3, <1>4, <1>5, <2>1
    <3> QED BY <3>1
  <2>2. CASE kind \in watching
    <3>1. Owed(kind, n, n)
      BY <1>2, <1>3, <2>2 DEF PortsLookedFor, n
    <3>2. PICK j \in 1..n : IsKind(given[j], kind) /\ \A i \in j..n : <<i, kind>> \notin started
      BY <3>1 DEF Owed
    <3>3. j \in 1..(n + 1) /\ IsKind(given'[j], kind) /\ \A i \in j..n : <<i, kind>> \notin started'
      BY <1>1, <1>3, <1>4, <3>2
    <3> QED BY <3>3
  <2> QED BY <1>1, <2>1, <2>2
<1>10. ASSUME NEW kind \in Kinds, IsKind(line, kind)
       PROVE  kind \in watching' \/ (kind = "put" /\ n + 1 > untainted')
  <2>1. CASE line \in PutLines /\ errno # "none"
    <3>1. kind = "put"
      BY <1>10, <2>1, WireAssumption DEF IsKind, KindOf, WireAssumption
    <3> QED BY <1>1, <1>3, <1>8, <2>1, <3>1
  <2>2. CASE ~(line \in PutLines /\ errno # "none")
    <3>1. kind \in Watched(line)
      BY <1>10, <2>2 DEF IsKind, Watched
    <3> QED BY <1>1, <3>1
  <2> QED BY <2>1, <2>2
<1>11. ASSUME NEW k \in 1..n, NEW kind \in Kinds
       PROVE  Threaded(k, kind)'
  <2>1. Threaded(k, kind)
    BY <1>2, <1>3, <1>11 DEF PortsLookedFor
  <2>2. given'[k] = given[k] /\ printed' = printed /\ started' = started
    BY <1>1, <1>4
  <2>3. k > untainted => k > untainted'
    BY <1>1, <1>3, <1>8
  <2>4. Owed(kind, k, k - 1) => Owed(kind, k, k - 1)'
    <3>1. \A j \in 1..k : given'[j] = given[j]
      BY <1>3, <1>4
    <3> QED BY <2>2, <3>1 DEF Owed
  <2> QED BY <2>1, <2>2, <2>3, <2>4 DEF Threaded
<1>12. PortsLookedFor'
  <2>1. \A kind \in watching' : Owed(kind, Len(given), Len(printed))'
    <3>1. Len(given') = n + 1 /\ Len(printed') = n
      BY <1>1, <1>3, <1>4
    <3> QED BY <1>9, <3>1 DEF Owed
  <2>2. \A k \in 1..Len(printed'), kind \in Kinds : Threaded(k, kind)'
    BY <1>1, <1>3, <1>11
  <2>3. \A kind \in Kinds : IsKind(Current', kind) =>
            kind \in watching' \/ (kind = "put" /\ Len(given') > untainted')
    BY <1>4, <1>10
  <2> QED BY <1>4, <1>7, <2>1, <2>2, <2>3 DEF PortsLookedFor
<1> QED BY <1>6, <1>12 DEF ClientInv

(* With a complete answer the threads are started that are owed.           *)
LEMMA TakeAnswerInv ==
    ASSUME ClientInv, client # "ready", NEW text \in Seq(Bytes), TakeAnswer(text),
           UNCHANGED <<given, errno, untainted>>, toClient' \in Seq(Bytes)
    PROVE  ClientInv'
<1> DEFINE n == Len(given)
<1>1. /\ client' = "ready" /\ received' = <<>>
      /\ printed' = Append(printed, text)
      /\ started' = started \cup {<<n, k>> : k \in Found(text)}
      /\ watching' = watching \ Found(text)
  BY DEF TakeAnswer
<1>2. ClientTypes /\ PortsLookedFor
  BY DEF ClientInv
<1>3. /\ n \in Nat \ {0} /\ Len(printed) = n - 1
      /\ \A k, kind : <<k, kind>> \in started => k \in 1..(n - 1)
  BY <1>2, ClientLengths
<1>4. Found(text) = {k \in watching : Has(text, PortText[k])} /\ watching \subseteq Kinds
  BY <1>2 DEF Found, ClientTypes
<1>5. /\ printed' \in Seq(Seq(Bytes)) /\ Len(printed') = n /\ printed'[n] = text
      /\ \A k \in 1..(n - 1) : printed'[k] = printed[k]
  BY <1>1, <1>2, <1>3 DEF ClientTypes
<1> HIDE DEF n
<1>6. \A k, kind : <<k, kind>> \in started' <=>
                     <<k, kind>> \in started \/ (k = n /\ kind \in Found(text))
  BY <1>1
<1>7. ClientTypes'
  <2>1. started' \subseteq (1..n) \X Kinds
    <3>1. started \subseteq (1..(n - 1)) \X Kinds /\ 1..(n - 1) \subseteq 1..n /\ n \in 1..n
      BY <1>2, <1>3 DEF ClientTypes
    <3> QED BY <1>1, <1>4, <3>1
  <2>2. <<>> \in Seq(Bytes)
    OBVIOUS
  <2> QED BY <1>1, <1>2, <1>4, <1>5, <2>1, <2>2 DEF ClientTypes, n
<1>8. ASSUME NEW kind \in watching
      PROVE  Owed(kind, n, n - 1)
  BY <1>2, <1>3, <1>8 DEF PortsLookedFor, n
<1>9. ASSUME NEW kind \in watching'
      PROVE  Owed(kind, n, n)'
  <2>1. kind \in watching /\ kind \notin Found(text)
    BY <1>1, <1>9
  <2>2. PICK j \in 1..n : IsKind(given[j], kind) /\ \A i \in j..(n - 1) : <<i, kind>> \notin started
    BY <1>8, <2>1 DEF Owed
  <2>3. \A i \in j..n : <<i, kind>> \notin started'
    BY <1>3, <1>6, <2>1, <2>2
  <2> QED BY <2>2, <2>3 DEF Owed, n
<1>10. ASSUME NEW k \in 1..n, NEW kind \in Kinds
       PROVE  Threaded(k, kind)'
  <2>1. ASSUME Owed(kind, k, k - 1)
        PROVE  Owed(kind, k, k - 1)'
    <3>1. PICK j \in 1..k : IsKind(given[j], kind) /\ \A i \in j..(k - 1) : <<i, kind>> \notin started
      BY <2>1 DEF Owed
    <3>2. \A i \in j..(k - 1) : <<i, kind>> \notin started'
      BY <1>3, <1>6, <3>1
    <3> QED BY <3>1, <3>2 DEF Owed
  <2>2. CASE k = n
    <3>1. <<k, kind>> \in started' <=> kind \in Found(text)
      BY <1>3, <1>6, <2>2
    <3>2. kind \in Found(text) => Has(text, PortText[kind]) /\ Owed(kind, k, k - 1)'
      BY <1>4, <1>8, <2>1, <2>2
    <3>3. IsKind(given[n], kind) /\ Has(text, PortText[kind]) =>
              kind \in Found(text) \/ (kind = "put" /\ n > untainted)
      <4>1. IsKind(given[n], kind) => kind \in watching \/ (kind = "put" /\ n > untainted)
        BY <1>2 DEF PortsLookedFor, Current, n
      <4> QED BY <1>4, <4>1
    <3> QED BY <1>5, <2>2, <3>1, <3>2, <3>3 DEF Threaded
  <2>3. CASE k # n
    <3>1. k \in 1..(n - 1) /\ printed'[k] = printed[k]
      BY <1>3, <1>5, <2>3
    <3>2. Threaded(k, kind)
      BY <1>2, <1>3, <3>1 DEF PortsLookedFor
    <3>3. <<k, kind>> \in started' <=> <<k, kind>> \in started
      BY <1>6, <2>3
    <3> QED BY <2>1, <3>1, <3>2, <3>3 DEF Threaded
  <2> QED BY <2>2, <2>3
<1>11. PortsLookedFor'
  BY <1>1, <1>2, <1>5, <1>9, <1>10 DEF PortsLookedFor, n
<1> QED BY <1>7, <1>11 DEF ClientInv

LEMMA ReceiveClientInv ==
    ASSUME ClientInv, NEW n \in 1..ClientBuffer, Receive(n)
    PROVE  ClientInv'
<1> DEFINE all == received \o SubSeq(toClient, 1, n)
<1>1. /\ client # "ready"
      /\ UNCHANGED <<given, errno, untainted>>
      /\ toClient' = SubSeq(toClient, n + 1, Len(toClient))
      /\ \/ Last(all) = EOT /\ TakeAnswer(Front(all))
         \/ client' = "receiving" /\ received' = all /\ UNCHANGED <<printed, watching, started>>
  BY DEF Receive
<1>2. toClient \in Seq(Bytes) /\ received \in Seq(Bytes) /\ n \in 1..Len(toClient)
  <2>1. n \in Nat \ {0} /\ n <= Len(toClient)
    BY WireAssumption DEF WireAssumption, Receive
  <2> QED BY <2>1 DEF ClientInv, ClientTypes
<1>3. toClient' \in Seq(Bytes) /\ all \in Seq(Bytes) /\ Len(all) \in Nat \ {0}
  <2>1. SubSeq(toClient, 1, n) \in Seq(Bytes) /\ Len(SubSeq(toClient, 1, n)) = n
    BY <1>2, CutStream, Zenon
  <2>2. toClient' \in Seq(Bytes)
    BY <1>1, <1>2, CutStream, Zenon
  <2> QED BY <1>2, <2>1, <2>2
<1> HIDE DEF all
<1>4. CASE TakeAnswer(Front(all))
  <2>1. Front(all) \in Seq(Bytes)
    BY <1>3 DEF Front
  <2> QED BY <1>1, <1>3, <1>4, <2>1, TakeAnswerInv
<1>5. CASE client' = "receiving" /\ received' = all /\ UNCHANGED <<printed, watching, started>>
  <2>1. ClientTypes'
    BY <1>1, <1>3, <1>5 DEF ClientInv, ClientTypes
  <2>2. PortsLookedFor'
    BY <1>1, <1>5 DEF ClientInv, PortsLookedFor, Owed, Threaded, Current
  <2> QED BY <2>1, <2>2 DEF ClientInv
<1> QED BY <1>1, <1>4, <1>5

LEMMA GiveUpClientInv ==
    ASSUME ClientInv, GiveUp \/ WouldBlock
    PROVE  ClientInv'
<1>1. /\ client \in {"polling", "receiving"} /\ client' \in {"polling", "gone"}
      /\ errno' \in {errno, "EWOULDBLOCK"}
      /\ UNCHANGED <<received, given, printed, watching, started, untainted, toClient>>
  BY DEF WouldBlock, GiveUp, transferVars
<1>2. ClientTypes'
  BY <1>1 DEF ClientInv, ClientTypes
<1>3. PortsLookedFor'
  <2>1. errno' = "none" => errno = "none"
    BY <1>1
  <2>2. PortsLookedFor
    BY DEF ClientInv
  <2>3. \A kind : Owed(kind, Len(given), Len(printed))' <=> Owed(kind, Len(given), Len(printed))
    BY <1>1 DEF Owed
  <2>4. \A k, kind : Threaded(k, kind)' <=> Threaded(k, kind)
    BY <1>1 DEF Threaded, Owed
  <2>5. client # "ready" /\ Current' = Current
    BY <1>1 DEF Current
  <2> QED BY <1>1, <2>1, <2>2, <2>3, <2>4, <2>5 DEF PortsLookedFor
<1> QED BY <1>2, <1>3 DEF ClientInv

LEMMA ClientStep ==
    ASSUME ClientInv, [Next]_vars
    PROVE  ClientInv'
<1>1. CASE \E n \in 1..ClientBuffer : Receive(n)
  BY <1>1, ReceiveClientInv
<1>2. CASE GiveUp \/ WouldBlock
  BY <1>2, GiveUpClientInv
<1>3. CASE \E line \in Lines : Give(line)
  BY <1>3, GiveClientInv
<1>4. CASE (\E n \in 1..ServerBuffer : Read(n)) \/ ReadEnds \/ RunTransfer
  <2>1. UNCHANGED clientVars /\ toClient' = toClient
    BY <1>4 DEF Read, ReadEnds, RunTransfer, Ran
  <2> QED BY <2>1, ServerStepInv
<1>5. CASE \E text \in Texts : RunCommand(text) \/ LateAnswer(text) \/ SecondAnswer(text)
  <2>1. PICK text \in Texts : RunCommand(text) \/ LateAnswer(text) \/ SecondAnswer(text)
    BY <1>5
  <2>2. Send(text) /\ UNCHANGED clientVars
    BY <2>1 DEF RunCommand, LateAnswer, SecondAnswer, Ran
  <2> QED BY <2>2, ServerStepInv
<1>6. CASE UNCHANGED vars
  <2>1. UNCHANGED clientVars /\ toClient' = toClient
    BY <1>6 DEF vars
  <2> QED BY <2>1, ServerStepInv
<1> QED BY <1>1, <1>2, <1>3, <1>4, <1>5, <1>6 DEF Next, ClientNext

LEMMA TwiceStays ==
    ASSUME twice, [Next]_vars
    PROVE  twice'
BY DEF Next, ClientNext, Give, Receive, WouldBlock, GiveUp, Read, ReadEnds, RunCommand, RunTransfer,
       LateAnswer, SecondAnswer, vars, serverVars, handlerVars

LEMMA NextInv ==
    ASSUME WireInv, [Next]_vars
    PROVE  WireInv'
<1>1. ClientInv'
  BY ClientStep DEF WireInv
<1>2. twice' \/ Orderly'
  BY OrderlyStep, TwiceStays DEF WireInv
<1> QED BY <1>1, <1>2 DEF WireInv

LEMMA AlwaysWireInv == Spec => []WireInv
<1>1. Init => WireInv
  BY InitInv
<1>2. WireInv /\ [Next]_vars => WireInv'
  BY NextInv
<1> QED BY <1>1, <1>2, PTL DEF Spec

-----------------------------------------------------------------------------
(* What follows from it.                                                   *)

(* The client's threads: each is for a port in an answer that came while a *)
(* transfer of that kind was owed a thread, and each transfer whose answer *)
(* has its port gets one, whatever the other commands answer, however the  *)
(* answers come in pieces or merged, whatever earlier transfers left in    *)
(* the flags, and though a handler may answer twice (client.cpp, main).    *)
THEOREM PortsGetTheirThreads == Spec => []PortsGetThreads
<1>1. WireInv => PortsGetThreads
  <2> SUFFICES ASSUME WireInv, client = "ready",
                      NEW k \in 1..Len(given), NEW kind \in Kinds
               PROVE  Threaded(k, kind)
    BY DEF PortsGetThreads, Threaded, Owed
  <2>1. k \in 1..Len(printed)
    BY ClientLengths DEF WireInv, ClientInv
  <2> QED BY <2>1 DEF WireInv, ClientInv, PortsLookedFor
<1> QED BY <1>1, AlwaysWireInv, PTL

(* The two streams, cut anywhere, and the two threads of the server that   *)
(* may answer are an implementation of the dialogue: until a handler that  *)
(* has told its port sends an error too, each step of the code is a step   *)
(* of Dialogue or changes nothing of it (connection_handler and            *)
(* push_inside_to_process, client.cpp, receive_all).                       *)
THEOREM WireImplementsDialogue == Spec => ImplementsDialogue
<1>1. Init => Promise!Init
  BY DEF Init, Promise!Init
<1>2. ASSUME Orderly, ~twice', [Next]_vars
      PROVE  [Promise!Next]_(Promise!dialogue)
  <2>1. CASE \E n \in 1..ClientBuffer : Receive(n)
    <3>1. PICK n \in 1..ClientBuffer : Receive(n)
      BY <2>1
    <3>2. /\ client \in {"polling", "receiving"}
          /\ UNCHANGED <<given, ran, answered>>
      BY <3>1 DEF Receive, serverVars, handlerVars
    <3>3. /\ Len(answered) = Len(given)
          /\ \/ client' = "ready" /\ printed' = Append(printed, answered[Len(given)])
             \/ client' = "receiving" /\ printed' = printed
      BY <1>2, <3>1, ReceiveOutcome DEF TakeAnswer
    <3>4. CASE client' = "ready" /\ printed' = Append(printed, answered[Len(given)])
      <4>1. Len(printed) = Len(given) - 1 /\ Len(given) \in Nat \ {0}
        BY <1>2, <3>2, Waiting
      <4>2. printed \in Seq(Texts) /\ answered \in Seq(Texts)
        BY <1>2 DEF Orderly, WireTypes
      <4>3. \A k \in 1..Len(printed) : printed[k] = answered[k]
        BY <1>2 DEF Orderly, Histories
      <4>4. /\ Append(printed, answered[Len(given)]) \in Seq(Texts)
            /\ Len(Append(printed, answered[Len(given)])) = Len(answered)
            /\ \A k \in 1..Len(answered) : Append(printed, answered[Len(given)])[k] = answered[k]
        BY <3>3, <4>1, <4>2, <4>3
      <4>5. printed' = answered
        BY <3>4, <4>2, <4>4, SeqEqual
      <4>6. Promise!Hear
        BY <3>2, <3>3, <3>4, <4>5 DEF Promise!Hear
      <4> QED BY <4>6 DEF Promise!Next
    <3>5. CASE client' = "receiving" /\ printed' = printed
      BY <3>2, <3>5 DEF Promise!dialogue
    <3> QED BY <3>3, <3>4, <3>5
  <2>2. CASE GiveUp
    <3>1. Promise!HangUp
      BY <2>2 DEF GiveUp, Promise!HangUp, serverVars
    <3> QED BY <3>1 DEF Promise!Next
  <2>3. CASE WouldBlock
    BY <2>3 DEF WouldBlock, serverVars, Promise!dialogue
  <2>4. CASE \E line \in Lines : Give(line)
    <3>1. Promise!Ask
      BY <2>4 DEF Give, Promise!Ask, serverVars
    <3> QED BY <3>1 DEF Promise!Next
  <2>5. CASE \E n \in 1..ServerBuffer : Read(n)
    BY <2>5 DEF Read, clientVars, Promise!dialogue
  <2>6. CASE ReadEnds
    BY <2>6 DEF ReadEnds, clientVars, Promise!dialogue
  <2>7. ASSUME Ran
        PROVE  /\ Len(ran) < Len(given)
               /\ ran' = Append(ran, given[Len(ran) + 1])
               /\ UNCHANGED <<client, given, printed>>
    <3>1. /\ Len(given) \in Nat \ {0} /\ Len(ran) = Len(given) - 1
          /\ ran' = Append(ran, Current)
      BY <1>2, <2>7, RunOutcome
    <3>2. UNCHANGED <<client, given, printed>>
      BY <2>7 DEF Ran, clientVars
    <3> QED BY <3>1, <3>2 DEF Current
  <2>8. CASE RunTransfer
    <3>1. Ran /\ UNCHANGED answered
      BY <2>8 DEF RunTransfer
    <3>2. Promise!Execute
      BY <2>7, <3>1 DEF Promise!Execute
    <3> QED BY <3>2 DEF Promise!Next
  <2>9. CASE \E text \in Texts : RunCommand(text)
    <3>1. PICK text \in Texts : Ran /\ answered' = Append(answered, text)
      BY <2>9 DEF RunCommand, Send
    <3>2. Promise!Execute
      BY <2>7, <3>1 DEF Promise!Execute
    <3> QED BY <3>2 DEF Promise!Next
  <2>10. CASE \E text \in Texts : LateAnswer(text)
    <3>1. PICK text \in Texts : LateAnswer(text)
      BY <2>10
    <3>2. Len(answered) < Len(ran)
      BY <1>2, <3>1, LateOutcome
    <3>3. answered' = Append(answered, text) /\ UNCHANGED <<client, given, ran, printed>>
      BY <3>1 DEF LateAnswer, Send, clientVars
    <3>4. Promise!Reply
      BY <3>2, <3>3 DEF Promise!Reply
    <3> QED BY <3>4 DEF Promise!Next
  <2>11. ~ \E text \in Texts : SecondAnswer(text)
    BY <1>2 DEF SecondAnswer
  <2>12. CASE UNCHANGED vars
    BY <2>12 DEF vars, clientVars, serverVars, Promise!dialogue
  <2> QED BY <1>2, <2>1, <2>2, <2>3, <2>4, <2>5, <2>6, <2>8, <2>9, <2>10, <2>11, <2>12
          DEF Next, ClientNext
<1>3. WireInv /\ [Next]_vars => [Promise!Next \/ twice']_(Promise!dialogue)
  <2> SUFFICES ASSUME WireInv, [Next]_vars, ~twice'
               PROVE  [Promise!Next]_(Promise!dialogue)
    OBVIOUS
  <2>1. Orderly
    BY TwiceStays DEF WireInv
  <2> QED BY <1>2, <2>1
<1> QED BY <1>1, <1>3, AlwaysWireInv, PTL DEF Spec, ImplementsDialogue
=============================================================================

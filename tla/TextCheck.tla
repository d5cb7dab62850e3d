----------------------------- MODULE TextCheck ------------------------------
(***************************************************************************)
(* The operators of Paths and Grammar against definitions of what texts    *)
(* mean, on every short text.  A state holds one text of one kind: the     *)
(* argument of a path, a line to be split, a line that has been split, or  *)
(* a configuration file; a step makes it one element longer.               *)
(***************************************************************************)
EXTENDS PathsCheck, Grammar

CONSTANTS MaxText,    \* bound: characters of a line
          MaxWords,   \* bound: words of a line
          MaxConf     \* bound: lines of grass.conf

ASSUME TextAssumption == {MaxText, MaxWords, MaxConf} \subseteq Nat

VARIABLES line, words, conf

texts == <<arg, line, words, conf>>

(* Letters are put together where nothing tells them apart.                *)
Letters    == {"get", "put", "1"}
Characters == Letters \cup {Space, Quote, Nul}
CommandNames ==
    {"cd", "rm", "ls", "mkdir", "get", "put", "w", "whoami", "date", "ping", "login",
     "pass", "exit", "logout", "grep", "nosuch"}
Numbers    == {NoNumber, 0, 1, 123455, 123456}
Users      == {"u", "v"}
Passwords  == {"p", "q"}
ConfLines  ==
    {<<"user", user, password>> : user \in Users, password \in Passwords}
        \cup {<<"base", "u", "p">>, <<>>}

TextInit ==
    /\ Init
    /\ line = <<>> /\ words = <<>> /\ conf = <<>>

(* The texts of the other kinds are empty, and those paths start at.       *)
Only(n) == \A k \in 1..4 : k = n \/ texts[k] = <<>>

TextNext ==
    \/ /\ Only(1)
       /\ Next
       /\ UNCHANGED <<line, words, conf>>
    \/ /\ cwd = <<>> /\ Only(2) /\ Len(line) < MaxText
       /\ \E char \in Characters : line' = Append(line, char)
       /\ UNCHANGED <<cwd, arg, words, conf>>
    \/ /\ cwd = <<>> /\ Only(3) /\ Len(words) < MaxWords
       /\ \E word \in IF words = <<>> THEN CommandNames ELSE Numbers :
              words' = Append(words, word)
       /\ UNCHANGED <<cwd, arg, line, conf>>
    \/ /\ cwd = <<>> /\ Only(4) /\ Len(conf) < MaxConf
       /\ \E entry \in ConfLines : conf' = Append(conf, entry)
       /\ UNCHANGED <<cwd, arg, line, words>>

TextSpec == TextInit /\ [][TextNext]_<<cwd, texts>>
-----------------------------------------------------------------------------
(* What splitting a line should give: a space separates unless the number  *)
(* of quotes before it is odd; one behind a last quote that is not paired  *)
(* separates from some place on, or not at all.  A word is a longest run   *)
(* without separators.                                                     *)
QuotesBefore(i) == Cardinality({j \in 1..(i - 1) : line[j] = Quote})

Separators(place) ==
    {i \in 1..Len(line) :
        /\ line[i] = Space
        /\ \/ QuotesBefore(i) % 2 = 0
           \/ QuotesBefore(i) = QuotesBefore(Len(line) + 1) /\ i >= place}

Starts(separators) ==
    {i \in (1..Len(line)) \ separators : i = 1 \/ i - 1 \in separators}

Run(i, separators) ==
    {j \in i..Len(line) : \A k \in i..j : k \notin separators}

(* The delimiter split_string borrows is taken for a space in the end.     *)
Word(i, separators) ==
    [k \in 1..Cardinality(Run(i, separators)) |->
        IF line[i + k - 1] = Nul THEN Space ELSE line[i + k - 1]]

WordsBetween(split, separators) ==
    /\ split \in Seq(Seq(Characters))
    /\ Len(split) = Cardinality(Starts(separators))
    /\ \A i \in Starts(separators) :
           split[Cardinality(Starts(separators) \cap (1..i))] = Word(i, separators)

(* A line is cut at the spaces outside of its quotes, whatever lies behind *)
(* the vector of their positions; replace_spaces reads there when the last *)
(* quote is not paired, and all that depends on it is how many of the      *)
(* spaces that follow are kept.                                            *)
SplitIsWords ==
    \A split \in Splits(line) :
        \E place \in 0..(Len(line) + 1) : WordsBetween(split, Separators(place))

(* What run_command and the client make of the words of a line: a name and *)
(* numbers.                                                                *)
NameOf(word) ==
    IF Len(word) = 1 /\ word[1] \in CommandNames THEN word[1] ELSE "nosuch"
NumberOf(word) == IF word = <<"1">> THEN 1 ELSE NoNumber

WordsOf(split) ==
    [i \in 1..Len(split) |-> IF i = 1 THEN NameOf(split[i]) ELSE NumberOf(split[i])]

CallsOf(server)     == IF Refused(server) THEN <<>> ELSE Calls(server)
HandlersOf(server)  == {CallsOf(server)[i].handler : i \in 1..Len(CallsOf(server))}
TransfersOf(server) == HandlersOf(server) \cap {"get", "put"}

(* Of the chains of run_command one handler is reached, with arguments     *)
(* that are all words of the line.  The client looks for a port exactly    *)
(* when the server starts a transfer, though each reads the line by rules  *)
(* of its own, if it has cut it like the server: it does when the quotes   *)
(* are even.  Of an odd number each has cut the line at its own place, and *)
(* either may see a transfer where the other sees none; but never does the *)
(* client look for the port of a get where the server starts a put, nor    *)
(* the other way round.                                                    *)
LinesUnderstood ==
    /\ TransfersOf(words) = ClientWatches(words)
    /\ ~Refused(words) =>
          /\ Len(CallsOf(words)) = 1
          /\ CallsOf(words)[1] \in {Call(Head(words), Tail(words)), Call("send_error", <<>>)}
    /\ \A server, client \in {WordsOf(split) : split \in Splits(line)} :
          /\ Paired(line) => TransfersOf(server) = ClientWatches(client)
          /\ \A kind \in TransfersOf(server) : ClientWatches(client) \subseteq {kind}

(* Whatever lines are repeated or contradict each other, a user login      *)
(* accepts has one password that pass accepts, and nobody else has one;    *)
(* what is added to the end of the file does not change it.                *)
Accepted(user, file) ==
    {password \in Passwords : CheckIfUserPasswordExists(user, password, file)}

OnePasswordEach ==
    \A user \in Users :
        /\ Cardinality(Accepted(user, conf)) = IF CheckIfUserExists(user, conf) THEN 1 ELSE 0
        /\ \A n \in 1..Len(conf) :
              Accepted(user, SubSeq(conf, 1, n)) \in {{}, Accepted(user, conf)}
=============================================================================

------------------------------ MODULE Grammar ------------------------------
(***************************************************************************)
(* From a line of text to a handler: Parsing::split_string, the table of   *)
(* commands, the conditions of run_command, what the client makes of the   *)
(* same line, and the lines of grass.conf.  A text that is split is here a *)
(* sequence of characters; what comes out of it is a sequence of words.    *)
(***************************************************************************)
EXTENDS Integers, Sequences, FiniteSets

(* Characters: those split_string tells apart.                             *)
Space == " "
Quote == "\""
Nul   == "nul"   \* Parsing::delimiter

OccurrencesUpTo(text, char) ==
    LET positions[n \in 0..Len(text)] ==
            IF n = 0 THEN <<>>
            ELSE IF text[n] = char THEN Append(positions[n - 1], n) ELSE positions[n - 1]
    IN  positions

Occurrences(text, char) == OccurrencesUpTo(text, char)[Len(text)]

(* Broken variant: the loop goes on to the next quote, not the next but    *)
(* one.                                                                    *)
ReplaceSpacesEach(text, beyond) ==
    LET quotes  == Occurrences(text, Quote) \o <<beyond>>
        Kept(i) == \E k \in 1..(Len(quotes) - 1) : quotes[k] < i /\ i < quotes[k + 1]
    IN  [i \in 1..Len(text) |-> IF text[i] = Space /\ Kept(i) THEN Nul ELSE text[i]]

(* The spaces between two quotes give way to the delimiter; the loop takes *)
(* quotes two by two, and for the last of an odd number it reads "beyond", *)
(* past the end of the vector.                                             *)
ReplaceSpaces(text, beyond) ==
    LET quotes  == Occurrences(text, Quote) \o <<beyond>>
        Kept(i) == \E k \in 1..(Len(quotes) - 1) :
                       k % 2 = 1 /\ quotes[k] < i /\ i < quotes[k + 1]
    IN  [i \in 1..Len(text) |-> IF text[i] = Space /\ Kept(i) THEN Nul ELSE text[i]]

(* put_spaces: every delimiter becomes a space, also one the text had.     *)
PutSpaces(token) == [i \in 1..Len(token) |-> IF token[i] = Nul THEN Space ELSE token[i]]

(* An empty token is skipped.                                              *)
Pushed(vec, token) == IF token = <<>> THEN vec ELSE Append(vec, PutSpaces(token))

(* The loop over getline: the tokens pushed, and the one being read.       *)
Read(acc, char, delim) ==
    IF char = delim THEN [vec |-> Pushed(acc.vec, acc.token), token |-> <<>>]
    ELSE [vec |-> acc.vec, token |-> Append(acc.token, char)]

Tokens(text, delim) ==
    LET acc[n \in 0..Len(text)] ==
            IF n = 0 THEN [vec |-> <<>>, token |-> <<>>]
            ELSE Read(acc[n - 1], text[n], delim)
    IN  acc

SplitString(text, delim, beyond) ==
    LET end == Tokens(ReplaceSpaces(text, beyond), delim)[Len(text)]
    IN  Pushed(end.vec, end.token)

(* What it may return: "beyond" is any number, and another one in each     *)
(* process and at each call.                                               *)
Splits(text) == {SplitString(text, Space, beyond) : beyond \in 0..(Len(text) + 1)}

(* Of an even number of quotes the last one has its partner.               *)
Paired(text) == Len(Occurrences(text, Quote)) % 2 = 0

-----------------------------------------------------------------------------
(* Commands.                                                               *)

CommandsWithoutArgument == {"ls", "w", "whoami", "date", "exit", "logout"}
CommandsOfOneArgument   == {"cd", "rm", "mkdir", "get", "ping", "login", "pass", "grep"}

(* Broken variant: put takes a file only.                                  *)
PutTakesOne ==
    [name \in CommandsWithoutArgument \cup CommandsOfOneArgument \cup {"put"} |->
        IF name \in CommandsWithoutArgument THEN 0 ELSE 1]

(* commandNameToArgumentsFunc, whose -1 is a name outside the domain.      *)
ArgumentTotal ==
    [name \in CommandsWithoutArgument \cup CommandsOfOneArgument \cup {"put"} |->
        IF name \in CommandsWithoutArgument THEN 0
        ELSE IF name \in CommandsOfOneArgument THEN 1 ELSE 2]

HasCommand(name) == name \in DOMAIN ArgumentTotal

(* The ways run_command refuses a line before it looks at the command.     *)
Refused(words) ==
    \/ words = <<>>
    \/ ~HasCommand(Head(words))
    \/ Len(words) - 1 # ArgumentTotal[Head(words)]

(* The words after the command are numbers here: the value strtol gives if *)
(* it reads the word to its end, or one of these.                          *)
NoNumber  == -1
Undefined == -2     \* a word past the end of the vector

ValidLength(len) == len > 0 /\ len < 123456

(* The argument a handler is given.                                        *)
Given(words, i) == IF i < Len(words) THEN words[i + 1] ELSE Undefined

Call(name, arguments) == [handler |-> name, arguments |-> arguments]

(* The handlers run_command calls for a line that is not refused, by its   *)
(* four conditions one after another; mkdir returns.                       *)
Calls(words) ==
    LET name == Head(words)
        one  == <<Given(words, 1)>>
        Chain(chain, arguments) == IF name \in chain THEN <<Call(name, arguments)>> ELSE <<>>
    IN  IF name = "mkdir" THEN <<Call(name, one)>>
        ELSE Chain({"rm", "cd"}, one) \o Chain({"ls"}, <<>>)
             \o Chain({"get"}, one)
             \o (IF name # "put" THEN <<>>
                 ELSE IF ValidLength(Given(words, 2))
                      THEN <<Call(name, <<Given(words, 1), Given(words, 2)>>)>>
                      ELSE <<Call("send_error", <<>>)>>)
             \o Chain({"ping", "login", "pass", "grep"}, one)
             \o Chain({"w", "whoami", "date", "exit", "logout"}, <<>>)

(* The kinds of transfer whose port the client looks for in the answer, as *)
(* long as errno is 0 (see Wire).  The words are those of the client's own *)
(* split of the line it sends, which need not be the server's.             *)
ClientWatches(words) ==
    IF words = <<>> THEN {}
    ELSE {kind \in {"get", "put"} :
            /\ Head(words) = kind
            /\ kind = "get" => Len(words) = 2
            /\ kind = "put" => Len(words) = 3 /\ ValidLength(words[3])}

-----------------------------------------------------------------------------
(* grass.conf: a sequence of lines, each split already.                    *)

(* A line that starts with the keyword user and is about this user.        *)
LineOfUser(user, words) == words # <<>> /\ Head(words) = "user" /\ words[2] = user

CheckIfUserExists(user, conf) == \E i \in 1..Len(conf) : LineOfUser(user, conf[i])

(* Broken variant: any line of the user will do.                           *)
AnyPassword(user, password, conf) ==
    \E i \in 1..Len(conf) : LineOfUser(user, conf[i]) /\ conf[i][3] = password

(* The first line of the user decides.                                     *)
CheckIfUserPasswordExists(user, password, conf) ==
    \E i \in 1..Len(conf) :
        /\ LineOfUser(user, conf[i])
        /\ conf[i][3] = password
        /\ \A k \in 1..(i - 1) : ~LineOfUser(user, conf[k])
=============================================================================

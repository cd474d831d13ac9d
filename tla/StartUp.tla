------------------------------- MODULE StartUp -------------------------------
(* What main() makes of the words it is started with, and START, which puts    *)
(* together the words another interpreter is started with. The letters of      *)
(* switches are small; %1 to %9 are 1 to LastDigit.                            *)
EXTENDS Parse
CONSTANTS LastDigit,         \* the last digit that holds an argument: 9
          CommandVariable,   \* the value of __PBAT_COMMAND__
          Launches,          \* the words behind the name of the interpreter
          Starts             \* START lines, or a break: their words, and the modes of the interpreter

Has(word, chars) == \E i \in DOMAIN word : word[i] \in chars
InQuotes(word, chars) == IF Has(word, chars) THEN <<Quote>> \o word \o <<Quote>> ELSE word
WithBlanks(words) == LET line[k \in 0..Len(words)] == IF k = 0 THEN <<>> ELSE line[k - 1] \o words[k] \o <<" ">>
                     IN  line[Len(words)]
EscapeQuotes(word) == LET made[k \in 0..Len(word)] == IF k = 0 THEN <<>>
                                                      ELSE made[k - 1] \o (IF word[k] = Quote THEN <<"^", Quote>> ELSE <<word[k]>>)
                      IN  made[Len(word)]
AssignCommandLine(words) ==
    WithBlanks([i \in DOMAIN words |-> LET e == EscapeQuotes(words[i])
                                       IN  IF Has(words[i], {" ", ",", "&", "|"}) THEN <<Quote>> \o e \o <<Quote>> ELSE e])

-----------------------------------------------------------------------------
NothingGiven == [file |-> <<>>, digit |-> [d \in 1..LastDigit |-> <<>>], plus |-> <<>>, star |-> <<>>,
                 modes |-> {}, quiet |-> FALSE, line |-> <<>>, runs |-> FALSE, exits |-> TRUE, failed |-> FALSE, help |-> FALSE]

\* /a:vecq
Letters(word) == {word[i] : i \in (IF At(word, 3, ":") THEN 4 ELSE 3)..Len(word)}
InitSetModes(got, word) == [got EXCEPT !.modes = @ \cup (Letters(word) \cap {"v", "e", "c"}), !.quiet = "q" \in Letters(word)]

\* /C and /K take all the words behind them.
CommandFrom(words) == IF words[1] = <<"@">> THEN CommandVariable
                      ELSE WithBlanks([i \in DOMAIN words |-> InQuotes(words[i], {" ", LineEnd})])
TakesLine(got, words, exits) ==
    IF words = <<>> THEN [got EXCEPT !.failed = TRUE]
    ELSE [got EXCEPT !.line = CommandFrom(words), !.runs = TRUE, !.exits = exits]

Arguments(got, file, words) ==
    [got EXCEPT !.file = file, !.star = AssignCommandLine(words),
                !.digit = [d \in 1..LastDigit |-> IF d \in DOMAIN words THEN words[d] ELSE <<>>],
                !.plus = IF Len(words) > LastDigit THEN AssignCommandLine(From(words, LastDigit + 1)) ELSE <<>>]

RECURSIVE GetSwitch(_, _), GetFile(_, _)
\* Behind /C @ the words go on.
Behind_C(got, words) == IF ~got.failed /\ words[1] = <<"@">> THEN GetSwitch(got, Tail(words)) ELSE got
IsLineSwitch(word) == \E c \in {"c", "k"} : At(word, 2, c)
GetSwitch(got, words) ==
    IF words = <<>> \/ ~At(words[1], 1, "/") THEN GetFile(got, words)
    ELSE IF At(words[1], 2, "a") THEN GetSwitch(InitSetModes(got, words[1]), Tail(words))
    ELSE IF IsLineSwitch(words[1]) /\ ~got.runs THEN Behind_C(TakesLine(got, Tail(words), At(words[1], 2, "c") /\ got.exits), Tail(words))
    ELSE IF At(words[1], 2, "?") THEN [got EXCEPT !.help = TRUE]
    ELSE IF At(words[1], 2, "/") THEN GetFile(got, Tail(words))
    ELSE [got EXCEPT !.failed = TRUE]
\* An empty word is not a file.
GetFile(got, words) == IF words = <<>> THEN got
                       ELSE IF words[1] = <<>> THEN GetFile([got EXCEPT !.star = AssignCommandLine(Tail(words))], Tail(words))
                       ELSE Arguments(got, words[1], Tail(words))
GetParameters(words) == GetSwitch(NothingGiven, words)

\* What the interpreter does then, and what %PBAT_IS_SCRIPT% says of it.
Then(got) == CASE got.failed -> <<"bad command line">>
               [] got.help -> <<"help">>
               [] OTHER -> (IF got.runs THEN <<"line">> ELSE <<>>)
                           \o (IF got.runs /\ got.exits THEN <<>> ELSE IF got.file = <<>> THEN <<"prompt">> ELSE <<"script">>)
IsScript(got) == got.file # <<>> \/ got.quiet

-----------------------------------------------------------------------------
(* START: what the new interpreter gets, in front of the words of the line *)
Mode(letter, modes) == IF letter \in modes THEN <<letter>> ELSE <<>>
ModeSwitch(modes) == <<"/", "a", ":", "q">> \o Mode("e", modes) \o Mode("c", modes)
\* A command of the interpreter needs /C, a batch file does not, nor an interpreter that is to ask for commands.
Started(start, given) == <<ModeSwitch(start.modes)>> \o (IF given /\ start.what = "command" THEN << <<"/", "c">> >> ELSE <<>>)
Line(start) == WithBlanks([i \in DOMAIN start.title |-> <<Quote>> \o start.title[i] \o <<Quote>>]
                          \o [i \in DOMAIN start.words |-> InQuotes(start.words[i], {" ", ","})])
\* A first word in quotes is the title, whatever is in it; the next one, in quotes or not, is the command.
BehindTitle(line) == IF At(line, SkipBlanks(line, 1), Quote)
                     THEN From(line, GetNextParameterEsD(line, 1, ParameterDelims).next) ELSE line
CmdStart(start, line) ==
    LET command == BehindTitle(line)
        given == GetNextParameterEsD(command, 1, ParameterDelims).next # Null
    IN  GetParamList(WithBlanks(Started(start, given)) \o command, 1)

StartInit == \/ phase = "launched" /\ nodes \in Launches /\ text = <<>> /\ parsed = nodes
             \/ phase = "start" /\ nodes \in Starts /\ text = Line(nodes) /\ parsed = <<>>
Start == /\ phase = "start" /\ nodes.what # "break"
         /\ parsed' = CmdStart(nodes, text)
         /\ phase' = "started"
         /\ UNCHANGED <<nodes, text>>
(* A break: the interpreter becomes another one, unless the user of a script says no. *)
SigHandlerBreak == /\ phase = "start" /\ nodes.what = "break"
                   /\ parsed' = << <<"/", "a", ":", "q">> \o Mode("e", nodes.modes) \o Mode("v", nodes.modes) \o Mode("c", nodes.modes) >>
                   /\ phase' = "started"
                   /\ UNCHANGED <<nodes, text>>
Main == /\ \/ phase = "launched" /\ phase' = "main"
           \/ phase = "started" /\ phase' = "child"
        /\ parsed' = GetParameters(parsed)
        /\ UNCHANGED <<nodes, text>>

-----------------------------------------------------------------------------
(* A word that is not empty and has no caret, line end or sign of redirection. *)
Plain(word) == word # <<>> /\ ~Has(word, {"^", LineEnd, "<", ">"})
\* The one command that a line holds, with its parameters; a line of several commands or with a redirection has none.
CommandIn(line) == LET ops == ParseOperators(line)
                   IN  IF Len(ops) # 1 THEN <<>> ELSE GetParamList(ParseOutput(ops[1].text).text, 1)

(* What stands behind the name of a script comes back, whatever blanks, operators or quotes are in it: the digits
   hold the words, and a command that is given the words behind the digits, or all of them, gets each as one
   parameter. *)
ScriptGetsItsWords ==
    phase = "main" /\ Then(parsed) = <<"script">> =>
        \E k \in DOMAIN nodes :
            LET words == From(nodes, k + 1)
            IN  /\ nodes[k] = parsed.file
                /\ \A d \in 1..LastDigit : parsed.digit[d] = (IF d \in DOMAIN words THEN words[d] ELSE <<>>)
                /\ (\A i \in DOMAIN words : Plain(words[i])) =>
                       /\ CommandIn(<<"x", " ">> \o parsed.star) = << <<"x">> >> \o words
                       /\ CommandIn(<<"x", " ">> \o parsed.plus) = << <<"x">> >> \o From(words, LastDigit + 1)

(* An interpreter that START starts has the modes of the one that starts it, but for delayed expansion, and one that
   takes its place on a break has them all; it runs the command with the words it was
   written with, or the batch file with its arguments, and ends; only one that gets neither asks for commands. The
   first word of the line is the title when it stands in quotes, as the manual says (start.tea:38): a command that
   needs them is given only behind a title. Not for a command whose name starts with a slash, nor for words with
   quotes in them or with a comma or an operator and no blank, which /C does not put back in quotes. *)
Kept(word) == Plain(word) /\ ~Has(word, {Quote}) /\ (Has(word, {",", "&", "|"}) => Has(word, {" "}))
GivenTo(start) == IF start.title = <<>> /\ start.words # <<>> /\ Has(start.words[1], {" ", ","})
                  THEN Tail(start.words) ELSE start.words
StartKeepsModesAndWords ==
    phase = "child" =>
        LET words == GivenTo(nodes)
        IN  (\A i \in DOMAIN words : Kept(words[i])) /\ ~At(WithBlanks(words), 1, "/") =>
                /\ parsed.modes = (IF nodes.what = "break" THEN nodes.modes ELSE nodes.modes \ {"v"}) /\ IsScript(parsed)
                /\ words = <<>> => Then(parsed) = <<"prompt">>
                /\ words # <<>> /\ nodes.what = "command" => (Then(parsed) = <<"line">> /\ CommandIn(parsed.line) = words)
                /\ words # <<>> /\ nodes.what = "script" =>
                       /\ Then(parsed) = <<"script">> /\ parsed.file = words[1]
                       /\ CommandIn(<<"x", " ">> \o parsed.star) = << <<"x">> >> \o Tail(words)
=============================================================================

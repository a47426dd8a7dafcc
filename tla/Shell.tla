------------------------------- MODULE Shell -------------------------------
(***************************************************************************)
(* The shell (Userland/Shell/shell.c): it reads a line, splits it with     *)
(* strtok (libc/string.c), runs one command or a pipeline of two and frees *)
(* what it allocated.  A line is a sequence of words, which single blanks  *)
(* separate: two blanks in a row make an empty word.  Words have no        *)
(* length: that a first word of more than 255 characters does not fit into *)
(* the name it is copied to (strcpy, lines 120 and 232) is not in here.    *)
(***************************************************************************)
EXTENDS Naturals, Sequences, SequencesExt, FiniteSets

CONSTANTS Command, BuiltIn,    \* the table of commands
          Word,                \* the words of a line
          MAX_ARGUMENT_COUNT,  \* size of a command's argv
          GROW,                \* parsedCommands grows by 5
          MaxWords, MaxLines   \* bounds on the input
ASSUME ShellAssumption ==
    /\ BuiltIn \subseteq Command /\ "|" \notin Command
    /\ MAX_ARGUMENT_COUNT \in Nat /\ MAX_ARGUMENT_COUNT > 2 /\ GROW \in Nat \ {0}

\* A line has at least one word, the empty one if nothing was typed.
Line == UNION {[1..n -> Word] : n \in 1..MaxWords}

VARIABLES
    at,                  \* where the shell is
    buffer,              \* the line read
    toks,                \* the tokens strtok has still to return
    parsedCommands,      \* the commands found so far: [name, args]
    parsed_commands_dim, \* the size of that array
    blocks,              \* allocated argument strings
    leaked,              \* history: argument strings that lost their pointer
    exhausted,           \* history: no memory for an argument of this line
    ran,                 \* history: what the line was taken for
    typedLines           \* lines read

shellVars == <<at, buffer, toks, parsedCommands, parsed_commands_dim, blocks, leaked, exhausted, ran, typedLines>>

Nothing == [kind |-> "nothing", commands |-> <<>>, background |-> FALSE]

ShellInit ==
    /\ at \in {"prompt", "returned"}   \* "returned": no memory for the array
    /\ buffer = <<"">> /\ toks = <<>>
    /\ parsedCommands = <<>> /\ parsed_commands_dim = GROW
    /\ blocks = 0 /\ leaked = 0 /\ exhausted = FALSE /\ ran = Nothing /\ typedLines = 0

\* The tokens that strtok(_, " ") returns for a line: every word, empty ones too,
\* but not an empty word after the last blank.
strtok(line) == IF Len(line) > 1 /\ Last(line) = "" THEN Front(line) ELSE line

\* A line too long for the buffer is dropped (TRUE), the rest of it too.
readLine ==
    /\ at = "prompt" /\ typedLines < MaxLines /\ typedLines' = typedLines + 1
    /\ \/ \E line \in Line : buffer' = line /\ toks' = strtok(line) /\ at' = "parse"
       \/ UNCHANGED <<at, buffer, toks>>
    /\ UNCHANGED <<parsedCommands, parsed_commands_dim, blocks, leaked, exhausted, ran>>

\* The tokens left once the "|" at the start are skipped.
SkipPipes(t) ==
    LET k == Cardinality({i \in DOMAIN t : \A j \in 1..i : t[j] = "|"})
    IN  SubSeq(t, k + 1, Len(t))

\* Mutant: argv takes one argument less than it has room for.
BadArgCount(t) ==
    CHOOSE n \in 0..Len(t) :
        /\ \A i \in 1..n : t[i] # "|"
        /\ n < MAX_ARGUMENT_COUNT - 2
        /\ n = Len(t) \/ t[n + 1] = "|" \/ n = MAX_ARGUMENT_COUNT - 3
\* How many of the tokens after a command's name become its arguments: up to a
\* "|" or to the size of argv.
ArgCount(t) ==
    CHOOSE n \in 0..Len(t) :
        /\ \A i \in 1..n : t[i] # "|"
        /\ n < MAX_ARGUMENT_COUNT - 1
        /\ n = Len(t) \/ t[n + 1] = "|" \/ n = MAX_ARGUMENT_COUNT - 2

\* The tokens begin with the name of a command.
Named(t) == t # <<>> /\ t[1] \in Command

\* parse_command finds one more command.  The token its loop stopped at, a "|"
\* or an argument too many, is used up.
parse_command ==
    LET t == SkipPipes(toks)
        n == ArgCount(Tail(t)) IN
    /\ at = "parse"
    /\ Named(t)
    /\ parsedCommands' = Append(parsedCommands, [name |-> t[1], args |-> SubSeq(t, 2, n + 1)])
    /\ blocks' = blocks + n
    /\ toks' = SubSeq(t, n + 3, Len(t))
    /\ at' = "grow"
    /\ UNCHANGED <<buffer, parsed_commands_dim, leaked, exhausted, ran, typedLines>>

\* It finds none: no token, no such command, or no memory for an argument, in
\* which case it frees the ones before.  Strings of the commands before stay.
parse_command_fails ==
    LET t == SkipPipes(toks) IN
    /\ at = "parse"
    /\ \/ ~Named(t) /\ UNCHANGED exhausted
       \/ Named(t) /\ ArgCount(Tail(t)) > 0 /\ exhausted' = TRUE
    /\ toks' = <<>>
    /\ at' = "run"
    /\ UNCHANGED <<buffer, parsedCommands, parsed_commands_dim, blocks, leaked, ran, typedLines>>

\* Mutant: the strings of the last command are kept.
BadArgsOf(cs) == LET N[i \in 0..Len(cs)] == IF i <= 1 THEN 0 ELSE N[i - 1] + Len(cs[i - 1].args)
                 IN  N[Len(cs)]
\* How many strings the commands hold.
ArgsOf(cs) == LET N[i \in 0..Len(cs)] == IF i = 0 THEN 0 ELSE N[i - 1] + Len(cs[i].args)
              IN  N[Len(cs)]

\* After each command the array of commands grows if it is full; without memory
\* for that main frees the arguments and returns.
MustGrow == Len(parsedCommands) % GROW = 0 /\ Len(parsedCommands) >= parsed_commands_dim
growParsedCommands ==
    /\ at = "grow"
    /\ \/ ~MustGrow /\ at' = "parse" /\ UNCHANGED <<parsed_commands_dim, blocks, parsedCommands>>
       \/ MustGrow /\ at' = "parse" /\ parsed_commands_dim' = parsed_commands_dim + GROW
          /\ UNCHANGED <<blocks, parsedCommands>>
       \/ /\ MustGrow /\ at' = "returned"
          /\ blocks' = blocks - ArgsOf(parsedCommands)
          /\ parsedCommands' = <<>> /\ UNCHANGED parsed_commands_dim
    /\ UNCHANGED <<buffer, toks, leaked, exhausted, ran, typedLines>>

\* A last argument "&" asks for the background, and is taken off.
Background(c) == c.args # <<>> /\ Last(c.args) = "&"
Stripped(c) == IF Background(c) THEN [c EXCEPT !.args = Front(@)] ELSE c

\* What main does with the commands of a line, waiting for them included.
dispatch ==
    LET cs == parsedCommands
        some == \E i \in DOMAIN cs : cs[i].name \in BuiltIn
        kind == CASE cs = <<>> -> "nothing"
                  [] Len(cs) = 1 -> IF some THEN "builtin" ELSE "command"
                  [] Len(cs) = 2 -> IF some THEN "refused" ELSE "pipeline"
                  [] OTHER -> "refused"
        marks == IF kind \in {"command", "pipeline"} THEN {i \in DOMAIN cs : Background(cs[i])} ELSE {}
        left == [i \in DOMAIN cs |-> IF i \in marks THEN Stripped(cs[i]) ELSE cs[i]] IN
    /\ at = "run"
    /\ parsedCommands' = left
    /\ ran' = [kind |-> kind, commands |-> left, background |-> marks # {}]
    /\ leaked' = leaked + Cardinality(marks)
    /\ at' = "free"
    /\ UNCHANGED <<buffer, toks, parsed_commands_dim, blocks, exhausted, typedLines>>

\* A pipe could not be opened: the "&" are not looked at.
dispatch_noPipe ==
    /\ at = "run" /\ Len(parsedCommands) = 2
    /\ \A i \in 1..2 : parsedCommands[i].name \notin BuiltIn
    /\ ran' = [kind |-> "failed", commands |-> parsedCommands, background |-> FALSE]
    /\ at' = "free"
    /\ UNCHANGED <<buffer, toks, parsedCommands, parsed_commands_dim, blocks, leaked, exhausted, typedLines>>

\* The end of main's loop.
freeArguments ==
    /\ at = "free" /\ at' = "prompt"
    /\ blocks' = blocks - ArgsOf(parsedCommands)
    /\ parsedCommands' = <<>> /\ buffer' = <<"">> /\ toks' = <<>>
    /\ ran' = Nothing /\ exhausted' = FALSE
    /\ UNCHANGED <<parsed_commands_dim, leaked, typedLines>>

ShellNext ==
    \/ readLine \/ parse_command \/ parse_command_fails \/ growParsedCommands
    \/ dispatch \/ dispatch_noPipe \/ freeArguments
ShellSpec == ShellInit /\ [][ShellNext]_shellVars

-----------------------------------------------------------------------------
(* Properties.                                                              *)

\* Lines with nothing to argue about: commands of the table, "|" between two
\* commands, no empty words, and no more arguments than argv has room for.
WellFormed(line) ==
    LET n == Len(line) IN
    /\ \A i \in 1..n : line[i] # "" /\ ((i = 1 \/ line[i - 1] = "|") => line[i] \in Command)
    /\ line[n] # "|"
    /\ \A i \in 1..n : \E j \in i..(i + MAX_ARGUMENT_COUNT - 1) : j > n \/ line[j] = "|"

\* The words of commands, with "|" between them.
WordsOf(words, c) == words \o (IF words = <<>> THEN <<>> ELSE <<"|">>) \o <<c.name>> \o c.args
Words(cs) == LET W[i \in 0..Len(cs)] == IF i = 0 THEN <<>> ELSE WordsOf(W[i - 1], cs[i])
             IN  W[Len(cs)]

\* A well-formed line is split into exactly the commands and arguments typed, in
\* their order, unless memory ran out, and is run as what it is: one command, or
\* two with a pipe; a line whose first word is no command runs nothing (strtok,
\* parse_command and the loop around it).
LinesAreUnderstood ==
    LET pipes == Cardinality({i \in DOMAIN buffer : buffer[i] = "|"})
        clear == WellFormed(buffer) /\ ~exhausted IN
    /\ at = "run" /\ clear => Words(parsedCommands) = buffer
    /\ at = "free" /\ clear => CASE pipes = 0 -> ran.kind \in {"builtin", "command"}
                                [] pipes = 1 -> ran.kind \in {"pipeline", "failed", "refused"}
                                [] OTHER -> ran.kind = "refused"
    /\ at = "free" /\ buffer[1] \notin Command \cup {"|"} => ran = Nothing

\* Every argument string a line has allocated is freed before the next prompt,
\* except the "&" of background commands, whose pointer is overwritten (lines
\* 258 and 285); and no command is stored beyond the array.
ArgumentsAreFreed ==
    /\ at \in {"prompt", "returned"} => blocks = leaked
    /\ Len(parsedCommands) <= parsed_commands_dim
    /\ at = "parse" => Len(parsedCommands) < parsed_commands_dim
    /\ \A i \in DOMAIN parsedCommands : Len(parsedCommands[i].args) <= MAX_ARGUMENT_COUNT - 2

=============================================================================

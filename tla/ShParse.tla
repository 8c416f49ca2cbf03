------------------------------ MODULE ShParse ------------------------------
(***************************************************************************)
(* The parser of sh.c, on the tokens of a line: the symbols and, for       *)
(* everything else, words.  A parsing function returns the command and the *)
(* tokens that are left; a panic() is the command Syntax.                  *)
(***************************************************************************)
EXTENDS Naturals, Sequences, SequencesExt

CONSTANTS Word, MAXARGS

Symbol == {"<", ">", ">>", "|", "&", ";", "(", ")"}

\* The constructors.
execcmd(argv) == [type |-> "EXEC", argv |-> argv]
redircmd(cmd, file, fd) == [type |-> "REDIR", cmd |-> cmd, file |-> file, fd |-> fd]
pipecmd(left, right) == [type |-> "PIPE", left |-> left, right |-> right]
listcmd(left, right) == [type |-> "LIST", left |-> left, right |-> right]
backcmd(cmd) == [type |-> "BACK", cmd |-> cmd]

Syntax == [type |-> "syntax"]
Panic == [cmd |-> Syntax, rest |-> <<>>]
Failed(r) == r.cmd = Syntax

\* gettoken() returns the kind of the next token, "a" for a word.
gettoken(s) == IF s = <<>> THEN "0" ELSE IF Head(s) \in Symbol THEN Head(s) ELSE "a"
peek(s, toks) == s # <<>> /\ Head(s) \in toks

\* The redirections that follow are wrapped around cmd, the last outermost.
RECURSIVE parseredirs(_, _)
parseredirs(cmd, s) ==
    IF ~peek(s, {"<", ">", ">>"}) THEN [cmd |-> cmd, rest |-> s]
    ELSE IF gettoken(Tail(s)) # "a" THEN Panic
    ELSE parseredirs(redircmd(cmd, s[2], IF s[1] = "<" THEN 0 ELSE 1), Tail(Tail(s)))

\* The arguments of the innermost command, to which parseexec() adds.
RECURSIVE addarg(_, _)
addarg(cmd, q) ==
    IF cmd.type = "EXEC" THEN [cmd EXCEPT !.argv = Append(@, q)]
    ELSE [cmd EXCEPT !.cmd = addarg(cmd.cmd, q)]

\* The loop of parseexec(), with argc arguments so far.
RECURSIVE parseargs(_, _, _)
parseargs(ret, argc, s) ==
    IF peek(s, {"|", ")", "&", ";"}) \/ gettoken(s) = "0" THEN [cmd |-> ret, rest |-> s]
    ELSE IF gettoken(s) # "a" \/ argc + 1 >= MAXARGS THEN Panic
    ELSE LET r == parseredirs(addarg(ret, Head(s)), Tail(s))
         IN  IF Failed(r) THEN Panic ELSE parseargs(r.cmd, argc + 1, r.rest)

RECURSIVE parseline(_), parsepipe(_), parseexec(_)
RECURSIVE parseback(_)
parseexec(s) ==
    IF peek(s, {"("})
    THEN LET r == parseline(Tail(s))            \* parseblock()
         IN  IF Failed(r) \/ ~peek(r.rest, {")"}) THEN Panic
             ELSE parseredirs(r.cmd, Tail(r.rest))
    ELSE LET r == parseredirs(execcmd(<<>>), s)
         IN  IF Failed(r) THEN Panic ELSE parseargs(r.cmd, 0, r.rest)

parsepipe(s) ==
    LET left == parseexec(s)
        right == parsepipe(Tail(left.rest))
    IN  IF Failed(left) \/ ~peek(left.rest, {"|"}) THEN left
        ELSE IF Failed(right) THEN Panic
        ELSE [cmd |-> pipecmd(left.cmd, right.cmd), rest |-> right.rest]

parseback(r) ==
    IF Failed(r) \/ ~peek(r.rest, {"&"}) THEN r
    ELSE parseback([cmd |-> backcmd(r.cmd), rest |-> Tail(r.rest)])

parseline(s) ==
    LET left == parseback(parsepipe(s))
        right == parseline(Tail(left.rest))
    IN  IF Failed(left) \/ ~peek(left.rest, {";"}) THEN left
        ELSE IF Failed(right) THEN Panic
        ELSE [cmd |-> listcmd(left.cmd, right.cmd), rest |-> right.rest]

\* parsecmd(): Syntax also if something is left over.
parsecmd(s) ==
    LET r == parseline(s) IN IF r.rest # <<>> THEN Syntax ELSE r.cmd
-----------------------------------------------------------------------------
\* The reference: a line for a command, with parentheses where the grammar
\*   line = pipe { "&" } [ ";" line ],  pipe = exec [ "|" pipe ]
\* needs them.
RECURSIVE Unparse(_)
Parens(c, types) ==
    IF c.type \in types THEN <<"(">> \o Unparse(c) \o <<")">> ELSE Unparse(c)
Unparse(c) ==
    CASE c.type = "EXEC"  -> c.argv
      [] c.type = "REDIR" -> Parens(c.cmd, {"PIPE", "LIST", "BACK"})
                             \o <<IF c.fd = 0 THEN "<" ELSE ">", c.file>>
      [] c.type = "PIPE"  -> Parens(c.left, {"PIPE", "LIST", "BACK"}) \o <<"|">>
                             \o Parens(c.right, {"LIST", "BACK"})
      [] c.type = "BACK"  -> Parens(c.cmd, {"LIST"}) \o <<"&">>
      [] c.type = "LIST"  -> Parens(c.left, {"LIST"}) \o <<";">> \o Unparse(c.right)
=============================================================================

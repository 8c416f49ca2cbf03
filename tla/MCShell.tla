------------------------------ MODULE MCShell ------------------------------
EXTENDS Shell

Words == {"echo", "cat", "none", "x", "f"}
Lines == {
    <<"echo", "x", "x", "|", "cat">>,
    <<"(", "echo", "x", ";", "echo", "x", ")", ">", "f">>,
    <<"echo", "x", ">", "f", ";", "cat", "<", "f", "|", "cat">>,
    <<"cat", "<", "f", "|", "none">>,
    <<"cat", "<", "f", "&", ";", "echo", "x">>,
    <<"echo", "x", "x", "x">>,
    <<"echo", "x", "&", "cat">>,
    <<"(", "none", "|", "none", "|", "none", ")", "&">>,
    <<"cat", "f", "x", "|", "cat">> }

\* The parser against the grammar, for all lines of up to five tokens.
ASSUME ParserInvertsGrammar ==
    \A line \in UNION {[1 .. n -> {"x", "<", "|", "&", ";", "(", ")"}] : n \in 0 .. 5} :
        LET c == parsecmd(line) IN c # Syntax => parsecmd(Unparse(c)) = c
=============================================================================

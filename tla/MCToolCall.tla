------------------------------ MODULE MCToolCall ------------------------------
(* An instance of ToolCall for TLC.                                         *)
EXTENDS ToolCall

x == <<"x">>
y == <<"y">>
xy == <<"x", "y">>      \* one argument with a space in it

Patterns == {Rule(m, p, <<>>) : m \in {"", "arg", "command"}, p \in {<<>>, y, xy}}
Argvs == {Rule("argv", <<>>, a) : a \in {<<>>, <<x>>, <<x, y>>, <<xy>>, <<Invalid>>}}
Odd == {Rule("arg", Invalid, <<>>), Rule("arg", x, <<x>>), Rule("argv", x, <<x>>),
        Rule("prefix", x, <<>>)}
Lists(S, T) == {<<>>} \union {<<r>> : r \in S \union T} \union {<<r, s>> : r \in S, s \in T}

MCTools ==
  [mode : {"", "blocklist", "allowlist", "denylist"},
   blocked : Lists(Patterns \union Odd, {Rule("argv", <<>>, <<x>>)}),
   allowed : Lists(Argvs \union Odd, Patterns)]
MCArgs == SeqOf({x, y, xy}, 2)

(* One secret begins with another, one overlaps itself, one is too short.   *)
MCValues == {{}, {<<"a", "b">>, <<"a", "b", "a">>, <<"b">>}, {<<"a", "a", "b">>, <<"b", "b">>}}
Redact(h, t) == [head |-> h, tail |-> t, keep |-> FALSE, text |-> <<Redacted>>]
(* Literals; a rule for two a and all the b after them, and one too long    *)
(* for the overlap; and rules that put out more than a mark: the head, as   *)
(* in ${1}[REDACTED], nothing at all, or what another rule matches.         *)
MCRules == {<<>>, <<Redact(<<"b", "b", "a">>, {})>>,
            <<Redact(<<"b", "a">>, {}), Redact(<<"a", "a">>, {"b"})>>,
            <<Redact(<<"a", "b", "b", "a">>, {}), Redact(<<"b", "b">>, {"b", Redacted})>>,
            <<[head |-> <<"b">>, tail |-> {"a", Redacted}, keep |-> TRUE, text |-> <<Redacted>>]>>,
            <<[head |-> <<Redacted>>, tail |-> {}, keep |-> FALSE, text |-> <<>>],
              [head |-> <<"b">>, tail |-> {}, keep |-> FALSE, text |-> <<"a", "b">>]>>}
=============================================================================

------------------------------- MODULE MCSh --------------------------------
(* An instance of Sh: the lines of up to MaxLength characters, some longer  *)
(* ones, and keys typed at the prompt.                                      *)
EXTENDS Sh

CONSTANT MaxLength

MCChars == {"a", " "} \cup symbols
MCLines == UNION {[1..n -> MCChars] : n \in 1..MaxLength}
           \cup [1..4 -> {"a", "&", ";", ">"}]
           \cup {<<"a", "|", "a", "|", "a">>, <<"a", ";", "a", ";", "a">>,
                 <<"a", "|", "a", ";", "a">>, <<"a", "&", ";", "a", "|", "a">>,
                 <<"a", " ", "a", " ", "a">>, <<"a", ">", ">", "a", "&", "&">>,
                 <<"(", "(", "a", ")", ")", ">", "a">>, <<"a", "|", "(", "a", ";", "a", ")">>,
                 <<"(", "a", ";", "a", ")", "|", "a">>, <<"a", "<", "a", "|", "a", ">", "a">>,
                 <<"(", "a", "|", "a", ")", ">", "a", "&">>}
MCKeys == {"c", "\r", "^D", "^H", "^U"}
============================================================================

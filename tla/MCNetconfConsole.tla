--------------------------- MODULE MCNetconfConsole ---------------------------
(* NetconfConsole for TLC: short messages that look like their framing.     *)
EXTENDS NetconfConsole

MCHello == <<"]">>

\* The last one is the reply to close-session.
MCReplies == <<<<"u1", "u2">>, <<"b">>, <<"c">>, <<"d", LF>>>>

MCRefusal == <<"e">>
===============================================================================

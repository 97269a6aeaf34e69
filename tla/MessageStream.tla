----------------------------- MODULE MessageStream -----------------------------
(****************************************************************************)
(* What a NETCONF transport promises to the program that reads from it: the *)
(* messages that the peer sent, whole and in their order, and the end of    *)
(* each of them told where it is.  How a message is cut up on its way, and  *)
(* what marks its end there, is not seen.                                   *)
(****************************************************************************)
EXTENDS Naturals, Sequences

CONSTANT Message    \* the messages: sequences of bytes

VARIABLES
    sent,      \* the messages of the peer so far
    got,       \* those that the reader has in full
    part,      \* what the reader has of the next one
    broken     \* the reader knows that it gets nothing more

Init ==
    /\ sent = <<>> /\ got = <<>> /\ part = <<>>
    /\ broken = FALSE

\* The peer sends a message.
Send ==
    /\ \E m \in Message : sent' = Append(sent, m)
    /\ UNCHANGED <<got, part, broken>>

\* The message that the reader is in.
Current == sent[Len(got) + 1]

\* The reader gets some more of it.
Data ==
    /\ ~broken /\ Len(got) < Len(sent)
    /\ \E k \in Len(part)..Len(Current) : part' = SubSeq(Current, 1, k)
    /\ UNCHANGED <<sent, got, broken>>

\* The reader is told that this was all of it.
End ==
    /\ ~broken /\ Len(got) < Len(sent) /\ part = Current
    /\ got' = Append(got, part)
    /\ part' = <<>>
    /\ UNCHANGED <<sent, broken>>

\* The reader is told that it gets nothing more.
Break ==
    /\ broken' = TRUE
    /\ UNCHANGED <<sent, got, part>>

Next == Send \/ Data \/ End \/ Break

Spec == Init /\ [][Next]_<<sent, got, part, broken>>
===============================================================================

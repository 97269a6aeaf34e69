----------------------------- MODULE NetconfConsole -----------------------------
(****************************************************************************)
(* The NETCONF console (confd-sync-py/app/netconf_console.py): one session  *)
(* with a NETCONF server, over the transport of NetconfTransport.  It reads *)
(* the hello of the server and agrees on a framing, sends requests, prints  *)
(* replies until it has enough of them, and closes the session.             *)
(*                                                                          *)
(* What is requested (kind) decides how many replies it waits for, and how  *)
(* they are printed (style) which of them are seen: through xmllint, which  *)
(* prints nothing unless it is given a whole message, or on standard output,*)
(* which is closed with the first reply.  Requests are counted, in units of *)
(* which BufSiz fit into the send buffer and one is the header of a chunk.  *)
(* The server is external.                                                  *)
(****************************************************************************)
EXTENDS NetconfTransport

CONSTANTS
    Hello,       \* the server's hello message
    Replies,     \* its replies and notifications, in the order it sends them
    Refusal,     \* an rpc-error in the place of a schema
    BufSiz,      \* BUFSIZ, the length of a request, and of one that is in a data file
    ReqSize,
    DataSize,
    Commands,    \* requests in a command file, or typed: the last is close-session
    Iter,        \* the option --iter
    Faults       \* the connection may fail

ASSUME Sizes == {BufSiz, ReqSize, DataSize, Commands, Iter} \subseteq Nat \ {0}
ASSUME FaultsKnown == Faults \in BOOLEAN

Messages == Range(Replies) \cup {Hello, Refusal}

\* Messages are text, not empty, and fit into a chunk.  The end mark of NETCONF 1.0 is neither
\* in a message nor begins in it.  There are replies to all commands, and notifications.
ASSUME MessagesKnown ==
    /\ {Hello, Refusal} \subseteq Seq(STRING) /\ Replies \in Seq(Seq(STRING))
    /\ Refusal \notin Range(Replies)
    /\ Len(Replies) >= 3 /\ Len(Replies) >= Commands
    /\ \A m \in Messages : Len(m) \in 1..MaxSize /\ Decodable(m)
    /\ \A m \in Messages : \A i \in 1..Len(m) : SubSeq(m \o Eom, i, i + 5) # Eom

Kinds == {"file", "data", "msg", "hello", "schema", "subscribe", "interactive"}

Styles == {"default", "raw", "plain", "pretty", "all"}

VARIABLES
    kind, style, stop,      \* options: the command, -s, --stop-time
    pc,
    left, saved,            \* to read from the file; kept back by _send
    n, msg, do_print, is_closed, nchunks, has_received_data, replay_complete,
    p,                      \* xmllint has been started for this reply
    stdout,                 \* standard output is open
    page,                   \* what has been written for this reply
    printed,                \* what the user has seen
    exit,
    late,                   \* it is later than the stop time
    \* The server.
    peer11,                 \* knows NETCONF 1.1
    asked,                  \* what it has received of the requests
    answered, closing,      \* requests answered; the one that is close-session
    \* History: the messages sent and received, as MessageStream has them.
    sent, got, part, broken

optVars == <<kind, style, stop>>

sendVars == <<left, saved>>

loopVars == <<n, msg, do_print, is_closed, nchunks, has_received_data,
              replay_complete, p, stdout, page, printed>>

serverVars == <<peer11, answered, closing, sent>>

streamVars == <<got, part, broken>>

vars == <<framing, peerVars, recvVars, optVars, pc, sendVars, loopVars, exit,
          late, asked, serverVars, streamVars>>

Init ==
    /\ TransportInit
    /\ kind \in Kinds /\ style \in Styles
    /\ stop \in {b \in BOOLEAN : b => kind = "subscribe"}
    /\ pc = "connect"
    /\ left = CASE kind = "file" -> Commands * ReqSize
                [] kind = "data" -> DataSize
                [] OTHER -> 0
    /\ saved = 0
    /\ n = 0 /\ msg = (kind \in {"msg", "schema", "subscribe", "interactive"})
    /\ do_print = TRUE /\ is_closed = FALSE /\ nchunks = 0
    /\ has_received_data = FALSE /\ replay_complete = FALSE
    /\ p = FALSE /\ stdout = TRUE /\ page = <<>> /\ printed = <<>>
    /\ exit = "none" /\ late = FALSE
    /\ peer11 \in BOOLEAN /\ asked = 0 /\ answered = 0
    /\ closing = IF kind \in {"file", "interactive"} THEN Commands ELSE 0
    /\ sent = <<>> /\ got = <<>> /\ part = <<>> /\ broken = FALSE

----------------------------------------------------------------------------
(* The start of the session.                                                *)

Exit(how) == pc' = "end" /\ exit' = how

\* create_connection, _start_ssh; the server says hello.
Connect ==
    /\ pc = "connect"
    /\ pc' = "hello"
    /\ wire' = Frame10(Hello)
    /\ sent' = <<Hello>>
    /\ UNCHANGED <<framing, closed, recvVars, optVars, sendVars, loopVars, exit,
                   late, asked, peer11, answered, closing, streamVars>>

\* StdoutError
ConnectFails ==
    /\ Faults /\ pc = "connect"
    /\ Exit("stdout")
    /\ UNCHANGED <<framing, peerVars, recvVars, optVars, sendVars, loopVars,
                   late, asked, serverVars, streamVars>>

\* The caller takes what recv_chunk returns; what it has of the message.  The bytes
\* that come with an error (chunk, then) are not known to be of a message.
Take ==
    /\ at' = "idle"
    /\ part' = CASE code = 1 -> part \o chunk [] code = 0 -> <<>> [] OTHER -> part
    /\ got' = IF code = 0 THEN Append(got, part) ELSE got
    /\ broken' = (broken \/ code \in {-1, -2, -4})
    /\ UNCHANGED <<buf_bytes, eom_found, bytes, code, chunk>>

\* recv_msg: the message, complete or broken off.
RecvMsg == IF code = 0 THEN part ELSE part \o chunk

RecvMsgMore == at = "done" /\ code = 1

RecvMsgDone == at = "done" /\ code \in {0, -1, -2}

\* Variant: takes up the new framing when only the server knows it.
FramingOfServer == peer11

\* versions: no 1.1 if everything is done from the file.
NewFraming == peer11 /\ kind # "file"

\* The server's hello is read; it decides on the framing.
ReadHello ==
    /\ pc = "hello"
    /\ \/ /\ RecvMsgMore /\ UNCHANGED <<pc, exit, framing>>
       \/ /\ RecvMsgDone
          /\ IF RecvMsg = Hello
               THEN /\ pc' = "send" /\ UNCHANGED exit
                    /\ framing' = IF NewFraming THEN 1 ELSE 0
               ELSE Exit("traceback") /\ UNCHANGED framing
    /\ Take
    /\ UNCHANGED <<peerVars, optVars, sendVars, loopVars, late, asked, serverVars>>

----------------------------------------------------------------------------
(* Sending.                                                                 *)

\* What arrives at the server, unless it has gone.
Arrives(size) == asked' = IF closed THEN asked ELSE asked + size

\* c.send puts the data of each call into a chunk of its own, with a header; the text
\* of a command file is sent as it is.
Header == IF kind = "data" /\ framing = 1 THEN 1 ELSE 0

\* The headers of the request in a data file.
Headers == Header * ((DataSize + BufSiz - 1) \div BufSiz)

\* The requests that have arrived in full, with the end mark after the data.
Asked ==
    LET first == IF kind = "data" THEN DataSize + Headers + 1 ELSE ReqSize
    IN  IF asked < first THEN 0 ELSE 1 + (asked - first) \div ReqSize

\* Variant: a full buffer is saved.
FillsOver(buf) == buf > BufSiz

Fills(buf) == buf >= BufSiz

\* c._send: saves what does not fill a buffer.
SendBlock ==
    /\ pc = "send" /\ left > 0
    /\ LET read == Min({left, BufSiz})
           buf == saved + Header + read
       IN  /\ left' = left - read
           /\ IF Fills(buf)
                THEN saved' = buf - BufSiz /\ Arrives(BufSiz)
                ELSE saved' = buf /\ UNCHANGED asked
    /\ UNCHANGED <<framing, peerVars, recvVars, optVars, pc, loopVars, exit,
                   late, serverVars, streamVars>>

\* Variant: leaves the rest in the buffer.
NotFlushed == 0

\* _flush after a command file, send_eom after the data of one request.
Flushed == IF kind = "data" THEN saved + 1 ELSE saved

\* Everything is sent that comes from a file: the settings of the reply loop.
SendDone ==
    /\ pc = "send" /\ left = 0
    /\ Arrives(Flushed) /\ saved' = 0
    /\ n' = CASE kind = "data" -> 1
              [] kind \in {"file", "subscribe", "interactive"} -> -1
              [] kind = "hello" /\ style = "raw" -> 0
              [] OTHER -> Iter
    /\ style' = IF style # "default" THEN style
                ELSE CASE kind \in {"subscribe", "interactive"} -> "all"
                       [] kind = "schema" -> "default"
                       [] OTHER -> "pretty"
    /\ do_print' = (style # "raw")
    /\ pc' = "loop"
    /\ UNCHANGED <<framing, peerVars, recvVars, kind, stop, left, msg, is_closed,
                   nchunks, has_received_data, replay_complete, p, stdout, page,
                   printed, exit, late, serverVars, streamVars>>

----------------------------------------------------------------------------
(* The reply loop.                                                          *)

GoesOn ==
    /\ ~is_closed /\ (n # 0 \/ kind = "interactive")
    /\ style # "default"
    /\ ~stop \/ ~replay_complete \/ ~late

\* The next round: xmllint is started, and the request sent if it did not come
\* from a file.  (In interactive mode the user has typed it.)
NextReply ==
    /\ pc = "loop" /\ GoesOn
    /\ kind = "interactive" => asked < Commands * ReqSize \/ closed
    /\ pc' = "reply"
    /\ p' = (do_print /\ style \in {"pretty", "all"})
    /\ page' = <<>> /\ nchunks' = 0
    /\ IF msg THEN Arrives(ReqSize) ELSE UNCHANGED asked
    /\ UNCHANGED <<framing, peerVars, recvVars, optVars, sendVars, n, msg, do_print,
                   is_closed, has_received_data, replay_complete, stdout, printed,
                   exit, late, serverVars, streamVars>>

\* write_fd fails if standard output has been closed.
CanWrite == p \/ stdout

\* do_print: a piece of a message is written.
Written == IF do_print THEN page \o chunk ELSE page

\* A piece of the reply, or none in time.
ReplyChunk ==
    /\ pc = "reply" /\ kind # "hello" /\ at = "done" /\ code \in {1, -3}
    /\ IF code = 1 /\ do_print /\ ~CanWrite
         THEN Exit("stderr") /\ UNCHANGED <<nchunks, page>>
         ELSE /\ nchunks' = IF code = 1 THEN nchunks + 1 ELSE nchunks
              /\ page' = IF code = 1 THEN Written ELSE page
              /\ UNCHANGED <<pc, exit>>
    /\ Take
    /\ UNCHANGED <<framing, peerVars, optVars, sendVars, n, msg, do_print, is_closed,
                   has_received_data, replay_complete, p, stdout, printed, late,
                   asked, serverVars>>

\* Variant: the rest of the replies is printed as well.
PrintsOn == do_print

\* "don't print the rest of the replies"
PrintsNext == IF p THEN do_print /\ style = "all" ELSE do_print

\* The end of a round, with what has been written for it and the number of
\* chunks: the file is closed, and xmllint waited for.
RoundDone(out, chunks, rounds) ==
    IF p /\ IF chunks > 0 THEN out \notin Messages ELSE ~has_received_data
      THEN /\ Exit("stderr")
           /\ UNCHANGED <<stdout, printed, do_print, has_received_data, msg, n>>
      ELSE /\ stdout' = (stdout /\ (p \/ style = "raw"))
           /\ printed' = IF do_print /\ (p => out \in Messages) THEN Append(printed, out)
                                                               ELSE printed
           /\ do_print' = PrintsNext
           /\ has_received_data' = TRUE
           /\ msg' = (msg /\ kind # "subscribe")
           /\ n' = rounds - 1
           /\ pc' = "loop"
           /\ UNCHANGED exit

\* The message is complete.
ReplyComplete ==
    /\ pc = "reply" /\ kind # "hello" /\ at = "done" /\ code = 0
    /\ RoundDone(page, nchunks + 1, n)
    /\ nchunks' = nchunks + 1
    /\ replay_complete' = (replay_complete \/ (stop /\ part = Replies[2]))
    /\ Take
    /\ UNCHANGED <<framing, peerVars, optVars, sendVars, is_closed, p, page, late,
                   asked, serverVars>>

\* The server has gone, or breaks the framing: an error, unless it is between
\* two messages.
ReplyBroken ==
    /\ pc = "reply" /\ kind # "hello" /\ at = "done" /\ code \in {-1, -2}
    /\ IF (do_print /\ ~CanWrite) \/ nchunks > 0
         THEN /\ Exit("stderr")
              /\ UNCHANGED <<is_closed, stdout, printed, do_print, has_received_data, msg, n>>
         ELSE /\ is_closed' = TRUE
              /\ RoundDone(Written, 0, n)
    /\ Take
    /\ UNCHANGED <<framing, peerVars, optVars, sendVars, nchunks, replay_complete, p,
                   page, late, asked, serverVars>>

\* --hello: the hello message is printed, and that is all.
ReplyHello ==
    /\ pc = "reply" /\ kind = "hello"
    /\ IF do_print /\ ~CanWrite
         THEN /\ Exit("stderr")
              /\ UNCHANGED <<stdout, printed, do_print, has_received_data, msg, n>>
         ELSE RoundDone(IF do_print THEN Hello ELSE <<>>, 1, 1)
    /\ UNCHANGED <<framing, peerVars, recvVars, optVars, sendVars, is_closed, nchunks,
                   replay_complete, p, page, late, asked, serverVars, streamVars>>

----------------------------------------------------------------------------
(* The end of the session.                                                  *)

\* get-schema in the default style: the schema is taken out of the reply.
GetSchema ==
    /\ pc = "loop" /\ ~GoesOn /\ kind = "schema" /\ style = "default"
    /\ pc' = "schema"
    /\ Arrives(ReqSize)
    /\ UNCHANGED <<framing, peerVars, recvVars, optVars, sendVars, loopVars, exit,
                   late, serverVars, streamVars>>

\* Without a schema in it, there is a word on standard error, and it goes on.
ReadSchema ==
    /\ pc = "schema"
    /\ \/ /\ RecvMsgMore /\ UNCHANGED <<pc, exit, printed>>
       \/ /\ RecvMsgDone
          /\ IF RecvMsg \in Messages
               THEN /\ pc' = "close" /\ UNCHANGED exit
                    /\ printed' = IF RecvMsg = Refusal THEN <<>> ELSE <<RecvMsg>>
               ELSE Exit("traceback") /\ UNCHANGED printed
    /\ Take
    /\ UNCHANGED <<framing, peerVars, optVars, sendVars, n, msg, do_print, is_closed,
                   nchunks, has_received_data, replay_complete, p, stdout, page, late,
                   asked, serverVars>>

\* close-session is sent unless the server has closed.
CloseSession ==
    /\ \/ pc = "loop" /\ ~GoesOn /\ ~(kind = "schema" /\ style = "default")
       \/ pc = "close"
    /\ IF is_closed
         THEN Exit("ok") /\ UNCHANGED <<asked, closing>>
         ELSE /\ pc' = "bye" /\ UNCHANGED exit
              /\ Arrives(ReqSize)
              /\ closing' = IF closing = 0 THEN Asked + 1 ELSE closing
    /\ UNCHANGED <<framing, peerVars, recvVars, optVars, sendVars, loopVars, late,
                   peer11, answered, sent, streamVars>>

ReadClose ==
    /\ pc = "bye"
    /\ \/ RecvMsgMore /\ UNCHANGED <<pc, exit>>
       \/ RecvMsgDone /\ Exit("ok")
    /\ Take
    /\ UNCHANGED <<framing, peerVars, optVars, sendVars, loopVars, late, asked, serverVars>>

----------------------------------------------------------------------------
(* The server (external).                                                   *)

\* It sends a message, in the framing agreed on.
SrvSend(m) ==
    /\ sent' = Append(sent, m)
    /\ IF framing = 0
         THEN wire' = wire \o Frame10(m)
         ELSE \E k \in 1..Len(m) : wire' = wire \o Frame11(m, k)
    /\ UNCHANGED <<framing, recvVars, optVars, pc, sendVars, loopVars, exit, late, asked,
                   peer11, closing, streamVars>>

\* It answers a request, and closes the session if it was told to.
SrvReply ==
    /\ ~closed /\ Len(sent) > 0 /\ Asked > answered
    /\ Len(sent) <= Len(Replies)
    /\ SrvSend(Replies[Len(sent)]) \/ (kind = "schema" /\ answered = 0 /\ SrvSend(Refusal))
    /\ answered' = answered + 1
    /\ closed' = (closing = answered + 1)

\* Notifications: the replay is complete; and, after the stop time, all is.
SrvNotify ==
    /\ ~closed /\ kind = "subscribe" /\ answered \in {1, 2}
    /\ Len(sent) = 2 \/ (Len(sent) = 3 /\ late)
    /\ SrvSend(Replies[Len(sent)])
    /\ UNCHANGED <<answered, closed>>

\* It fails, or sends what is no frame and closes.
SrvFails ==
    /\ Faults /\ ~closed /\ Len(sent) > 0
    /\ closed' = TRUE
    /\ \/ \E k \in 0..Len(wire) : wire' = SubSeq(wire, 1, k)
       \/ framing = 1 /\ \E junk \in NoFrames : wire' = wire \o junk
    /\ UNCHANGED <<framing, recvVars, optVars, pc, sendVars, loopVars, exit, late, asked,
                   serverVars, streamVars>>

----------------------------------------------------------------------------

\* time.time() reaches the stop time.
Clock ==
    /\ stop /\ ~late /\ late' = TRUE
    /\ UNCHANGED <<framing, peerVars, recvVars, optVars, pc, sendVars, loopVars, exit,
                   asked, serverVars, streamVars>>

Receiving == pc \in {"hello", "reply", "schema", "bye"} /\ ~(pc = "reply" /\ kind = "hello")

\* recv_chunk at work; a timeout is set in the reply loop only.
ConsoleRecv ==
    /\ Receiving
    /\ RecvNext(style = "raw")
    /\ UNCHANGED <<optVars, pc, sendVars, loopVars, exit, late, asked, serverVars, streamVars>>

ConsoleTimeout ==
    /\ pc = "reply"
    /\ RecvTimeout
    /\ UNCHANGED <<optVars, pc, sendVars, loopVars, exit, late, asked, serverVars, streamVars>>

\* What was received ends in the middle of a character: UnicodeDecodeError.
DecodeFails ==
    /\ Receiving /\ at = "done" /\ code = -4
    /\ Exit("traceback")
    /\ Take
    /\ UNCHANGED <<framing, peerVars, optVars, sendVars, loopVars, late, asked, serverVars>>

ConsoleNext ==
    \/ Connect \/ ReadHello \/ SendBlock \/ SendDone
    \/ NextReply \/ ReplyChunk \/ ReplyComplete \/ ReplyBroken \/ ReplyHello
    \/ GetSchema \/ ReadSchema \/ CloseSession \/ ReadClose
    \/ ConsoleRecv \/ DecodeFails

Next ==
    \/ ConsoleNext \/ ConnectFails \/ ConsoleTimeout
    \/ SrvReply \/ SrvNotify \/ SrvFails \/ Clock

Spec == Init /\ [][Next]_vars

\* The console runs, the server answers what it is asked, and time goes on.
FairSpec ==
    /\ Spec
    /\ WF_vars(ConsoleNext)
    /\ WF_vars(SrvReply) /\ WF_vars(SrvNotify) /\ WF_vars(Clock)

----------------------------------------------------------------------------
(* Properties.                                                              *)

MessageBytes == UNION {Range(m) : m \in Messages}

Bytes == MessageBytes \cup Range(Eom) \cup Range(Digits) \cup {LF, "#", "0"}

\* The variables have their types.  _send keeps back less than fits into its buffer,
\* but with NETCONF 1.1 and a data file a chunk header more for each block that was
\* read: it sends one full buffer for every call, and each call brings more than that.
TypeOK ==
    /\ framing \in {0, 1} /\ code \in -4..1 /\ at \in {"idle", "recv", "done"}
    /\ \A s \in {wire, buf_bytes, bytes, chunk, page, part} : Range(s) \subseteq Bytes
    /\ {closed, eom_found, stop, msg, do_print, is_closed, has_received_data,
        replay_complete, p, stdout, late, peer11, broken} \subseteq BOOLEAN
    /\ kind \in Kinds /\ style \in Styles
    /\ pc \in {"connect", "hello", "send", "loop", "reply", "schema", "close", "bye", "end"}
    /\ exit \in {"none", "ok", "stdout", "stderr", "traceback"}
    /\ left \in 0..Max({Commands * ReqSize, DataSize}) /\ saved \in 0..(BufSiz - 1 + Headers)
    /\ n \in -(Len(Replies) + 2)..Iter /\ nchunks \in Nat
    /\ Range(sent) \subseteq Messages
    /\ asked \in Nat /\ {answered, closing} \subseteq 0..(Len(Replies) + 1)

\* recv_chunk delivers the messages of the server as they were sent, each with
\* its end in the right place, in both framings and however the bytes arrive: it
\* implements MessageStream.  Where a piece that it is to return begins or ends in the
\* middle of a character (the five bytes that are kept may begin there, a chunk may end
\* there) the stream breaks: str_data raises an exception.  A pause of a second inside
\* a frame is not in this: bytes are lost then (BytesKept).
Stream == INSTANCE MessageStream WITH Message <- Messages

Delivers == Stream!Spec

\* A session that ends well has printed what its style promises ("pretty-print
\* one reply, skip the rest", "pretty-print the rest of the replies"), and whole:
\* the first reply, or all replies up to the one to close-session.  The style
\* plain does so if it is to print one reply only and gets it.  A get-schema in the
\* default style that is refused ends well, too, and has printed nothing.
Shown ==
    exit = "ok" /\ style # "raw" /\ ~(style = "plain" /\ is_closed) =>
        CASE kind = "hello" -> printed = <<Hello>>
          [] kind # "hello" /\ style = "default" /\ sent[2] = Refusal -> printed = <<>>
          [] kind # "hello" /\ style # "all" /\ ~(style = "default" /\ sent[2] = Refusal) -> printed = SubSeq(sent, 2, 2) /\ printed # <<>>
          [] kind # "hello" /\ style = "all" ->
               /\ printed = SubSeq(sent, 2, Len(printed) + 1)
               /\ Len(printed) >= Len(got) - (IF is_closed THEN 1 ELSE 2)

\* The console fails for a reason: the server has gone or broken the framing before
\* the reply was complete (StderrError; a traceback, if it is parsed), a character was
\* cut (traceback), or, contrary to the comment on the styles ("print one reply as raw,
\* skip the rest"), in the style plain a second reply came when the first had been
\* printed and standard output closed.  And it fails if the server has gone after a
\* piece of a reply was handed over.  It does not if that happens in the first piece,
\* which it takes for the end of the session: what is passed over is less than an end
\* mark in NETCONF 1.0, and up to a chunk in 1.1.
FailsWithCause ==
    /\ exit = "stderr" => code \in {-1, -2} \/ (style = "plain" /\ ~stdout /\ printed # <<>>)
    /\ exit = "traceback" =>
          code = -4 \/ (code \in {-1, -2} /\ (got = <<>> \/ (kind = "schema" /\ style = "default")))
    /\ exit = "ok" /\ is_closed => part = <<>> /\ (framing = 0 => Len(chunk) < Len(Eom))

\* Every session comes to an end if the server answers (close-session included):
\* all that is to be sent is sent before the console waits, and no end of a
\* message is missed.  Not so if it is the user who types the requests, or if a
\* subscription has no stop time; nor with a pause of a second inside a frame, which
\* can lose the end of a message (BytesKept).
Ends == kind # "interactive" /\ (kind = "subscribe" => stop) ~> pc = "end"

----------------------------------------------------------------------------
(* What a comment says, and the code does not keep.                         *)

\* "keep the last 5 bytes (might contain parts of the eom marker)": what has
\* been received of a message is kept until it is complete.
BytesKept ==
    /\ Len(got) <= Len(sent) /\ got = SubSeq(sent, 1, Len(got))
    /\ Len(got) < Len(sent) =>
          \E k \in 0..Len(sent[Len(got) + 1]) : part = SubSeq(sent[Len(got) + 1], 1, k)
===============================================================================

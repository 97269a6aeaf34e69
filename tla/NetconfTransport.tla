---------------------------- MODULE NetconfTransport ----------------------------
(****************************************************************************)
(* How the NETCONF console (confd-sync-py/app/netconf_console.py, class     *)
(* NetconfSSHLikeTransport) gets messages out of a byte stream.  recv_chunk *)
(* returns a piece of the message, or says that it is complete, that the    *)
(* peer has gone or that the framing is wrong.  In the framing of NETCONF   *)
(* 1.0 a message ends with the marker ]]>]]>; in that of 1.1 it is a series *)
(* of chunks with their sizes in front, and ends with LF ## LF.             *)
(*                                                                          *)
(* Bytes are one-letter strings, but u1 and u2, which are a character of    *)
(* two bytes.  _recv returns any number of the bytes that have arrived.     *)
(****************************************************************************)
EXTENDS Integers, Sequences, FiniteSetsExt

CONSTANTS
    MaxSize,   \* MAX_UINT32
    Pauses     \* where the peer may be silent for the timeout of a call:
               \* "between" frames, or "anywhere"

ASSUME PausesKnown == Pauses \in {"between", "anywhere"}

VARIABLES
    framing,     \* 0: FRAMING_1_0, 1: FRAMING_1_1
    wire,        \* bytes under way
    closed,      \* the peer has closed the connection
    buf_bytes,
    eom_found,
    at,          \* recv_chunk: "idle", "recv" (it has been called), "done"
    bytes,       \* its local variable
    code,        \* what it returns, or raises: -3, socket.timeout;
                 \* -4, UnicodeDecodeError
    chunk

recvVars == <<buf_bytes, eom_found, at, bytes, code, chunk>>

peerVars == <<wire, closed>>

LF == "lf"

TransportInit ==
    /\ framing = 0
    /\ wire = <<>> /\ closed = FALSE
    /\ buf_bytes = <<>> /\ eom_found = FALSE
    /\ at = "idle" /\ bytes = <<>> /\ code = 0 /\ chunk = <<>>

----------------------------------------------------------------------------
(* What the bytes at hand amount to: how recv_chunk goes on with them.      *)

Eom == <<"]", "]", ">", "]", "]", ">">>

From(b, i) == SubSeq(b, i, Len(b))

More(left) == [is |-> "more", left |-> left]

Error(b) == [is |-> "error", data |-> b]

Data(data, rest, eom) == [is |-> "data", data |-> data, rest |-> rest, eom |-> eom]

\* Variant: keeps one byte too few.
KeptFour == 4

\* "keep the last 5 bytes (might contain parts of the eom marker)"
Kept == Len(Eom) - 1

Framing10(b) ==
    LET found == {i \in 1..(Len(b) - 5) : SubSeq(b, i, i + 5) = Eom}
        i == CHOOSE i \in found : \A j \in found : i <= j
    IN  IF Len(b) < 6 THEN More(b)
        ELSE IF found # {} THEN Data(SubSeq(b, 1, i - 1), From(b, i + 6), TRUE)
        ELSE Data(SubSeq(b, 1, Len(b) - Kept), From(b, Len(b) - Kept + 1), FALSE)

Digits == <<"1", "2", "3", "4", "5", "6", "7", "8", "9">>

DigitOf(c) == IF c = "0" THEN 0 ELSE CHOOSE d \in 1..9 : Digits[d] = c

IsNumber(s) == s # <<>> /\ Range(s) \subseteq Range(Digits) \cup {"0"}

Number(s) ==
    LET value[k \in 0..Len(s)] == IF k = 0 THEN 0 ELSE 10 * value[k - 1] + DigitOf(s[k])
    IN  value[Len(s)]

\* A chunk, LF # size LF data with at most ten digits, or the end, LF # # LF.
Framing11(b) ==
    LET lfs == {i \in 3..Len(b) : b[i] = LF}
        lf == CHOOSE i \in lfs : \A j \in lfs : i <= j
        size == SubSeq(b, 3, lf - 1)
        sz == Number(size)
        rest == From(b, lf + 1)
    IN  IF Len(b) < 4 THEN More(b)
        ELSE IF SubSeq(b, 1, 2) # <<LF, "#">> THEN Error(b)
        ELSE IF lfs = {} THEN More(b)
        ELSE IF size = <<"#">> THEN [is |-> "eom", rest |-> rest]
        ELSE IF lf > 13 \/ ~IsNumber(size) THEN Error(b)
        ELSE IF sz \notin 1..MaxSize THEN Error(b)
        ELSE IF Len(rest) < sz THEN More(rest)
        ELSE Data(SubSeq(rest, 1, sz), From(rest, sz + 1), FALSE)

Framed(b) == IF framing = 0 THEN Framing10(b) ELSE Framing11(b)

----------------------------------------------------------------------------
(* recv_chunk.                                                              *)

\* str_data: can the bytes be decoded, or do they begin or end in a character?
Decodable(b) ==
    \A i \in DOMAIN b : /\ b[i] = "u1" => i < Len(b) /\ b[i + 1] = "u2"
                        /\ b[i] = "u2" => i > 1 /\ b[i - 1] = "u1"

Raise(c) == at' = "done" /\ code' = c /\ bytes' = <<>> /\ UNCHANGED chunk

Return(c, data) ==
    IF Decodable(data)
      THEN at' = "done" /\ code' = c /\ bytes' = <<>> /\ chunk' = data
      ELSE Raise(-4)

\* Variant: the end of a message is told again and again.
EomStays == TRUE

EomReset == FALSE

\* recv_chunk is called: either the end of a message is due, or what was left of
\* the last call is taken up again.
RecvChunk ==
    /\ at = "idle"
    /\ IF framing = 0 /\ eom_found
         THEN /\ Return(0, <<>>)
              /\ eom_found' = EomReset
              /\ UNCHANGED buf_bytes
         ELSE /\ at' = "recv" /\ bytes' = buf_bytes /\ buf_bytes' = <<>>
              /\ UNCHANGED <<eom_found, code, chunk>>
    /\ UNCHANGED <<framing, peerVars>>

Waiting == at = "recv" /\ Framed(bytes).is = "more"

\* _recv returns bytes, however many there are, and decodes them if they are traced.
Recv(trace) ==
    /\ Waiting
    /\ \E k \in 1..Len(wire) :
         /\ wire' = From(wire, k + 1)
         /\ IF trace => Decodable(SubSeq(wire, 1, k))
              THEN bytes' = bytes \o SubSeq(wire, 1, k) /\ UNCHANGED <<at, code, chunk>>
              ELSE Raise(-4)
    /\ UNCHANGED <<framing, closed, buf_bytes, eom_found>>

\* _recv returns nothing.
RecvEof ==
    /\ Waiting /\ wire = <<>> /\ closed
    /\ Return(-1, Framed(bytes).left)
    /\ UNCHANGED <<framing, peerVars, buf_bytes, eom_found>>

\* _recv raises socket.timeout: recv_chunk is left, and what it had in bytes is
\* gone.
RecvTimeout ==
    /\ Waiting /\ (wire # <<>> \/ ~closed)
    /\ Pauses = "between" => wire = <<>> /\ bytes = <<>>
    /\ Raise(-3)
    /\ UNCHANGED <<framing, peerVars, buf_bytes, eom_found>>

RecvDone ==
    /\ at = "recv" /\ ~Waiting
    /\ LET f == Framed(bytes)
       IN  CASE f.is = "data" ->
                  /\ Return(1, f.data)
                  /\ buf_bytes' = f.rest
                  /\ eom_found' = f.eom
             [] f.is = "eom" ->
                  /\ Return(0, <<>>)
                  /\ buf_bytes' = f.rest
                  /\ UNCHANGED eom_found
             [] f.is = "error" ->
                  /\ Return(-2, f.data)
                  /\ UNCHANGED <<buf_bytes, eom_found>>
    /\ UNCHANGED <<framing, peerVars>>

\* Everything recv_chunk does but raise socket.timeout.
RecvNext(trace) == RecvChunk \/ Recv(trace) \/ RecvEof \/ RecvDone

----------------------------------------------------------------------------
(* The peer (external): messages in the framing that is agreed on.          *)

Frame10(m) == m \o Eom

Digit(d) == IF d = 0 THEN "0" ELSE Digits[d]

\* A number in decimal digits.
SizeOf(n) ==
    LET size[k \in 0..n] == IF k < 10 THEN <<Digit(k)>>
                            ELSE Append(size[k \div 10], Digit(k % 10))
    IN  size[n]

\* A size is written in at most ten digits.
ASSUME MaxSizeKnown == MaxSize \in Nat \ {0} /\ Len(SizeOf(MaxSize)) <= 10

Chunk(data) == IF data = <<>> THEN <<>> ELSE <<LF, "#">> \o SizeOf(Len(data)) \o <<LF>> \o data

EndOfChunks == <<LF, "#", "#", LF>>

\* In two chunks, or one.
Frame11(m, k) == Chunk(SubSeq(m, 1, k)) \o Chunk(From(m, k + 1)) \o EndOfChunks

\* What is no frame: a chunk without data, and something else.
NoFrames == {<<LF, "#", "0", LF>>, <<"#", LF, "#", LF>>}
===============================================================================

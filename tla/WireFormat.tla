----------------------------- MODULE WireFormat -----------------------------
(***************************************************************************)
(* The frames of protocol.go.  A stream is a sequence of numbers: one for  *)
(* each byte of source and payload, and one for each field of the header,  *)
(* whose width only matters in that each field can hold what Encode puts   *)
(* there (both lengths are checked first).                                 *)
(***************************************************************************)
EXTENDS Integers, SequencesExt

CONSTANTS MaxSourceSize, MaxPayloadSize   \* 1024 and 10 MB in the program

ASSUME WireFormatAssumption == {MaxSourceSize, MaxPayloadSize} \subseteq Nat

LegacyProtocolVersion == 1
ProtocolVersion == 2

TypeText      == 1
TypeImage     == 2
TypePing      == 3
TypePong      == 4
TypeFileOffer == 5
TypeFileFetch == 6
MessageTypes  == TypeText .. TypeFileFetch

\* Encode refuses what Decode would.
Encodable(msg) == Len(msg.source) <= MaxSourceSize /\ Len(msg.payload) <= MaxPayloadSize

Encode(msg) ==
  <<ProtocolVersion, msg.type, msg.content, msg.ts, Len(msg.source), Len(msg.payload)>>
    \o msg.source \o msg.payload

\* What versions before 2 sent: neither source nor timestamp.
EncodeLegacy(msg) == <<LegacyProtocolVersion, msg.type, msg.content, Len(msg.payload)>> \o msg.payload

HeaderSize(version) == IF version = LegacyProtocolVersion THEN 4 ELSE 6

Incomplete == [result |-> "incomplete"]
Refused    == [result |-> "refused"]

\* Wrong: the source of a version 2 frame is not skipped.
DecodeNoSource(s) ==
  IF Len(s) < 2 THEN Incomplete
  ELSE IF s[1] \notin {LegacyProtocolVersion, ProtocolVersion} \/ s[2] \notin MessageTypes THEN Refused
  ELSE IF Len(s) < HeaderSize(s[1]) THEN Incomplete
  ELSE LET head == HeaderSize(s[1])
           size == head + s[head]
       IN  IF s[head] > MaxPayloadSize THEN Refused
           ELSE IF Len(s) < size THEN Incomplete
           ELSE [result |-> "message",
                 msg |-> [version |-> s[1], type |-> s[2], content |-> s[3],
                          source |-> << >>, ts |-> IF s[1] = ProtocolVersion THEN s[4] ELSE 0,
                          payload |-> SubSeq(s, head + 1, size)],
                 rest |-> SubSeq(s, size + 1, Len(s))]

\* Decode of a stream that has brought s so far: a message and what follows it,
\* refused, or incomplete, for which it waits or, at the end of the stream, fails.
Decode(s) ==
  IF Len(s) < 2 THEN Incomplete
  ELSE IF s[1] \notin {LegacyProtocolVersion, ProtocolVersion} \/ s[2] \notin MessageTypes THEN Refused
  ELSE IF Len(s) < HeaderSize(s[1]) THEN Incomplete
  ELSE LET legacy    == s[1] = LegacyProtocolVersion
           head      == HeaderSize(s[1])
           sourceLen == IF legacy THEN 0 ELSE s[5]
           size      == head + sourceLen + s[head]
       IN  IF s[head] > MaxPayloadSize \/ sourceLen > MaxSourceSize THEN Refused
           ELSE IF Len(s) < size THEN Incomplete
           ELSE [result |-> "message",
                 msg |-> [version |-> s[1], type |-> s[2], content |-> s[3],
                          source  |-> SubSeq(s, head + 1, head + sourceLen),
                          ts      |-> IF legacy THEN 0 ELSE s[4],
                          payload |-> SubSeq(s, head + sourceLen + 1, size)],
                 rest |-> SubSeq(s, size + 1, Len(s))]
=============================================================================

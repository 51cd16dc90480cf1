-------------------------- MODULE RaftMessageCodec --------------------------
(***************************************************************************)
(* RaftMessageImpl::EncodeMessage and DecodeMessage, and what of a frame    *)
(* SocketImpl::Send puts on the wire.                                       *)
(*                                                                         *)
(* A uint32_t is the sequence of its four bytes, the highest first.  A frame *)
(* is its first 16 bytes, indexed from 0 as in the code; what EncodeMessage  *)
(* leaves unwritten is what malloc returned.                                *)
(***************************************************************************)
EXTENDS Integers, Sequences

CONSTANTS
    U32,          \* the values of term, nodeId and contentLength looked at
    Ids,          \* the values of candidateId looked at, as uint32_t
    Unwritten     \* what a byte that nobody wrote may hold

ASSUME FieldAssumption == /\ U32 \subseteq [1..4 -> 0..255]
                          /\ Ids \subseteq [1..4 -> 0..255]
                          /\ Unwritten \subseteq 0..255

MAGIC_NUMBER == 126

Header == 0..15

\* What server code hands to EncodeMessage: DecodeMessage's own type Unknown
\* and LogEntry are never sent.
Messages ==
    [type : {"RequestVote"}, candidateId : Ids, term : U32, nodeId : U32,
     contentLength : U32]
    \cup
    [type : {"RequestVoteResults"}, voteGranted : BOOLEAN, term : U32,
     nodeId : U32, contentLength : U32]
    \cup
    [type : {"HeartBeat"}, term : U32, nodeId : U32, contentLength : U32]

VARIABLES
    message,      \* the message handed to EncodeMessage
    frame,        \* the buffer EncodeMessage returns
    wire,         \* the bytes Send puts on the connection
    decoded       \* what DecodeMessage makes of the whole frame

vars == <<message, frame, wire, decoded>>

-----------------------------------------------------------------------------
\* The type byte.  Both vote messages write a 1, the others write none.
TypeByte(m) == IF m.type \in {"RequestVote", "RequestVoteResults"} THEN {1} ELSE Unwritten

\* Bytes 2 and 3: the low half of candidateId, or voteGranted.
SecondField(m) ==
    CASE m.type = "RequestVote" -> {<<m.candidateId[3], m.candidateId[4]>>}
      [] m.type = "RequestVoteResults" -> {<<0, IF m.voteGranted THEN 1 ELSE 0>>}
      [] OTHER -> Unwritten \X Unwritten

\* Bytes 4 to 7: a heartbeat has no term.
TermField(m) ==
    IF m.type = "HeartBeat" THEN [1..4 -> Unwritten] ELSE {m.term}

\* EncodeMessage: the frames it may return, one for each content of the memory.
EncodeMessage(m) ==
    {[i \in Header |->
        CASE i = 0 -> MAGIC_NUMBER
          [] i = 1 -> type
          [] i \in 2..3 -> second[i - 1]
          [] i \in 4..7 -> term[i - 3]
          [] i \in 8..11 -> m.nodeId[i - 7]
          [] OTHER -> m.contentLength[i - 11]] :
     type \in TypeByte(m), second \in SecondField(m), term \in TermField(m)}

\* Bug: the lowest byte first.
ReadMemU32_LittleEndian(f, offset) ==
    [k \in 1..4 |-> IF \E j \in 1..(k - 1) : f[offset + j - 1] >= 128
                    THEN 255 ELSE f[offset + 4 - k]]

\* Common::ReadMem gives a char, which is signed: a byte from 128 on sets every
\* bit above it when it is widened and or-ed.
ReadMemU32(f, offset) ==
    [k \in 1..4 |-> IF \E j \in (k + 1)..4 : f[offset + j - 1] >= 128
                    THEN 255 ELSE f[offset + k - 1]]

\* Bytes 2 and 3 as a uint32_t.
ReadMemU16(f) ==
    LET sign == f[2] >= 128 \/ f[3] >= 128
    IN  <<IF sign THEN 255 ELSE 0, IF sign THEN 255 ELSE 0,
          IF f[3] >= 128 THEN 255 ELSE f[2], f[3]>>

Error == [type |-> "logic_error"]

DecodeMessage(f) ==
    LET common == [nodeId |-> ReadMemU32(f, 8), contentLength |-> ReadMemU32(f, 12)]
        term == ReadMemU32(f, 4)
    IN  CASE f[0] # MAGIC_NUMBER -> Error
          [] f[0] = MAGIC_NUMBER /\ f[1] = 1 ->
                [type |-> "RequestVote", candidateId |-> ReadMemU16(f), term |-> term,
                 nodeId |-> common.nodeId, contentLength |-> common.contentLength]
          [] f[0] = MAGIC_NUMBER /\ f[1] = 2 ->
                [type |-> "RequestVoteResults",
                 voteGranted |-> ReadMemU16(f) # <<0, 0, 0, 0>>, term |-> term,
                 nodeId |-> common.nodeId, contentLength |-> common.contentLength]
          [] OTHER ->
                [type |-> CASE f[1] = 3 -> "HeartBeat"
                            [] f[1] = 4 -> "LogEntry"
                            [] OTHER -> "Unknown",
                 nodeId |-> common.nodeId, contentLength |-> common.contentLength]

\* Send with the length of the header for strlen(buf).
Sent_WholeHeader(f) == [i \in 1..16 |-> f[i - 1]]

\* Send hands strlen(buf) bytes to send.
Sent(f) ==
    LET zeros == {i \in Header : f[i] = 0}
        length == IF zeros = {} THEN 16
                  ELSE CHOOSE i \in zeros : \A j \in zeros : i <= j
    IN  [i \in 1..length |-> f[i - 1]]

-----------------------------------------------------------------------------
None == [type |-> "None"]

Init ==
    /\ message = None
    /\ frame = <<>>
    /\ wire = <<>>
    /\ decoded = None

\* SendMessageImpl: encode, look the end point up, send.
Encode ==
    /\ message = None
    /\ \E m \in Messages : \E f \in EncodeMessage(m) :
           /\ message' = m
           /\ frame' = f
           /\ wire' = Sent(f)
    /\ UNCHANGED decoded

\* Handler on a buffer that holds the whole frame.
Decode ==
    /\ message # None
    /\ decoded = None
    /\ decoded' = DecodeMessage(frame)
    /\ UNCHANGED <<message, frame, wire>>

Next == Encode \/ Decode

Spec == Init /\ [][Next]_vars

-----------------------------------------------------------------------------
Extended(read, written) ==
    \A k \in 1..4 :
        \/ read[k] = written[k]
        \/ read[k] = 255 /\ \E j \in (k + 1)..4 : written[j] >= 128

\* Where a number of any frame comes out wrong, the wrong bytes are 255, and a
\* byte of 128 or more stands below them: sign extension is all that goes wrong.
\* A vote result comes out too, but as the request of candidate 0 or 1.
RightOrSignExtended ==
    (decoded # None /\ decoded # Error) =>
        /\ Extended(decoded.nodeId, message.nodeId)
        /\ Extended(decoded.contentLength, message.contentLength)
        /\ message.type # "HeartBeat" =>
              /\ decoded.type = "RequestVote"
              /\ Extended(decoded.term, message.term)
              /\ \E field \in SecondField(message) :
                     Extended(decoded.candidateId, <<0, 0>> \o field)

\* Send stops at the first zero byte.  A term below 2^24 begins with one, so no
\* vote message ever carries its term or its nodeId to the other end, and
\* SendMessageImpl's contentLength of 0 ends a heartbeat before its length.
WireStopsEarly ==
    message # None =>
        /\ (message.type # "HeartBeat" /\ message.term[1] = 0) => Len(wire) <= 4
        /\ message.contentLength = <<0, 0, 0, 0>> => Len(wire) <= 12

\* What should_encode_decode_raft_message asserts of its nodeId.
NodeIdSurvives == decoded # None => decoded.nodeId = message.nodeId
=============================================================================

---------------------------- MODULE CodecProofs ----------------------------
(***************************************************************************)
(* Of a Raft message: what goes wrong in it, and no more, for every value of  *)
(* its fields and whatever lay in the memory that EncodeMessage leaves        *)
(* unwritten.  Of JSON: which texts are taken for numbers, and for which,      *)
(* however long they are and however wide an int is; and that the text of a    *)
(* value is read as that value, however large it is.                          *)
(***************************************************************************)
EXTENDS RaftMessageCodec, JsonTexts, SequenceTheorems, WellFoundedInduction, TLAPS

-----------------------------------------------------------------------------
(* Raft messages. *)

\* Either nothing was handed over, or the frame and the bytes sent are those of a
\* message, and what was decoded was decoded from that frame.
OfOneMessage ==
    \/ message = None /\ decoded = None
    \/ /\ message \in Messages
       /\ frame \in EncodeMessage(message)
       /\ wire = Sent(frame)
       /\ decoded \in {None, DecodeMessage(frame)}

LEMMA AlwaysOfOneMessage == Spec => []OfOneMessage
<1>1. Init => OfOneMessage
  BY DEF Init, OfOneMessage
<1>2. OfOneMessage /\ [Next]_vars => OfOneMessage'
  <2> SUFFICES ASSUME OfOneMessage, [Next]_vars PROVE OfOneMessage'
    OBVIOUS
  <2>1. CASE Encode
    <3>1. None \notin Messages
      BY DEF None, Messages
    <3> QED BY <2>1, <3>1 DEF OfOneMessage, Encode
  <2>2. CASE Decode
    BY <2>2 DEF OfOneMessage, Decode
  <2>3. CASE UNCHANGED vars
    BY <2>3 DEF OfOneMessage, vars
  <2> QED BY <2>1, <2>2, <2>3 DEF Next
<1> QED BY <1>1, <1>2, PTL DEF Spec

\* What the frame of a message holds.
LEMMA FrameOf ==
    ASSUME NEW m \in Messages, NEW f \in EncodeMessage(m)
    PROVE  /\ f[0] = MAGIC_NUMBER
           /\ m.type # "HeartBeat" => f[1] = 1 /\ \A k \in 1..4 : f[k + 3] = m.term[k]
           /\ \E second \in SecondField(m) : f[2] = second[1] /\ f[3] = second[2]
           /\ \A k \in 1..4 : f[k + 7] = m.nodeId[k] /\ f[k + 11] = m.contentLength[k]
<1>1. PICK type \in TypeByte(m), second \in SecondField(m), term \in TermField(m) :
          f = [i \in Header |->
                  CASE i = 0 -> MAGIC_NUMBER
                    [] i = 1 -> type
                    [] i \in 2..3 -> second[i - 1]
                    [] i \in 4..7 -> term[i - 3]
                    [] i \in 8..11 -> m.nodeId[i - 7]
                    [] OTHER -> m.contentLength[i - 11]]
  BY DEF EncodeMessage
<1>2. f[0] = MAGIC_NUMBER /\ f[1] = type /\ f[2] = second[1] /\ f[3] = second[2]
  BY <1>1 DEF Header
<1>3. \A k \in 1..4 : /\ f[k + 3] = term[k]
                      /\ f[k + 7] = m.nodeId[k]
                      /\ f[k + 11] = m.contentLength[k]
  BY <1>1 DEF Header
<1>4. m.type # "HeartBeat" => type = 1 /\ term = m.term
  BY DEF Messages, TypeByte, TermField
<1> QED BY <1>2, <1>3, <1>4

\* What reading a number does to its bytes: those above a byte of 128 or more
\* become 255.
LEMMA ReadIsExtended ==
    ASSUME NEW f, NEW offset \in Nat, NEW written,
           \A k \in 1..4 : f[offset + k - 1] = written[k]
    PROVE  Extended(ReadMemU32(f, offset), written)
<1> SUFFICES ASSUME NEW k \in 1..4
             PROVE  \/ ReadMemU32(f, offset)[k] = written[k]
                    \/ /\ ReadMemU32(f, offset)[k] = 255
                       /\ \E j \in (k + 1)..4 : written[j] >= 128
  BY DEF Extended
<1>1. ReadMemU32(f, offset)[k] =
          IF \E j \in (k + 1)..4 : f[offset + j - 1] >= 128 THEN 255
          ELSE f[offset + k - 1]
  BY DEF ReadMemU32
<1>2. \A j \in (k + 1)..4 : j \in 1..4 /\ f[offset + j - 1] = written[j]
  OBVIOUS
<1>3. CASE \E j \in (k + 1)..4 : f[offset + j - 1] >= 128
  BY <1>1, <1>2, <1>3
<1>4. CASE ~ \E j \in (k + 1)..4 : f[offset + j - 1] >= 128
  BY <1>1, <1>4
<1> QED BY <1>3, <1>4

\* Bytes 2 and 3, widened the same way.
LEMMA ReadU16IsExtended ==
    ASSUME NEW f, NEW second, second = <<f[2], f[3]>>,
           f[2] \in 0..255, f[3] \in 0..255
    PROVE  Extended(ReadMemU16(f), <<0, 0>> \o second)
<1> DEFINE written == <<0, 0>> \o second
<1>1. written[1] = 0 /\ written[2] = 0 /\ written[3] = f[2] /\ written[4] = f[3]
  <2>1. <<0, 0>> \in Seq(0..255) /\ second \in Seq(0..255) /\ Len(<<0, 0>>) = 2 /\ Len(second) = 2
    OBVIOUS
  <2> QED BY <2>1
<1> DEFINE sign == f[2] >= 128 \/ f[3] >= 128
<1>2. ReadMemU16(f) = <<IF sign THEN 255 ELSE 0, IF sign THEN 255 ELSE 0,
                        IF f[3] >= 128 THEN 255 ELSE f[2], f[3]>>
  BY DEF ReadMemU16
<1>3. Extended(ReadMemU16(f), <<0, 0, f[2], f[3]>>)
  <2>1. CASE f[3] >= 128
    BY <2>1, <1>2 DEF Extended
  <2>2. CASE ~(f[3] >= 128) /\ f[2] >= 128
    BY <2>2, <1>2 DEF Extended
  <2>3. CASE ~(f[3] >= 128) /\ ~(f[2] >= 128)
    BY <2>3, <1>2 DEF Extended
  <2> QED BY <2>1, <2>2, <2>3
<1> QED BY <1>1, <1>3 DEF Extended

\* Every number that is decoded comes from the frame of the message.
LEMMA DecodedIsExtended ==
    OfOneMessage => RightOrSignExtended
<1> SUFFICES ASSUME OfOneMessage, decoded # None, decoded # Error
             PROVE  /\ Extended(decoded.nodeId, message.nodeId)
                    /\ Extended(decoded.contentLength, message.contentLength)
                    /\ message.type # "HeartBeat" =>
                          /\ decoded.type = "RequestVote"
                          /\ Extended(decoded.term, message.term)
                          /\ \E field \in SecondField(message) :
                                 Extended(decoded.candidateId, <<0, 0>> \o field)
  BY DEF RightOrSignExtended
<1>1. message \in Messages /\ frame \in EncodeMessage(message) /\ decoded = DecodeMessage(frame)
  BY DEF OfOneMessage
<1>2. /\ frame[0] = MAGIC_NUMBER
      /\ message.type # "HeartBeat" => frame[1] = 1 /\ \A k \in 1..4 : frame[k + 3] = message.term[k]
      /\ \E second \in SecondField(message) : frame[2] = second[1] /\ frame[3] = second[2]
      /\ \A k \in 1..4 : frame[k + 7] = message.nodeId[k] /\ frame[k + 11] = message.contentLength[k]
  BY <1>1, FrameOf
<1>3. /\ Extended(ReadMemU32(frame, 8), message.nodeId)
      /\ Extended(ReadMemU32(frame, 12), message.contentLength)
  BY <1>2, ReadIsExtended
<1>4. decoded.nodeId = ReadMemU32(frame, 8) /\ decoded.contentLength = ReadMemU32(frame, 12)
  BY <1>1, <1>2 DEF DecodeMessage
<1>5. ASSUME message.type # "HeartBeat"
      PROVE  /\ decoded.type = "RequestVote"
             /\ Extended(decoded.term, message.term)
             /\ \E field \in SecondField(message) :
                    Extended(decoded.candidateId, <<0, 0>> \o field)
  <2>1. /\ decoded.type = "RequestVote"
        /\ decoded.term = ReadMemU32(frame, 4)
        /\ decoded.candidateId = ReadMemU16(frame)
    BY <1>1, <1>2, <1>5 DEF DecodeMessage
  <2>2. Extended(ReadMemU32(frame, 4), message.term)
    BY <1>2, <1>5, ReadIsExtended
  <2>3. PICK second \in SecondField(message) : frame[2] = second[1] /\ frame[3] = second[2]
    BY <1>2
  <2>4. second = <<second[1], second[2]>> /\ second[1] \in 0..255 /\ second[2] \in 0..255
    BY <1>1, <1>5, <2>3, FieldAssumption DEF SecondField, Messages
  <2>5. Extended(ReadMemU16(frame), <<0, 0>> \o second)
    BY <2>3, <2>4, ReadU16IsExtended
  <2> QED BY <2>1, <2>2, <2>5
<1> QED BY <1>3, <1>4, <1>5

\* The first zero byte ends what is sent.
LEMMA SentUpToZero ==
    ASSUME NEW f, NEW n \in Header, f[n] = 0
    PROVE  Len(Sent(f)) <= n
<1> DEFINE zeros == {i \in Header : f[i] = 0}
           least == CHOOSE i \in zeros : \A j \in zeros : i <= j
<1>1. \E i \in zeros : \A j \in zeros : i <= j
  <2>1. n \in zeros /\ zeros \subseteq 0..15
    BY DEF Header
  <2> HIDE DEF zeros
  <2>2. \/ 0 \in zeros \/ 1 \in zeros \/ 2 \in zeros \/ 3 \in zeros
        \/ 4 \in zeros \/ 5 \in zeros \/ 6 \in zeros \/ 7 \in zeros
        \/ 8 \in zeros \/ 9 \in zeros \/ 10 \in zeros \/ 11 \in zeros
        \/ 12 \in zeros \/ 13 \in zeros \/ 14 \in zeros \/ 15 \in zeros
    BY <2>1
  <2> QED BY <2>1, <2>2
<1>2. least \in zeros /\ least <= n
  BY <1>1
<1>3. Sent(f) = [i \in 1..least |-> f[i - 1]]
  BY <1>1 DEF Sent
<1>4. least \in Nat
  BY <1>2 DEF Header
<1> HIDE DEF least
<1>5. Len(Sent(f)) = least
  BY <1>3, <1>4
<1> QED BY <1>2, <1>5

\* Nothing but sign extension goes wrong in a number, whatever the fields are: the
\* bytes RaftMessageImpl::DecodeMessage gets wrong are 255, over a byte from 128 on.
THEOREM NumbersRightOrSignExtended == Spec => []RightOrSignExtended
BY AlwaysOfOneMessage, DecodedIsExtended, PTL

LEMMA ZeroEndsWire ==
    OfOneMessage => WireStopsEarly
<1> SUFFICES ASSUME OfOneMessage, message # None
             PROVE  /\ (message.type # "HeartBeat" /\ message.term[1] = 0) => Len(wire) <= 4
                    /\ message.contentLength = <<0, 0, 0, 0>> => Len(wire) <= 12
  BY DEF WireStopsEarly
<1>1. message \in Messages /\ frame \in EncodeMessage(message) /\ wire = Sent(frame)
  BY DEF OfOneMessage
<1>2. /\ message.type # "HeartBeat" => frame[4] = message.term[1]
      /\ frame[12] = message.contentLength[1]
  <2>1. 1 \in 1..4
    OBVIOUS
  <2> QED BY <1>1, <2>1, FrameOf
<1>3. ASSUME NEW n \in {4, 12}, frame[n] = 0 PROVE Len(wire) <= n
  BY <1>1, <1>3, SentUpToZero DEF Header
<1> QED BY <1>2, <1>3

\* strlen in SocketImpl::Send cuts every vote of a term below 2^24 at its term, and
\* every heartbeat without content at its length, whatever the other fields are and
\* whatever lay in the bytes that were not written.
THEOREM SendStopsEarly == Spec => []WireStopsEarly
BY AlwaysOfOneMessage, ZeroEndsWire, PTL

-----------------------------------------------------------------------------
(* Induction, over sets of numbers. *)

\* A set of numbers that is not empty has a least one.
LEMMA LeastNumber ==
    ASSUME NEW S \in SUBSET Nat, S # {}
    PROVE  \E n \in S : \A m \in S : n <= m
<1> DEFINE R == OpToRel(<, Nat)
           Pairs == Nat \X Nat
<1>1. IsWellFoundedOn(R, Nat)
  BY NatLessThanWellFounded
<1>2. R = {ss \in Pairs : ss[1] < ss[2]}
  BY DEF OpToRel
<1> HIDE DEF R
<1>3. PICK x \in S : \A y \in S : ~ (<<y, x>> \in R)
  BY <1>1, WFMin
<1>4. ASSUME NEW y \in S PROVE ~(y < x)
  <2>1. <<y, x>> \in Pairs /\ <<y, x>>[1] = y /\ <<y, x>>[2] = x
    OBVIOUS
  <2> HIDE DEF Pairs
  <2> SUFFICES ASSUME y < x PROVE <<y, x>> \in R
    BY <1>3
  <2>2. <<y, x>>[1] < <<y, x>>[2]
    BY <2>1
  <2> QED BY <2>1, <2>2, <1>2, Zenon
<1>5. \A y \in S : x <= y
  BY <1>4
<1> QED BY <1>5

\* What holds of 0, and of n + 1 when it holds of n, holds of all numbers up to k.
LEMMA Induction ==
    ASSUME NEW k \in Nat, NEW S, 0 \in S, \A n \in 0..(k - 1) : n \in S => n + 1 \in S
    PROVE  0..k \subseteq S
<1> SUFFICES ASSUME (0..k) \ S # {} PROVE FALSE
  OBVIOUS
<1>1. (0..k) \ S \in SUBSET Nat
  OBVIOUS
<1>2. PICK n \in (0..k) \ S : \A m \in (0..k) \ S : n <= m
  BY <1>1, LeastNumber
<1>3. n \in 0..k /\ n \notin S
  BY <1>2
<1>4. n # 0
  BY <1>3, Zenon
<1>5. n - 1 \in 0..(k - 1) /\ n - 1 \in 0..k /\ (n - 1) + 1 = n /\ ~(n <= n - 1)
  BY <1>3, <1>4
<1>6. n - 1 \in S
  <2> SUFFICES ASSUME n - 1 \notin S PROVE FALSE
    OBVIOUS
  <2>1. n - 1 \in (0..k) \ S
    BY <1>5
  <2> QED BY <1>2, <1>5, <2>1
<1>7. n \in S
  BY <1>5, <1>6
<1> QED BY <1>3, <1>7

-----------------------------------------------------------------------------
(* The loops over a text, one step for each character. *)

StepOf(loop, now, ch) ==
    CASE loop = "integer" -> IntegerStep(now, ch)
      [] loop = "float" -> FloatStep(now, ch)
      [] loop = "decimal" -> now * 10 + DigitOf(ch)
      [] loop = "unescape" -> UnEscapeStep(now, ch)
      [] loop = "scan" -> ScanStep(now, ch)
      [] loop = "join" -> now \o ch

\* The first k steps.
AreSteps(loop, base, s, k, after) ==
    after = [i \in 0..k |-> IF i = 0 THEN base ELSE StepOf(loop, after[i - 1], s[i])]

LEMMA StepsExist ==
    ASSUME NEW loop, NEW base, NEW s, NEW k \in Nat
    PROVE  \E after : AreSteps(loop, base, s, k, after)
<1> DEFINE S == {n \in Nat : \E after : AreSteps(loop, base, s, n, after)}
<1>1. 0 \in S
  <2>1. AreSteps(loop, base, s, 0, [i \in 0..0 |-> base])
    BY DEF AreSteps
  <2> QED BY <2>1
<1>2. ASSUME NEW n \in 0..(k - 1), n \in S PROVE n + 1 \in S
  <2>1. PICK after : AreSteps(loop, base, s, n, after)
    BY <1>2
  <2>2. after = [i \in 0..n |-> IF i = 0 THEN base ELSE StepOf(loop, after[i - 1], s[i])]
    BY <2>1 DEF AreSteps
  <2> DEFINE more == [i \in 0..(n + 1) |-> IF i <= n THEN after[i] ELSE StepOf(loop, after[n], s[n + 1])]
  <2>3. \A i \in 0..(n + 1) : more[i] = IF i = 0 THEN base ELSE StepOf(loop, more[i - 1], s[i])
    <3> TAKE i \in 0..(n + 1)
    <3>1. CASE i = 0
      BY <3>1, <2>2
    <3>2. CASE i # 0 /\ i <= n
      BY <3>2, <2>2
    <3>3. CASE i = n + 1
      BY <3>3
    <3> QED BY <3>1, <3>2, <3>3
  <2>4. more = [i \in 0..(n + 1) |-> IF i = 0 THEN base ELSE StepOf(loop, more[i - 1], s[i])]
    BY <2>3
  <2> HIDE DEF more
  <2>5. AreSteps(loop, base, s, n + 1, more)
    BY <2>4 DEF AreSteps
  <2> QED BY <2>5
<1> HIDE DEF S
<1>3. k \in S
  BY <1>1, <1>2, Induction
<1> QED BY <1>3 DEF S

\* after[n] is what the first n steps give.
Follows(loop, base, s, after) ==
    /\ after[0] = base
    /\ \A n \in 0..(Len(s) - 1) : after[n + 1] = StepOf(loop, after[n], s[n + 1])

LEMMA StepsFollow ==
    ASSUME NEW loop, NEW base, NEW s, Len(s) \in Nat, NEW after,
           AreSteps(loop, base, s, Len(s), after)
    PROVE  Follows(loop, base, s, after)
<1>1. after = [i \in 0..Len(s) |-> IF i = 0 THEN base ELSE StepOf(loop, after[i - 1], s[i])]
  BY DEF AreSteps
<1>2. after[0] = base
  BY <1>1
<1>3. ASSUME NEW n \in 0..(Len(s) - 1) PROVE after[n + 1] = StepOf(loop, after[n], s[n + 1])
  <2>1. n + 1 \in 0..Len(s) /\ n + 1 # 0 /\ (n + 1) - 1 = n
    OBVIOUS
  <2> QED BY <1>1, <2>1
<1> QED BY <1>2, <1>3 DEF Follows

\* As Fold is written.
AreIntegerSteps(base, s, after) ==
    after = [i \in 0..Len(s) |->
                IF i = 0 THEN base
                ELSE CHOOSE next \in {IntegerStep(now, s[i]) : now \in {after[i - 1]}} : TRUE]

AreFloatSteps(base, s, after) ==
    after = [i \in 0..Len(s) |->
                IF i = 0 THEN base
                ELSE CHOOSE next \in {FloatStep(now, s[i]) : now \in {after[i - 1]}} : TRUE]

LEMMA ChosenOfOne == \A x : (CHOOSE y \in {x} : TRUE) = x
OBVIOUS

LEMMA IntegerStepIsChosen ==
    ASSUME NEW now, NEW ch
    PROVE  (CHOOSE next \in {IntegerStep(p, ch) : p \in {now}} : TRUE) = StepOf("integer", now, ch)
<1>1. {IntegerStep(p, ch) : p \in {now}} = {StepOf("integer", now, ch)}
  BY DEF StepOf
<1> QED BY <1>1, ChosenOfOne

LEMMA FloatStepIsChosen ==
    ASSUME NEW now, NEW ch
    PROVE  (CHOOSE next \in {FloatStep(p, ch) : p \in {now}} : TRUE) = StepOf("float", now, ch)
<1>1. {FloatStep(p, ch) : p \in {now}} = {StepOf("float", now, ch)}
  BY DEF StepOf
<1> QED BY <1>1, ChosenOfOne

LEMMA IntegerFold ==
    ASSUME NEW base, NEW s, Len(s) \in Nat
    PROVE  \E after : Follows("integer", base, s, after) /\ Fold(IntegerStep, base, s) = after[Len(s)]
<1> DEFINE after == CHOOSE after : AreIntegerSteps(base, s, after)
<1>1. Fold(IntegerStep, base, s) = after[Len(s)]
  BY DEF Fold, AreIntegerSteps
<1>2. ASSUME NEW f PROVE AreIntegerSteps(base, s, f) <=> AreSteps("integer", base, s, Len(s), f)
  <2>1. \A i \in 0..Len(s) :
            (IF i = 0 THEN base
             ELSE CHOOSE next \in {IntegerStep(now, s[i]) : now \in {f[i - 1]}} : TRUE)
                = (IF i = 0 THEN base ELSE StepOf("integer", f[i - 1], s[i]))
    BY IntegerStepIsChosen
  <2> QED BY <2>1 DEF AreIntegerSteps, AreSteps
<1>3. AreIntegerSteps(base, s, after)
  BY <1>2, StepsExist
<1> HIDE DEF after
<1> QED BY <1>1, <1>2, <1>3, StepsFollow

LEMMA FloatFold ==
    ASSUME NEW base, NEW s, Len(s) \in Nat
    PROVE  \E after : Follows("float", base, s, after) /\ Fold(FloatStep, base, s) = after[Len(s)]
<1> DEFINE after == CHOOSE after : AreFloatSteps(base, s, after)
<1>1. Fold(FloatStep, base, s) = after[Len(s)]
  BY DEF Fold, AreFloatSteps
<1>2. ASSUME NEW f PROVE AreFloatSteps(base, s, f) <=> AreSteps("float", base, s, Len(s), f)
  <2>1. \A i \in 0..Len(s) :
            (IF i = 0 THEN base
             ELSE CHOOSE next \in {FloatStep(now, s[i]) : now \in {f[i - 1]}} : TRUE)
                = (IF i = 0 THEN base ELSE StepOf("float", f[i - 1], s[i]))
    BY FloatStepIsChosen
  <2> QED BY <2>1 DEF AreFloatSteps, AreSteps
<1>3. AreFloatSteps(base, s, after)
  BY <1>2, StepsExist
<1> HIDE DEF after
<1> QED BY <1>1, <1>2, <1>3, StepsFollow

LEMMA DecimalFold ==
    ASSUME NEW s, Len(s) \in Nat
    PROVE  \E first : Follows("decimal", 0, s, first) /\ Decimal(s) = first[Len(s)]
<1> DEFINE AreFirst(f) == f = [i \in 0..Len(s) |-> IF i = 0 THEN 0 ELSE f[i - 1] * 10 + DigitOf(s[i])]
           first == CHOOSE f : AreFirst(f)
<1>1. Decimal(s) = first[Len(s)]
  BY DEF Decimal
<1>2. ASSUME NEW f PROVE AreFirst(f) <=> AreSteps("decimal", 0, s, Len(s), f)
  BY DEF StepOf, AreSteps
<1>3. AreFirst(first)
  BY <1>2, StepsExist
<1> HIDE DEF first, AreFirst
<1> QED BY <1>1, <1>2, <1>3, StepsFollow

-----------------------------------------------------------------------------
(* Where in a number a text is. *)

LEMMA DigitsAre ==
    ASSUME NEW ch
    PROVE  IsDigit(ch) <=> ch \in {"0", "1", "2", "3", "4", "5", "6", "7", "8", "9"}
<1>1. DOMAIN Digits = 1..10
  BY DEF Digits
<1>2. 1..10 = {1, 2, 3, 4, 5, 6, 7, 8, 9, 10}
  OBVIOUS
<1>3. /\ Digits[1] = "0" /\ Digits[2] = "1" /\ Digits[3] = "2" /\ Digits[4] = "3"
      /\ Digits[5] = "4" /\ Digits[6] = "5" /\ Digits[7] = "6" /\ Digits[8] = "7"
      /\ Digits[9] = "8" /\ Digits[10] = "9"
  BY DEF Digits
<1>4. IsDigit(ch) <=> \E i \in DOMAIN Digits : ch = Digits[i]
  BY DEF IsDigit, ToSet
<1> QED BY <1>1, <1>2, <1>3, <1>4

LEMMA DigitRange ==
    ASSUME NEW ch, IsDigit(ch)
    PROVE  DigitOf(ch) \in 0..9 /\ (ch = "0" => DigitOf(ch) = 0)
<1>1. DOMAIN Digits = 1..10
  BY DEF Digits
<1>2. PICK i \in DOMAIN Digits : Digits[i] = ch
  BY DEF IsDigit, ToSet
<1> DEFINE k == CHOOSE j \in DOMAIN Digits : Digits[j] = ch
<1>3. k \in 1..10 /\ Digits[k] = ch
  BY <1>1, <1>2
<1>4. DigitOf(ch) = k - 1
  BY DEF DigitOf
<1> HIDE DEF k
<1>5. ASSUME ch = "0" PROVE k = 1
  <2>1. /\ Digits[2] = "1" /\ Digits[3] = "2" /\ Digits[4] = "3"
        /\ Digits[5] = "4" /\ Digits[6] = "5" /\ Digits[7] = "6" /\ Digits[8] = "7"
        /\ Digits[9] = "8" /\ Digits[10] = "9"
    BY DEF Digits
  <2>2. k \in {1, 2, 3, 4, 5, 6, 7, 8, 9, 10}
    BY <1>3
  <2> QED BY <1>3, <1>5, <2>1, <2>2
<1> QED BY <1>3, <1>4, <1>5

\* What stands before the digits of s.
SignEnd(s) == IF 1 <= Len(s) /\ s[1] = "-" THEN 1 ELSE 0

DigitsIn(s, a, b) == \A j \in (a + 1)..b : IsDigit(s[j])

\* The first n characters of s are no more than a minus, end in the digits before the
\* point, with the point, in the digits behind it, ... of a number.
InNumber(s, n) == n = 1 /\ s[1] = "-"
InWhole(s, n) == SignEnd(s) < n /\ DigitsIn(s, SignEnd(s), n)
InPoint(s, n) == n >= 1 /\ InWhole(s, n - 1) /\ s[n] = "."
InFraction(s, n) == \E u \in 0..(n - 1) : InPoint(s, u) /\ DigitsIn(s, u, n)
InExponent(s, n) == n >= 1 /\ (InWhole(s, n - 1) \/ InFraction(s, n - 1)) /\ s[n] \in {"e", "E"}
InExponentSign(s, n) == n >= 1 /\ InExponent(s, n - 1) /\ s[n] \in {"+", "-"}
InExponentDigits(s, n) ==
    \E u \in 0..(n - 1) : (InExponent(s, u) \/ InExponentSign(s, u)) /\ DigitsIn(s, u, n)

\* One character more.
LEMMA MoreDigits ==
    ASSUME NEW s, NEW a \in Nat, NEW n \in Nat, a <= n
    PROVE  /\ DigitsIn(s, a, a)
           /\ DigitsIn(s, a, n + 1) <=> DigitsIn(s, a, n) /\ IsDigit(s[n + 1])
<1>1. (a + 1)..a = {} /\ (a + 1)..(n + 1) = ((a + 1)..n) \cup {n + 1}
  OBVIOUS
<1> QED BY <1>1 DEF DigitsIn

LEMMA MoreWhole ==
    ASSUME NEW s, Len(s) \in Nat, NEW n \in 0..(Len(s) - 1)
    PROVE  /\ InNumber(s, n + 1) <=> n = 0 /\ s[n + 1] = "-"
           /\ InWhole(s, n + 1) <=>
                 IsDigit(s[n + 1]) /\ (n = 0 \/ InNumber(s, n) \/ InWhole(s, n))
           /\ InPoint(s, n + 1) <=> InWhole(s, n) /\ s[n + 1] = "."
<1>1. SignEnd(s) \in {0, 1} /\ (SignEnd(s) = 1 <=> s[1] = "-")
  BY DEF SignEnd
<1>2. InNumber(s, n + 1) <=> n = 0 /\ s[n + 1] = "-"
  BY DEF InNumber
<1>3. InWhole(s, n + 1) <=> IsDigit(s[n + 1]) /\ (n = 0 \/ InNumber(s, n) \/ InWhole(s, n))
  <2>1. CASE SignEnd(s) <= n
    <3>1. InWhole(s, n + 1) <=> DigitsIn(s, SignEnd(s), n) /\ IsDigit(s[n + 1])
      <4>1. SignEnd(s) \in Nat /\ n \in Nat /\ SignEnd(s) < n + 1
        BY <1>1, <2>1
      <4>2. DigitsIn(s, SignEnd(s), n + 1) <=> DigitsIn(s, SignEnd(s), n) /\ IsDigit(s[n + 1])
        BY <4>1, <2>1, MoreDigits
      <4> QED BY <4>1, <4>2 DEF InWhole
    <3>2. SignEnd(s) = n => DigitsIn(s, SignEnd(s), n)
      BY <1>1, MoreDigits
    <3>3. SignEnd(s) = n => n = 0 \/ InNumber(s, n)
      BY <1>1 DEF InNumber
    <3>4. n = 0 \/ InNumber(s, n) => SignEnd(s) = n
      BY <1>1, <2>1 DEF InNumber
    <3>5. SignEnd(s) # n => SignEnd(s) < n
      BY <1>1, <2>1
    <3> QED BY <3>1, <3>2, <3>3, <3>4, <3>5 DEF InWhole
  <2>2. CASE ~(SignEnd(s) <= n)
    <3>1. n = 0 /\ SignEnd(s) = 1 /\ s[n + 1] = "-"
      BY <1>1, <2>2
    <3>2. ~IsDigit(s[n + 1])
      BY <3>1, DigitsAre
    <3>3. ~InWhole(s, n + 1)
      BY <3>1 DEF InWhole
    <3> QED BY <3>2, <3>3
  <2> QED BY <2>1, <2>2
<1>4. InPoint(s, n + 1) <=> InWhole(s, n) /\ s[n + 1] = "."
  BY DEF InPoint
<1> QED BY <1>2, <1>3, <1>4

LEMMA MoreFraction ==
    ASSUME NEW s, Len(s) \in Nat, NEW n \in 0..(Len(s) - 1)
    PROVE  /\ InFraction(s, n + 1) <=>
                 IsDigit(s[n + 1]) /\ (InPoint(s, n) \/ InFraction(s, n))
           /\ InExponent(s, n + 1) <=>
                 (InWhole(s, n) \/ InFraction(s, n)) /\ s[n + 1] \in {"e", "E"}
           /\ InExponentSign(s, n + 1) <=> InExponent(s, n) /\ s[n + 1] \in {"+", "-"}
           /\ InExponentDigits(s, n + 1) <=>
                 /\ IsDigit(s[n + 1])
                 /\ InExponent(s, n) \/ InExponentSign(s, n) \/ InExponentDigits(s, n)
<1>1. (n + 1) - 1 = n /\ 0..n = (0..(n - 1)) \cup {n} /\ n + 1 >= 1
  OBVIOUS
<1>2. ASSUME NEW u \in 0..n
      PROVE  /\ DigitsIn(s, u, n + 1) <=> DigitsIn(s, u, n) /\ IsDigit(s[n + 1])
             /\ u = n => DigitsIn(s, u, n)
  <2>1. u \in Nat /\ n \in Nat /\ u <= n
    OBVIOUS
  <2>2. DigitsIn(s, u, n + 1) <=> DigitsIn(s, u, n) /\ IsDigit(s[n + 1])
    BY <2>1, MoreDigits
  <2>3. DigitsIn(s, u, u)
    BY <2>1, MoreDigits
  <2> QED BY <2>2, <2>3
<1>3. InFraction(s, n + 1) <=> IsDigit(s[n + 1]) /\ (InPoint(s, n) \/ InFraction(s, n))
  <2>1. InFraction(s, n + 1) <=> \E u \in 0..n : InPoint(s, u) /\ DigitsIn(s, u, n + 1)
    BY <1>1 DEF InFraction
  <2>2. InFraction(s, n) <=> \E u \in 0..(n - 1) : InPoint(s, u) /\ DigitsIn(s, u, n)
    BY DEF InFraction
  <2> QED BY <1>1, <1>2, <2>1, <2>2
<1>4. InExponent(s, n + 1) <=> (InWhole(s, n) \/ InFraction(s, n)) /\ s[n + 1] \in {"e", "E"}
  BY <1>1 DEF InExponent
<1>5. InExponentSign(s, n + 1) <=> InExponent(s, n) /\ s[n + 1] \in {"+", "-"}
  BY <1>1 DEF InExponentSign
<1>6. InExponentDigits(s, n + 1) <=>
          /\ IsDigit(s[n + 1])
          /\ InExponent(s, n) \/ InExponentSign(s, n) \/ InExponentDigits(s, n)
  <2>1. InExponentDigits(s, n + 1) <=>
            \E u \in 0..n : (InExponent(s, u) \/ InExponentSign(s, u)) /\ DigitsIn(s, u, n + 1)
    BY <1>1 DEF InExponentDigits
  <2>2. InExponentDigits(s, n) <=>
            \E u \in 0..(n - 1) : (InExponent(s, u) \/ InExponentSign(s, u)) /\ DigitsIn(s, u, n)
    BY DEF InExponentDigits
  <2> QED BY <1>1, <1>2, <2>1, <2>2
<1> QED BY <1>3, <1>4, <1>5, <1>6

\* There is no number of no characters.
LEMMA NothingYet ==
    ASSUME NEW s, Len(s) \in Nat
    PROVE  /\ ~InNumber(s, 0) /\ ~InWhole(s, 0) /\ ~InPoint(s, 0) /\ ~InFraction(s, 0)
           /\ ~InExponent(s, 0) /\ ~InExponentSign(s, 0) /\ ~InExponentDigits(s, 0)
<1>1. 0..(0 - 1) = {} /\ ~(0 >= 1) /\ ~(0 = 1)
  OBVIOUS
<1>2. ~(SignEnd(s) < 0)
  BY DEF SignEnd
<1> QED BY <1>1, <1>2 DEF InNumber, InWhole, InPoint, InFraction, InExponent, InExponentSign,
                           InExponentDigits

-----------------------------------------------------------------------------
(* ParseFloat. *)

FloatFields == {"state", "negative", "negativeExponent", "value", "fractionDigits", "exponent"}

\* The state after ch, if this is where st goes with it.
FloatGoes(st, ch, new) ==
    CASE st = "MINUS" -> IF ch = "-" THEN new = "NUMBER"
                         ELSE IF IsDigit(ch) THEN new \in {"ZERO", "DIGIT"} ELSE new = "INVALID"
      [] st = "NUMBER" -> IF IsDigit(ch) THEN new \in {"ZERO", "DIGIT"} ELSE new = "INVALID"
      [] st \in {"ZERO", "DIGIT"} ->
            IF IsDigit(ch) THEN new = "DIGIT"
            ELSE IF ch = "." THEN new = "FRAC_DIGIT"
            ELSE IF ch \in {"e", "E"} THEN new = "EXP" ELSE new = "INVALID"
      [] st = "FRAC_DIGIT" -> IF IsDigit(ch) THEN new = "FRAC_DIGITS" ELSE new = "INVALID"
      [] st = "FRAC_DIGITS" ->
            IF IsDigit(ch) THEN new = "FRAC_DIGITS"
            ELSE IF ch \in {"e", "E"} THEN new = "EXP" ELSE new = "INVALID"
      [] st = "EXP" ->
            IF ch \in {"+", "-"} THEN new = "EXP_DIGIT"
            ELSE IF IsDigit(ch) THEN new = "EXP_DIGITS" ELSE new = "INVALID"
      [] st \in {"EXP_DIGIT", "EXP_DIGITS"} ->
            IF IsDigit(ch) THEN new = "EXP_DIGITS" ELSE new = "INVALID"
      [] st = "INVALID" -> new = "INVALID"

FloatStates == {"MINUS", "NUMBER", "ZERO", "DIGIT", "FRAC_DIGIT", "FRAC_DIGITS",
                "EXP", "EXP_DIGIT", "EXP_DIGITS", "INVALID"}

LEMMA FloatMoves ==
    ASSUME NEW p, DOMAIN p = FloatFields, p.state \in FloatStates, NEW ch
    PROVE  /\ DOMAIN FloatStep(p, ch) = FloatFields
           /\ FloatGoes(p.state, ch, FloatStep(p, ch).state)
<1>1. DOMAIN FloatStep(p, ch) = FloatFields
  BY DEF FloatStep, FloatFields
<1>2. ~IsDigit("-") /\ ~IsDigit("+") /\ ~IsDigit(".") /\ ~IsDigit("e") /\ ~IsDigit("E")
  BY DigitsAre
<1> DEFINE q == FloatStep(p, ch)
<1>3. CASE p.state = "MINUS"
  BY <1>2, <1>3 DEF FloatStep, FloatGoes, FloatFields
<1>4. CASE p.state = "NUMBER"
  BY <1>2, <1>4 DEF FloatStep, FloatGoes, FloatFields
<1>5. CASE p.state \in {"ZERO", "DIGIT"}
  BY <1>2, <1>5 DEF FloatStep, FloatGoes, FloatFields
<1>6. CASE p.state \in {"FRAC_DIGIT", "FRAC_DIGITS"}
  BY <1>2, <1>6 DEF FloatStep, FloatGoes, FloatFields
<1>7. CASE p.state \in {"EXP", "EXP_DIGIT", "EXP_DIGITS"}
  BY <1>2, <1>7 DEF FloatStep, FloatGoes, FloatFields
<1>8. CASE p.state = "INVALID"
  BY <1>2, <1>8 DEF FloatStep, FloatGoes, FloatFields
<1> QED BY <1>1, <1>3, <1>4, <1>5, <1>6, <1>7, <1>8 DEF FloatStates

\* What the state says of the n characters that led to it.
FloatSays(s, n, st) ==
    /\ st \in FloatStates
    /\ st = "MINUS" <=> n = 0
    /\ st = "NUMBER" <=> InNumber(s, n)
    /\ st \in {"ZERO", "DIGIT"} <=> InWhole(s, n)
    /\ st = "FRAC_DIGIT" <=> InPoint(s, n)
    /\ st = "FRAC_DIGITS" <=> InFraction(s, n)
    /\ st = "EXP" <=> InExponent(s, n)
    /\ st = "EXP_DIGIT" <=> InExponentSign(s, n)
    /\ st = "EXP_DIGITS" <=> InExponentDigits(s, n)

LEMMA FloatContinues ==
    ASSUME NEW s, Len(s) \in Nat, NEW n \in 0..(Len(s) - 1), NEW st, NEW new,
           FloatSays(s, n, st), FloatGoes(st, s[n + 1], new)
    PROVE  FloatSays(s, n + 1, new)
<1> DEFINE ch == s[n + 1]
<1>1. /\ InNumber(s, n + 1) <=> st = "MINUS" /\ ch = "-"
      /\ InWhole(s, n + 1) <=> IsDigit(ch) /\ st \in {"MINUS", "NUMBER", "ZERO", "DIGIT"}
      /\ InPoint(s, n + 1) <=> st \in {"ZERO", "DIGIT"} /\ ch = "."
  BY MoreWhole DEF FloatSays
<1>2. /\ InFraction(s, n + 1) <=> IsDigit(ch) /\ st \in {"FRAC_DIGIT", "FRAC_DIGITS"}
      /\ InExponent(s, n + 1) <=> st \in {"ZERO", "DIGIT", "FRAC_DIGITS"} /\ ch \in {"e", "E"}
      /\ InExponentSign(s, n + 1) <=> st = "EXP" /\ ch \in {"+", "-"}
      /\ InExponentDigits(s, n + 1) <=> IsDigit(ch) /\ st \in {"EXP", "EXP_DIGIT", "EXP_DIGITS"}
  BY MoreFraction DEF FloatSays
<1>3. ~IsDigit("-") /\ ~IsDigit("+") /\ ~IsDigit(".") /\ ~IsDigit("e") /\ ~IsDigit("E")
  BY DigitsAre
<1>4. n + 1 # 0 /\ st \in FloatStates
  BY DEF FloatSays
<1> HIDE DEF ch
<1>5. FloatGoes(st, ch, new)
  BY DEF ch
<1>6. CASE st \in {"MINUS", "NUMBER"}
  BY <1>1, <1>2, <1>3, <1>4, <1>5, <1>6 DEF FloatSays, FloatGoes, FloatStates
<1>7. CASE st \in {"ZERO", "DIGIT"}
  BY <1>1, <1>2, <1>3, <1>4, <1>5, <1>7 DEF FloatSays, FloatGoes, FloatStates
<1>8. CASE st \in {"FRAC_DIGIT", "FRAC_DIGITS"}
  BY <1>1, <1>2, <1>3, <1>4, <1>5, <1>8 DEF FloatSays, FloatGoes, FloatStates
<1>9. CASE st \in {"EXP", "EXP_DIGIT", "EXP_DIGITS"}
  BY <1>1, <1>2, <1>3, <1>4, <1>5, <1>9 DEF FloatSays, FloatGoes, FloatStates
<1>10. CASE st = "INVALID"
  BY <1>1, <1>2, <1>3, <1>4, <1>5, <1>10 DEF FloatSays, FloatGoes, FloatStates
<1> QED BY <1>4, <1>6, <1>7, <1>8, <1>9, <1>10 DEF FloatStates

LEMMA FloatEnds ==
    ASSUME NEW s, Len(s) \in Nat
    PROVE  FloatSays(s, Len(s), FloatAfter(s).state)
<1> DEFINE base == [state |-> "MINUS", negative |-> FALSE, negativeExponent |-> FALSE,
                    value |-> 0, fractionDigits |-> 0, exponent |-> 0]
<1>1. FloatAfter(s) = Fold(FloatStep, base, s)
  BY DEF FloatAfter
<1>2. DOMAIN base = FloatFields /\ base.state = "MINUS"
  BY DEF FloatFields
<1> HIDE DEF base
<1>3. PICK after : Follows("float", base, s, after) /\ Fold(FloatStep, base, s) = after[Len(s)]
  BY FloatFold
<1> DEFINE S == {n \in 0..Len(s) : DOMAIN after[n] = FloatFields /\ FloatSays(s, n, after[n].state)}
<1>4. 0 \in S
  BY <1>2, <1>3, NothingYet DEF Follows, FloatSays, FloatStates
<1>5. ASSUME NEW n \in 0..(Len(s) - 1), n \in S PROVE n + 1 \in S
  <2>1. after[n + 1] = FloatStep(after[n], s[n + 1])
    BY <1>3 DEF Follows, StepOf
  <2>2. DOMAIN after[n] = FloatFields /\ FloatSays(s, n, after[n].state)
    BY <1>5
  <2>3. after[n].state \in FloatStates
    BY <2>2 DEF FloatSays
  <2>4. DOMAIN after[n + 1] = FloatFields /\ FloatGoes(after[n].state, s[n + 1], after[n + 1].state)
    BY <2>1, <2>2, <2>3, FloatMoves
  <2>5. FloatSays(s, n + 1, after[n + 1].state)
    BY <2>2, <2>4, FloatContinues
  <2> QED BY <2>4, <2>5
<1> HIDE DEF S
<1>6. Len(s) \in S
  <2>1. 0..Len(s) \subseteq S
    BY <1>4, <1>5, Induction
  <2> QED BY <2>1
<1> QED BY <1>1, <1>3, <1>6 DEF S

LEMMA FloatIsNumber ==
    ASSUME NEW s, Len(s) \in Nat
    PROVE  ParseFloat(s).type \in {"Integer", "Float"} <=>
               \/ InNumber(s, Len(s)) \/ InWhole(s, Len(s)) \/ InFraction(s, Len(s))
               \/ InExponentDigits(s, Len(s))
<1> DEFINE p == FloatAfter(s)
<1>1. FloatSays(s, Len(s), p.state)
  BY FloatEnds
<1>2. ParseFloat(s) = IF p.state \in {"INVALID", "MINUS", "FRAC_DIGIT", "EXP", "EXP_DIGIT"}
                      THEN Invalid ELSE FloatOf(p)
  BY DEF ParseFloat
<1>3. Invalid.type = "INVALID" /\ FloatOf(p).type = "Float"
  BY DEF Invalid, FloatOf, Float
<1> HIDE DEF p
<1>4. ParseFloat(s).type \in {"Integer", "Float"} <=>
          p.state \in {"NUMBER", "ZERO", "DIGIT", "FRAC_DIGITS", "EXP_DIGITS"}
  BY <1>1, <1>2, <1>3 DEF FloatSays, FloatStates
<1> QED BY <1>1, <1>4 DEF FloatSays

-----------------------------------------------------------------------------
(* ParseInteger. *)

LEMMA Remainder ==
    ASSUME NEW m \in Nat \ {0}, NEW a \in Int
    PROVE  /\ a % m \in 0..(m - 1)
           /\ a \in 0..(m - 1) => a % m = a
           /\ m % m = 0
<1>1. a % m \in 0..(m - 1)
  OBVIOUS
<1>2. a \in 0..(m - 1) => a % m = a
  OBVIOUS
<1>3. m % m = 0
  OBVIOUS
<1> QED BY <1>1, <1>2, <1>3

LEMMA WrapIs ==
    ASSUME NEW n \in Int
    PROVE  /\ Wrap(n) \in Int
           /\ Wrap(n) = n <=> -(IntMax + 1) <= n /\ n <= IntMax
           /\ Wrap(IntMax + 1) = -(IntMax + 1)
<1> DEFINE m == 2 * (IntMax + 1)
           a == n + IntMax + 1
<1>1. IntMax \in Nat
  BY JsonAssumption
<1>2. m \in Nat \ {0} /\ a \in Int /\ IntMax + 1 + IntMax + 1 = m
  BY <1>1
<1>3. Wrap(n) = (a % m) - (IntMax + 1) /\ Wrap(IntMax + 1) = (m % m) - (IntMax + 1)
  BY <1>2 DEF Wrap
<1>4. /\ a % m \in 0..(m - 1)
      /\ a \in 0..(m - 1) => a % m = a
      /\ m % m = 0
  BY <1>2, Remainder
<1>5. -(IntMax + 1) <= n /\ n <= IntMax <=> a \in 0..(m - 1)
  BY <1>1
<1>6. a = n + (IntMax + 1)
  BY <1>1
<1>7. m \in Int
  BY <1>2
<1> HIDE DEF m, a
<1>8. PICK r \in Int : r = a % m
  BY <1>4, <1>7
<1>9. Wrap(n) = r - (IntMax + 1) /\ (r = a <=> a \in 0..(m - 1))
  BY <1>3, <1>4, <1>8
<1>10. Wrap(n) \in Int /\ (Wrap(n) = n <=> r = a)
  BY <1>1, <1>6, <1>9, <1>2
<1>11. Wrap(IntMax + 1) = -(IntMax + 1)
  BY <1>1, <1>3, <1>4
<1> QED BY <1>5, <1>9, <1>10, <1>11

IntegerFields == {"state", "negative", "value"}
IntegerStates == {"MINUS", "NUMBER", "ZERO", "DIGIT", "INVALID"}

\* p goes to q with ch.
IntegerGoes(p, ch, q) ==
    /\ q.negative = (IF p.state = "MINUS" /\ ch = "-" THEN TRUE ELSE p.negative)
    /\ CASE p.state = "MINUS" /\ ch = "-" -> q.state = "NUMBER"
         [] (p.state = "MINUS" /\ ch # "-") \/ p.state = "NUMBER" ->
               IF IsDigit(ch)
               THEN q.state = (IF ch = "0" THEN "ZERO" ELSE "DIGIT") /\ q.value = DigitOf(ch)
               ELSE q.state = "INVALID"
         [] p.state = "DIGIT" ->
               IF IsDigit(ch)
               THEN q.state = "DIGIT" /\ q.value = Wrap(p.value * 10 + DigitOf(ch))
               ELSE q.state = "INVALID"
         [] p.state \in {"ZERO", "INVALID"} -> q.state = "INVALID"

LEMMA IntegerMoves ==
    ASSUME NEW p, DOMAIN p = IntegerFields, p.state \in IntegerStates, NEW ch
    PROVE  /\ DOMAIN IntegerStep(p, ch) = IntegerFields
           /\ IntegerGoes(p, ch, IntegerStep(p, ch))
<1>1. DOMAIN IntegerStep(p, ch) = IntegerFields
  BY DEF IntegerStep, IntegerFields
<1>2. CASE p.state = "MINUS"
  BY <1>2 DEF IntegerStep, IntegerGoes, IntegerFields
<1>3. CASE p.state = "NUMBER"
  BY <1>3 DEF IntegerStep, IntegerGoes, IntegerFields
<1>4. CASE p.state = "DIGIT"
  BY <1>4 DEF IntegerStep, IntegerGoes, IntegerFields
<1>5. CASE p.state \in {"ZERO", "INVALID"}
  BY <1>5 DEF IntegerStep, IntegerGoes, IntegerFields
<1> QED BY <1>1, <1>2, <1>3, <1>4, <1>5 DEF IntegerStates

\* A lone zero, and digits that do not begin with one.
InZero(s, n) == InWhole(s, n) /\ n = SignEnd(s) + 1 /\ s[n] = "0"
InDigits(s, n) == InWhole(s, n) /\ s[SignEnd(s) + 1] # "0"

\* What the state says of the n characters that led to it.
IntegerSays(s, n, st) ==
    /\ st \in IntegerStates
    /\ st = "MINUS" <=> n = 0
    /\ st = "NUMBER" <=> InNumber(s, n)
    /\ st = "ZERO" <=> InZero(s, n)
    /\ st = "DIGIT" <=> InDigits(s, n)

LEMMA IntegerContinues ==
    ASSUME NEW s, Len(s) \in Nat, NEW n \in 0..(Len(s) - 1), NEW p, NEW q,
           IntegerSays(s, n, p.state), IntegerGoes(p, s[n + 1], q)
    PROVE  IntegerSays(s, n + 1, q.state)
<1> DEFINE ch == s[n + 1]
           st == p.state
<1>1. /\ InNumber(s, n + 1) <=> n = 0 /\ ch = "-"
      /\ InWhole(s, n + 1) <=> IsDigit(ch) /\ (n = 0 \/ InNumber(s, n) \/ InWhole(s, n))
  BY MoreWhole
<1>2. ~IsDigit("-")
  BY DigitsAre
<1>3. SignEnd(s) \in {0, 1} /\ (SignEnd(s) = 1 <=> s[1] = "-")
  BY DEF SignEnd
<1>4. n + 1 # 0
  OBVIOUS
<1>5. st = "MINUS" <=> n = 0
  BY DEF IntegerSays
<1>6. st = "NUMBER" <=> InNumber(s, n)
  BY DEF IntegerSays
\* The first digit.
<1>7. ASSUME n = 0 \/ InNumber(s, n), IsDigit(ch) PROVE n = SignEnd(s)
  BY <1>2, <1>3, <1>7 DEF InNumber
<1>8. ASSUME InWhole(s, n)
      PROVE  /\ n > SignEnd(s) /\ n # 0 /\ ~InNumber(s, n)
             /\ InZero(s, n) <=> n = SignEnd(s) + 1 /\ s[SignEnd(s) + 1] = "0"
             /\ InDigits(s, n) <=> s[SignEnd(s) + 1] # "0"
  BY <1>3, <1>8 DEF InWhole, InZero, InDigits, InNumber
<1>9. ~InWhole(s, n) => ~InZero(s, n) /\ ~InDigits(s, n)
  BY DEF InZero, InDigits
<1>10. /\ InZero(s, n + 1) <=> InWhole(s, n + 1) /\ n = SignEnd(s) /\ ch = "0"
       /\ InDigits(s, n + 1) <=> InWhole(s, n + 1) /\ s[SignEnd(s) + 1] # "0"
  BY <1>3 DEF InZero, InDigits
<1>11. IntegerGoes(p, ch, q)
  OBVIOUS
<1>12. CASE n = 0 \/ InNumber(s, n)
  <2>1. ~InWhole(s, n)
    BY <1>8, <1>12
  <2>2. st \in {"MINUS", "NUMBER"}
    BY <1>5, <1>6, <1>12
  <2>3. CASE IsDigit(ch)
    <3>1. q.state = IF ch = "0" THEN "ZERO" ELSE "DIGIT"
      BY <1>2, <1>11, <2>2, <2>3 DEF IntegerGoes
    <3>2. n = SignEnd(s) /\ InWhole(s, n + 1) /\ ~InNumber(s, n + 1)
      BY <1>1, <1>2, <1>7, <1>12, <2>3
    <3>3. (InZero(s, n + 1) <=> ch = "0") /\ (InDigits(s, n + 1) <=> ch # "0")
      BY <1>10, <3>2
    <3> HIDE DEF ch
    <3> QED BY <1>4, <3>1, <3>2, <3>3 DEF IntegerSays, IntegerStates
  <2>4. CASE ~IsDigit(ch)
    <3>1. q.state = IF n = 0 /\ ch = "-" THEN "NUMBER" ELSE "INVALID"
      BY <1>5, <1>11, <2>2, <2>4 DEF IntegerGoes
    <3>2. ~InZero(s, n + 1) /\ ~InDigits(s, n + 1) /\ (InNumber(s, n + 1) <=> n = 0 /\ ch = "-")
      BY <1>1, <1>10, <2>4
    <3> HIDE DEF ch
    <3> QED BY <1>4, <3>1, <3>2 DEF IntegerSays, IntegerStates
  <2> QED BY <2>3, <2>4
<1>13. CASE InWhole(s, n)
  <2>1. n # 0 /\ n # SignEnd(s) /\ ~InNumber(s, n) /\ ~InNumber(s, n + 1) /\ ~InZero(s, n + 1)
    BY <1>1, <1>3, <1>8, <1>10, <1>13
  <2>2. InDigits(s, n + 1) <=> IsDigit(ch) /\ InDigits(s, n)
    BY <1>1, <1>8, <1>10, <1>13
  <2>3. st \in {"ZERO", "DIGIT", "INVALID"} /\ (st = "DIGIT" <=> InDigits(s, n))
    BY <2>1 DEF IntegerSays, IntegerStates
  <2>4. q.state = IF st = "DIGIT" /\ IsDigit(ch) THEN "DIGIT" ELSE "INVALID"
    BY <1>11, <2>3 DEF IntegerGoes
  <2> HIDE DEF ch, st
  <2> QED BY <1>4, <2>1, <2>2, <2>3, <2>4 DEF IntegerSays, IntegerStates
<1>14. CASE n # 0 /\ ~InNumber(s, n) /\ ~InWhole(s, n)
  <2>1. st = "INVALID"
    BY <1>9, <1>14 DEF IntegerSays, IntegerStates
  <2>2. q.state = "INVALID"
    BY <1>11, <2>1 DEF IntegerGoes
  <2>3. ~InNumber(s, n + 1) /\ ~InZero(s, n + 1) /\ ~InDigits(s, n + 1)
    BY <1>1, <1>10, <1>14
  <2> QED BY <1>4, <2>2, <2>3 DEF IntegerSays, IntegerStates
<1> QED BY <1>12, <1>13, <1>14

\* The digits of s stand behind its sign.
LEMMA UnsignedIs ==
    ASSUME NEW s \in Seq(Characters)
    PROVE  /\ Unsigned(s, {"-"}) \in Seq(Characters)
           /\ Len(Unsigned(s, {"-"})) = Len(s) - SignEnd(s)
           /\ \A i \in 1..(Len(s) - SignEnd(s)) : Unsigned(s, {"-"})[i] = s[SignEnd(s) + i]
           /\ SignEnd(s) = 0 => Unsigned(s, {"-"}) = s
           /\ SignEnd(s) = 1 => Unsigned(s, {"-"}) # s
<1>1. s # <<>> <=> Len(s) >= 1
  OBVIOUS
<1>2. CASE s # <<>> /\ s[1] = "-"
  <2>1. SignEnd(s) = 1 /\ Unsigned(s, {"-"}) = Tail(s)
    BY <1>1, <1>2 DEF SignEnd, Unsigned
  <2>2. Tail(s) \in Seq(Characters) /\ Len(Tail(s)) = Len(s) - 1
    BY <1>2
  <2>3. \A i \in 1..(Len(s) - 1) : Tail(s)[i] = s[1 + i]
    BY <1>2
  <2>4. Len(s) \in Nat /\ Len(s) - 1 # Len(s)
    OBVIOUS
  <2>5. Tail(s) # s
    BY <2>2, <2>4
  <2> DEFINE t == Unsigned(s, {"-"})
  <2>6. SignEnd(s) = 1 /\ t = Tail(s)
    BY <2>1
  <2>7. t \in Seq(Characters) /\ Len(t) = Len(s) - SignEnd(s)
    BY <2>2, <2>6
  <2>8. \A i \in 1..(Len(s) - SignEnd(s)) : t[i] = s[SignEnd(s) + i]
    BY <2>3, <2>6, Zenon
  <2>9. t # s
    BY <2>5, <2>6
  <2> HIDE DEF t
  <2> QED BY <2>6, <2>7, <2>8, <2>9 DEF t
<1>3. CASE ~(s # <<>> /\ s[1] = "-")
  <2>1. SignEnd(s) = 0 /\ Unsigned(s, {"-"}) = s
    BY <1>1, <1>3 DEF SignEnd, Unsigned
  <2> QED BY <2>1
<1> QED BY <1>2, <1>3

\* What p has read of the value d of the digits so far: the exact value, while an int
\* can hold it or its negative.
Reads(p, d) == d \in Nat /\ p.value \in Int /\ (d <= IntMax + 1 => p.value \in {d, Wrap(d)})

LEMMA ReadsOneMore ==
    ASSUME NEW p, NEW q, NEW d, Reads(p, d), NEW digit \in 0..9,
           q.value = Wrap(p.value * 10 + digit)
    PROVE  Reads(q, d * 10 + digit)
<1> DEFINE e == d * 10 + digit
<1>1. d \in Nat /\ e \in Nat /\ IntMax \in Nat /\ p.value \in Int
  BY JsonAssumption DEF Reads
<1>2. PICK v \in Int : v = p.value
  BY <1>1
<1>3. v * 10 + digit \in Int
  OBVIOUS
<1>4. q.value \in Int
  BY <1>2, <1>3, WrapIs
<1>5. ASSUME e <= IntMax + 1 PROVE q.value = Wrap(e)
  <2>1. d <= IntMax
    BY <1>1, <1>5
  <2>2. Wrap(d) = d
    BY <1>1, <2>1, WrapIs
  <2>3. d <= IntMax + 1
    BY <1>1, <2>1
  <2>4. v = d
    BY <1>2, <2>2, <2>3 DEF Reads
  <2> QED BY <1>2, <2>4
<1> HIDE DEF e
<1>6. Reads(q, e)
  BY <1>1, <1>4, <1>5 DEF Reads
<1> QED BY <1>6 DEF e

\* What the loop of ParseInteger knows after n characters.
IntegerKnows(s, n, p, first) ==
    /\ DOMAIN p = IntegerFields
    /\ IntegerSays(s, n, p.state)
    /\ p.negative = (n > 0 /\ SignEnd(s) = 1)
    /\ InWhole(s, n) /\ p.state # "INVALID" => Reads(p, first[n - SignEnd(s)])

LEMMA IntegerLearns ==
    ASSUME NEW s \in Seq(Characters), NEW n \in 0..(Len(s) - 1), NEW p, NEW q, NEW first,
           Follows("decimal", 0, Unsigned(s, {"-"}), first),
           IntegerKnows(s, n, p, first), q = IntegerStep(p, s[n + 1])
    PROVE  IntegerKnows(s, n + 1, q, first)
<1> DEFINE ch == s[n + 1]
           d == n - SignEnd(s)
<1>1. DOMAIN p = IntegerFields /\ IntegerSays(s, n, p.state) /\ p.state \in IntegerStates
  BY DEF IntegerKnows, IntegerSays
<1>2. DOMAIN q = IntegerFields /\ IntegerGoes(p, s[n + 1], q)
  BY <1>1, IntegerMoves
<1>3. Len(s) \in Nat
  OBVIOUS
<1>4. IntegerSays(s, n + 1, q.state)
  BY <1>1, <1>2, <1>3, IntegerContinues
<1>5. SignEnd(s) \in {0, 1} /\ (SignEnd(s) = 1 <=> s[1] = "-")
  BY <1>3 DEF SignEnd
<1>6. q.negative = (n + 1 > 0 /\ SignEnd(s) = 1)
  <2>1. p.state = "MINUS" <=> n = 0
    BY <1>1 DEF IntegerSays
  <2>2. q.negative = IF n = 0 /\ ch = "-" THEN TRUE ELSE p.negative
    BY <1>2, <2>1 DEF IntegerGoes
  <2>3. p.negative = (n > 0 /\ SignEnd(s) = 1)
    BY DEF IntegerKnows
  <2>4. CASE n = 0
    <3>1. p.negative = FALSE /\ n + 1 > 0
      <4>1. (n > 0 /\ SignEnd(s) = 1) = FALSE
        BY <2>4
      <4>2. p.negative = FALSE
        BY <2>3, <4>1
      <4>3. n + 1 > 0
        OBVIOUS
      <4> QED BY <4>2, <4>3
    <3>2. ch = "-" <=> SignEnd(s) = 1
      BY <1>5, <2>4
    <3>3. CASE ch = "-"
      BY <2>2, <2>4, <3>1, <3>2, <3>3
    <3>4. CASE ch # "-"
      <4>1. q.negative = FALSE
        BY <2>2, <3>1, <3>4
      <4>2. (n + 1 > 0 /\ SignEnd(s) = 1) = FALSE
        BY <3>2, <3>4
      <4> QED BY <4>1, <4>2
    <3> QED BY <3>3, <3>4
  <2>5. CASE n # 0
    <3>1. n > 0 /\ n + 1 > 0
      BY <2>5
    <3> QED BY <2>2, <2>3, <2>5, <3>1
  <2> QED BY <2>4, <2>5
<1>7. ASSUME InWhole(s, n + 1), q.state # "INVALID" PROVE Reads(q, first[d + 1])
  <2>1. IsDigit(ch) /\ (n = 0 \/ InNumber(s, n) \/ InWhole(s, n)) /\ ~InNumber(s, n + 1)
    <3>1. ~IsDigit("-")
      BY DigitsAre
    <3> QED BY <1>3, <1>7, <3>1, MoreWhole
  <2>2. DigitOf(ch) \in 0..9
    BY <2>1, DigitRange
  <2>3. n >= SignEnd(s) /\ d \in Nat /\ d + 1 \in 1..(Len(s) - SignEnd(s))
    BY <1>3, <1>5, <1>7 DEF InWhole
  <2>4. first[0] = 0 /\ first[d + 1] = first[d] * 10 + DigitOf(ch)
    <3>1. Unsigned(s, {"-"})[d + 1] = ch
      <4>1. SignEnd(s) + (d + 1) = n + 1
        BY <1>5
      <4> HIDE DEF d
      <4>2. Unsigned(s, {"-"})[d + 1] = s[SignEnd(s) + (d + 1)]
        BY <2>3, UnsignedIs
      <4> QED BY <4>1, <4>2
    <3>2. d \in 0..(Len(Unsigned(s, {"-"})) - 1)
      BY <1>3, <1>5, <2>3, UnsignedIs
    <3> HIDE DEF d, ch
    <3>3. first[d + 1] = StepOf("decimal", first[d], ch)
      BY <3>1, <3>2 DEF Follows
    <3> QED BY <3>3 DEF Follows, StepOf
  <2>5. CASE n = 0 \/ InNumber(s, n)
    <3>1. n = SignEnd(s) /\ d = 0
      BY <1>5, <2>1, <2>3, <2>5 DEF InNumber
    <3>2. p.state \in {"MINUS", "NUMBER"}
      BY <1>1, <2>5 DEF IntegerSays
    <3>3. ~(p.state = "MINUS" /\ ch = "-")
      <4>1. ~IsDigit("-")
        BY DigitsAre
      <4> QED BY <2>1, <4>1
    <3>4. q.value = DigitOf(ch)
      BY <1>2, <2>1, <3>2, <3>3 DEF IntegerGoes
    <3>5. first[d + 1] = DigitOf(ch)
      <4>1. first[d] = 0
        BY <2>4, <3>1
      <4> HIDE DEF d, ch
      <4>2. first[d + 1] = 0 * 10 + DigitOf(ch)
        BY <2>4, <4>1
      <4> QED BY <2>2, <4>2
    <3> HIDE DEF d, ch
    <3>6. first[d + 1] \in Nat /\ q.value \in Int /\ q.value = first[d + 1]
      BY <2>2, <3>4, <3>5
    <3> QED BY <3>6 DEF Reads
  <2>6. CASE n # 0 /\ ~InNumber(s, n)
    <3>1. InWhole(s, n) /\ p.state \notin {"MINUS", "NUMBER"}
      BY <1>1, <2>1, <2>6 DEF IntegerSays
    <3>2. p.state = "DIGIT" /\ q.value = Wrap(p.value * 10 + DigitOf(ch))
      BY <1>1, <1>2, <1>7, <2>1, <3>1 DEF IntegerGoes, IntegerStates
    <3>3. Reads(p, first[d])
      BY <3>1, <3>2 DEF IntegerKnows
    <3> HIDE DEF d, ch
    <3>4. Reads(q, first[d] * 10 + DigitOf(ch))
      BY <2>2, <3>2, <3>3, ReadsOneMore
    <3> QED BY <2>4, <3>4
  <2> QED BY <2>5, <2>6
<1>8. d + 1 = (n + 1) - SignEnd(s)
  BY <1>5
<1> QED BY <1>2, <1>4, <1>6, <1>7, <1>8 DEF IntegerKnows

LEMMA IntegerEnds ==
    ASSUME NEW s \in Seq(Characters)
    PROVE  \E p, first : /\ IntegerKnows(s, Len(s), p, first)
                         /\ first[Len(s) - SignEnd(s)] = Decimal(Unsigned(s, {"-"}))
                         /\ ParseInteger(s) = IF p.state \in {"INVALID", "MINUS"} THEN Invalid
                                              ELSE Integer(Wrap(IF p.negative THEN -p.value ELSE p.value))
<1> DEFINE base == [state |-> "MINUS", negative |-> FALSE, value |-> 0]
<1>1. Len(s) \in Nat /\ Len(Unsigned(s, {"-"})) \in Nat
  BY UnsignedIs
<1>2. PICK first : /\ Follows("decimal", 0, Unsigned(s, {"-"}), first)
                   /\ Decimal(Unsigned(s, {"-"})) = first[Len(Unsigned(s, {"-"}))]
  BY <1>1, DecimalFold
<1>3. PICK after : /\ Follows("integer", base, s, after)
                   /\ Fold(IntegerStep, base, s) = after[Len(s)]
  <2> HIDE DEF base
  <2> QED BY <1>1, IntegerFold
<1>4. ParseInteger(s) = LET p == after[Len(s)]
                        IN  IF p.state \in {"INVALID", "MINUS"} THEN Invalid
                            ELSE Integer(Wrap(IF p.negative THEN -p.value ELSE p.value))
  BY <1>3 DEF ParseInteger
<1> DEFINE S == {n \in 0..Len(s) : IntegerKnows(s, n, after[n], first)}
<1>5. 0 \in S
  <2>1. after[0] = base
    BY <1>3 DEF Follows
  <2>2. DOMAIN after[0] = IntegerFields /\ after[0].state = "MINUS" /\ after[0].negative = FALSE
    BY <2>1 DEF IntegerFields
  <2>3. ~InNumber(s, 0) /\ ~InWhole(s, 0) /\ ~InZero(s, 0) /\ ~InDigits(s, 0) /\ ~(0 > 0)
    BY <1>1, NothingYet DEF InZero, InDigits
  <2>4. IntegerSays(s, 0, "MINUS")
    BY <2>3 DEF IntegerSays, IntegerStates
  <2>5. IntegerKnows(s, 0, after[0], first)
    BY <2>2, <2>3, <2>4 DEF IntegerKnows
  <2> QED BY <1>1, <2>5
<1>6. ASSUME NEW n \in 0..(Len(s) - 1), n \in S PROVE n + 1 \in S
  <2>1. after[n + 1] = IntegerStep(after[n], s[n + 1])
    BY <1>3 DEF Follows, StepOf
  <2>2. IntegerKnows(s, n, after[n], first)
    BY <1>6
  <2>3. IntegerKnows(s, n + 1, after[n + 1], first)
    BY <1>2, <2>1, <2>2, IntegerLearns
  <2> QED BY <1>1, <2>3
<1> HIDE DEF S
<1>7. Len(s) \in S
  <2>1. 0..Len(s) \subseteq S
    BY <1>1, <1>5, <1>6, Induction
  <2> QED BY <1>1, <2>1
<1>8. IntegerKnows(s, Len(s), after[Len(s)], first)
  BY <1>7 DEF S
<1>9. first[Len(s) - SignEnd(s)] = Decimal(Unsigned(s, {"-"}))
  BY <1>2, UnsignedIs
<1> QED BY <1>4, <1>8, <1>9

-----------------------------------------------------------------------------
(* The grammar, by places in the text. *)

Part(s, a, b) == SubSeq(s, a + 1, b)

LEMMA PartIs ==
    ASSUME NEW s \in Seq(Characters), NEW a \in 0..Len(s), NEW b \in a..Len(s)
    PROVE  /\ Part(s, a, b) \in Seq(Characters)
           /\ Len(Part(s, a, b)) = b - a
           /\ \A k \in 1..(b - a) : Part(s, a, b)[k] = s[a + k]
<1>1. a + 1 \in 1..(Len(s) + 1) /\ b \in 0..Len(s) /\ Len(s) \in Nat /\ a \in Nat
  OBVIOUS
<1>2. SubSeq(s, a + 1, b) \in Seq(Characters)
  BY <1>1
<1>3. Len(SubSeq(s, a + 1, b)) = b - a
  BY <1>1
<1>4. ASSUME NEW k \in 1..(b - a) PROVE SubSeq(s, a + 1, b)[k] = s[a + k]
  BY <1>1
<1> QED BY <1>2, <1>3, <1>4 DEF Part

LEMMA SamePart ==
    ASSUME NEW s \in Seq(Characters), NEW t \in Seq(Characters), Len(s) = Len(t),
           \A k \in 1..Len(s) : s[k] = t[k]
    PROVE  s = t
OBVIOUS

LEMMA TailOfPart ==
    ASSUME NEW s \in Seq(Characters), NEW a \in 0..Len(s), NEW b \in a..Len(s), a < b
    PROVE  Tail(Part(s, a, b)) = Part(s, a + 1, b)
<1> DEFINE t == Part(s, a, b)
           r == Part(s, a + 1, b)
<1>1. a + 1 \in 0..Len(s) /\ b \in (a + 1)..Len(s) /\ a \in Nat /\ b \in Nat
  OBVIOUS
<1>2. t \in Seq(Characters) /\ Len(t) = b - a /\ \A k \in 1..(b - a) : t[k] = s[a + k]
  BY PartIs
<1>3. r \in Seq(Characters) /\ Len(r) = b - (a + 1) /\ \A k \in 1..(b - (a + 1)) : r[k] = s[(a + 1) + k]
  BY <1>1, PartIs
<1> HIDE DEF t, r
<1>4. t # <<>>
  BY <1>1, <1>2
<1>5. Tail(t) \in Seq(Characters) /\ Len(Tail(t)) = Len(t) - 1
  BY <1>2, <1>4
<1>6. ASSUME NEW k \in 1..Len(Tail(t)) PROVE Tail(t)[k] = r[k]
  <2>1. Tail(t)[k] = t[k + 1]
    BY <1>2, <1>4, <1>5
  <2>2. k + 1 \in 1..(b - a) /\ k \in 1..(b - (a + 1)) /\ a + (k + 1) = (a + 1) + k
    BY <1>1, <1>2, <1>5
  <2> QED BY <1>2, <1>3, <2>1, <2>2
<1>7. Len(Tail(t)) = Len(r)
  BY <1>1, <1>2, <1>3, <1>5
<1>8. Tail(t) = r
  BY <1>3, <1>5, <1>6, <1>7, SamePart
<1> QED BY <1>8 DEF t, r

LEMMA DigitsOfPart ==
    ASSUME NEW s \in Seq(Characters), NEW a \in 0..Len(s), NEW b \in a..Len(s)
    PROVE  /\ Part(s, a, b) = <<>> <=> a = b
           /\ AllDigits(Part(s, a, b)) <=> a < b /\ DigitsIn(s, a, b)
<1> DEFINE t == Part(s, a, b)
<1>1. a \in Nat /\ b \in Nat /\ a <= b
  OBVIOUS
<1>2. t \in Seq(Characters) /\ Len(t) = b - a /\ \A k \in 1..(b - a) : t[k] = s[a + k]
  BY PartIs
<1> HIDE DEF t
<1>3. DOMAIN t = 1..(b - a) /\ (t = <<>> <=> a = b)
  BY <1>1, <1>2
<1>4. (\A k \in 1..(b - a) : IsDigit(t[k])) <=> (\A j \in (a + 1)..b : IsDigit(s[j]))
  <2>1. ASSUME \A k \in 1..(b - a) : IsDigit(t[k]), NEW j \in (a + 1)..b PROVE IsDigit(s[j])
    <3>1. j - a \in 1..(b - a) /\ a + (j - a) = j
      BY <1>1
    <3>2. t[j - a] = s[j]
      BY <1>2, <3>1
    <3> QED BY <2>1, <3>1, <3>2
  <2>2. ASSUME \A j \in (a + 1)..b : IsDigit(s[j]), NEW k \in 1..(b - a) PROVE IsDigit(t[k])
    <3>1. a + k \in (a + 1)..b
      BY <1>1
    <3> QED BY <1>2, <2>2, <3>1
  <2> QED BY <2>1, <2>2
<1>5. a < b <=> a # b
  BY <1>1
<1> QED BY <1>3, <1>4, <1>5 DEF AllDigits, DigitsIn, t

LEMMA PartOfUnsigned ==
    ASSUME NEW s \in Seq(Characters), NEW i \in 0..(Len(s) - SignEnd(s)),
           NEW j \in i..(Len(s) - SignEnd(s))
    PROVE  SubSeq(Unsigned(s, {"-"}), i + 1, j) = Part(s, SignEnd(s) + i, SignEnd(s) + j)
<1> DEFINE a == SignEnd(s)
           t == Unsigned(s, {"-"})
           p == Part(t, i, j)
           q == Part(s, a + i, a + j)
<1>1. a \in {0, 1} /\ Len(s) \in Nat /\ i \in Nat /\ j \in Nat
  BY DEF SignEnd
<1>2. t \in Seq(Characters) /\ Len(t) = Len(s) - a /\ \A k \in 1..(Len(s) - a) : t[k] = s[a + k]
  BY UnsignedIs
<1> HIDE DEF t, a
<1>3. i \in 0..Len(t) /\ j \in i..Len(t) /\ a + i \in 0..Len(s) /\ a + j \in (a + i)..Len(s)
  BY <1>1, <1>2 DEF a
<1>4. p \in Seq(Characters) /\ Len(p) = j - i /\ \A k \in 1..(j - i) : p[k] = t[i + k]
  BY <1>2, <1>3, PartIs
<1>5. q \in Seq(Characters) /\ Len(q) = (a + j) - (a + i)
      /\ \A k \in 1..((a + j) - (a + i)) : q[k] = s[(a + i) + k]
  BY <1>3, PartIs
<1>6. (a + j) - (a + i) = j - i
  BY <1>1
<1> HIDE DEF p, q
<1>7. ASSUME NEW k \in 1..(j - i) PROVE p[k] = q[k]
  <2>1. i + k \in 1..(Len(s) - a) /\ a + (i + k) = (a + i) + k
    BY <1>1, <1>3 DEF a
  <2>2. q[k] = s[(a + i) + k]
    BY <1>5, <1>6
  <2>3. p[k] = t[i + k] /\ t[i + k] = s[a + (i + k)]
    BY <1>2, <1>4, <2>1
  <2> QED BY <2>1, <2>2, <2>3
<1>8. p = q
  BY <1>4, <1>5, <1>6, <1>7, SamePart
<1> QED BY <1>8 DEF p, q, t, a, Part

\* The parts of a number: s up to u, from there to v, and the rest.
InParts(s, u, v, whole) ==
    whole /\ FractionPart(Part(s, u, v)) /\ ExponentPart(Part(s, v, Len(s)))

LEMMA NumberIs ==
    ASSUME NEW s \in Seq(Characters)
    PROVE  /\ Number(s, AllDigits) <=>
                 \E u \in SignEnd(s)..Len(s) : \E v \in u..Len(s) :
                     InParts(s, u, v, AllDigits(Part(s, SignEnd(s), u)))
           /\ Number(s, IntegerPart) <=>
                 \E u \in SignEnd(s)..Len(s) : \E v \in u..Len(s) :
                     InParts(s, u, v, IntegerPart(Part(s, SignEnd(s), u)))
<1> DEFINE a == SignEnd(s)
           t == Unsigned(s, {"-"})
<1>1. a \in {0, 1} /\ Len(s) \in Nat /\ Len(t) = Len(s) - a /\ Len(t) \in Nat
  BY UnsignedIs DEF SignEnd
<1>2. ASSUME NEW i \in 0..Len(t), NEW j \in i..Len(t)
      PROVE  /\ SubSeq(t, 1, i) = Part(s, a, a + i)
             /\ SubSeq(t, i + 1, j) = Part(s, a + i, a + j)
             /\ SubSeq(t, j + 1, Len(t)) = Part(s, a + j, Len(s))
  <2>1. 0 \in 0..(Len(s) - a) /\ i \in 0..(Len(s) - a) /\ j \in 0..(Len(s) - a)
        /\ j \in i..(Len(s) - a) /\ Len(t) \in j..(Len(s) - a)
    BY <1>1
  <2>2. SubSeq(t, 0 + 1, i) = Part(s, a + 0, a + i)
    BY <2>1, PartOfUnsigned
  <2>3. SubSeq(t, i + 1, j) = Part(s, a + i, a + j)
    BY <2>1, PartOfUnsigned
  <2>4. SubSeq(t, j + 1, Len(t)) = Part(s, a + j, a + Len(t))
    BY <2>1, PartOfUnsigned
  <2>5. 0 + 1 = 1 /\ a + 0 = a /\ a + Len(t) = Len(s)
    BY <1>1
  <2> HIDE DEF a, t
  <2> QED BY <2>2, <2>3, <2>4, <2>5
<1>3. ASSUME NEW i \in 0..Len(t), NEW j \in i..Len(t)
      PROVE  /\ AllDigits(SubSeq(t, 1, i)) /\ FractionPart(SubSeq(t, i + 1, j))
                   /\ ExponentPart(SubSeq(t, j + 1, Len(t)))
                 <=> InParts(s, a + i, a + j, AllDigits(Part(s, a, a + i)))
             /\ IntegerPart(SubSeq(t, 1, i)) /\ FractionPart(SubSeq(t, i + 1, j))
                   /\ ExponentPart(SubSeq(t, j + 1, Len(t)))
                 <=> InParts(s, a + i, a + j, IntegerPart(Part(s, a, a + i)))
  <2> HIDE DEF a, t
  <2> QED BY <1>2 DEF InParts
<1>4. ASSUME NEW u \in a..Len(s), NEW v \in u..Len(s)
      PROVE  /\ u - a \in 0..Len(t) /\ v - a \in (u - a)..Len(t)
             /\ a + (u - a) = u /\ a + (v - a) = v
  BY <1>1
<1>5. ASSUME NEW i \in 0..Len(t), NEW j \in i..Len(t)
      PROVE  a + i \in a..Len(s) /\ a + j \in (a + i)..Len(s)
  BY <1>1
<1>6. Number(s, AllDigits) <=>
          \E i \in 0..Len(t) : \E j \in i..Len(t) :
              /\ AllDigits(SubSeq(t, 1, i))
              /\ FractionPart(SubSeq(t, i + 1, j))
              /\ ExponentPart(SubSeq(t, j + 1, Len(t)))
  BY DEF Number
<1>7. Number(s, IntegerPart) <=>
          \E i \in 0..Len(t) : \E j \in i..Len(t) :
              /\ IntegerPart(SubSeq(t, 1, i))
              /\ FractionPart(SubSeq(t, i + 1, j))
              /\ ExponentPart(SubSeq(t, j + 1, Len(t)))
  BY DEF Number
<1>8. Number(s, AllDigits) <=>
          \E i \in 0..Len(t) : \E j \in i..Len(t) :
              InParts(s, a + i, a + j, AllDigits(Part(s, a, a + i)))
  BY <1>3, <1>6
<1>9. Number(s, IntegerPart) <=>
          \E i \in 0..Len(t) : \E j \in i..Len(t) :
              InParts(s, a + i, a + j, IntegerPart(Part(s, a, a + i)))
  BY <1>3, <1>7
<1> HIDE DEF a, t
<1>10. Number(s, AllDigits) <=>
          \E u \in a..Len(s) : \E v \in u..Len(s) : InParts(s, u, v, AllDigits(Part(s, a, u)))
  <2>1. ASSUME NEW u \in a..Len(s), NEW v \in u..Len(s), InParts(s, u, v, AllDigits(Part(s, a, u)))
        PROVE  Number(s, AllDigits)
    <3>1. InParts(s, a + (u - a), a + (v - a), AllDigits(Part(s, a, a + (u - a))))
      BY <1>4, <2>1
    <3> QED BY <1>4, <1>8, <3>1
  <2> QED BY <1>5, <1>8, <2>1
<1>11. Number(s, IntegerPart) <=>
          \E u \in a..Len(s) : \E v \in u..Len(s) : InParts(s, u, v, IntegerPart(Part(s, a, u)))
  <2>1. ASSUME NEW u \in a..Len(s), NEW v \in u..Len(s), InParts(s, u, v, IntegerPart(Part(s, a, u)))
        PROVE  Number(s, IntegerPart)
    <3>1. InParts(s, a + (u - a), a + (v - a), IntegerPart(Part(s, a, a + (u - a))))
      BY <1>4, <2>1
    <3> QED BY <1>4, <1>9, <3>1
  <2> QED BY <1>5, <1>9, <2>1
<1> QED BY <1>10, <1>11 DEF a

\* The parts, one by one.
LEMMA WholePartIs ==
    ASSUME NEW s \in Seq(Characters), NEW u \in SignEnd(s)..Len(s)
    PROVE  /\ AllDigits(Part(s, SignEnd(s), u)) <=> InWhole(s, u)
           /\ IntegerPart(Part(s, SignEnd(s), u)) <=> InZero(s, u) \/ InDigits(s, u)
<1> DEFINE a == SignEnd(s)
           t == Part(s, a, u)
<1>1. a \in 0..Len(s) /\ a \in Nat /\ u \in Nat /\ u \in a..Len(s) /\ Len(s) \in Nat
  BY DEF SignEnd
<1> HIDE DEF a
<1>2. Len(t) = u - a /\ \A k \in 1..(u - a) : t[k] = s[a + k]
  BY <1>1, PartIs
<1>3. AllDigits(t) <=> a < u /\ DigitsIn(s, a, u)
  BY <1>1, DigitsOfPart
<1> HIDE DEF t
<1>4. AllDigits(t) <=> InWhole(s, u)
  BY <1>3 DEF InWhole, a
<1>5. ASSUME InWhole(s, u)
      PROVE  (Len(t) > 1 => t[1] # "0") <=> InZero(s, u) \/ InDigits(s, u)
  <2>1. a < u
    BY <1>5 DEF InWhole, a
  <2>2. t[1] = s[a + 1]
    BY <1>1, <1>2, <2>1
  <2>3. Len(t) > 1 <=> u # a + 1
    BY <1>1, <1>2, <2>1
  <2>4. InZero(s, u) <=> u = a + 1 /\ s[a + 1] = "0"
    BY <1>5 DEF InZero, a
  <2>5. InDigits(s, u) <=> s[a + 1] # "0"
    BY <1>5 DEF InDigits, a
  <2> QED BY <2>2, <2>3, <2>4, <2>5
<1>6. IntegerPart(t) <=> AllDigits(t) /\ (Len(t) > 1 => t[1] # "0")
  BY DEF IntegerPart
<1>7. InZero(s, u) \/ InDigits(s, u) => InWhole(s, u)
  BY DEF InZero, InDigits
<1>8. IntegerPart(t) <=> InZero(s, u) \/ InDigits(s, u)
  BY <1>4, <1>5, <1>6, <1>7
<1> QED BY <1>4, <1>8 DEF t, a

LEMMA FractionPartIs ==
    ASSUME NEW s \in Seq(Characters), NEW u \in 0..Len(s), NEW v \in u..Len(s)
    PROVE  FractionPart(Part(s, u, v)) <=>
               u = v \/ (s[u + 1] = "." /\ u + 1 < v /\ DigitsIn(s, u + 1, v))
<1> DEFINE t == Part(s, u, v)
<1>1. u \in Nat /\ v \in Nat /\ Len(s) \in Nat /\ u <= v
  OBVIOUS
<1>2. Len(t) = v - u /\ \A k \in 1..(v - u) : t[k] = s[u + k]
  BY PartIs
<1>3. t = <<>> <=> u = v
  BY DigitsOfPart
<1>4. ASSUME u # v
      PROVE  /\ t[1] = s[u + 1]
             /\ AllDigits(Tail(t)) <=> u + 1 < v /\ DigitsIn(s, u + 1, v)
  <2>1. u < v /\ 1 \in 1..(v - u) /\ u + 1 \in 0..Len(s) /\ v \in (u + 1)..Len(s)
    BY <1>1, <1>4
  <2>2. Tail(t) = Part(s, u + 1, v)
    BY <2>1, TailOfPart
  <2>3. AllDigits(Part(s, u + 1, v)) <=> u + 1 < v /\ DigitsIn(s, u + 1, v)
    BY <2>1, DigitsOfPart
  <2> HIDE DEF t
  <2> QED BY <1>2, <2>1, <2>2, <2>3
<1> HIDE DEF t
<1>5. FractionPart(t) <=> u = v \/ (s[u + 1] = "." /\ u + 1 < v /\ DigitsIn(s, u + 1, v))
  BY <1>3, <1>4 DEF FractionPart
<1> QED BY <1>5 DEF t

\* Where the digits of the exponent begin, behind its letter at v + 1.
ExponentStart(s, v) == IF v + 2 <= Len(s) /\ s[v + 2] \in {"+", "-"} THEN v + 2 ELSE v + 1

LEMMA ExponentPartIs ==
    ASSUME NEW s \in Seq(Characters), NEW v \in 0..Len(s)
    PROVE  ExponentPart(Part(s, v, Len(s))) <=>
               v = Len(s) \/ (/\ s[v + 1] \in {"e", "E"}
                              /\ ExponentStart(s, v) < Len(s)
                              /\ DigitsIn(s, ExponentStart(s, v), Len(s)))
<1> DEFINE t == Part(s, v, Len(s))
           w == ExponentStart(s, v)
<1>1. v \in Nat /\ Len(s) \in Nat /\ v <= Len(s) /\ Len(s) \in v..Len(s)
  OBVIOUS
<1>2. Len(t) = Len(s) - v /\ \A k \in 1..(Len(s) - v) : t[k] = s[v + k]
  BY <1>1, PartIs
<1>3. t = <<>> <=> v = Len(s)
  BY <1>1, DigitsOfPart
<1>4. ASSUME v # Len(s)
      PROVE  /\ t[1] = s[v + 1]
             /\ AllDigits(Unsigned(Tail(t), {"+", "-"})) <=> w < Len(s) /\ DigitsIn(s, w, Len(s))
  <2>1. v < Len(s) /\ 1 \in 1..(Len(s) - v) /\ v + 1 \in 0..Len(s) /\ Len(s) \in (v + 1)..Len(s)
    BY <1>1, <1>4
  <2>2. Tail(t) = Part(s, v + 1, Len(s))
    BY <2>1, TailOfPart
  <2>3. /\ Part(s, v + 1, Len(s)) = <<>> <=> v + 1 = Len(s)
        /\ AllDigits(Part(s, v + 1, Len(s))) <=> v + 1 < Len(s) /\ DigitsIn(s, v + 1, Len(s))
    BY <2>1, DigitsOfPart
  <2>4. ASSUME v + 1 # Len(s)
        PROVE  /\ v + 2 <= Len(s)
               /\ Part(s, v + 1, Len(s))[1] = s[v + 2]
               /\ Tail(Part(s, v + 1, Len(s))) = Part(s, v + 2, Len(s))
               /\ AllDigits(Part(s, v + 2, Len(s))) <=> v + 2 < Len(s) /\ DigitsIn(s, v + 2, Len(s))
    <3>1. /\ v + 1 < Len(s) /\ 1 \in 1..(Len(s) - (v + 1)) /\ v + 2 \in 0..Len(s)
          /\ Len(s) \in (v + 2)..Len(s) /\ v + 2 <= Len(s) /\ (v + 1) + 1 = v + 2
      BY <2>1, <2>4, <1>1
    <3>2. Part(s, v + 1, Len(s))[1] = s[(v + 1) + 1]
      BY <2>1, <3>1, PartIs
    <3>3. Tail(Part(s, v + 1, Len(s))) = Part(s, (v + 1) + 1, Len(s))
      BY <2>1, <3>1, TailOfPart
    <3>4. AllDigits(Part(s, v + 2, Len(s))) <=> v + 2 < Len(s) /\ DigitsIn(s, v + 2, Len(s))
      BY <3>1, DigitsOfPart
    <3> QED BY <3>1, <3>2, <3>3, <3>4
  <2>5. Unsigned(Tail(t), {"+", "-"}) = Part(s, w, Len(s))
    <3>1. CASE v + 1 = Len(s)
      <4>1. w = v + 1 /\ Tail(t) = <<>>
        BY <1>1, <2>2, <2>3, <3>1 DEF ExponentStart
      <4> HIDE DEF t, w
      <4> QED BY <2>2, <4>1 DEF Unsigned
    <3>2. CASE v + 1 # Len(s) /\ s[v + 2] \in {"+", "-"}
      <4>1. w = v + 2
        BY <2>4, <3>2 DEF ExponentStart
      <4>2. Tail(t) # <<>> /\ Tail(t)[1] = s[v + 2] /\ Tail(Tail(t)) = Part(s, v + 2, Len(s))
        BY <2>2, <2>3, <2>4, <3>2
      <4> HIDE DEF t, w
      <4> QED BY <3>2, <4>1, <4>2 DEF Unsigned
    <3>3. CASE v + 1 # Len(s) /\ s[v + 2] \notin {"+", "-"}
      <4>1. w = v + 1
        BY <3>3 DEF ExponentStart
      <4>2. Tail(t)[1] = s[v + 2]
        BY <2>2, <2>4, <3>3
      <4> HIDE DEF t, w
      <4> QED BY <2>2, <3>3, <4>1, <4>2 DEF Unsigned
    <3> QED BY <3>1, <3>2, <3>3
  <2>6. w = v + 1 \/ (w = v + 2 /\ v + 1 # Len(s))
    BY <1>1 DEF ExponentStart
  <2>7. AllDigits(Part(s, w, Len(s))) <=> w < Len(s) /\ DigitsIn(s, w, Len(s))
    <3> HIDE DEF t, w
    <3>1. CASE w = v + 1
      BY <2>3, <3>1
    <3>2. CASE w = v + 2 /\ v + 1 # Len(s)
      BY <2>4, <3>2
    <3> QED BY <2>6, <3>1, <3>2
  <2>8. t[1] = s[v + 1]
    <3> HIDE DEF t
    <3> QED BY <1>2, <2>1
  <2> HIDE DEF t, w
  <2> QED BY <2>5, <2>7, <2>8
<1> HIDE DEF t, w
<1>5. ExponentPart(t) <=> v = Len(s) \/ (s[v + 1] \in {"e", "E"} /\ w < Len(s) /\ DigitsIn(s, w, Len(s)))
  BY <1>3, <1>4 DEF ExponentPart
<1> QED BY <1>5 DEF t, w

\* s up to v is followed by an exponent, or by nothing.
LEMMA ExponentFollows ==
    ASSUME NEW s \in Seq(Characters)
    PROVE  (\E v \in 0..Len(s) : (InWhole(s, v) \/ InFraction(s, v)) /\ ExponentPart(Part(s, v, Len(s))))
               <=> InWhole(s, Len(s)) \/ InFraction(s, Len(s)) \/ InExponentDigits(s, Len(s))
<1> DEFINE L == Len(s)
           Before(v) == InWhole(s, v) \/ InFraction(s, v)
<1>1. L \in Nat
  OBVIOUS
<1>2. ASSUME NEW v \in 0..L, Before(v), ExponentPart(Part(s, v, L))
      PROVE  Before(L) \/ InExponentDigits(s, L)
  <2>1. CASE v = L
    BY <1>2, <2>1
  <2>2. CASE v # L
    <3>1. /\ s[v + 1] \in {"e", "E"} /\ ExponentStart(s, v) < L
          /\ DigitsIn(s, ExponentStart(s, v), L)
      BY <1>2, <2>2, ExponentPartIs
    <3>2. v + 1 >= 1 /\ (v + 1) - 1 = v /\ (v + 2) - 1 = v + 1 /\ v + 2 >= 1
      OBVIOUS
    <3>3. InExponent(s, v + 1)
      BY <1>2, <3>1, <3>2 DEF InExponent
    <3>4. ExponentStart(s, v) = v + 2 => InExponentSign(s, v + 2)
      <4> SUFFICES ASSUME ExponentStart(s, v) = v + 2 PROVE InExponentSign(s, v + 2)
        OBVIOUS
      <4>1. s[v + 2] \in {"+", "-"}
        BY <3>2 DEF ExponentStart
      <4> QED BY <3>2, <3>3, <4>1 DEF InExponentSign
    <3>5. ExponentStart(s, v) \in {v + 1, v + 2}
      BY DEF ExponentStart
    <3>6. ExponentStart(s, v) \in 0..(L - 1)
      BY <1>1, <3>1, <3>5
    <3>7. InExponent(s, ExponentStart(s, v)) \/ InExponentSign(s, ExponentStart(s, v))
      BY <3>3, <3>4, <3>5
    <3> HIDE DEF L
    <3> QED BY <3>1, <3>6, <3>7 DEF InExponentDigits
  <2> QED BY <2>1, <2>2
<1>3. ASSUME Before(L) PROVE \E v \in 0..L : Before(v) /\ ExponentPart(Part(s, v, L))
  <2>1. L \in 0..L
    BY <1>1
  <2>2. ExponentPart(Part(s, L, L))
    BY <2>1, ExponentPartIs
  <2> HIDE DEF L, Before
  <2> QED BY <1>3, <2>1, <2>2
<1>4. ASSUME InExponentDigits(s, L)
      PROVE  \E v \in 0..L : Before(v) /\ ExponentPart(Part(s, v, L))
  <2>1. PICK w \in 0..(L - 1) : (InExponent(s, w) \/ InExponentSign(s, w)) /\ DigitsIn(s, w, L)
    BY <1>4 DEF InExponentDigits
  <2>2. w < L /\ w \in Nat /\ IsDigit(s[w + 1])
    <3>1. w < L /\ w \in Nat /\ w + 1 \in (w + 1)..L
      BY <1>1
    <3> QED BY <2>1, <3>1 DEF DigitsIn
  <2>3. ~IsDigit("+") /\ ~IsDigit("-")
    BY DigitsAre
  <2>4. ASSUME NEW v \in 0..L, Before(v), v # L, s[v + 1] \in {"e", "E"}, w = ExponentStart(s, v)
        PROVE  Before(v) /\ ExponentPart(Part(s, v, L))
    BY <2>1, <2>2, <2>4, ExponentPartIs
  <2>5. CASE InExponent(s, w)
    <3>1. w >= 1 /\ Before(w - 1) /\ s[w] \in {"e", "E"}
      BY <2>5 DEF InExponent
    <3>2. w - 1 \in 0..L /\ w - 1 # L /\ (w - 1) + 1 = w /\ (w - 1) + 2 = w + 1
      BY <1>1, <2>2, <3>1
    <3>3. s[(w - 1) + 2] \notin {"+", "-"}
      BY <2>2, <2>3, <3>2
    <3>4. ExponentStart(s, w - 1) = w
      BY <3>2, <3>3 DEF ExponentStart
    <3> HIDE DEF L, Before
    <3> QED BY <2>4, <3>1, <3>2, <3>4
  <2>6. CASE InExponentSign(s, w)
    <3>1. w >= 1 /\ InExponent(s, w - 1) /\ s[w] \in {"+", "-"}
      BY <2>6 DEF InExponentSign
    <3>2. w - 1 >= 1 /\ Before((w - 1) - 1) /\ s[w - 1] \in {"e", "E"}
      BY <3>1 DEF InExponent
    <3>3. /\ w - 2 \in 0..L /\ w - 2 # L /\ (w - 2) + 1 = w - 1 /\ (w - 2) + 2 = w
          /\ (w - 1) - 1 = w - 2 /\ w <= L
      BY <1>1, <2>2, <3>1, <3>2
    <3>4. ExponentStart(s, w - 2) = w
      BY <3>1, <3>3 DEF ExponentStart
    <3>5. Before(w - 2)
      BY <3>2, <3>3
    <3> HIDE DEF L, Before
    <3> QED BY <2>4, <3>2, <3>3, <3>4, <3>5
  <2> QED BY <2>1, <2>5, <2>6
<1> HIDE DEF InWhole, InFraction
<1> QED BY <1>2, <1>3, <1>4

\* A number with a fraction, or without one.
LEMMA FractionFollows ==
    ASSUME NEW s \in Seq(Characters), NEW v \in 0..Len(s)
    PROVE  (\E u \in SignEnd(s)..v : InWhole(s, u) /\ FractionPart(Part(s, u, v)))
               <=> InWhole(s, v) \/ InFraction(s, v)
<1>1. SignEnd(s) \in {0, 1} /\ Len(s) \in Nat /\ v \in Nat
  BY DEF SignEnd
<1>2. ASSUME NEW u \in SignEnd(s)..v, InWhole(s, u), FractionPart(Part(s, u, v))
      PROVE  InWhole(s, v) \/ InFraction(s, v)
  <2>1. u \in 0..Len(s) /\ v \in u..Len(s) /\ u \in Nat
    BY <1>1
  <2>2. u = v \/ (s[u + 1] = "." /\ u + 1 < v /\ DigitsIn(s, u + 1, v))
    BY <1>2, <2>1, FractionPartIs
  <2>3. CASE u = v
    BY <1>2, <2>3
  <2>4. CASE s[u + 1] = "." /\ u + 1 < v /\ DigitsIn(s, u + 1, v)
    <3>1. u + 1 >= 1 /\ (u + 1) - 1 = u /\ u + 1 \in 0..(v - 1)
      BY <1>1, <2>1, <2>4
    <3>2. InPoint(s, u + 1)
      BY <1>2, <2>4, <3>1 DEF InPoint
    <3>3. InFraction(s, v)
      BY <2>4, <3>1, <3>2 DEF InFraction
    <3> QED BY <3>3
  <2> QED BY <2>2, <2>3, <2>4
<1>3. ASSUME InWhole(s, v)
      PROVE  \E u \in SignEnd(s)..v : InWhole(s, u) /\ FractionPart(Part(s, u, v))
  <2>1. v \in SignEnd(s)..v /\ v \in v..Len(s)
    BY <1>1, <1>3 DEF InWhole
  <2>2. FractionPart(Part(s, v, v))
    BY <2>1, FractionPartIs
  <2> QED BY <1>3, <2>1, <2>2
<1>4. ASSUME InFraction(s, v)
      PROVE  \E u \in SignEnd(s)..v : InWhole(s, u) /\ FractionPart(Part(s, u, v))
  <2>1. PICK x \in 0..(v - 1) : InPoint(s, x) /\ DigitsIn(s, x, v)
    BY <1>4 DEF InFraction
  <2>2. x >= 1 /\ InWhole(s, x - 1) /\ s[x] = "."
    BY <2>1 DEF InPoint
  <2>3. SignEnd(s) < x - 1
    BY <2>2 DEF InWhole
  <2>4. /\ x - 1 \in SignEnd(s)..v /\ x - 1 \in 0..Len(s) /\ v \in (x - 1)..Len(s)
        /\ (x - 1) + 1 = x /\ x < v
    BY <1>1, <2>2, <2>3
  <2>5. FractionPart(Part(s, x - 1, v))
    BY <2>1, <2>2, <2>4, FractionPartIs
  <2> QED BY <2>2, <2>4, <2>5
<1> QED BY <1>2, <1>3, <1>4

\* The numbers in which the first digit is free.
LEMMA LooseNumbers ==
    ASSUME NEW s \in Seq(Characters)
    PROVE  Number(s, AllDigits) <=>
               InWhole(s, Len(s)) \/ InFraction(s, Len(s)) \/ InExponentDigits(s, Len(s))
<1>1. SignEnd(s) \in {0, 1} /\ Len(s) \in Nat
  BY DEF SignEnd
<1>2. ASSUME NEW u \in SignEnd(s)..Len(s), NEW v \in u..Len(s)
      PROVE  InParts(s, u, v, AllDigits(Part(s, SignEnd(s), u))) <=>
                 InWhole(s, u) /\ FractionPart(Part(s, u, v)) /\ ExponentPart(Part(s, v, Len(s)))
  BY WholePartIs DEF InParts
<1>3. Number(s, AllDigits) <=>
          \E u \in SignEnd(s)..Len(s) : \E v \in u..Len(s) :
              InWhole(s, u) /\ FractionPart(Part(s, u, v)) /\ ExponentPart(Part(s, v, Len(s)))
  BY <1>2, NumberIs
<1>4. ASSUME NEW u, NEW v
      PROVE  u \in SignEnd(s)..Len(s) /\ v \in u..Len(s) =>
                 v \in 0..Len(s) /\ u \in SignEnd(s)..v
  BY <1>1
<1>5. ASSUME NEW u, NEW v
      PROVE  v \in 0..Len(s) /\ u \in SignEnd(s)..v =>
                 u \in SignEnd(s)..Len(s) /\ v \in u..Len(s)
  BY <1>1
<1>6. Number(s, AllDigits) <=>
          \E v \in 0..Len(s) : \E u \in SignEnd(s)..v :
              InWhole(s, u) /\ FractionPart(Part(s, u, v)) /\ ExponentPart(Part(s, v, Len(s)))
  BY <1>3, <1>4, <1>5
<1>7. Number(s, AllDigits) <=>
          \E v \in 0..Len(s) : (InWhole(s, v) \/ InFraction(s, v)) /\ ExponentPart(Part(s, v, Len(s)))
  BY <1>6, FractionFollows
<1> QED BY <1>7, ExponentFollows

\* Where characters of s that belong to no integer stand.
Marks == {"+", ".", "e", "E"}

LEMMA WholeHasNoMark ==
    ASSUME NEW s \in Seq(Characters), InWhole(s, Len(s)), NEW i \in 1..Len(s)
    PROVE  s[i] \notin Marks
<1>1. ~IsDigit("+") /\ ~IsDigit(".") /\ ~IsDigit("e") /\ ~IsDigit("E")
  BY DigitsAre
<1>2. SignEnd(s) \in {0, 1} /\ (SignEnd(s) = 1 => s[1] = "-")
  BY DEF SignEnd
<1>3. CASE i > SignEnd(s)
  <2>1. i \in (SignEnd(s) + 1)..Len(s)
    BY <1>2, <1>3
  <2> QED BY <1>1, <2>1 DEF InWhole, DigitsIn, Marks
<1>4. CASE ~(i > SignEnd(s))
  <2>1. i = 1 /\ SignEnd(s) = 1
    BY <1>2, <1>4
  <2> QED BY <1>2, <2>1 DEF Marks
<1> QED BY <1>3, <1>4

LEMMA OthersHaveMarks ==
    ASSUME NEW s \in Seq(Characters), NEW n \in 0..Len(s),
           InPoint(s, n) \/ InFraction(s, n) \/ InExponent(s, n) \/ InExponentSign(s, n)
               \/ InExponentDigits(s, n)
    PROVE  \E i \in 1..Len(s) : s[i] \in {".", "e", "E"}
<1>1. ASSUME NEW k \in 0..Len(s), InPoint(s, k) \/ InExponent(s, k)
      PROVE  k \in 1..Len(s) /\ s[k] \in {".", "e", "E"}
  BY <1>1 DEF InPoint, InExponent
<1>2. ASSUME NEW k \in 0..Len(s), InExponentSign(s, k)
      PROVE  k - 1 \in 0..Len(s) /\ InExponent(s, k - 1)
  BY <1>2 DEF InExponentSign
<1>3. CASE InPoint(s, n) \/ InExponent(s, n)
  BY <1>1, <1>3
<1>4. CASE InExponentSign(s, n)
  BY <1>1, <1>2, <1>4
<1>5. CASE InFraction(s, n)
  <2>1. PICK u \in 0..(n - 1) : InPoint(s, u)
    BY <1>5 DEF InFraction
  <2>2. u \in 0..Len(s)
    OBVIOUS
  <2> QED BY <1>1, <2>1, <2>2
<1>6. CASE InExponentDigits(s, n)
  <2>1. PICK u \in 0..(n - 1) : InExponent(s, u) \/ InExponentSign(s, u)
    BY <1>6 DEF InExponentDigits
  <2>2. u \in 0..Len(s)
    OBVIOUS
  <2> QED BY <1>1, <1>2, <2>1, <2>2
<1> QED BY <1>3, <1>4, <1>5, <1>6

LEMMA StrictNumbers ==
    ASSUME NEW s \in Seq(Characters)
    PROVE  /\ Number(s, IntegerPart) => Number(s, AllDigits)
           /\ InZero(s, Len(s)) \/ InDigits(s, Len(s)) => Number(s, IntegerPart)
           /\ (Number(s, IntegerPart) /\ \A i \in 1..Len(s) : s[i] \notin Marks) =>
                  InZero(s, Len(s)) \/ InDigits(s, Len(s))
<1>1. SignEnd(s) \in {0, 1} /\ Len(s) \in Nat
  BY DEF SignEnd
<1>2. ASSUME NEW u \in SignEnd(s)..Len(s), NEW v \in u..Len(s)
      PROVE  /\ InParts(s, u, v, AllDigits(Part(s, SignEnd(s), u))) <=>
                   InWhole(s, u) /\ FractionPart(Part(s, u, v)) /\ ExponentPart(Part(s, v, Len(s)))
             /\ InParts(s, u, v, IntegerPart(Part(s, SignEnd(s), u))) <=>
                   /\ InZero(s, u) \/ InDigits(s, u)
                   /\ FractionPart(Part(s, u, v)) /\ ExponentPart(Part(s, v, Len(s)))
  BY WholePartIs DEF InParts
<1>3. ASSUME NEW u, InZero(s, u) \/ InDigits(s, u) PROVE InWhole(s, u)
  BY <1>3 DEF InZero, InDigits
<1>4. Number(s, IntegerPart) => Number(s, AllDigits)
  BY <1>2, <1>3, NumberIs
<1>5. ASSUME InZero(s, Len(s)) \/ InDigits(s, Len(s)) PROVE Number(s, IntegerPart)
  <2>1. Len(s) \in SignEnd(s)..Len(s) /\ Len(s) \in Len(s)..Len(s) /\ Len(s) \in 0..Len(s)
    BY <1>1, <1>3, <1>5 DEF InWhole
  <2>2. FractionPart(Part(s, Len(s), Len(s))) /\ ExponentPart(Part(s, Len(s), Len(s)))
    BY <2>1, FractionPartIs, ExponentPartIs
  <2>3. InParts(s, Len(s), Len(s), IntegerPart(Part(s, SignEnd(s), Len(s))))
    BY <1>2, <1>5, <2>1, <2>2
  <2>4. \E u \in SignEnd(s)..Len(s) : \E v \in u..Len(s) :
            InParts(s, u, v, IntegerPart(Part(s, SignEnd(s), u)))
    BY <2>1, <2>3
  <2> QED BY <2>4, NumberIs
<1>6. ASSUME Number(s, IntegerPart), \A i \in 1..Len(s) : s[i] \notin Marks
      PROVE  InZero(s, Len(s)) \/ InDigits(s, Len(s))
  <2>1. PICK u \in SignEnd(s)..Len(s) : \E v \in u..Len(s) :
            InParts(s, u, v, IntegerPart(Part(s, SignEnd(s), u)))
    BY <1>6, NumberIs
  <2>2. PICK v \in u..Len(s) :
            /\ InZero(s, u) \/ InDigits(s, u)
            /\ FractionPart(Part(s, u, v)) /\ ExponentPart(Part(s, v, Len(s)))
    BY <1>2, <2>1
  <2>3. u \in 0..Len(s) /\ v \in 0..Len(s) /\ u \in Nat /\ v \in Nat
    BY <1>1
  <2>4. u = v
    <3> SUFFICES ASSUME u # v PROVE FALSE
      OBVIOUS
    <3>1. s[u + 1] = "." /\ u + 1 \in 1..Len(s)
      BY <2>2, <2>3, FractionPartIs
    <3> QED BY <1>6, <3>1 DEF Marks
  <2>5. v = Len(s)
    <3> SUFFICES ASSUME v # Len(s) PROVE FALSE
      OBVIOUS
    <3>1. s[v + 1] \in {"e", "E"} /\ v + 1 \in 1..Len(s)
      BY <2>2, <2>3, ExponentPartIs
    <3> QED BY <1>6, <3>1 DEF Marks
  <2> QED BY <2>2, <2>4, <2>5
<1> QED BY <1>4, <1>5, <1>6

LEMMA NumbersBegin ==
    ASSUME NEW s \in Seq(Characters), Number(s, AllDigits) \/ Number(s, IntegerPart)
    PROVE  s # <<>> /\ (s[1] = "-" \/ IsDigit(s[1]))
<1>1. SignEnd(s) \in {0, 1} /\ Len(s) \in Nat /\ (SignEnd(s) = 1 => s[1] = "-")
  BY DEF SignEnd
<1>2. PICK u \in SignEnd(s)..Len(s) : InWhole(s, u)
  <2>1. Number(s, AllDigits)
    BY StrictNumbers
  <2>2. PICK u \in SignEnd(s)..Len(s) : AllDigits(Part(s, SignEnd(s), u))
    BY <2>1, NumberIs DEF InParts
  <2> QED BY <2>2, WholePartIs
<1>3. SignEnd(s) < u /\ DigitsIn(s, SignEnd(s), u)
  BY <1>2 DEF InWhole
<1>4. Len(s) >= 1
  BY <1>1, <1>3
<1>5. CASE SignEnd(s) = 0
  <2>1. 1 \in (0 + 1)..u
    BY <1>1, <1>3, <1>5
  <2>2. IsDigit(s[1])
    BY <1>3, <1>5, <2>1 DEF DigitsIn
  <2> QED BY <1>4, <2>2
<1>6. CASE SignEnd(s) = 1
  BY <1>1, <1>4, <1>6
<1> QED BY <1>1, <1>5, <1>6

\* What FromString does not take for a number at first sight.
NoNumber(s) ==
    \/ s = <<>> \/ s[1] = "{"
    \/ s # <<>> /\ s[1] = Quote /\ Last(s) = Quote
    \/ s \in {<<"null">>, <<"true">>, <<"false">>}

LEMMA ScalarIs ==
    ASSUME NEW s
    PROVE  /\ NoNumber(s) => ParseScalar(s).type \notin {"Integer", "Float"}
           /\ ~NoNumber(s) => ParseScalar(s) = IF ToSet(s) \cap Marks # {}
                                               THEN ParseFloat(s) ELSE ParseInteger(s)
<1>1. ASSUME NoNumber(s)
      PROVE  ParseScalar(s) \in {Invalid, String(UnEscape(Inner(s))), Null, Boolean(TRUE), Boolean(FALSE)}
  <2>1. s = <<"null">> => s # <<>> /\ s[1] = "null"
    OBVIOUS
  <2>2. s = <<"true">> => s # <<>> /\ s[1] = "true"
    OBVIOUS
  <2>3. s = <<"false">> => s # <<>> /\ s[1] = "false"
    OBVIOUS
  <2>4. Quote \notin {"{", "null", "true", "false"}
    BY DEF Quote
  <2>5. CASE s = <<>> \/ s[1] = "{"
    BY <2>1, <2>2, <2>3, <2>4, <2>5 DEF ParseScalar
  <2>6. CASE s # <<>> /\ s[1] = Quote /\ Last(s) = Quote
    BY <2>1, <2>2, <2>3, <2>4, <2>6 DEF ParseScalar
  <2>7. CASE s = <<"null">>
    BY <2>1, <2>2, <2>3, <2>4, <2>7 DEF ParseScalar
  <2>8. CASE s = <<"true">>
    BY <2>1, <2>2, <2>3, <2>4, <2>8 DEF ParseScalar
  <2>9. CASE s = <<"false">>
    BY <2>1, <2>2, <2>3, <2>4, <2>9 DEF ParseScalar
  <2> QED BY <1>1, <2>5, <2>6, <2>7, <2>8, <2>9 DEF NoNumber
<1>2. \A r \in {Invalid, String(UnEscape(Inner(s))), Null, Boolean(TRUE), Boolean(FALSE)} :
          r.type \notin {"Integer", "Float"}
  BY DEF Invalid, String, Null, Boolean
<1>3. ~NoNumber(s) => ParseScalar(s) = IF ToSet(s) \cap Marks # {} THEN ParseFloat(s) ELSE ParseInteger(s)
  BY DEF NoNumber, ParseScalar, Marks
<1> QED BY <1>1, <1>2, <1>3

LEMMA NoNumberIsNone ==
    ASSUME NEW s \in Seq(Characters), NoNumber(s)
    PROVE  ~Number(s, AllDigits) /\ ~Number(s, IntegerPart) /\ s # <<"-">>
<1>1. ~(s # <<>> /\ (s[1] = "-" \/ IsDigit(s[1])))
  <2>1. ASSUME s # <<>> PROVE s[1] \in {"{", Quote, "null", "true", "false"}
    <3>1. CASE s \in {<<"null">>, <<"true">>, <<"false">>}
      <4>1. <<"null">>[1] = "null" /\ <<"true">>[1] = "true" /\ <<"false">>[1] = "false"
        OBVIOUS
      <4>2. CASE s = <<"null">>
        BY <4>1, <4>2
      <4>3. CASE s = <<"true">>
        BY <4>1, <4>3
      <4>4. CASE s = <<"false">>
        BY <4>1, <4>4
      <4> QED BY <3>1, <4>2, <4>3, <4>4
    <3>2. CASE s \notin {<<"null">>, <<"true">>, <<"false">>}
      BY <2>1, <3>2 DEF NoNumber
    <3> QED BY <3>1, <3>2
  <2> QED BY <2>1, DigitsAre DEF Quote
<1>2. s = <<"-">> => s # <<>> /\ s[1] = "-"
  OBVIOUS
<1> QED BY <1>1, <1>2, NumbersBegin

LEMMA NoMarks ==
    ASSUME NEW s \in Seq(Characters)
    PROVE  ToSet(s) \cap Marks = {} <=> \A i \in 1..Len(s) : s[i] \notin Marks
<1>1. ToSet(s) = {s[i] : i \in 1..Len(s)}
  BY DEF ToSet
<1> QED BY <1>1

LEMMA LoneMinus ==
    ASSUME NEW s \in Seq(Characters)
    PROVE  InNumber(s, Len(s)) <=> s = <<"-">>
<1>1. ASSUME InNumber(s, Len(s)) PROVE s = <<"-">>
  <2>1. Len(s) = 1 /\ s[1] = "-"
    BY <1>1 DEF InNumber
  <2> DEFINE t == <<"-">>
  <2>2. s[1] \in Characters
    BY <2>1
  <2>3. t \in Seq(Characters) /\ Len(t) = 1 /\ t[1] = "-"
    BY <2>1, <2>2
  <2> HIDE DEF t
  <2>4. s = t
    <3>1. \A k \in 1..Len(s) : s[k] = t[k]
      BY <2>1, <2>3
    <3> QED BY <2>1, <2>3, <3>1, SamePart
  <2> QED BY <2>4 DEF t
<1>2. s = <<"-">> => InNumber(s, Len(s))
  BY DEF InNumber
<1> QED BY <1>1, <1>2

\* What is taken for a number.
LEMMA TakenForNumbers ==
    ASSUME NEW s \in Seq(Characters)
    PROVE  ParseScalar(s).type \in {"Integer", "Float"} <=>
              \/ Number(s, IntegerPart)
              \/ s = <<"-">>
              \/ /\ Number(s, AllDigits)
                 /\ \E i \in DOMAIN s : s[i] \in {".", "e", "E"}
<1>1. Len(s) \in Nat /\ DOMAIN s = 1..Len(s) /\ Len(s) \in 0..Len(s)
  OBVIOUS
<1>2. CASE NoNumber(s)
  BY <1>2, NoNumberIsNone, ScalarIs
<1>3. CASE ~NoNumber(s) /\ ToSet(s) \cap Marks # {}
  <2>1. ParseScalar(s) = ParseFloat(s)
    BY <1>3, ScalarIs
  <2>2. PICK i \in 1..Len(s) : s[i] \in Marks
    BY <1>3, NoMarks
  <2>3. ~InWhole(s, Len(s))
    BY <2>2, WholeHasNoMark
  <2>4. ~InNumber(s, Len(s))
    <3>1. InNumber(s, Len(s)) => i = 1 /\ s[1] = "-"
      BY DEF InNumber
    <3> QED BY <2>2, <3>1 DEF Marks
  <2>5. ParseScalar(s).type \in {"Integer", "Float"} <=>
            InFraction(s, Len(s)) \/ InExponentDigits(s, Len(s))
    BY <1>1, <2>1, <2>3, <2>4, FloatIsNumber
  <2>6. Number(s, AllDigits) <=> InFraction(s, Len(s)) \/ InExponentDigits(s, Len(s))
    BY <2>3, LooseNumbers
  <2>7. Number(s, AllDigits) => \E k \in DOMAIN s : s[k] \in {".", "e", "E"}
    BY <1>1, <2>6, OthersHaveMarks
  <2> QED BY <2>4, <2>5, <2>6, <2>7, LoneMinus, StrictNumbers
<1>4. CASE ~NoNumber(s) /\ ToSet(s) \cap Marks = {}
  <2>1. ParseScalar(s) = ParseInteger(s)
    BY <1>4, ScalarIs
  <2>2. \A i \in 1..Len(s) : s[i] \notin Marks
    BY <1>4, NoMarks
  <2>3. ~ \E i \in DOMAIN s : s[i] \in {".", "e", "E"}
    BY <1>1, <2>2 DEF Marks
  <2>4. Number(s, IntegerPart) <=> InZero(s, Len(s)) \/ InDigits(s, Len(s))
    BY <2>2, StrictNumbers
  <2>5. PICK p, first : /\ IntegerKnows(s, Len(s), p, first)
                        /\ ParseInteger(s) = IF p.state \in {"INVALID", "MINUS"} THEN Invalid
                                             ELSE Integer(Wrap(IF p.negative THEN -p.value ELSE p.value))
    BY IntegerEnds
  <2>6. IntegerSays(s, Len(s), p.state)
    BY <2>5 DEF IntegerKnows
  <2>7. ParseInteger(s).type \in {"Integer", "Float"} <=> p.state \in {"NUMBER", "ZERO", "DIGIT"}
    <3>1. p.state \in IntegerStates
      BY <2>6 DEF IntegerSays
    <3> QED BY <2>5, <3>1 DEF IntegerStates, Invalid, Integer
  <2>8. p.state \in {"NUMBER", "ZERO", "DIGIT"} <=>
            InNumber(s, Len(s)) \/ InZero(s, Len(s)) \/ InDigits(s, Len(s))
    BY <2>6 DEF IntegerSays
  <2> QED BY <2>1, <2>3, <2>4, <2>7, <2>8, LoneMinus
<1> QED BY <1>2, <1>3, <1>4

\* What an integer is read as.
LEMMA IntegersAreExact ==
    ASSUME NEW s \in Seq(Characters), IntegerPart(Unsigned(s, {"-"})), NEW n,
           n = IF Unsigned(s, {"-"}) = s THEN Decimal(Unsigned(s, {"-"}))
               ELSE -Decimal(Unsigned(s, {"-"})),
           n = Wrap(n)
    PROVE  ParseScalar(s) = Integer(n)
<1> DEFINE a == SignEnd(s)
           t == Unsigned(s, {"-"})
<1>1. a \in {0, 1} /\ Len(s) \in Nat /\ Len(t) = Len(s) - a /\ t \in Seq(Characters)
      /\ (a = 0 <=> t = s)
  BY UnsignedIs DEF SignEnd
<1>2. t = Part(s, a, Len(s))
  <2>1. 0 \in 0..(Len(s) - a) /\ Len(t) \in 0..(Len(s) - a) /\ a + Len(t) = Len(s) /\ a + 0 = a
    BY <1>1
  <2>2. SubSeq(t, 0 + 1, Len(t)) = Part(s, a + 0, a + Len(t))
    BY <2>1, PartOfUnsigned
  <2>3. SubSeq(t, 0 + 1, Len(t)) = t
    <3> HIDE DEF t, a
    <3> QED BY <1>1
  <2> HIDE DEF t, a
  <2> QED BY <2>1, <2>2, <2>3
<1>3. InZero(s, Len(s)) \/ InDigits(s, Len(s))
  <2>1. IntegerPart(Part(s, a, Len(s)))
    BY <1>2
  <2>2. Len(s) \in a..Len(s)
    BY <1>1
  <2> QED BY <2>1, <2>2, WholePartIs
<1>4. InWhole(s, Len(s)) /\ Number(s, IntegerPart)
  BY <1>3, StrictNumbers DEF InZero, InDigits
<1>5. ParseScalar(s) = ParseInteger(s)
  <2>1. ~NoNumber(s)
    BY <1>4, NoNumberIsNone
  <2>2. ToSet(s) \cap Marks = {}
    BY <1>4, NoMarks, WholeHasNoMark
  <2> QED BY <2>1, <2>2, ScalarIs
<1>6. PICK p, first : /\ IntegerKnows(s, Len(s), p, first)
                      /\ first[Len(s) - a] = Decimal(t)
                      /\ ParseInteger(s) = IF p.state \in {"INVALID", "MINUS"} THEN Invalid
                                           ELSE Integer(Wrap(IF p.negative THEN -p.value ELSE p.value))
  BY IntegerEnds
<1>7. IntegerSays(s, Len(s), p.state) /\ p.negative = (Len(s) > 0 /\ a = 1)
  BY <1>6 DEF IntegerKnows
<1>8. p.state \in {"ZERO", "DIGIT"}
  BY <1>3, <1>7 DEF IntegerSays
<1>9. Reads(p, Decimal(t))
  BY <1>4, <1>6, <1>8 DEF IntegerKnows
<1>10. Len(s) > 0
  BY <1>1, <1>4 DEF InWhole
<1> DEFINE d == Decimal(t)
<1>11. n = IF a = 0 THEN d ELSE -d
  BY <1>1
<1>12. ParseScalar(s) = Integer(Wrap(IF a = 1 THEN -p.value ELSE p.value))
  <2>1. p.negative <=> a = 1
    BY <1>7, <1>10
  <2> HIDE DEF a, t
  <2> QED BY <1>5, <1>6, <1>8, <2>1
<1>13. d \in Nat /\ p.value \in Int /\ (d <= IntMax + 1 => p.value \in {d, Wrap(d)}) /\ IntMax \in Nat
  BY <1>9, JsonAssumption DEF Reads
<1> HIDE DEF a, t, d
<1>14. n \in Int
  BY <1>11, <1>13
<1>15. -(IntMax + 1) <= n /\ n <= IntMax
  BY <1>14, WrapIs
<1>16. d <= IntMax + 1
  BY <1>1, <1>11, <1>13, <1>15
<1>17. PICK v \in Int : v = p.value
  BY <1>13
<1>18. v \in {d, Wrap(d)}
  BY <1>13, <1>16, <1>17
<1>19. CASE d <= IntMax
  <2>1. Wrap(d) = d
    BY <1>13, <1>19, WrapIs
  <2>2. v = d
    BY <1>18, <2>1
  <2>3. n = IF a = 1 THEN -v ELSE v
    BY <1>1, <1>11, <2>2
  <2> QED BY <1>12, <1>17, <2>3
<1>20. CASE d = IntMax + 1
  <2>1. a = 1 /\ n = -(IntMax + 1)
    BY <1>1, <1>11, <1>13, <1>15, <1>20
  <2>2. Wrap(d) = -(IntMax + 1)
    BY <1>14, <1>20, WrapIs
  <2>3. v = IntMax + 1 \/ v = -(IntMax + 1)
    BY <1>18, <1>20, <2>2
  <2>4. Wrap(-v) = n
    <3>1. CASE v = IntMax + 1
      <4>1. -v = n
        BY <2>1, <3>1
      <4> QED BY <4>1
    <3>2. CASE v = -(IntMax + 1)
      <4>1. -v = IntMax + 1
        BY <1>13, <3>2
      <4> QED BY <1>20, <2>1, <2>2, <4>1
    <3> QED BY <2>3, <3>1, <3>2
  <2> QED BY <1>12, <1>17, <2>1, <2>4
<1>21. d <= IntMax \/ d = IntMax + 1
  BY <1>13, <1>16
<1> QED BY <1>19, <1>20, <1>21

\* FromString of what is no array returns at once.
ScalarReturned ==
    /\ text \in Seq(Characters)
    /\ ~IsArray(text) => calls = <<>> /\ value = ParseScalar(text)

LEMMA AlwaysReturned == JsonSpec => []ScalarReturned
<1>1. JsonInit => ScalarReturned
  BY JsonAssumption DEF JsonInit, ScalarReturned
<1>2. ScalarReturned /\ [JsonNext]_jsonVars => ScalarReturned'
  BY DEF ScalarReturned, JsonNext, Element, Return, jsonVars
<1> QED BY <1>1, <1>2, PTL DEF JsonSpec

LEMMA ReturnedIsRight == ScalarReturned => ReadsNumbers
<1> SUFFICES ASSUME text \in Seq(Characters), value = ParseScalar(text)
             PROVE  ReadsNumbers
  BY DEF ScalarReturned, ReadsNumbers
<1>1. value.type \in {"Integer", "Float"} <=>
          \/ Number(text, IntegerPart)
          \/ text = <<"-">>
          \/ /\ Number(text, AllDigits)
             /\ \E i \in DOMAIN text : text[i] \in {".", "e", "E"}
  BY TakenForNumbers
<1> DEFINE digits == Unsigned(text, {"-"})
           n == IF digits = text THEN Decimal(digits) ELSE -Decimal(digits)
<1>2. (IntegerPart(digits) /\ n = Wrap(n)) => value = Integer(n)
  BY IntegersAreExact
<1> QED BY <1>1, <1>2 DEF ReadsNumbers

\* Json::FromString takes for numbers those of RFC 7159, a lone minus and doubles with
\* leading zeros, and nothing else, whatever the text; and it reads every integer that
\* an int can hold as that integer, whatever the width of an int.
THEOREM NumbersAreRead == JsonSpec => []ReadsNumbers
BY AlwaysReturned, ReturnedIsRight, PTL

-----------------------------------------------------------------------------
(* What a loop makes of a text, and of texts one behind the other. *)

\* The loop from base on, over all of s.
Run(loop, base, s) == (CHOOSE after : AreSteps(loop, base, s, Len(s), after))[Len(s)]

LEMMA RunFollows ==
    ASSUME NEW loop, NEW base, NEW s, Len(s) \in Nat
    PROVE  \E after : Follows(loop, base, s, after) /\ Run(loop, base, s) = after[Len(s)]
<1> DEFINE after == CHOOSE after : AreSteps(loop, base, s, Len(s), after)
<1>1. Run(loop, base, s) = after[Len(s)]
  BY DEF Run
<1>2. AreSteps(loop, base, s, Len(s), after)
  BY StepsExist
<1> HIDE DEF after
<1> QED BY <1>1, <1>2, StepsFollow

LEMMA RunIs ==
    ASSUME NEW loop, NEW base, NEW s, Len(s) \in Nat, NEW after, Follows(loop, base, s, after)
    PROVE  Run(loop, base, s) = after[Len(s)]
<1>1. PICK f : Follows(loop, base, s, f) /\ Run(loop, base, s) = f[Len(s)]
  BY RunFollows
<1> DEFINE S == {n \in 0..Len(s) : after[n] = f[n]}
<1>2. 0 \in S
  BY <1>1 DEF Follows
<1>3. ASSUME NEW n \in 0..(Len(s) - 1), n \in S PROVE n + 1 \in S
  BY <1>1, <1>3 DEF Follows
<1> HIDE DEF S
<1>4. 0..Len(s) \subseteq S
  BY <1>2, <1>3, Induction
<1>5. Len(s) \in 0..Len(s)
  OBVIOUS
<1> QED BY <1>1, <1>4, <1>5 DEF S

LEMMA RunOverNothing ==
    ASSUME NEW loop, NEW base
    PROVE  Run(loop, base, <<>>) = base
<1>1. Len(<<>>) = 0
  OBVIOUS
<1>2. Follows(loop, base, <<>>, [i \in {0} |-> base])
  BY <1>1 DEF Follows
<1> QED BY <1>1, <1>2, RunIs

LEMMA RunOverOneMore ==
    ASSUME NEW loop, NEW base, NEW S, NEW s \in Seq(S), NEW ch \in S
    PROVE  Run(loop, base, Append(s, ch)) = StepOf(loop, Run(loop, base, s), ch)
<1> DEFINE t == Append(s, ch)
<1>1. Len(t) = Len(s) + 1 /\ Len(s) \in Nat /\ t[Len(s) + 1] = ch
      /\ \A n \in 1..Len(s) : t[n] = s[n]
  OBVIOUS
<1>2. PICK f : Follows(loop, base, t, f) /\ Run(loop, base, t) = f[Len(t)]
  <2> HIDE DEF t
  <2> QED BY <1>1, RunFollows
<1> HIDE DEF t
<1>3. Follows(loop, base, s, f)
  <2>1. f[0] = base
    BY <1>2 DEF Follows
  <2>2. ASSUME NEW n \in 0..(Len(s) - 1) PROVE f[n + 1] = StepOf(loop, f[n], s[n + 1])
    <3>1. n \in 0..(Len(t) - 1) /\ n + 1 \in 1..Len(s)
      BY <1>1
    <3> QED BY <1>1, <1>2, <3>1 DEF Follows
  <2> QED BY <2>1, <2>2 DEF Follows
<1>4. Run(loop, base, s) = f[Len(s)]
  BY <1>1, <1>3, RunIs
<1>5. f[Len(s) + 1] = StepOf(loop, f[Len(s)], t[Len(s) + 1])
  <2>1. Len(s) \in 0..(Len(t) - 1)
    BY <1>1
  <2> QED BY <1>2, <2>1 DEF Follows
<1> QED BY <1>1, <1>2, <1>4, <1>5 DEF t

LEMMA AppendedToBoth ==
    ASSUME NEW S, NEW s \in Seq(S), NEW t \in Seq(S), NEW ch \in S
    PROVE  s \o Append(t, ch) = Append(s \o t, ch)
<1>1. Append(t, ch) = t \o <<ch>> /\ <<ch>> \in Seq(S)
  BY AppendIsConcat
<1>2. Append(s \o t, ch) = (s \o t) \o <<ch>>
  BY AppendIsConcat, ConcatProperties
<1> QED BY <1>1, <1>2, ConcatAssociative

LEMMA RunOverBoth ==
    ASSUME NEW loop, NEW base, NEW S, NEW s \in Seq(S), NEW t \in Seq(S)
    PROVE  Run(loop, base, s \o t) = Run(loop, Run(loop, base, s), t)
<1> DEFINE M == {n \in Nat : \A u \in Seq(S) : Len(u) = n =>
                    Run(loop, base, s \o u) = Run(loop, Run(loop, base, s), u)}
<1>1. 0 \in M
  <2> SUFFICES ASSUME NEW u \in Seq(S), Len(u) = 0
               PROVE  Run(loop, base, s \o u) = Run(loop, Run(loop, base, s), u)
    OBVIOUS
  <2>1. u = <<>>
    BY EmptySeq
  <2>2. s \o u = s
    BY <2>1, ConcatEmptySeq
  <2> QED BY <2>1, <2>2, RunOverNothing
<1>2. ASSUME NEW n \in 0..(Len(t) - 1), n \in M PROVE n + 1 \in M
  <2> SUFFICES ASSUME NEW u \in Seq(S), Len(u) = n + 1
               PROVE  Run(loop, base, s \o u) = Run(loop, Run(loop, base, s), u)
    OBVIOUS
  <2>1. u # <<>>
    BY EmptySeq
  <2>2. PICK w \in Seq(S), ch \in S : u = Append(w, ch)
    BY <2>1, SequenceEmptyOrAppend
  <2>3. Len(w) = n
    BY <2>2, AppendProperties, LenProperties
  <2>4. s \o u = Append(s \o w, ch) /\ s \o w \in Seq(S)
    BY <2>2, AppendedToBoth, ConcatProperties
  <2> DEFINE v == s \o w
  <2> HIDE DEF v
  <2>5. Run(loop, base, Append(v, ch)) = StepOf(loop, Run(loop, base, v), ch)
    <3>1. v \in Seq(S)
      BY <2>4 DEF v
    <3> QED BY <3>1, RunOverOneMore
  <2>6. Run(loop, Run(loop, base, s), u) = StepOf(loop, Run(loop, Run(loop, base, s), w), ch)
    BY <2>2, RunOverOneMore
  <2>7. Run(loop, base, s \o w) = Run(loop, Run(loop, base, s), w)
    BY <1>2, <2>3
  <2> QED BY <2>4, <2>5, <2>6, <2>7 DEF v
<1>3. Len(t) \in Nat
  BY LenProperties
<1> HIDE DEF M
<1>4. 0..Len(t) \subseteq M
  BY <1>1, <1>2, <1>3, Induction
<1>5. Len(t) \in M
  BY <1>3, <1>4
<1> QED BY <1>5 DEF M

LEMMA RunOverOne ==
    ASSUME NEW loop, NEW base, NEW ch
    PROVE  Run(loop, base, <<ch>>) = StepOf(loop, base, ch)
<1>1. PICK nothing \in Seq({ch}) : nothing = <<>>
  BY EmptySeq
<1>2. Append(nothing, ch) = <<ch>>
  BY <1>1
<1>3. Run(loop, base, Append(nothing, ch)) = StepOf(loop, Run(loop, base, nothing), ch)
  <2>1. ch \in {ch}
    OBVIOUS
  <2> QED BY <2>1, RunOverOneMore
<1> QED BY <1>1, <1>2, <1>3, RunOverNothing

-----------------------------------------------------------------------------
(* Texts joined. *)

AreJoined(ts, f) == f = [i \in 1..Len(ts) |-> IF i = 1 THEN ts[i] ELSE f[i - 1] \o ts[i]]

LEMMA JoinIs ==
    ASSUME NEW S, NEW ts \in Seq(Seq(S))
    PROVE  FlattenSeq(ts) = Run("join", <<>>, ts)
<1>1. Len(ts) \in Nat /\ \A i \in 1..Len(ts) : ts[i] \in Seq(S)
  BY LenProperties, ElementOfSeq
<1>2. CASE Len(ts) = 0
  <2>1. ts = <<>>
    BY <1>2, EmptySeq
  <2>2. FlattenSeq(ts) = ts
    BY <1>2 DEF FlattenSeq
  <2> QED BY <2>1, <2>2, RunOverNothing
<1>3. CASE Len(ts) # 0
  <2> DEFINE f == CHOOSE f : AreJoined(ts, f)
  <2>1. FlattenSeq(ts) = f[Len(ts)]
    BY <1>3 DEF FlattenSeq, AreJoined
  <2>2. \E g : AreJoined(ts, g)
    <3>1. PICK after : Follows("join", <<>>, ts, after)
      BY <1>1, RunFollows
    <3> DEFINE g == [i \in 1..Len(ts) |-> after[i]]
    <3>2. ASSUME NEW i \in 1..Len(ts) PROVE after[i] = IF i = 1 THEN ts[i] ELSE g[i - 1] \o ts[i]
      <4>1. i - 1 \in 0..(Len(ts) - 1) /\ (i - 1) + 1 = i
        BY <1>1
      <4>2. after[i] = after[i - 1] \o ts[i]
        BY <3>1, <4>1 DEF Follows, StepOf
      <4>3. CASE i = 1
        <5>1. i - 1 = 0 /\ after[0] = <<>>
          BY <3>1, <4>3 DEF Follows
        <5>2. after[i] = <<>> \o ts[i]
          BY <4>2, <5>1
        <5> QED BY <1>1, <4>3, <5>2, ConcatEmptySeq
      <4>4. CASE i # 1
        <5>1. i - 1 \in 1..Len(ts)
          BY <1>1, <4>4
        <5> QED BY <4>2, <4>4, <5>1
      <4> QED BY <4>3, <4>4
    <3>3. g = [i \in 1..Len(ts) |-> IF i = 1 THEN ts[i] ELSE g[i - 1] \o ts[i]]
      BY <3>2
    <3> HIDE DEF g
    <3> QED BY <3>3 DEF AreJoined
  <2>3. AreJoined(ts, f)
    BY <2>2
  <2> HIDE DEF f
  <2>4. \A i \in 1..Len(ts) : f[i] = IF i = 1 THEN ts[i] ELSE f[i - 1] \o ts[i]
    BY <2>3 DEF AreJoined
  <2> DEFINE after == [k \in 0..Len(ts) |-> IF k = 0 THEN <<>> ELSE f[k]]
  <2>5. Follows("join", <<>>, ts, after)
    <3>1. after[0] = <<>>
      BY <1>1
    <3>2. ASSUME NEW n \in 0..(Len(ts) - 1) PROVE after[n + 1] = after[n] \o ts[n + 1]
      <4>1. n + 1 \in 1..Len(ts) /\ n + 1 \in 0..Len(ts) /\ n \in 0..Len(ts) /\ (n + 1) - 1 = n /\ n + 1 # 0
        BY <1>1
      <4>2. CASE n = 0
        <5>1. after[n + 1] = ts[n + 1] /\ after[n] = <<>>
          BY <2>4, <4>1, <4>2
        <5> QED BY <1>1, <4>1, <5>1, ConcatEmptySeq
      <4>3. CASE n # 0
        <5>1. after[n + 1] = f[n + 1] /\ after[n] = f[n]
          BY <4>1, <4>3
        <5>2. n + 1 # 1
          BY <4>1, <4>3
        <5> QED BY <2>4, <4>1, <5>1, <5>2
      <4> QED BY <4>2, <4>3
    <3> HIDE DEF after
    <3> QED BY <3>1, <3>2 DEF Follows, StepOf
  <2>6. after[Len(ts)] = f[Len(ts)]
    BY <1>1, <1>3
  <2> HIDE DEF after
  <2> QED BY <1>1, <2>1, <2>5, <2>6, RunIs
<1> QED BY <1>2, <1>3

LEMMA NothingJoined == FlattenSeq(<<>>) = <<>>
BY DEF FlattenSeq

LEMMA OneMoreJoined ==
    ASSUME NEW S, NEW ts \in Seq(Seq(S)), NEW t \in Seq(S)
    PROVE  FlattenSeq(Append(ts, t)) = FlattenSeq(ts) \o t
<1>1. Append(ts, t) \in Seq(Seq(S))
  BY AppendProperties
<1>2. FlattenSeq(Append(ts, t)) = Run("join", <<>>, Append(ts, t)) /\ FlattenSeq(ts) = Run("join", <<>>, ts)
  BY <1>1, JoinIs
<1>3. Run("join", <<>>, Append(ts, t)) = StepOf("join", Run("join", <<>>, ts), t)
  BY RunOverOneMore
<1> QED BY <1>2, <1>3 DEF StepOf

LEMMA JoinedIsText ==
    ASSUME NEW S, NEW ts \in Seq(Seq(S))
    PROVE  FlattenSeq(ts) \in Seq(S)
<1> DEFINE M == {n \in Nat : \A us \in Seq(Seq(S)) : Len(us) = n => FlattenSeq(us) \in Seq(S)}
<1>1. 0 \in M
  <2> SUFFICES ASSUME NEW us \in Seq(Seq(S)), Len(us) = 0 PROVE FlattenSeq(us) \in Seq(S)
    OBVIOUS
  <2>1. us = <<>>
    BY EmptySeq
  <2> QED BY <2>1, NothingJoined, EmptySeq
<1>2. ASSUME NEW n \in 0..(Len(ts) - 1), n \in M PROVE n + 1 \in M
  <2> SUFFICES ASSUME NEW us \in Seq(Seq(S)), Len(us) = n + 1 PROVE FlattenSeq(us) \in Seq(S)
    OBVIOUS
  <2>1. us # <<>>
    BY EmptySeq
  <2>2. PICK vs \in Seq(Seq(S)), v \in Seq(S) : us = Append(vs, v)
    BY <2>1, SequenceEmptyOrAppend
  <2>3. Len(vs) = n
    BY <2>2, AppendProperties, LenProperties
  <2>4. FlattenSeq(vs) \in Seq(S)
    BY <1>2, <2>3
  <2>5. FlattenSeq(us) = FlattenSeq(vs) \o v
    BY <2>2, OneMoreJoined
  <2> QED BY <2>4, <2>5, ConcatProperties
<1>3. Len(ts) \in Nat
  BY LenProperties
<1> HIDE DEF M
<1>4. 0..Len(ts) \subseteq M
  BY <1>1, <1>2, <1>3, Induction
<1>5. Len(ts) \in M
  BY <1>3, <1>4
<1> QED BY <1>5 DEF M

-----------------------------------------------------------------------------
(* The loops of UnEscape and ParseValueStr, as Fold is written. *)

AreUnEscapeSteps(base, s, after) ==
    after = [i \in 0..Len(s) |->
                IF i = 0 THEN base
                ELSE CHOOSE next \in {UnEscapeStep(now, s[i]) : now \in {after[i - 1]}} : TRUE]

AreScanSteps(base, s, after) ==
    after = [i \in 0..Len(s) |->
                IF i = 0 THEN base
                ELSE CHOOSE next \in {ScanStep(now, s[i]) : now \in {after[i - 1]}} : TRUE]

LEMMA UnEscapeStepIsChosen ==
    ASSUME NEW now, NEW ch
    PROVE  (CHOOSE next \in {UnEscapeStep(p, ch) : p \in {now}} : TRUE) = StepOf("unescape", now, ch)
<1>1. {UnEscapeStep(p, ch) : p \in {now}} = {StepOf("unescape", now, ch)}
  BY DEF StepOf
<1> QED BY <1>1, ChosenOfOne

LEMMA ScanStepIsChosen ==
    ASSUME NEW now, NEW ch
    PROVE  (CHOOSE next \in {ScanStep(p, ch) : p \in {now}} : TRUE) = StepOf("scan", now, ch)
<1>1. {ScanStep(p, ch) : p \in {now}} = {StepOf("scan", now, ch)}
  BY DEF StepOf
<1> QED BY <1>1, ChosenOfOne

LEMMA UnEscapeFold ==
    ASSUME NEW base, NEW s, Len(s) \in Nat
    PROVE  Fold(UnEscapeStep, base, s) = Run("unescape", base, s)
<1> DEFINE after == CHOOSE after : AreUnEscapeSteps(base, s, after)
<1>1. Fold(UnEscapeStep, base, s) = after[Len(s)]
  BY DEF Fold, AreUnEscapeSteps
<1>2. ASSUME NEW f PROVE AreUnEscapeSteps(base, s, f) <=> AreSteps("unescape", base, s, Len(s), f)
  <2>1. \A i \in 0..Len(s) :
            (IF i = 0 THEN base
             ELSE CHOOSE next \in {UnEscapeStep(now, s[i]) : now \in {f[i - 1]}} : TRUE)
                = (IF i = 0 THEN base ELSE StepOf("unescape", f[i - 1], s[i]))
    BY UnEscapeStepIsChosen
  <2> QED BY <2>1 DEF AreUnEscapeSteps, AreSteps
<1>3. AreUnEscapeSteps(base, s, after)
  BY <1>2, StepsExist
<1> HIDE DEF after
<1> QED BY <1>1, <1>2, <1>3, StepsFollow, RunIs

LEMMA ScanFold ==
    ASSUME NEW base, NEW s, Len(s) \in Nat
    PROVE  Fold(ScanStep, base, s) = Run("scan", base, s)
<1> DEFINE after == CHOOSE after : AreScanSteps(base, s, after)
<1>1. Fold(ScanStep, base, s) = after[Len(s)]
  BY DEF Fold, AreScanSteps
<1>2. ASSUME NEW f PROVE AreScanSteps(base, s, f) <=> AreSteps("scan", base, s, Len(s), f)
  <2>1. \A i \in 0..Len(s) :
            (IF i = 0 THEN base
             ELSE CHOOSE next \in {ScanStep(now, s[i]) : now \in {f[i - 1]}} : TRUE)
                = (IF i = 0 THEN base ELSE StepOf("scan", f[i - 1], s[i]))
    BY ScanStepIsChosen
  <2> QED BY <2>1 DEF AreScanSteps, AreSteps
<1>3. AreScanSteps(base, s, after)
  BY <1>2, StepsExist
<1> HIDE DEF after
<1> QED BY <1>1, <1>2, <1>3, StepsFollow, RunIs

-----------------------------------------------------------------------------
(* What is escaped is unescaped. *)

\* What Escape makes of a character.
EscapedCh(ch) == IF ch \in Escaped THEN <<Backslash, ch>> ELSE <<ch>>
Pieces(s) == [i \in DOMAIN s |-> IF s[i] \in Escaped THEN <<Backslash, s[i]>> ELSE <<s[i]>>]

LEMMA PieceIs ==
    ASSUME NEW ch \in Characters
    PROVE  EscapedCh(ch) \in Seq(Characters)
<1>1. Backslash \in Characters
  BY JsonAssumption DEF Symbols
<1> QED BY <1>1 DEF EscapedCh

LEMMA PiecesAre ==
    ASSUME NEW s \in Seq(Characters)
    PROVE  /\ Pieces(s) \in Seq(Seq(Characters))
           /\ Len(Pieces(s)) = Len(s)
           /\ Escape(s) = FlattenSeq(Pieces(s))
<1>1. DOMAIN s = 1..Len(s) /\ Len(s) \in Nat /\ \A i \in DOMAIN s : s[i] \in Characters
  BY LenProperties, ElementOfSeq
<1>2. \A i \in DOMAIN s : Pieces(s)[i] = EscapedCh(s[i])
  BY DEF Pieces, EscapedCh
<1>3. \A i \in 1..Len(s) : Pieces(s)[i] \in Seq(Characters)
  BY <1>1, <1>2, PieceIs
<1>4. DOMAIN Pieces(s) = 1..Len(s)
  BY <1>1 DEF Pieces
<1>5. Pieces(s) \in [1..Len(s) -> Seq(Characters)]
  BY <1>1, <1>3, <1>4 DEF Pieces
<1>6. Escape(s) = FlattenSeq(Pieces(s))
  BY DEF Escape, Pieces
<1> QED BY <1>1, <1>5, <1>6

LEMMA OneMoreEscaped ==
    ASSUME NEW s \in Seq(Characters), NEW ch \in Characters
    PROVE  Escape(Append(s, ch)) = Escape(s) \o EscapedCh(ch)
<1> DEFINE t == Append(s, ch)
<1>1. t \in Seq(Characters) /\ Len(t) = Len(s) + 1 /\ t[Len(s) + 1] = ch
      /\ \A i \in 1..Len(s) : t[i] = s[i]
  BY AppendProperties
<1> HIDE DEF t
<1>2. Pieces(t) \in Seq(Seq(Characters)) /\ Pieces(s) \in Seq(Seq(Characters))
      /\ Len(Pieces(t)) = Len(s) + 1 /\ Len(Pieces(s)) = Len(s) /\ EscapedCh(ch) \in Seq(Characters)
  BY <1>1, PiecesAre, PieceIs
<1>3. Append(Pieces(s), EscapedCh(ch)) \in Seq(Seq(Characters))
      /\ Len(Append(Pieces(s), EscapedCh(ch))) = Len(s) + 1
  BY <1>2, AppendProperties
<1>4. \A i \in 1..(Len(s) + 1) : Pieces(t)[i] = Append(Pieces(s), EscapedCh(ch))[i]
  <2>1. Len(s) \in Nat /\ DOMAIN s = 1..Len(s) /\ DOMAIN t = 1..(Len(s) + 1)
    BY <1>1, LenProperties
  <2> TAKE i \in 1..(Len(s) + 1)
  <2>2. Pieces(t)[i] = EscapedCh(t[i])
    BY <2>1 DEF Pieces, EscapedCh
  <2>3. CASE i = Len(s) + 1
    BY <1>1, <1>2, <2>2, <2>3, AppendProperties
  <2>4. CASE i # Len(s) + 1
    <3>1. i \in 1..Len(s)
      BY <2>1, <2>4
    <3>2. Pieces(s)[i] = EscapedCh(s[i])
      BY <2>1, <3>1 DEF Pieces, EscapedCh
    <3> QED BY <1>1, <1>2, <2>2, <3>1, <3>2, AppendProperties
  <2> QED BY <2>3, <2>4
<1>5. Pieces(t) = Append(Pieces(s), EscapedCh(ch))
  BY <1>2, <1>3, <1>4, SeqEqual
<1> QED BY <1>1, <1>2, <1>5, PiecesAre, OneMoreJoined DEF t

\* The loop of UnEscape, with out put out and no escape begun.
Output(out) == [output |-> out, escape |-> FALSE]

LEMMA PieceIsUnEscaped ==
    ASSUME NEW ch, NEW out
    PROVE  Run("unescape", Output(out), EscapedCh(ch)) = Output(Append(out, ch))
<1> DEFINE begun == [output |-> out, escape |-> TRUE]
<1>1. StepOf("unescape", begun, ch) = Output(Append(out, ch))
  BY DEF StepOf, UnEscapeStep, Output
<1>2. StepOf("unescape", Output(out), Backslash) = begun
  BY DEF StepOf, UnEscapeStep, Output
<1>3. CASE ch \in Escaped
  <2> DEFINE Both == {Backslash, ch}
  <2>1. <<Backslash>> \in Seq(Both) /\ <<ch>> \in Seq(Both)
    OBVIOUS
  <2> HIDE DEF Both
  <2>2. PICK a \in Seq(Both) : a = <<Backslash>>
    BY <2>1
  <2>3. PICK b \in Seq(Both) : b = <<ch>>
    BY <2>1
  <2>4. EscapedCh(ch) = a \o b
    BY <1>3, <2>2, <2>3 DEF EscapedCh
  <2>5. Run("unescape", Output(out), a \o b) = Run("unescape", Run("unescape", Output(out), a), b)
    BY RunOverBoth
  <2> QED BY <1>1, <1>2, <2>2, <2>3, <2>4, <2>5, RunOverOne
<1>4. CASE ch \notin Escaped
  <2>1. ch # Backslash
    BY <1>4, JsonAssumption
  <2>2. StepOf("unescape", Output(out), ch) = Output(Append(out, ch))
    BY <2>1 DEF StepOf, UnEscapeStep, Output
  <2> QED BY <1>4, <2>2, RunOverOne DEF EscapedCh
<1> QED BY <1>3, <1>4

LEMMA EscapedIsText ==
    ASSUME NEW s \in Seq(Characters)
    PROVE  Escape(s) \in Seq(Characters)
BY PiecesAre, JoinedIsText

LEMMA EscapedIsUnEscaped ==
    ASSUME NEW s \in Seq(Characters)
    PROVE  UnEscape(Escape(s)) = s
<1> DEFINE M == {n \in Nat : \A u \in Seq(Characters) : Len(u) = n =>
                    Run("unescape", Output(<<>>), Escape(u)) = Output(u)}
<1>1. 0 \in M
  <2> SUFFICES ASSUME NEW u \in Seq(Characters), Len(u) = 0
               PROVE  Run("unescape", Output(<<>>), Escape(u)) = Output(u)
    OBVIOUS
  <2>1. u = <<>>
    BY EmptySeq
  <2>2. Pieces(u) = <<>>
    BY PiecesAre, EmptySeq
  <2>3. Escape(u) = <<>>
    BY <2>2, PiecesAre, NothingJoined
  <2> QED BY <2>1, <2>3, RunOverNothing
<1>2. ASSUME NEW n \in 0..(Len(s) - 1), n \in M PROVE n + 1 \in M
  <2> SUFFICES ASSUME NEW u \in Seq(Characters), Len(u) = n + 1
               PROVE  Run("unescape", Output(<<>>), Escape(u)) = Output(u)
    OBVIOUS
  <2>1. u # <<>>
    BY EmptySeq
  <2>2. PICK w \in Seq(Characters), ch \in Characters : u = Append(w, ch)
    BY <2>1, SequenceEmptyOrAppend
  <2>3. Len(w) = n
    BY <2>2, AppendProperties, LenProperties
  <2>4. Escape(u) = Escape(w) \o EscapedCh(ch) /\ Escape(w) \in Seq(Characters)
        /\ EscapedCh(ch) \in Seq(Characters)
    BY <2>2, OneMoreEscaped, EscapedIsText, PieceIs
  <2>5. Run("unescape", Output(<<>>), Escape(u))
            = Run("unescape", Run("unescape", Output(<<>>), Escape(w)), EscapedCh(ch))
    BY <2>4, RunOverBoth
  <2>6. Run("unescape", Output(<<>>), Escape(w)) = Output(w)
    BY <1>2, <2>3
  <2> QED BY <2>2, <2>5, <2>6, PieceIsUnEscaped
<1>3. Len(s) \in Nat
  BY LenProperties
<1> HIDE DEF M
<1>4. 0..Len(s) \subseteq M
  BY <1>1, <1>2, <1>3, Induction
<1>5. Len(s) \in M
  BY <1>3, <1>4
<1>6. Run("unescape", Output(<<>>), Escape(s)) = Output(s)
  BY <1>5 DEF M
<1>7. Len(Escape(s)) \in Nat
  BY EscapedIsText, LenProperties
<1>8. UnEscape(Escape(s)) = Run("unescape", Output(<<>>), Escape(s)).output
  BY <1>7, UnEscapeFold DEF UnEscape, Output
<1> QED BY <1>6, <1>8 DEF Output

-----------------------------------------------------------------------------
(* What an integer is written as is read as the integer. *)

LEMMA DigitIs ==
    ASSUME NEW i \in 0..9
    PROVE  /\ IsDigit(Digits[i + 1]) /\ DigitOf(Digits[i + 1]) = i
           /\ Digits[i + 1] \in Characters /\ Digits[i + 1] \notin {"-", Comma}
           /\ Digits[i + 1] = "0" <=> i = 0
<1>1. DOMAIN Digits = 1..10
  BY DEF Digits
<1>2. /\ Digits[1] = "0" /\ Digits[2] = "1" /\ Digits[3] = "2" /\ Digits[4] = "3"
      /\ Digits[5] = "4" /\ Digits[6] = "5" /\ Digits[7] = "6" /\ Digits[8] = "7"
      /\ Digits[9] = "8" /\ Digits[10] = "9"
  BY DEF Digits
<1>3. i + 1 \in DOMAIN Digits /\ i + 1 \in {1, 2, 3, 4, 5, 6, 7, 8, 9, 10} /\ (i + 1) - 1 = i
  BY <1>1
<1> DEFINE ch == Digits[i + 1]
           k == CHOOSE j \in DOMAIN Digits : Digits[j] = ch
<1>4. k \in DOMAIN Digits /\ Digits[k] = ch
  BY <1>3
<1>5. DigitOf(ch) = k - 1
  BY DEF DigitOf
<1> HIDE DEF k
<1>6. k \in {1, 2, 3, 4, 5, 6, 7, 8, 9, 10}
  BY <1>1, <1>4
<1>7. k = i + 1
  BY <1>2, <1>3, <1>4, <1>6
<1>8. ch \in ToSet(Digits)
  BY <1>3 DEF ToSet
<1>9. ch \in Characters
  BY <1>8, JsonAssumption DEF Symbols
<1>10. Comma \notin {"0", "1", "2", "3", "4", "5", "6", "7", "8", "9"}
  BY DEF Comma
<1>11. ch \notin {"-", Comma} /\ (ch = "0" <=> i + 1 = 1)
  BY <1>2, <1>3, <1>10
<1>12. IsDigit(ch) /\ DigitOf(ch) = i /\ (i + 1 = 1 <=> i = 0)
  <2> HIDE DEF ch
  <2> QED BY <1>5, <1>7, <1>8 DEF IsDigit
<1> QED BY <1>9, <1>11, <1>12

LEMMA OneMoreDigit ==
    ASSUME NEW t \in Seq(Characters), NEW ch \in Characters
    PROVE  Decimal(Append(t, ch)) = Decimal(t) * 10 + DigitOf(ch)
<1>1. \A u \in Seq(Characters) : Decimal(u) = Run("decimal", 0, u)
  BY DecimalFold, RunIs, LenProperties
<1>2. Run("decimal", 0, Append(t, ch)) = StepOf("decimal", Run("decimal", 0, t), ch)
  BY RunOverOneMore
<1>3. StepOf("decimal", Run("decimal", 0, t), ch) = Run("decimal", 0, t) * 10 + DigitOf(ch)
  BY DEF StepOf
<1>4. Append(t, ch) \in Seq(Characters)
  BY AppendProperties
<1> QED BY <1>1, <1>2, <1>3, <1>4

LEMMA OneDigit ==
    ASSUME NEW ch \in Characters, DigitOf(ch) \in Int
    PROVE  Decimal(<<ch>>) = DigitOf(ch)
<1>1. PICK nothing \in Seq(Characters) : nothing = <<>>
  BY EmptySeq
<1>2. Append(nothing, ch) = <<ch>>
  BY <1>1
<1>3. Decimal(nothing) = 0
  <2>1. Len(nothing) = 0
    BY <1>1
  <2>2. PICK first : Follows("decimal", 0, nothing, first) /\ Decimal(nothing) = first[Len(nothing)]
    BY <2>1, DecimalFold
  <2> QED BY <2>1, <2>2 DEF Follows
<1>4. Decimal(Append(nothing, ch)) = Decimal(nothing) * 10 + DigitOf(ch)
  BY OneMoreDigit
<1> QED BY <1>2, <1>3, <1>4

AreDigits(n, f) ==
    f = [m \in 0..n |-> IF m < 10 THEN <<Digits[m + 1]>>
                        ELSE Append(f[m \div 10], Digits[(m % 10) + 1])]

LEMMA Halves ==
    ASSUME NEW m \in Nat, ~(m < 10)
    PROVE  /\ m \div 10 \in Nat /\ m \div 10 # 0 /\ m \div 10 <= m - 1
           /\ m % 10 \in 0..9 /\ (m \div 10) * 10 + (m % 10) = m
<1>1. m % 10 \in 0..9
  OBVIOUS
<1>2. m \div 10 \in Int
  OBVIOUS
<1>3. (m \div 10) * 10 + (m % 10) = m
  OBVIOUS
<1> DEFINE q == m \div 10
           r == m % 10
<1>4. q \in Int /\ r \in 0..9 /\ q * 10 + r = m
  BY <1>1, <1>2, <1>3
<1> HIDE DEF q, r
<1>5. q \in Nat /\ q # 0 /\ q <= m - 1
  BY <1>4
<1> QED BY <1>1, <1>3, <1>5 DEF q

LEMMA DigitsExist ==
    ASSUME NEW n \in Nat
    PROVE  \E f : AreDigits(n, f)
<1> DEFINE M == {k \in Nat : \E f : AreDigits(k, f)}
<1>1. 0 \in M
  <2>1. AreDigits(0, [m \in 0..0 |-> <<Digits[m + 1]>>])
    BY DEF AreDigits
  <2> QED BY <2>1
<1>2. ASSUME NEW k \in 0..(n - 1), k \in M PROVE k + 1 \in M
  <2>1. PICK f : AreDigits(k, f)
    BY <1>2
  <2> DEFINE last == IF k + 1 < 10 THEN <<Digits[(k + 1) + 1]>>
                     ELSE Append(f[(k + 1) \div 10], Digits[((k + 1) % 10) + 1])
             g == [m \in 0..(k + 1) |-> IF m <= k THEN f[m] ELSE last]
  <2>2. ASSUME NEW m \in 0..(k + 1)
        PROVE  g[m] = IF m < 10 THEN <<Digits[m + 1]>> ELSE Append(g[m \div 10], Digits[(m % 10) + 1])
    <3>1. ~(m < 10) => m \div 10 \in 0..k /\ m \div 10 \in 0..(k + 1)
      BY Halves
    <3>2. ~(m < 10) => g[m \div 10] = f[m \div 10]
      BY <3>1
    <3>3. CASE m \in 0..k
      <4>1. g[m] = f[m]
        BY <3>3
      <4>2. f[m] = IF m < 10 THEN <<Digits[m + 1]>> ELSE Append(f[m \div 10], Digits[(m % 10) + 1])
        BY <2>1, <3>3 DEF AreDigits
      <4> HIDE DEF g
      <4> QED BY <3>2, <4>1, <4>2
    <3>4. CASE m = k + 1
      <4>1. g[m] = last
        BY <3>4
      <4> HIDE DEF g
      <4> QED BY <3>2, <3>4, <4>1
    <3> QED BY <3>3, <3>4
  <2>3. g = [m \in 0..(k + 1) |-> IF m < 10 THEN <<Digits[m + 1]>>
                                  ELSE Append(g[m \div 10], Digits[(m % 10) + 1])]
    BY <2>2
  <2> HIDE DEF g
  <2>4. AreDigits(k + 1, g)
    BY <2>3 DEF AreDigits
  <2> QED BY <2>4
<1> HIDE DEF M
<1>3. 0..n \subseteq M
  BY <1>1, <1>2, Induction
<1>4. n \in M
  BY <1>3
<1> QED BY <1>4 DEF M

\* t is the number m without leading zeros.
IsTextOfNumber(m, t) ==
    /\ t \in Seq(Characters) /\ t # <<>>
    /\ \A i \in DOMAIN t : IsDigit(t[i])
    /\ t[1] = "0" => m = 0 /\ Len(t) = 1
    /\ Decimal(t) = m
    /\ \A i \in DOMAIN t : t[i] \notin {"-", Comma}

LEMMA NumberTextIs ==
    ASSUME NEW n \in Nat
    PROVE  IsTextOfNumber(n, NumberText(n))
<1> DEFINE f == CHOOSE f : AreDigits(n, f)
<1>1. NumberText(n) = f[n]
  BY DEF NumberText, AreDigits
<1>2. AreDigits(n, f)
  BY DigitsExist
<1> HIDE DEF f
<1>3. \A m \in 0..n : f[m] = IF m < 10 THEN <<Digits[m + 1]>>
                             ELSE Append(f[m \div 10], Digits[(m % 10) + 1])
  BY <1>2 DEF AreDigits
<1> DEFINE M == {k \in Nat : \A m \in 0..k : m <= n => IsTextOfNumber(m, f[m])}
<1>4. ASSUME NEW m \in 0..n, m < 10 PROVE IsTextOfNumber(m, f[m])
  <2>1. m \in 0..9
    BY <1>4
  <2> DEFINE ch == Digits[m + 1]
  <2>2. f[m] = <<ch>>
    BY <1>3, <1>4
  <2>3. ch \in Characters /\ IsDigit(ch) /\ DigitOf(ch) = m /\ ch \notin {"-", Comma} /\ (ch = "0" <=> m = 0)
    BY <2>1, DigitIs
  <2> HIDE DEF ch
  <2>4. Decimal(<<ch>>) = m
    <3>1. DigitOf(ch) \in Int
      <4>1. m \in Int
        BY <2>1
      <4> QED BY <2>3, <4>1, Zenon
    <3> QED BY <2>3, <3>1, OneDigit
  <2>5. PICK t : t = <<ch>>
    OBVIOUS
  <2>6. t \in Seq(Characters)
    <3>1. ch \in Characters
      BY <2>3, Zenon
    <3> QED BY <2>5, <3>1
  <2>7. t # <<>> /\ Len(t) = 1 /\ DOMAIN t = {1} /\ t[1] = ch
    BY <2>5
  <2> QED BY <2>2, <2>3, <2>4, <2>5, <2>6, <2>7 DEF IsTextOfNumber
<1>5. ASSUME NEW m \in 0..n, ~(m < 10), IsTextOfNumber(m \div 10, f[m \div 10])
      PROVE  IsTextOfNumber(m, f[m])
  <2>1. m \div 10 \in Nat /\ m \div 10 # 0 /\ m % 10 \in 0..9 /\ (m \div 10) * 10 + (m % 10) = m
    BY <1>5, Halves
  <2> DEFINE q == m \div 10
             r == m % 10
             t == f[q]
             ch == Digits[r + 1]
  <2>2. f[m] = Append(t, ch)
    BY <1>3, <1>5
  <2>3. ch \in Characters /\ IsDigit(ch) /\ DigitOf(ch) = r /\ ch \notin {"-", Comma}
    BY <2>1, DigitIs
  <2>4. IsTextOfNumber(q, t) /\ q # 0 /\ q * 10 + r = m
    BY <1>5, <2>1
  <2> HIDE DEF q, r, t, ch
  <2>5. t \in Seq(Characters) /\ t # <<>> /\ Decimal(t) = q /\ t[1] # "0"
        /\ \A i \in DOMAIN t : IsDigit(t[i]) /\ t[i] \notin {"-", Comma}
    BY <2>4 DEF IsTextOfNumber
  <2>6. Decimal(Append(t, ch)) = m
    BY <2>3, <2>4, <2>5, OneMoreDigit
  <2>7. /\ Append(t, ch) \in Seq(Characters) /\ Append(t, ch) # <<>>
        /\ Len(Append(t, ch)) = Len(t) + 1
        /\ \A i \in 1..Len(t) : Append(t, ch)[i] = t[i]
        /\ Append(t, ch)[Len(t) + 1] = ch
    <3>1. t \in Seq(Characters) /\ ch \in Characters
      BY <2>3, <2>5
    <3> QED BY <3>1, AppendProperties
  <2>8. DOMAIN t = 1..Len(t) /\ DOMAIN Append(t, ch) = 1..Len(Append(t, ch)) /\ Len(t) \in Nat \ {0}
    BY <2>5, <2>7, LenProperties, EmptySeq
  <2> DEFINE u == Append(t, ch)
  <2> HIDE DEF u
  <2>9. u[1] = t[1]
    BY <2>7, <2>8 DEF u
  <2>10. \A i \in DOMAIN u : IsDigit(u[i]) /\ u[i] \notin {"-", Comma}
    <3> TAKE i \in DOMAIN u
    <3>1. i \in 1..Len(t) \/ i = Len(t) + 1
      BY <2>7, <2>8 DEF u
    <3> QED BY <2>3, <2>5, <2>7, <2>8, <3>1 DEF u
  <2> QED BY <2>2, <2>5, <2>6, <2>7, <2>9, <2>10 DEF IsTextOfNumber, u
<1>6. 0 \in M
  BY <1>4
<1>7. ASSUME NEW k \in 0..(n - 1), k \in M PROVE k + 1 \in M
  <2> SUFFICES ASSUME NEW m \in 0..(k + 1), m <= n PROVE IsTextOfNumber(m, f[m])
    OBVIOUS
  <2>1. m \in 0..n /\ (m \in 0..k \/ m = k + 1)
    OBVIOUS
  <2>2. CASE m < 10
    BY <1>4, <2>1, <2>2
  <2>3. CASE ~(m < 10)
    <3>1. m \div 10 \in 0..k /\ m \div 10 <= n
      BY <2>1, <2>3, Halves
    <3>2. IsTextOfNumber(m \div 10, f[m \div 10])
      BY <1>7, <3>1
    <3> QED BY <1>5, <2>1, <2>3, <3>2
  <2> QED BY <2>2, <2>3
<1> HIDE DEF M
<1>8. 0..n \subseteq M
  BY <1>6, <1>7, Induction
<1>9. n \in M /\ n \in 0..n
  BY <1>8
<1> QED BY <1>1, <1>9 DEF M

LEMMA BehindFirst ==
    ASSUME NEW S, NEW ch \in S, NEW s \in Seq(S)
    PROVE  /\ <<ch>> \o s \in Seq(S) /\ <<ch>> \o s # <<>>
           /\ (<<ch>> \o s)[1] = ch /\ Tail(<<ch>> \o s) = s
           /\ Len(<<ch>> \o s) = Len(s) + 1
           /\ \A i \in 1..Len(s) : (<<ch>> \o s)[i + 1] = s[i]
<1>1. <<ch>> \in Seq(S)
  OBVIOUS
<1>2. PICK c \in Seq(S) : c = <<ch>>
  BY <1>1
<1>3. Len(c) = 1 /\ c[1] = ch /\ Len(s) \in Nat
  BY <1>2
<1> DEFINE t == c \o s
<1>4. /\ t \in Seq(S) /\ Len(t) = Len(c) + Len(s)
      /\ \A i \in 1..(Len(c) + Len(s)) : t[i] = IF i <= Len(c) THEN c[i] ELSE s[i - Len(c)]
  BY ConcatProperties
<1> HIDE DEF t
<1>5. t # <<>> /\ t[1] = ch
  BY <1>3, <1>4
<1>6. \A i \in 1..Len(s) : t[i + 1] = s[i]
  <2> TAKE i \in 1..Len(s)
  <2>1. i + 1 \in 1..(Len(c) + Len(s)) /\ ~(i + 1 <= Len(c)) /\ (i + 1) - Len(c) = i
    BY <1>3
  <2> QED BY <1>4, <2>1
<1>7. Tail(t) \in Seq(S) /\ Len(Tail(t)) = Len(t) - 1 /\ \A i \in 1..Len(Tail(t)) : Tail(t)[i] = t[i + 1]
  BY <1>4, <1>5, HeadTailProperties
<1>8. Tail(t) = s
  <2>1. Len(Tail(t)) = Len(s) /\ \A i \in 1..Len(Tail(t)) : Tail(t)[i] = s[i]
    BY <1>3, <1>4, <1>6, <1>7
  <2> QED BY <1>7, <2>1, SeqEqual
<1> QED BY <1>2, <1>3, <1>4, <1>5, <1>6, <1>8 DEF t

LEMMA IntegerTextIs ==
    ASSUME NEW n \in -(IntMax + 1)..IntMax, NEW t, t = TextOf(Integer(n))
    PROVE  /\ t \in Seq(Characters) /\ t # <<>> /\ t[1] # "[" /\ Last(t) # Comma
           /\ \A i \in DOMAIN t : t[i] = "-" \/ IsDigit(t[i])
           /\ ParseScalar(t) = Integer(n)
<1>1. n \in Int /\ IntMax \in Nat
  BY JsonAssumption
<1>2. t = IF n < 0 THEN <<"-">> \o NumberText(-n) ELSE NumberText(n)
  BY DEF TextOf, Integer
<1>3. n = Wrap(n)
  BY <1>1, WrapIs
<1>4. "-" \in Characters
  BY JsonAssumption DEF Symbols
<1>5. CASE n < 0
  <2>1. -n \in Nat
    BY <1>1, <1>5
  <2> DEFINE d == NumberText(-n)
  <2>2. IsTextOfNumber(-n, d)
    BY <2>1, NumberTextIs
  <2>3. t = <<"-">> \o d
    BY <1>2, <1>5
  <2> HIDE DEF d
  <2>4. d \in Seq(Characters) /\ d # <<>> /\ AllDigits(d) /\ Decimal(d) = -n
        /\ (d[1] = "0" => Len(d) = 1)
        /\ \A i \in DOMAIN d : d[i] \notin {"-", Comma}
    BY <2>2 DEF IsTextOfNumber, AllDigits
  <2>5. /\ t \in Seq(Characters) /\ t # <<>> /\ t[1] = "-" /\ Tail(t) = d /\ Len(t) = Len(d) + 1
        /\ \A i \in 1..Len(d) : t[i + 1] = d[i]
    BY <1>4, <2>3, <2>4, BehindFirst
  <2>6. Len(d) \in Nat \ {0} /\ DOMAIN d = 1..Len(d) /\ DOMAIN t = 1..Len(t)
    BY <2>4, <2>5, LenProperties, EmptySeq
  <2>7. Unsigned(t, {"-"}) = d /\ d # t
    BY <2>5, <2>6 DEF Unsigned
  <2>8. IntegerPart(d)
    BY <2>4, <2>6 DEF IntegerPart
  <2>9. -Decimal(d) = n
    BY <1>1, <2>4
  <2>10. ParseScalar(t) = Integer(n)
    BY <1>3, <2>5, <2>7, <2>8, <2>9, IntegersAreExact
  <2>11. \A i \in DOMAIN t : t[i] = "-" \/ (i - 1 \in DOMAIN d /\ t[i] = d[i - 1])
    <3> TAKE i \in DOMAIN t
    <3>1. CASE i = 1
      BY <2>5, <3>1
    <3>2. CASE i # 1
      <4>1. i - 1 \in 1..Len(d) /\ (i - 1) + 1 = i
        BY <2>5, <2>6, <3>2
      <4> QED BY <2>5, <2>6, <4>1
    <3> QED BY <3>1, <3>2
  <2>12. Last(t) # Comma
    <3>1. Len(t) \in DOMAIN t
      BY <2>5, <2>6
    <3>2. Comma # "-"
      BY DEF Comma
    <3> QED BY <2>4, <2>11, <3>1, <3>2 DEF Last
  <2>13. \A i \in DOMAIN t : t[i] = "-" \/ IsDigit(t[i])
    BY <2>4, <2>11 DEF AllDigits
  <2> QED BY <2>5, <2>10, <2>12, <2>13
<1>6. CASE ~(n < 0)
  <2>1. n \in Nat
    BY <1>1, <1>6
  <2>2. IsTextOfNumber(n, t)
    BY <1>2, <1>6, <2>1, NumberTextIs
  <2>3. t \in Seq(Characters) /\ t # <<>> /\ AllDigits(t) /\ Decimal(t) = n
        /\ (t[1] = "0" => Len(t) = 1)
        /\ \A i \in DOMAIN t : t[i] \notin {"-", Comma}
    BY <2>2 DEF IsTextOfNumber, AllDigits
  <2>4. Len(t) \in Nat \ {0} /\ DOMAIN t = 1..Len(t) /\ 1 \in DOMAIN t /\ Len(t) \in DOMAIN t
    BY <2>3, LenProperties, EmptySeq
  <2>5. Unsigned(t, {"-"}) = t
    BY <2>3, <2>4 DEF Unsigned
  <2>6. IntegerPart(t)
    BY <2>3, <2>4 DEF IntegerPart
  <2>7. ParseScalar(t) = Integer(n)
    BY <1>3, <2>3, <2>5, <2>6, IntegersAreExact
  <2>8. t[1] # "["
    BY <2>3, <2>4, DigitsAre DEF AllDigits
  <2>9. Last(t) # Comma
    BY <2>3, <2>4 DEF Last
  <2> QED BY <2>3, <2>7, <2>8, <2>9 DEF AllDigits
<1> QED BY <1>5, <1>6

-----------------------------------------------------------------------------
(* A scalar is read from its text. *)

\* s between two characters.
Between(a, s, b) == <<a>> \o s \o <<b>>

LEMMA BetweenIs ==
    ASSUME NEW a \in Characters, NEW b \in Characters, NEW s \in Seq(Characters),
           NEW t, t = Between(a, s, b)
    PROVE  /\ t \in Seq(Characters) /\ t # <<>> /\ Len(t) = Len(s) + 2
           /\ t[1] = a /\ Last(t) = b /\ Inner(t) = s
<1>1. <<a>> \in Seq(Characters) /\ <<b>> \in Seq(Characters)
  OBVIOUS
<1>2. PICK p \in Seq(Characters) : p = <<a>>
  BY <1>1
<1>3. PICK q \in Seq(Characters) : q = <<b>>
  BY <1>1
<1>4. Len(p) = 1 /\ p[1] = a /\ Len(q) = 1 /\ q[1] = b /\ Len(s) \in Nat
  BY <1>2, <1>3
<1> DEFINE u == p \o s
<1>5. /\ u \in Seq(Characters) /\ Len(u) = Len(p) + Len(s)
      /\ \A i \in 1..(Len(p) + Len(s)) : u[i] = IF i <= Len(p) THEN p[i] ELSE s[i - Len(p)]
  BY ConcatProperties
<1>6. t = u \o q
  BY <1>2, <1>3 DEF Between
<1> HIDE DEF u
<1>7. /\ t \in Seq(Characters) /\ Len(t) = Len(u) + Len(q)
      /\ \A i \in 1..(Len(u) + Len(q)) : t[i] = IF i <= Len(u) THEN u[i] ELSE q[i - Len(u)]
  <2>1. u \in Seq(Characters) /\ q \in Seq(Characters)
    BY <1>5
  <2> QED BY <1>6, <2>1, ConcatProperties
<1>8. t # <<>> /\ t[1] = a /\ Len(t) = Len(s) + 2 /\ t[Len(t)] = b
  BY <1>4, <1>5, <1>7
<1>9. Inner(t) = s
  <2> DEFINE r == SubSeq(t, 2, Len(t) - 1)
  <2>1. \A i \in 2..(Len(t) - 1) : t[i] \in Characters
    BY <1>4, <1>7, <1>8, ElementOfSeq
  <2>2. /\ r \in Seq(Characters) /\ Len(r) = (IF 2 <= Len(t) - 1 THEN (Len(t) - 1) - 2 + 1 ELSE 0)
        /\ \A i \in 1..((Len(t) - 1) - 2 + 1) : r[i] = t[2 + i - 1]
    <3>1. 2 \in Int /\ Len(t) - 1 \in Int
      BY <1>4, <1>8
    <3> QED BY <2>1, <3>1, SubSeqProperties
  <2> HIDE DEF r
  <2>3. Len(r) = Len(s)
    BY <1>4, <1>8, <2>2
  <2>4. \A i \in 1..Len(r) : r[i] = s[i]
    <3> TAKE i \in 1..Len(r)
    <3>1. i \in 1..((Len(t) - 1) - 2 + 1) /\ 2 + i - 1 = i + 1 /\ i + 1 \in 1..Len(u)
          /\ i + 1 \in 1..(Len(u) + Len(q)) /\ i + 1 \in 1..(Len(p) + Len(s))
          /\ ~(i + 1 <= Len(p)) /\ (i + 1) - Len(p) = i
      BY <1>4, <1>5, <1>8, <2>3
    <3>2. t[i + 1] = u[i + 1]
      BY <1>7, <3>1
    <3>3. u[i + 1] = s[i]
      BY <1>5, <3>1
    <3> QED BY <2>2, <3>1, <3>2, <3>3
  <2>5. r = s
    BY <2>2, <2>3, <2>4, SeqEqual
  <2> QED BY <2>5 DEF r, Inner
<1> QED BY <1>7, <1>8, <1>9 DEF Last

LEMMA ScalarIsRead ==
    ASSUME NEW v, IsScalar(v), NEW t, t = TextOf(v)
    PROVE  /\ t \in Seq(Characters) /\ t # <<>> /\ t[1] # "[" /\ Last(t) # Comma
           /\ ParseScalar(t) = v
<1>1. {"null", "true", "false"} \subseteq Characters
  BY JsonAssumption DEF Symbols
<1>2. Quote \notin {"[", Comma, "null", "true", "false"} /\ Comma \notin {"null", "true", "false"}
  BY DEF Quote, Comma
<1>3. Quote # "{" /\ \A word \in {"null", "true", "false"} : word # "{"
  BY DEF Quote
<1>4. ASSUME NEW word \in {"null", "true", "false"}, t = <<word>>
      PROVE  t \in Seq(Characters) /\ t # <<>> /\ t[1] = word /\ Last(t) = word /\ Len(t) = 1
  <2>1. word \in Characters
    BY <1>1
  <2> QED BY <1>4, <2>1 DEF Last
<1>5. CASE v = Null
  <2>1. t = <<"null">>
    BY <1>5 DEF TextOf, Null
  <2>2. t \in Seq(Characters) /\ t # <<>> /\ t[1] = "null" /\ Last(t) = "null"
    BY <1>4, <2>1
  <2>3. t[1] # Quote /\ t[1] # "[" /\ Last(t) # Comma
    BY <1>2, <2>2
  <2>4. t[1] # "{"
    BY <1>3, <2>2, Zenon
  <2>5. t # <<"true">> /\ t # <<"false">>
    BY <2>2
  <2>6. ParseScalar(t) = Null
    BY <2>1, <2>2, <2>3, <2>4, <2>5, Zenon DEF ParseScalar
  <2> QED BY <1>5, <2>2, <2>3, <2>6
<1>6. CASE v = Boolean(TRUE)
  <2>1. t = <<"true">>
    BY <1>6 DEF TextOf, Boolean
  <2>2. t \in Seq(Characters) /\ t # <<>> /\ t[1] = "true" /\ Last(t) = "true"
    BY <1>4, <2>1
  <2>3. t[1] # Quote /\ t[1] # "[" /\ Last(t) # Comma
    BY <1>2, <2>2
  <2>4. t[1] # "{"
    BY <1>3, <2>2, Zenon
  <2>5. t # <<"null">> /\ t # <<"false">>
    BY <2>2
  <2>6. ParseScalar(t) = Boolean(TRUE)
    BY <2>1, <2>2, <2>3, <2>4, <2>5, Zenon DEF ParseScalar
  <2> QED BY <1>6, <2>2, <2>3, <2>6
<1>7. CASE v = Boolean(FALSE)
  <2>1. t = <<"false">>
    BY <1>7 DEF TextOf, Boolean
  <2>2. t \in Seq(Characters) /\ t # <<>> /\ t[1] = "false" /\ Last(t) = "false"
    BY <1>4, <2>1
  <2>3. t[1] # Quote /\ t[1] # "[" /\ Last(t) # Comma
    BY <1>2, <2>2
  <2>4. t[1] # "{"
    BY <1>3, <2>2, Zenon
  <2>5. t # <<"null">> /\ t # <<"true">>
    BY <2>2
  <2>6. ParseScalar(t) = Boolean(FALSE)
    BY <2>1, <2>2, <2>3, <2>4, <2>5, Zenon DEF ParseScalar
  <2> QED BY <1>7, <2>2, <2>3, <2>6
<1>8. CASE v.type = "String" /\ v = String(v.strValue) /\ v.strValue \in Seq(Characters)
  <2>1. t = Between(Quote, Escape(v.strValue), Quote)
    BY <1>8 DEF TextOf, Between
  <2>2. t \in Seq(Characters) /\ t # <<>> /\ t[1] = Quote /\ Last(t) = Quote /\ Inner(t) = Escape(v.strValue)
    <3>1. Quote \in Characters
      BY JsonAssumption DEF Symbols
    <3> QED BY <1>8, <2>1, <3>1, BetweenIs, EscapedIsText
  <2>3. t # <<"null">> /\ t # <<"true">> /\ t # <<"false">>
    BY <1>2, <2>2
  <2>4. t[1] # "{"
    BY <1>3, <2>2, Zenon
  <2>5. ParseScalar(t) = String(UnEscape(Inner(t)))
    BY <2>2, <2>3, <2>4, Zenon DEF ParseScalar
  <2> QED BY <1>2, <1>8, <2>2, <2>5, EscapedIsUnEscaped
<1>9. CASE v.type = "Integer" /\ v = Integer(v.intValue) /\ v.intValue \in -(IntMax + 1)..IntMax
  BY <1>9, IntegerTextIs
<1> QED BY <1>5, <1>6, <1>7, <1>8, <1>9 DEF IsScalar

-----------------------------------------------------------------------------
(* What is said of a value by what is said of the elements of its arrays. *)

LEMMA ValueIs ==
    ASSUME NEW v \in Values
    PROVE  /\ v.type = "Array" => IsArrayOfLess(v)
           /\ v.type # "Array" => IsScalar(v)
           /\ Depth[v] \in Nat
<1>1. IsScalar(v) => v.type # "Array"
  BY DEF IsScalar, Null, Boolean
<1>2. IsArrayOfLess(v) => v.type = "Array"
  BY DEF IsArrayOfLess
<1> QED BY <1>1, <1>2, ValuesAssumption

\* The text of an array whose elements are written by f.
ElementTexts(f, vs) == [i \in DOMAIN vs |-> (IF i = 1 THEN <<>> ELSE <<Comma>>) \o f[vs[i]]]
ArrayText(f, v) == <<"[">> \o FlattenSeq(ElementTexts(f, v.arrayValue)) \o <<"]">>

BodyOf(told, f, v) ==
    CASE told = "Written" -> IF v.type # "Array" THEN TextOf(v) ELSE ArrayText(f, v)
      [] told = "StringsOf" ->
            IF v.type = "Array" THEN UNION {f[v.arrayValue[i]] : i \in DOMAIN v.arrayValue}
            ELSE IF v.type = "String" THEN {v.strValue} ELSE {}

AreBodies(told, V, f) == f = [v \in V |-> BodyOf(told, f, v)]

LEMMA SameBody ==
    ASSUME NEW told \in {"Written", "StringsOf"}, NEW f, NEW g, NEW v,
           v.type = "Array" => \A i \in DOMAIN v.arrayValue : f[v.arrayValue[i]] = g[v.arrayValue[i]]
    PROVE  BodyOf(told, f, v) = BodyOf(told, g, v)
<1>1. CASE v.type # "Array"
  BY <1>1 DEF BodyOf
<1>2. CASE v.type = "Array"
  <2> DEFINE vs == v.arrayValue
  <2>1. \A i \in DOMAIN vs : f[vs[i]] = g[vs[i]]
    BY <1>2
  <2>2. ElementTexts(f, vs) = ElementTexts(g, vs)
    BY <2>1 DEF ElementTexts
  <2>3. {f[vs[i]] : i \in DOMAIN vs} = {g[vs[i]] : i \in DOMAIN vs}
    BY <2>1
  <2>4. CASE told = "Written"
    BY <1>2, <2>2, <2>4 DEF BodyOf, ArrayText
  <2>5. CASE told = "StringsOf"
    <3>1. UNION {f[vs[i]] : i \in DOMAIN vs} = UNION {g[vs[i]] : i \in DOMAIN vs}
      BY <2>3
    <3> QED BY <1>2, <2>5, <3>1 DEF BodyOf
  <2> QED BY <2>4, <2>5
<1> QED BY <1>1, <1>2

\* The values with arrays nested less than n deep.
Below(n) == {v \in Values : Depth[v] < n}

LEMMA BodiesAgree ==
    ASSUME NEW told \in {"Written", "StringsOf"}, NEW m, NEW n, NEW f, NEW g,
           AreBodies(told, Below(m), f), AreBodies(told, Below(n), g),
           NEW v \in Below(m), v \in Below(n), m \in Nat, n \in Nat
    PROVE  f[v] = g[v]
<1> SUFFICES ASSUME f[v] # g[v] PROVE FALSE
  OBVIOUS
<1>1. \A u \in Below(m) : f[u] = BodyOf(told, f, u)
  BY DEF AreBodies
<1>2. \A u \in Below(n) : g[u] = BodyOf(told, g, u)
  BY DEF AreBodies
<1> DEFINE Bad == {u \in Below(m) : u \in Below(n) /\ f[u] # g[u]}
           S == {k \in Nat : \E u \in Bad : Depth[u] = k}
<1>3. Depth[v] \in S
  BY ValueIs DEF Below
<1>4. S \in SUBSET Nat /\ S # {}
  BY <1>3
<1> HIDE DEF S
<1>5. PICK k \in S : \A j \in S : k <= j
  BY <1>4, LeastNumber
<1>6. PICK u \in Bad : Depth[u] = k
  BY <1>5 DEF S
<1>7. u \in Values /\ u \in Below(m) /\ u \in Below(n) /\ f[u] # g[u]
  BY <1>6 DEF Below
<1>8. u.type = "Array" => \A i \in DOMAIN u.arrayValue : f[u.arrayValue[i]] = g[u.arrayValue[i]]
  <2> SUFFICES ASSUME u.type = "Array", NEW i \in DOMAIN u.arrayValue,
                      f[u.arrayValue[i]] # g[u.arrayValue[i]]
               PROVE  FALSE
    OBVIOUS
  <2> DEFINE e == u.arrayValue[i]
  <2>1. u.arrayValue \in Seq(Values) /\ Depth[e] < Depth[u]
    BY <1>7, ValueIs DEF IsArrayOfLess
  <2>2. e \in Values
    BY <2>1
  <2> HIDE DEF e
  <2>3. Depth[e] \in Nat /\ Depth[u] \in Nat /\ Depth[u] < m /\ Depth[u] < n
    BY <1>7, <2>2, ValueIs DEF Below
  <2>4. e \in Below(m) /\ e \in Below(n)
    BY <2>1, <2>2, <2>3 DEF Below
  <2>5. e \in Bad
    BY <2>4 DEF e
  <2>6. Depth[e] \in S
    BY <2>3, <2>5 DEF S
  <2> QED BY <1>5, <1>6, <2>1, <2>3, <2>6
<1>9. BodyOf(told, f, u) = BodyOf(told, g, u)
  BY <1>8, SameBody
<1> QED BY <1>1, <1>2, <1>7, <1>9

LEMMA BodiesBelowExist ==
    ASSUME NEW told \in {"Written", "StringsOf"}, NEW n \in Nat
    PROVE  \E f : AreBodies(told, Below(n), f)
<1> DEFINE M == {k \in Nat : \E f : AreBodies(told, Below(k), f)}
<1>1. 0 \in M
  <2>1. Below(0) = {}
    BY ValueIs DEF Below
  <2>2. AreBodies(told, Below(0), [v \in {} |-> 0])
    BY <2>1 DEF AreBodies
  <2> QED BY <2>2
<1>2. ASSUME NEW k \in 0..(n - 1), k \in M PROVE k + 1 \in M
  <2>1. PICK f : AreBodies(told, Below(k), f)
    BY <1>2
  <2>2. \A v \in Below(k) : f[v] = BodyOf(told, f, v)
    BY <2>1 DEF AreBodies
  <2> DEFINE g == [v \in Below(k + 1) |-> BodyOf(told, f, v)]
  <2>3. ASSUME NEW v \in Below(k + 1) PROVE BodyOf(told, f, v) = BodyOf(told, g, v)
    <3>1. v \in Values /\ Depth[v] \in Nat /\ Depth[v] < k + 1
      BY <2>3, ValueIs DEF Below
    <3>2. ASSUME v.type = "Array", NEW i \in DOMAIN v.arrayValue
          PROVE  f[v.arrayValue[i]] = g[v.arrayValue[i]]
      <4> DEFINE e == v.arrayValue[i]
      <4>1. v.arrayValue \in Seq(Values) /\ Depth[e] < Depth[v]
        BY <3>1, <3>2, ValueIs DEF IsArrayOfLess
      <4>2. e \in Values
        BY <4>1
      <4> HIDE DEF e
      <4>3. Depth[e] \in Nat
        BY <4>2, ValueIs
      <4>4. e \in Below(k) /\ e \in Below(k + 1)
        BY <3>1, <4>1, <4>2, <4>3 DEF Below
      <4>5. f[e] = g[e]
        BY <2>2, <4>4
      <4> QED BY <4>5 DEF e
    <3> HIDE DEF g
    <3> QED BY <3>2, SameBody
  <2>4. g = [v \in Below(k + 1) |-> BodyOf(told, g, v)]
    BY <2>3
  <2> HIDE DEF g
  <2>5. AreBodies(told, Below(k + 1), g)
    BY <2>4 DEF AreBodies
  <2> QED BY <2>5
<1> HIDE DEF M
<1>3. 0..n \subseteq M
  BY <1>1, <1>2, Induction
<1>4. n \in M
  BY <1>3
<1> QED BY <1>4 DEF M

LEMMA BodiesExist ==
    ASSUME NEW told \in {"Written", "StringsOf"}
    PROVE  \E f : AreBodies(told, Values, f)
<1> DEFINE G(n) == CHOOSE f : AreBodies(told, Below(n), f)
           f == [v \in Values |-> G(Depth[v] + 1)[v]]
<1>1. \A n \in Nat : AreBodies(told, Below(n), G(n))
  BY BodiesBelowExist
<1> HIDE DEF G
<1>2. ASSUME NEW v \in Values PROVE f[v] = BodyOf(told, f, v)
  <2> DEFINE n == Depth[v] + 1
             g == G(n)
  <2>1. Depth[v] \in Nat
    BY ValueIs
  <2>2. n \in Nat /\ v \in Below(n) /\ f[v] = g[v]
    BY <2>1 DEF Below
  <2>3. AreBodies(told, Below(n), g)
    BY <1>1, <2>2
  <2> HIDE DEF g, n
  <2>4. g[v] = BodyOf(told, g, v)
    BY <2>2, <2>3 DEF AreBodies
  <2>5. ASSUME v.type = "Array", NEW i \in DOMAIN v.arrayValue
        PROVE  g[v.arrayValue[i]] = f[v.arrayValue[i]]
    <3> DEFINE e == v.arrayValue[i]
               k == Depth[e] + 1
               h == G(k)
    <3>1. v.arrayValue \in Seq(Values) /\ Depth[e] < Depth[v]
      BY <2>5, ValueIs DEF IsArrayOfLess
    <3>2. e \in Values
      BY <3>1
    <3>3. Depth[e] \in Nat /\ k \in Nat
      BY <3>2, ValueIs
    <3>4. AreBodies(told, Below(k), h) /\ f[e] = h[e]
      BY <1>1, <3>2, <3>3
    <3>5. e \in Below(k) /\ e \in Below(n)
      BY <2>1, <3>1, <3>2, <3>3 DEF Below, n
    <3> HIDE DEF e, k, h, f
    <3>6. g[e] = h[e]
      BY <2>2, <2>3, <3>3, <3>4, <3>5, BodiesAgree
    <3> QED BY <3>4, <3>6 DEF e
  <2> HIDE DEF f
  <2>6. BodyOf(told, g, v) = BodyOf(told, f, v)
    BY <2>5, SameBody
  <2> QED BY <2>2, <2>4, <2>6
<1>3. f = [v \in Values |-> BodyOf(told, f, v)]
  BY <1>2
<1> HIDE DEF f
<1> QED BY <1>3 DEF AreBodies

LEMMA WrittenIs ==
    ASSUME NEW v \in Values
    PROVE  Written[v] = IF v.type # "Array" THEN TextOf(v) ELSE ArrayText(Written, v)
<1> DEFINE Is(f) == f = [u \in Values |->
                            IF u.type # "Array" THEN TextOf(u)
                            ELSE <<"[">> \o FlattenSeq([i \in DOMAIN u.arrayValue |->
                                    (IF i = 1 THEN <<>> ELSE <<Comma>>) \o f[u.arrayValue[i]]]) \o <<"]">>]
<1>1. Written = CHOOSE f : Is(f)
  BY DEF Written
<1>2. ASSUME NEW f PROVE Is(f) <=> AreBodies("Written", Values, f)
  BY DEF AreBodies, BodyOf, ArrayText, ElementTexts
<1>3. \E f : Is(f)
  BY <1>2, BodiesExist
<1>4. Is(Written)
  BY <1>1, <1>3
<1> HIDE DEF Is
<1>5. AreBodies("Written", Values, Written)
  BY <1>2, <1>4
<1>6. Written[v] = BodyOf("Written", Written, v)
  BY <1>5 DEF AreBodies
<1> QED BY <1>6 DEF BodyOf

LEMMA StringsAre ==
    ASSUME NEW v \in Values
    PROVE  StringsOf[v] = IF v.type = "Array"
                          THEN UNION {StringsOf[v.arrayValue[i]] : i \in DOMAIN v.arrayValue}
                          ELSE IF v.type = "String" THEN {v.strValue} ELSE {}
<1> DEFINE Is(f) == f = [u \in Values |->
                            IF u.type = "Array" THEN UNION {f[u.arrayValue[i]] : i \in DOMAIN u.arrayValue}
                            ELSE IF u.type = "String" THEN {u.strValue} ELSE {}]
<1>1. StringsOf = CHOOSE f : Is(f)
  BY DEF StringsOf
<1>2. ASSUME NEW f PROVE Is(f) <=> AreBodies("StringsOf", Values, f)
  BY DEF AreBodies, BodyOf
<1>3. \E f : Is(f)
  BY <1>2, BodiesExist
<1>4. Is(StringsOf)
  BY <1>1, <1>3
<1> HIDE DEF Is
<1>5. AreBodies("StringsOf", Values, StringsOf)
  BY <1>2, <1>4
<1>6. StringsOf[v] = BodyOf("StringsOf", StringsOf, v)
  BY <1>5 DEF AreBodies
<1> QED BY <1>6 DEF BodyOf

\* What holds of a value when it holds of the elements of its array holds of all.
LEMMA DepthInduction ==
    ASSUME NEW P,
           \A v \in Values : (v.type = "Array" => \A i \in DOMAIN v.arrayValue : v.arrayValue[i] \in P)
                                 => v \in P
    PROVE  Values \subseteq P
<1> SUFFICES ASSUME NEW v \in Values, v \notin P PROVE FALSE
  OBVIOUS
<1> DEFINE S == {k \in Nat : \E u \in Values \ P : Depth[u] = k}
<1>1. Depth[v] \in S
  BY ValueIs
<1>2. S \in SUBSET Nat /\ S # {}
  BY <1>1
<1> HIDE DEF S
<1>3. PICK k \in S : \A j \in S : k <= j
  BY <1>2, LeastNumber
<1>4. PICK u \in Values \ P : Depth[u] = k
  BY <1>3 DEF S
<1>5. ASSUME u.type = "Array", NEW i \in DOMAIN u.arrayValue PROVE u.arrayValue[i] \in P
  <2> SUFFICES ASSUME u.arrayValue[i] \notin P PROVE FALSE
    OBVIOUS
  <2> DEFINE e == u.arrayValue[i]
  <2>1. u.arrayValue \in Seq(Values) /\ Depth[e] < Depth[u]
    BY <1>4, <1>5, ValueIs DEF IsArrayOfLess
  <2>2. e \in Values \ P
    BY <1>5, <2>1
  <2> HIDE DEF e
  <2>3. Depth[e] \in Nat /\ Depth[u] \in Nat
    BY <1>4, <2>2, ValueIs
  <2>4. Depth[e] \in S
    BY <2>2, <2>3 DEF S
  <2> QED BY <1>3, <1>4, <2>1, <2>3, <2>4
<1> QED BY <1>4, <1>5

-----------------------------------------------------------------------------
(* The texts of the elements, joined. *)

Joined(us) == FlattenSeq(ElementTexts(Written, us))
Behind(us) == IF us = <<>> THEN <<>> ELSE <<Comma>>

LEMMA CommaIsText == <<>> \in Seq(Characters) /\ <<Comma>> \in Seq(Characters) /\ Comma \in Characters
<1>1. Comma \in Characters
  BY JsonAssumption DEF Symbols
<1> QED BY <1>1

LEMMA ElementTextsAre ==
    ASSUME NEW P \in SUBSET Values, \A u \in P : Written[u] \in Seq(Characters), NEW us \in Seq(P)
    PROVE  /\ ElementTexts(Written, us) \in Seq(Seq(Characters))
           /\ Len(ElementTexts(Written, us)) = Len(us)
           /\ \A i \in 1..Len(us) : ElementTexts(Written, us)[i]
                                       = (IF i = 1 THEN <<>> ELSE <<Comma>>) \o Written[us[i]]
<1>1. Len(us) \in Nat /\ DOMAIN us = 1..Len(us) /\ \A i \in 1..Len(us) : us[i] \in P
  BY LenProperties, ElementOfSeq
<1> DEFINE ts == ElementTexts(Written, us)
<1>2. \A i \in 1..Len(us) : ts[i] = (IF i = 1 THEN <<>> ELSE <<Comma>>) \o Written[us[i]]
  BY <1>1 DEF ElementTexts
<1>3. \A i \in 1..Len(us) : ts[i] \in Seq(Characters)
  <2> TAKE i \in 1..Len(us)
  <2>1. Written[us[i]] \in Seq(Characters)
    BY <1>1
  <2> HIDE DEF ts
  <2>2. CASE i = 1
    <3>1. ts[i] = <<>> \o Written[us[i]]
      BY <1>2, <2>2
    <3> QED BY <2>1, <3>1, CommaIsText, ConcatProperties
  <2>3. CASE i # 1
    <3>1. ts[i] = <<Comma>> \o Written[us[i]]
      BY <1>2, <2>3
    <3> QED BY <2>1, <3>1, CommaIsText, ConcatProperties
  <2> QED BY <2>2, <2>3
<1>4. ts \in [1..Len(us) -> Seq(Characters)]
  BY <1>1, <1>3 DEF ElementTexts
<1> HIDE DEF ts
<1>5. ts \in Seq(Seq(Characters)) /\ Len(ts) = Len(us)
  BY <1>1, <1>4
<1> QED BY <1>2, <1>5 DEF ts

LEMMA JoinedElements ==
    ASSUME NEW P \in SUBSET Values, \A u \in P : Written[u] \in Seq(Characters), NEW us \in Seq(P)
    PROVE  /\ Joined(us) \in Seq(Characters)
           /\ Behind(us) \in Seq(Characters)
BY ElementTextsAre, JoinedIsText, CommaIsText DEF Joined, Behind

LEMMA NoElements == Joined(<<>>) = <<>>
<1>1. PICK none : none = <<>>
  OBVIOUS
<1>2. DOMAIN none = {}
  BY <1>1
<1>3. ElementTexts(Written, none) = <<>>
  BY <1>2 DEF ElementTexts
<1> QED BY <1>1, <1>3, NothingJoined DEF Joined

LEMMA OneMoreElement ==
    ASSUME NEW P \in SUBSET Values, \A u \in P : Written[u] \in Seq(Characters), NEW us \in Seq(P),
           NEW e \in P
    PROVE  Joined(Append(us, e)) = Joined(us) \o (Behind(us) \o Written[e])
<1> DEFINE more == Append(us, e)
           t == Behind(us) \o Written[e]
           ts == ElementTexts(Written, us)
<1>1. Len(us) \in Nat /\ more \in Seq(P) /\ Len(more) = Len(us) + 1 /\ more[Len(us) + 1] = e
      /\ \A i \in 1..Len(us) : more[i] = us[i]
  BY LenProperties, AppendProperties
<1> HIDE DEF more
<1>2. Behind(us) = IF Len(us) + 1 = 1 THEN <<>> ELSE <<Comma>>
  <2>1. us = <<>> <=> Len(us) = 0
    BY EmptySeq
  <2> QED BY <1>1, <2>1 DEF Behind
<1>3. ts \in Seq(Seq(Characters)) /\ Len(ts) = Len(us)
      /\ \A i \in 1..Len(us) : ts[i] = (IF i = 1 THEN <<>> ELSE <<Comma>>) \o Written[us[i]]
  BY ElementTextsAre
<1> HIDE DEF ts
<1>4. ElementTexts(Written, more) \in Seq(Seq(Characters)) /\ Len(ElementTexts(Written, more)) = Len(us) + 1
      /\ \A i \in 1..(Len(us) + 1) : ElementTexts(Written, more)[i]
             = (IF i = 1 THEN <<>> ELSE <<Comma>>) \o Written[more[i]]
  <2>1. /\ ElementTexts(Written, more) \in Seq(Seq(Characters))
        /\ Len(ElementTexts(Written, more)) = Len(more)
        /\ \A i \in 1..Len(more) : ElementTexts(Written, more)[i]
               = (IF i = 1 THEN <<>> ELSE <<Comma>>) \o Written[more[i]]
    BY <1>1, ElementTextsAre
  <2> QED BY <1>1, <2>1
<1>5. t \in Seq(Characters)
  BY JoinedElements, ConcatProperties
<1>6. ElementTexts(Written, more)[Len(us) + 1] = t
  <2>1. Len(us) + 1 \in 1..(Len(us) + 1)
    BY <1>1
  <2>2. ElementTexts(Written, more)[Len(us) + 1]
            = (IF Len(us) + 1 = 1 THEN <<>> ELSE <<Comma>>) \o Written[more[Len(us) + 1]]
    BY <1>4, <2>1
  <2> QED BY <1>1, <1>2, <2>2
<1> HIDE DEF t
<1>7. Append(ts, t) \in Seq(Seq(Characters)) /\ Len(Append(ts, t)) = Len(us) + 1
      /\ Append(ts, t)[Len(us) + 1] = t /\ \A i \in 1..Len(us) : Append(ts, t)[i] = ts[i]
  BY <1>3, <1>5, AppendProperties
<1>8. \A i \in 1..(Len(us) + 1) : ElementTexts(Written, more)[i] = Append(ts, t)[i]
  <2> TAKE i \in 1..(Len(us) + 1)
  <2>1. CASE i = Len(us) + 1
    BY <1>6, <1>7, <2>1
  <2>2. CASE i # Len(us) + 1
    <3>1. i \in 1..Len(us)
      BY <1>1, <2>2
    <3>2. ElementTexts(Written, more)[i] = (IF i = 1 THEN <<>> ELSE <<Comma>>) \o Written[more[i]]
      BY <1>4
    <3>3. more[i] = us[i]
      BY <1>1, <3>1
    <3>4. ts[i] = (IF i = 1 THEN <<>> ELSE <<Comma>>) \o Written[us[i]]
      BY <1>3, <3>1
    <3> QED BY <1>7, <3>1, <3>2, <3>3, <3>4
  <2> QED BY <2>1, <2>2
<1>9. ElementTexts(Written, more) = Append(ts, t)
  BY <1>4, <1>7, <1>8, SeqEqual
<1>10. FlattenSeq(Append(ts, t)) = FlattenSeq(ts) \o t
  BY <1>3, <1>5, OneMoreJoined
<1> QED BY <1>9, <1>10 DEF Joined, more, ts, t

-----------------------------------------------------------------------------
(* What texts begin and end with. *)

IsWritten(v, t) ==
    /\ t \in Seq(Characters) /\ t # <<>> /\ Last(t) # Comma
    /\ v.type = "Array" => t = Between("[", Joined(v.arrayValue), "]")
    /\ v.type # "Array" => t[1] # "[" /\ t = TextOf(v) /\ ParseScalar(t) = v

LEMMA WrittenIsText ==
    ASSUME NEW v \in Values
    PROVE  IsWritten(v, Written[v])
<1> DEFINE P == {u \in Values : IsWritten(u, Written[u])}
<1>1. \A u \in P : Written[u] \in Seq(Characters)
  BY DEF IsWritten
<1>2. ASSUME NEW u \in Values,
             u.type = "Array" => \A i \in DOMAIN u.arrayValue : u.arrayValue[i] \in P
      PROVE  u \in P
  <2>1. CASE u.type # "Array"
    <3>1. IsScalar(u) /\ Written[u] = TextOf(u)
      BY <2>1, ValueIs, WrittenIs
    <3> QED BY <2>1, <3>1, ScalarIsRead DEF IsWritten
  <2>2. CASE u.type = "Array"
    <3> DEFINE us == u.arrayValue
    <3>1. us \in Seq(Values)
      BY <2>2, ValueIs DEF IsArrayOfLess
    <3>2. us \in Seq(P)
      <4>1. \A i \in 1..Len(us) : us[i] \in P
        BY <1>2, <2>2, <3>1, LenProperties
      <4> HIDE DEF P, us
      <4> QED BY <3>1, <4>1
    <3>3. Joined(us) \in Seq(Characters)
      <4> HIDE DEF us
      <4>1. P \in SUBSET Values
        OBVIOUS
      <4> HIDE DEF P
      <4> QED BY <1>1, <3>2, <4>1, JoinedElements
    <3>4. Written[u] = Between("[", Joined(us), "]")
      BY <2>2, WrittenIs DEF ArrayText, Joined, Between
    <3>5. "[" \in Characters /\ "]" \in Characters
      BY JsonAssumption DEF Symbols
    <3> HIDE DEF us
    <3>6. Written[u] \in Seq(Characters) /\ Written[u] # <<>> /\ Last(Written[u]) = "]"
      BY <3>3, <3>4, <3>5, BetweenIs
    <3>7. "]" # Comma
      BY DEF Comma
    <3> QED BY <2>2, <3>4, <3>6, <3>7 DEF IsWritten, us
  <2> QED BY <2>1, <2>2
<1> HIDE DEF P
<1>3. Values \subseteq P
  BY <1>2, DepthInduction
<1> QED BY <1>3 DEF P

-----------------------------------------------------------------------------
(* The loop of ParseValueStr over the text of an element. *)

\* In no string, with the brackets d to come; in a string; ended.
Outside(d, read) ==
    [expectedDelimiters |-> d, isInsideStr |-> FALSE, values |-> read, ended |-> FALSE]
Inside(d, read) ==
    [expectedDelimiters |-> Append(d, Quote), isInsideStr |-> TRUE, values |-> read, ended |-> FALSE]
Ended(read) ==
    [expectedDelimiters |-> <<>>, isInsideStr |-> FALSE, values |-> read, ended |-> TRUE]

Brackets == Seq({"]"})

LEMMA ScansApart ==
    /\ Quote \notin {"[", "]", Comma, Backslash, "-", "null", "true", "false"}
    /\ Comma \notin {"[", "]", "-", "null", "true", "false"}
    /\ \A ch : IsDigit(ch) => ch # Quote /\ ch # Comma
<1>1. /\ Quote \notin {"[", "]", Comma, Backslash, "-", "null", "true", "false"}
      /\ Comma \notin {"[", "]", "-", "null", "true", "false"}
  BY DEF Quote, Comma, Backslash
<1>2. /\ Quote \notin {"0", "1", "2", "3", "4", "5", "6", "7", "8", "9"}
      /\ Comma \notin {"0", "1", "2", "3", "4", "5", "6", "7", "8", "9"}
  BY DEF Quote, Comma
<1> QED BY <1>1, <1>2, DigitsAre

LEMMA DelimitersAre ==
    ASSUME NEW d \in Brackets, NEW ch
    PROVE  /\ d # <<>> => Last(d) = "]"
           /\ Append(d, ch) # <<>> /\ Last(Append(d, ch)) = ch /\ Front(Append(d, ch)) = d
           /\ Append(d, "]") \in Brackets
<1>1. d \in Seq({"]", ch}) /\ ch \in {"]", ch}
  BY DEF Brackets
<1>2. PICK e \in Seq({"]", ch}) : e = Append(d, ch)
  BY <1>1, AppendProperties
<1>3. Len(d) \in Nat /\ e # <<>> /\ Len(e) = Len(d) + 1 /\ e[Len(d) + 1] = ch
      /\ \A i \in 1..Len(d) : e[i] = d[i]
  BY <1>1, <1>2, AppendProperties, LenProperties
<1>4. Front(e) = d
  <2>1. SubSeq(e, 1, Len(d)) \in Seq({"]", ch}) /\ Len(SubSeq(e, 1, Len(d))) = Len(d)
        /\ \A i \in 1..Len(d) : SubSeq(e, 1, Len(d))[i] = e[i]
    BY <1>2, <1>3
  <2>2. SubSeq(e, 1, Len(d)) = d
    BY <1>1, <1>3, <2>1, SeqEqual
  <2>3. Len(e) - 1 = Len(d)
    BY <1>3
  <2> QED BY <2>2, <2>3 DEF Front
<1>5. d # <<>> => Last(d) = "]"
  BY DEF Brackets, Last
<1>6. Append(d, "]") \in Brackets
  BY DEF Brackets
<1> QED BY <1>2, <1>3, <1>4, <1>5, <1>6 DEF Last

LEMMA ScanSteps ==
    ASSUME NEW d \in Brackets, NEW read
    PROVE  /\ \A ch : ch \notin {Quote, "[", "]", Comma} =>
                  StepOf("scan", Outside(d, read), ch) = Outside(d, Append(read, ch))
           /\ \A ch : ch # Quote =>
                  StepOf("scan", Inside(d, read), ch) = Inside(d, Append(read, ch))
           /\ d # <<>> => StepOf("scan", Outside(d, read), Comma) = Outside(d, Append(read, Comma))
           /\ StepOf("scan", Outside(<<>>, read), Comma) = Ended(Append(read, Comma))
           /\ StepOf("scan", Outside(d, read), Quote) = Inside(d, Append(read, Quote))
           /\ StepOf("scan", Inside(d, read), Quote) = Outside(d, Append(read, Quote))
           /\ StepOf("scan", Outside(d, read), "[") = Outside(Append(d, "]"), Append(read, "["))
           /\ StepOf("scan", Outside(Append(d, "]"), read), "]") = Outside(d, Append(read, "]"))
           /\ \A ch : StepOf("scan", Ended(read), ch) = Ended(read)
<1>1. \A r, ch : StepOf("scan", r, ch) = ScanStep(r, ch)
  BY DEF StepOf
<1>2. ASSUME NEW ch, ch \notin {Quote, "[", "]", Comma}
      PROVE  ScanStep(Outside(d, read), ch) = Outside(d, Append(read, ch))
  BY <1>2, DelimitersAre DEF ScanStep, Outside
<1>3. ASSUME NEW ch, ch # Quote
      PROVE  ScanStep(Inside(d, read), ch) = Inside(d, Append(read, ch))
  BY <1>3, DelimitersAre DEF ScanStep, Inside
<1>4. d # <<>> => ScanStep(Outside(d, read), Comma) = Outside(d, Append(read, Comma))
  BY ScansApart, DelimitersAre DEF ScanStep, Outside
<1>5. ScanStep(Outside(<<>>, read), Comma) = Ended(Append(read, Comma))
  BY ScansApart DEF ScanStep, Outside, Ended
<1>6. ScanStep(Outside(d, read), Quote) = Inside(d, Append(read, Quote))
  BY ScansApart, DelimitersAre DEF ScanStep, Outside, Inside
<1>7. ScanStep(Inside(d, read), Quote) = Outside(d, Append(read, Quote))
  BY ScansApart, DelimitersAre DEF ScanStep, Outside, Inside
<1>8. ScanStep(Outside(d, read), "[") = Outside(Append(d, "]"), Append(read, "["))
  BY ScansApart, DelimitersAre DEF ScanStep, Outside
<1>9. ScanStep(Outside(Append(d, "]"), read), "]") = Outside(d, Append(read, "]"))
  BY ScansApart, DelimitersAre DEF ScanStep, Outside
<1>10. \A ch : ScanStep(Ended(read), ch) = Ended(read)
  BY DEF ScanStep, Ended
<1> QED BY <1>1, <1>2, <1>3, <1>4, <1>5, <1>6, <1>7, <1>8, <1>9, <1>10

\* In a string or in none.
Scanning(inside, d, read) == IF inside THEN Inside(d, read) ELSE Outside(d, read)
NoDelimiter(inside, ch) == IF inside THEN ch # Quote ELSE ch \notin {Quote, "[", "]", Comma}

LEMMA ScansOn ==
    ASSUME NEW inside \in BOOLEAN, NEW d \in Brackets, NEW read \in Seq(Characters),
           NEW s \in Seq(Characters), \A i \in DOMAIN s : NoDelimiter(inside, s[i])
    PROVE  Run("scan", Scanning(inside, d, read), s) = Scanning(inside, d, read \o s)
<1> DEFINE Goes(u) == Run("scan", Scanning(inside, d, read), u) = Scanning(inside, d, read \o u)
           Fit(u) == \A i \in DOMAIN u : NoDelimiter(inside, u[i])
           M == {n \in Nat : \A u \in Seq(Characters) : Len(u) = n /\ Fit(u) => Goes(u)}
<1>1. 0 \in M
  <2> SUFFICES ASSUME NEW u \in Seq(Characters), Len(u) = 0 PROVE Goes(u)
    OBVIOUS
  <2>1. u = <<>>
    BY EmptySeq
  <2>2. read \o u = read
    BY <2>1, ConcatEmptySeq
  <2> QED BY <2>1, <2>2, RunOverNothing
<1>2. ASSUME NEW n \in 0..(Len(s) - 1), n \in M PROVE n + 1 \in M
  <2> SUFFICES ASSUME NEW u \in Seq(Characters), Len(u) = n + 1, Fit(u) PROVE Goes(u)
    OBVIOUS
  <2>1. u # <<>>
    BY EmptySeq
  <2>2. PICK w \in Seq(Characters), ch \in Characters : u = Append(w, ch)
    BY <2>1, SequenceEmptyOrAppend
  <2>3. Len(w) = n /\ Len(w) \in Nat /\ u[Len(w) + 1] = ch /\ \A i \in 1..Len(w) : u[i] = w[i]
    BY <2>2, AppendProperties, LenProperties
  <2>4. DOMAIN u = 1..(Len(w) + 1) /\ DOMAIN w = 1..Len(w)
    BY <2>3, LenProperties
  <2>5. Fit(w) /\ NoDelimiter(inside, ch)
    <3>1. \A i \in DOMAIN w : i \in DOMAIN u /\ u[i] = w[i]
      BY <2>3, <2>4
    <3>2. Len(w) + 1 \in DOMAIN u
      BY <2>3, <2>4
    <3> QED BY <2>3, <3>1, <3>2
  <2>6. Goes(w)
    BY <1>2, <2>3, <2>5
  <2> HIDE DEF Fit
  <2> DEFINE so == read \o w
  <2>7. read \o u = Append(so, ch)
    BY <2>2, AppendedToBoth
  <2>8. Run("scan", Scanning(inside, d, read), u) = StepOf("scan", Scanning(inside, d, so), ch)
    <3>1. Run("scan", Scanning(inside, d, read), Append(w, ch))
              = StepOf("scan", Run("scan", Scanning(inside, d, read), w), ch)
      BY RunOverOneMore
    <3> QED BY <2>2, <2>6, <3>1
  <2> HIDE DEF so
  <2>9. StepOf("scan", Scanning(inside, d, so), ch) = Scanning(inside, d, Append(so, ch))
    <3>1. CASE inside = TRUE
      BY <2>5, <3>1, ScanSteps DEF Scanning, NoDelimiter
    <3>2. CASE inside = FALSE
      BY <2>5, <3>2, ScanSteps DEF Scanning, NoDelimiter
    <3> QED BY <3>1, <3>2
  <2> QED BY <2>7, <2>8, <2>9
<1>3. Len(s) \in Nat
  BY LenProperties
<1> HIDE DEF M, Goes
<1>4. 0..Len(s) \subseteq M
  BY <1>1, <1>2, <1>3, Induction
<1>5. Len(s) \in M
  BY <1>3, <1>4
<1> QED BY <1>5 DEF M, Goes

LEMMA RunBetween ==
    ASSUME NEW loop, NEW base, NEW a \in Characters, NEW b \in Characters, NEW s \in Seq(Characters)
    PROVE  Run(loop, base, Between(a, s, b))
               = StepOf(loop, Run(loop, StepOf(loop, base, a), s), b)
<1>1. <<a>> \in Seq(Characters)
  OBVIOUS
<1>2. PICK p \in Seq(Characters) : p = <<a>>
  BY <1>1
<1> DEFINE u == p \o s
<1>3. u \in Seq(Characters)
  BY ConcatProperties
<1>4. Run(loop, base, u) = Run(loop, StepOf(loop, base, a), s)
  <2>1. Run(loop, base, p \o s) = Run(loop, Run(loop, base, p), s)
    BY RunOverBoth
  <2>2. Run(loop, base, p) = StepOf(loop, base, a)
    BY <1>2, RunOverOne
  <2> QED BY <2>1, <2>2
<1>5. Between(a, s, b) = Append(u, b)
  <2>1. Append(u, b) = u \o <<b>>
    BY <1>3, AppendIsConcat
  <2> QED BY <1>2, <2>1 DEF Between
<1> HIDE DEF u
<1>6. Run(loop, base, Append(u, b)) = StepOf(loop, Run(loop, base, u), b)
  BY <1>3, RunOverOneMore
<1> QED BY <1>4, <1>5, <1>6

\* What is read between two characters.
LEMMA ReadBetween ==
    ASSUME NEW a \in Characters, NEW b \in Characters, NEW s \in Seq(Characters),
           NEW read \in Seq(Characters)
    PROVE  /\ Append(read, a) \in Seq(Characters)
           /\ Append(Append(read, a) \o s, b) = read \o Between(a, s, b)
<1>1. <<a>> \in Seq(Characters) /\ <<b>> \in Seq(Characters)
  OBVIOUS
<1>2. PICK p \in Seq(Characters) : p = <<a>>
  BY <1>1
<1>3. PICK q \in Seq(Characters) : q = <<b>>
  BY <1>1
<1>4. Append(read, a) = read \o p
  BY <1>2, AppendIsConcat
<1>5. p \o s \in Seq(Characters) /\ read \o p \in Seq(Characters) /\ (read \o p) \o s \in Seq(Characters)
  BY ConcatProperties
<1>6. Append((read \o p) \o s, b) = ((read \o p) \o s) \o q
  BY <1>3, <1>5, AppendIsConcat
<1>7. (read \o p) \o s = read \o (p \o s)
  BY ConcatAssociative
<1>8. (read \o (p \o s)) \o q = read \o ((p \o s) \o q)
  BY <1>5, ConcatAssociative
<1>9. Between(a, s, b) = (p \o s) \o q
  BY <1>2, <1>3 DEF Between
<1> QED BY <1>4, <1>5, <1>6, <1>7, <1>8, <1>9

-----------------------------------------------------------------------------
(* The text of a value is read on to its end. *)

HasNoQuote(s) == Quote \notin ToSet(s)

LEMMA EscapedHasNoQuote ==
    ASSUME NEW s \in Seq(Characters), HasNoQuote(s)
    PROVE  \A i \in DOMAIN Escape(s) : Escape(s)[i] # Quote
<1> DEFINE Free(u) == \A i \in DOMAIN u : u[i] # Quote
           M == {n \in Nat : \A u \in Seq(Characters) : Len(u) = n /\ Free(u) => Free(Escape(u))}
<1>1. 0 \in M
  <2> SUFFICES ASSUME NEW u \in Seq(Characters), Len(u) = 0 PROVE Free(Escape(u))
    OBVIOUS
  <2>1. Pieces(u) = <<>>
    BY PiecesAre, EmptySeq
  <2>2. Escape(u) = <<>>
    BY <2>1, PiecesAre, NothingJoined
  <2> QED BY <2>2
<1>2. ASSUME NEW n \in 0..(Len(s) - 1), n \in M PROVE n + 1 \in M
  <2> SUFFICES ASSUME NEW u \in Seq(Characters), Len(u) = n + 1, Free(u) PROVE Free(Escape(u))
    OBVIOUS
  <2>1. u # <<>>
    BY EmptySeq
  <2>2. PICK w \in Seq(Characters), ch \in Characters : u = Append(w, ch)
    BY <2>1, SequenceEmptyOrAppend
  <2>3. Len(w) = n /\ Len(w) \in Nat /\ u[Len(w) + 1] = ch /\ \A i \in 1..Len(w) : u[i] = w[i]
    BY <2>2, AppendProperties, LenProperties
  <2>4. DOMAIN u = 1..(Len(w) + 1) /\ DOMAIN w = 1..Len(w)
    BY <2>3, LenProperties
  <2>5. Free(w) /\ ch # Quote
    <3>1. \A i \in DOMAIN w : i \in DOMAIN u /\ u[i] = w[i]
      BY <2>3, <2>4
    <3>2. Len(w) + 1 \in DOMAIN u
      BY <2>3, <2>4
    <3> QED BY <2>3, <3>1, <3>2
  <2> DEFINE x == Escape(w)
             y == EscapedCh(ch)
  <2>6. Free(x)
    BY <1>2, <2>3, <2>5
  <2>7. Escape(u) = x \o y /\ x \in Seq(Characters) /\ y \in Seq(Characters)
    BY <2>2, OneMoreEscaped, EscapedIsText, PieceIs
  <2>8. Free(y)
    <3>1. CASE ch \in Escaped
      <4>1. PICK z : z = <<Backslash, ch>>
        OBVIOUS
      <4>2. DOMAIN z = {1, 2} /\ z[1] = Backslash /\ z[2] = ch
        BY <4>1
      <4> QED BY <2>5, <3>1, <4>1, <4>2, ScansApart DEF EscapedCh
    <3>2. CASE ch \notin Escaped
      BY <2>5, <3>2 DEF EscapedCh
    <3> QED BY <3>1, <3>2
  <2> HIDE DEF x, y
  <2> DEFINE z == x \o y
  <2>9. /\ z \in Seq(Characters) /\ Len(z) = Len(x) + Len(y)
        /\ \A i \in 1..(Len(x) + Len(y)) : z[i] = IF i <= Len(x) THEN x[i] ELSE y[i - Len(x)]
    BY <2>7, ConcatProperties
  <2>10. /\ DOMAIN x = 1..Len(x) /\ DOMAIN y = 1..Len(y) /\ DOMAIN z = 1..(Len(x) + Len(y))
         /\ Len(x) \in Nat /\ Len(y) \in Nat
    <3> HIDE DEF z
    <3> QED BY <2>7, <2>9, LenProperties
  <2> HIDE DEF z
  <2>11. Free(z)
    <3> SUFFICES ASSUME NEW i \in 1..(Len(x) + Len(y)) PROVE z[i] # Quote
      BY <2>10
    <3>1. CASE i <= Len(x)
      <4>1. i \in DOMAIN x
        BY <2>10, <3>1
      <4> QED BY <2>6, <2>9, <3>1, <4>1
    <3>2. CASE ~(i <= Len(x))
      <4>1. i - Len(x) \in DOMAIN y
        BY <2>10, <3>2
      <4> QED BY <2>8, <2>9, <3>2, <4>1
    <3> QED BY <3>1, <3>2
  <2> QED BY <2>7, <2>11 DEF z
<1>3. Len(s) \in Nat
  BY LenProperties
<1>4. Free(s)
  BY DEF HasNoQuote, ToSet
<1> HIDE DEF M
<1>5. 0..Len(s) \subseteq M
  BY <1>1, <1>2, <1>3, Induction
<1>6. Len(s) \in M
  BY <1>3, <1>5
<1> QED BY <1>4, <1>6 DEF M

LEMMA ScalarIsScanned ==
    ASSUME NEW v, IsScalar(v), v.type = "String" => HasNoQuote(v.strValue),
           NEW d \in Brackets, NEW read \in Seq(Characters), NEW t, t = TextOf(v)
    PROVE  Run("scan", Outside(d, read), t) = Outside(d, read \o t)
<1>1. t \in Seq(Characters)
  BY ScalarIsRead
<1>2. ASSUME \A i \in DOMAIN t : t[i] \notin {Quote, "[", "]", Comma}
      PROVE  Run("scan", Outside(d, read), t) = Outside(d, read \o t)
  <2>1. \A i \in DOMAIN t : NoDelimiter(FALSE, t[i])
    BY <1>2 DEF NoDelimiter
  <2>2. Run("scan", Scanning(FALSE, d, read), t) = Scanning(FALSE, d, read \o t)
    <3>1. FALSE \in BOOLEAN
      OBVIOUS
    <3> QED BY <1>1, <2>1, <3>1, ScansOn
  <2> QED BY <2>2 DEF Scanning
<1>3. ASSUME NEW word \in {"null", "true", "false"}, t = <<word>>
      PROVE  \A i \in DOMAIN t : t[i] \notin {Quote, "[", "]", Comma}
  <2>1. word \notin {Quote, "[", "]", Comma}
    BY ScansApart
  <2> QED BY <1>3, <2>1
<1>4. CASE v \in {Null, Boolean(TRUE), Boolean(FALSE)}
  <2>1. t \in {<<"null">>, <<"true">>, <<"false">>}
    BY <1>4 DEF TextOf, Null, Boolean
  <2> QED BY <1>2, <1>3, <2>1
<1>5. CASE v.type = "Integer" /\ v = Integer(v.intValue) /\ v.intValue \in -(IntMax + 1)..IntMax
  <2>1. \A i \in DOMAIN t : t[i] = "-" \/ IsDigit(t[i])
    BY <1>5, IntegerTextIs
  <2>2. \A ch : ch = "-" \/ IsDigit(ch) => ch \notin {Quote, "[", "]", Comma}
    BY ScansApart, DigitsAre
  <2> QED BY <1>2, <2>1, <2>2
<1>6. CASE v.type = "String" /\ v = String(v.strValue) /\ v.strValue \in Seq(Characters)
  <2> DEFINE s == Escape(v.strValue)
  <2>1. t = Between(Quote, s, Quote)
    BY <1>6 DEF TextOf, Between
  <2>2. s \in Seq(Characters) /\ \A i \in DOMAIN s : s[i] # Quote
    BY <1>6, EscapedIsText, EscapedHasNoQuote
  <2> HIDE DEF s
  <2>3. Quote \in Characters
    BY JsonAssumption DEF Symbols
  <2> DEFINE q == Append(read, Quote)
  <2>4. q \in Seq(Characters) /\ Append(q \o s, Quote) = read \o t
    BY <2>1, <2>2, <2>3, ReadBetween
  <2>5. Run("scan", Outside(d, read), t)
            = StepOf("scan", Run("scan", StepOf("scan", Outside(d, read), Quote), s), Quote)
    BY <2>1, <2>2, <2>3, RunBetween
  <2>6. StepOf("scan", Outside(d, read), Quote) = Inside(d, q)
    BY ScanSteps
  <2> HIDE DEF q
  <2>7. Run("scan", Inside(d, q), s) = Inside(d, q \o s)
    <3>1. \A i \in DOMAIN s : NoDelimiter(TRUE, s[i])
      BY <2>2 DEF NoDelimiter
    <3>2. Run("scan", Scanning(TRUE, d, q), s) = Scanning(TRUE, d, q \o s)
      <4>1. TRUE \in BOOLEAN
        OBVIOUS
      <4> QED BY <2>2, <2>4, <3>1, <4>1, ScansOn
    <3> QED BY <3>2 DEF Scanning
  <2>8. StepOf("scan", Inside(d, q \o s), Quote) = Outside(d, Append(q \o s, Quote))
    BY ScanSteps
  <2> QED BY <2>4, <2>5, <2>6, <2>7, <2>8
<1> QED BY <1>4, <1>5, <1>6 DEF IsScalar

QuoteFree(v) == \A s \in StringsOf[v] : HasNoQuote(s)

\* Wherever it begins, in no string.
ScannedOn(t) ==
    \A d \in Brackets, read \in Seq(Characters) :
        Run("scan", Outside(d, read), t) = Outside(d, read \o t)

LEMMA QuoteFreeIs ==
    ASSUME NEW v \in Values, QuoteFree(v)
    PROVE  /\ v.type = "String" => HasNoQuote(v.strValue)
           /\ v.type = "Array" => \A i \in DOMAIN v.arrayValue : QuoteFree(v.arrayValue[i])
<1>1. CASE v.type = "Array"
  <2>1. StringsOf[v] = UNION {StringsOf[v.arrayValue[i]] : i \in DOMAIN v.arrayValue}
    BY <1>1, StringsAre
  <2>2. \A i \in DOMAIN v.arrayValue : StringsOf[v.arrayValue[i]] \subseteq StringsOf[v]
    BY <2>1
  <2> QED BY <1>1, <2>2 DEF QuoteFree
<1>2. CASE v.type = "String"
  <2>1. StringsOf[v] = {v.strValue}
    BY <1>2, StringsAre
  <2> QED BY <1>2, <2>1 DEF QuoteFree
<1> QED BY <1>1, <1>2

LEMMA AllAreText == \A u \in Values : Written[u] \in Seq(Characters)
BY WrittenIsText DEF IsWritten

LEMMA Regrouped ==
    ASSUME NEW x \in Seq(Characters), NEW y \in Seq(Characters), NEW z \in Seq(Characters)
    PROVE  (x \o y) \o z = x \o (y \o z)
BY ConcatAssociative

\* Inside the brackets of an array.
LEMMA ElementsAreScanned ==
    ASSUME NEW P \in SUBSET Values, \A u \in P : ScannedOn(Written[u]), NEW us \in Seq(P),
           NEW d \in Brackets, d # <<>>, NEW read \in Seq(Characters)
    PROVE  Run("scan", Outside(d, read), Joined(us)) = Outside(d, read \o Joined(us))
<1> DEFINE Goes(ws) == Run("scan", Outside(d, read), Joined(ws)) = Outside(d, read \o Joined(ws))
           M == {n \in Nat : \A ws \in Seq(P) : Len(ws) = n => Goes(ws)}
<1>1. \A u \in P : Written[u] \in Seq(Characters)
  BY AllAreText
<1>2. 0 \in M
  <2> SUFFICES ASSUME NEW ws \in Seq(P), Len(ws) = 0 PROVE Goes(ws)
    OBVIOUS
  <2>1. Joined(ws) = <<>>
    BY EmptySeq, NoElements
  <2>2. read \o <<>> = read
    BY ConcatEmptySeq
  <2> QED BY <2>1, <2>2, RunOverNothing
<1>3. ASSUME NEW n \in 0..(Len(us) - 1), n \in M PROVE n + 1 \in M
  <2> SUFFICES ASSUME NEW ws \in Seq(P), Len(ws) = n + 1 PROVE Goes(ws)
    OBVIOUS
  <2>1. ws # <<>>
    BY EmptySeq
  <2>2. PICK vs \in Seq(P), e \in P : ws = Append(vs, e)
    BY <2>1, SequenceEmptyOrAppend
  <2>3. Len(vs) = n
    BY <2>2, AppendProperties, LenProperties
  <2>4. Goes(vs)
    BY <1>3, <2>3
  <2> DEFINE j == Joined(vs)
             b == Behind(vs)
             t == Written[e]
             so == read \o j
  <2>5. j \in Seq(Characters) /\ b \in Seq(Characters) /\ t \in Seq(Characters)
    BY <1>1, JoinedElements
  <2>6. Joined(ws) = j \o (b \o t)
    BY <1>1, <2>2, OneMoreElement
  <2>7. Run("scan", Outside(d, read), j) = Outside(d, so)
    BY <2>4
  <2>8. b = <<>> \/ b = <<Comma>>
    BY DEF Behind
  <2>9. ScannedOn(t)
    OBVIOUS
  <2> HIDE DEF j, b, t
  <2>10. so \in Seq(Characters) /\ b \o t \in Seq(Characters) /\ so \o b \in Seq(Characters)
    <3>1. so \in Seq(Characters)
      BY <2>5, ConcatProperties
    <3> HIDE DEF so
    <3> QED BY <2>5, <3>1, ConcatProperties
  <2>11. Run("scan", Outside(d, read), j \o (b \o t)) = Run("scan", Outside(d, so), b \o t)
    <3> DEFINE u == b \o t
    <3>1. j \in Seq(Characters) /\ u \in Seq(Characters)
      BY <2>5, <2>10
    <3> HIDE DEF u
    <3>2. Run("scan", Outside(d, read), j \o u) = Run("scan", Run("scan", Outside(d, read), j), u)
      BY <3>1, RunOverBoth
    <3> QED BY <2>7, <3>2 DEF u
  <2> HIDE DEF so
  <2>12. Run("scan", Outside(d, so), b \o t) = Run("scan", Run("scan", Outside(d, so), b), t)
    BY <2>5, RunOverBoth
  <2>13. Run("scan", Outside(d, so), b) = Outside(d, so \o b)
    <3>1. CASE b = <<>>
      <4>1. so \o b = so
        BY <2>10, <3>1, ConcatEmptySeq
      <4> QED BY <3>1, <4>1, RunOverNothing
    <3>2. CASE b = <<Comma>>
      <4>1. Run("scan", Outside(d, so), b) = StepOf("scan", Outside(d, so), Comma)
        BY <3>2, RunOverOne
      <4>2. StepOf("scan", Outside(d, so), Comma) = Outside(d, Append(so, Comma))
        BY ScanSteps
      <4>3. Append(so, Comma) = so \o b
        BY <2>10, <3>2, CommaIsText, AppendIsConcat
      <4> QED BY <4>1, <4>2, <4>3
    <3> QED BY <2>8, <3>1, <3>2
  <2>14. Run("scan", Outside(d, so \o b), t) = Outside(d, (so \o b) \o t)
    <3> DEFINE u == so \o b
    <3>1. u \in Seq(Characters)
      BY <2>10
    <3> HIDE DEF u
    <3>2. Run("scan", Outside(d, u), t) = Outside(d, u \o t)
      BY <2>9, <3>1 DEF ScannedOn
    <3> QED BY <3>2 DEF u
  <2>15. (so \o b) \o t = read \o (j \o (b \o t))
    <3> DEFINE u == b \o t
    <3>1. (so \o b) \o t = so \o (b \o t)
      <4>1. so \in Seq(Characters) /\ b \in Seq(Characters) /\ t \in Seq(Characters)
        BY <2>5, <2>10
      <4> HIDE DEF u
      <4> QED BY <4>1, Regrouped
    <3>2. u \in Seq(Characters) /\ j \in Seq(Characters)
      BY <2>5, <2>10
    <3> HIDE DEF u
    <3>3. (read \o j) \o u = read \o (j \o u)
      BY <3>2, Regrouped
    <3> QED BY <3>1, <3>3, Zenon DEF so, u
  <2> QED BY <2>6, <2>11, <2>12, <2>13, <2>14, <2>15
<1>4. Len(us) \in Nat
  BY LenProperties
<1> HIDE DEF M, Goes
<1>5. 0..Len(us) \subseteq M
  BY <1>2, <1>3, <1>4, Induction
<1>6. Len(us) \in M
  BY <1>4, <1>5
<1> QED BY <1>6 DEF M, Goes

LEMMA WrittenIsScanned ==
    ASSUME NEW v \in Values, QuoteFree(v)
    PROVE  ScannedOn(Written[v])
<1> DEFINE P == {u \in Values : QuoteFree(u) => ScannedOn(Written[u])}
<1>1. ASSUME NEW u \in Values,
             u.type = "Array" => \A i \in DOMAIN u.arrayValue : u.arrayValue[i] \in P
      PROVE  u \in P
  <2> SUFFICES ASSUME QuoteFree(u), NEW d \in Brackets, NEW read \in Seq(Characters)
               PROVE  Run("scan", Outside(d, read), Written[u]) = Outside(d, read \o Written[u])
    BY DEF ScannedOn
  <2>1. CASE u.type # "Array"
    <3>1. IsScalar(u) /\ Written[u] = TextOf(u)
      BY <2>1, ValueIs, WrittenIs
    <3> QED BY <3>1, QuoteFreeIs, ScalarIsScanned
  <2>2. CASE u.type = "Array"
    <3> DEFINE us == u.arrayValue
               Q == {w \in Values : ScannedOn(Written[w])}
    <3>1. us \in Seq(Values)
      BY <2>2, ValueIs DEF IsArrayOfLess
    <3>2. \A i \in DOMAIN us : us[i] \in Q
      <4> TAKE i \in DOMAIN us
      <4>1. us[i] \in P /\ QuoteFree(us[i])
        BY <1>1, <2>2, QuoteFreeIs
      <4> QED BY <4>1
    <3>3. us \in Seq(Q)
      <4>1. \A i \in 1..Len(us) : us[i] \in Q
        BY <3>1, <3>2, LenProperties
      <4> HIDE DEF Q, us
      <4> QED BY <3>1, <4>1
    <3> DEFINE s == Joined(us)
               inner == Append(d, "]")
               begun == Append(read, "[")
    <3>4. Q \in SUBSET Values /\ \A w \in Q : ScannedOn(Written[w])
      OBVIOUS
    <3> HIDE DEF Q
    <3>5. s \in Seq(Characters)
      BY <3>3, <3>4, AllAreText, JoinedElements
    <3>6. Written[u] = Between("[", s, "]")
      BY <2>2, WrittenIsText DEF IsWritten
    <3>7. "[" \in Characters /\ "]" \in Characters
      BY JsonAssumption DEF Symbols
    <3>8. inner \in Brackets /\ inner # <<>>
      BY DelimitersAre
    <3>9. begun \in Seq(Characters) /\ Append(begun \o s, "]") = read \o Written[u]
      <4>1. "[" \in Characters /\ s \in Seq(Characters)
        BY <3>5, <3>7
      <4> HIDE DEF s
      <4>2. begun \in Seq(Characters)
        BY <4>1, ReadBetween
      <4>3. Append(begun \o s, "]") = read \o Between("[", s, "]")
        BY <3>7, <4>1, ReadBetween
      <4> QED BY <3>6, <4>2, <4>3
    <3>10. StepOf("scan", Outside(d, read), "[") = Outside(inner, begun)
      BY ScanSteps
    <3>11. Run("scan", Outside(inner, begun), s) = Outside(inner, begun \o s)
      <4> HIDE DEF us, inner, begun
      <4> QED BY <3>3, <3>4, <3>8, <3>9, ElementsAreScanned
    <3>12. StepOf("scan", Outside(inner, begun \o s), "]") = Outside(d, Append(begun \o s, "]"))
      BY ScanSteps
    <3> HIDE DEF s, inner, begun
    <3>13. Run("scan", Outside(d, read), Written[u])
               = StepOf("scan", Run("scan", StepOf("scan", Outside(d, read), "["), s), "]")
      BY <3>5, <3>6, <3>7, RunBetween
    <3> QED BY <3>9, <3>10, <3>11, <3>12, <3>13
  <2> QED BY <2>1, <2>2
<1> HIDE DEF P
<1>2. Values \subseteq P
  BY <1>1, DepthInduction
<1> QED BY <1>2 DEF P

-----------------------------------------------------------------------------
(* Where in the text of an array its elements are. *)

FirstOf(vs, k) == SubSeq(vs, 1, k)

\* The offset with k elements behind it.
OffsetOf(vs, k) == Len(Joined(FirstOf(vs, k))) + (IF 0 < k /\ k < Len(vs) THEN 1 ELSE 0)

LEMMA FirstAre ==
    ASSUME NEW vs \in Seq(Values), NEW k \in 0..Len(vs)
    PROVE  /\ FirstOf(vs, k) \in Seq(Values) /\ Len(FirstOf(vs, k)) = k
           /\ FirstOf(vs, 0) = <<>> /\ FirstOf(vs, Len(vs)) = vs
           /\ FirstOf(vs, k) = <<>> <=> k = 0
           /\ k < Len(vs) => /\ vs[k + 1] \in Values
                             /\ FirstOf(vs, k + 1) = Append(FirstOf(vs, k), vs[k + 1])
<1>1. Len(vs) \in Nat /\ \A i \in 1..Len(vs) : vs[i] \in Values
  BY LenProperties, ElementOfSeq
<1>2. \A m \in 0..Len(vs) : /\ FirstOf(vs, m) \in Seq(Values) /\ Len(FirstOf(vs, m)) = m
                            /\ \A i \in 1..m : FirstOf(vs, m)[i] = vs[i]
  <2> TAKE m \in 0..Len(vs)
  <2>1. \A i \in 1..m : vs[i] \in Values
    BY <1>1
  <2>2. /\ FirstOf(vs, m) \in Seq(Values) /\ Len(FirstOf(vs, m)) = (IF 1 <= m THEN m - 1 + 1 ELSE 0)
        /\ \A i \in 1..(m - 1 + 1) : FirstOf(vs, m)[i] = vs[1 + i - 1]
    BY <2>1, SubSeqProperties DEF FirstOf
  <2>3. \A i \in 1..m : FirstOf(vs, m)[i] = vs[i]
    <3> TAKE i \in 1..m
    <3>1. i \in 1..(m - 1 + 1) /\ 1 + i - 1 = i
      OBVIOUS
    <3> QED BY <2>2, <3>1
  <2> QED BY <1>1, <2>2, <2>3
<1>3. FirstOf(vs, 0) = <<>> /\ (FirstOf(vs, k) = <<>> <=> k = 0)
  BY <1>1, <1>2, EmptySeq
<1>4. FirstOf(vs, Len(vs)) = vs
  BY SubSeqFull DEF FirstOf
<1>5. ASSUME k < Len(vs)
      PROVE  vs[k + 1] \in Values /\ FirstOf(vs, k + 1) = Append(FirstOf(vs, k), vs[k + 1])
  <2>1. k + 1 \in 1..Len(vs) /\ k + 1 \in 0..Len(vs)
    BY <1>1, <1>5
  <2> DEFINE s == FirstOf(vs, k)
             e == vs[k + 1]
             t == FirstOf(vs, k + 1)
  <2>2. e \in Values /\ s \in Seq(Values) /\ Len(s) = k /\ \A i \in 1..k : s[i] = vs[i]
    BY <1>1, <1>2, <2>1
  <2>3. t \in Seq(Values) /\ Len(t) = k + 1 /\ \A i \in 1..(k + 1) : t[i] = vs[i]
    BY <1>2, <2>1
  <2> HIDE DEF s, t
  <2>4. Append(s, e) \in Seq(Values) /\ Len(Append(s, e)) = k + 1
        /\ Append(s, e)[k + 1] = e /\ \A i \in 1..k : Append(s, e)[i] = s[i]
    <3> HIDE DEF e
    <3> QED BY <2>2, AppendProperties
  <2>5. \A i \in 1..(k + 1) : t[i] = Append(s, e)[i]
    <3> TAKE i \in 1..(k + 1)
    <3>1. i \in 1..k \/ i = k + 1
      OBVIOUS
    <3> QED BY <2>2, <2>3, <2>4, <3>1
  <2>6. t = Append(s, e)
    <3> HIDE DEF e
    <3> QED BY <2>3, <2>4, <2>5, SeqEqual
  <2> QED BY <2>2, <2>6 DEF s, t
<1> QED BY <1>2, <1>3, <1>4, <1>5

LEMMA ThreeJoined ==
    \A x \in Seq(Characters), y \in Seq(Characters), z \in Seq(Characters) :
        (x \o y) \o z = x \o (y \o z) /\ x \o y \in Seq(Characters)
BY ConcatAssociative, ConcatProperties

LEMMA OneMoreFirst ==
    ASSUME NEW vs \in Seq(Values), NEW k \in 0..Len(vs), k < Len(vs)
    PROVE  Joined(FirstOf(vs, k + 1))
               = Joined(FirstOf(vs, k)) \o ((IF k = 0 THEN <<>> ELSE <<Comma>>) \o Written[vs[k + 1]])
<1> DEFINE s == FirstOf(vs, k)
           e == vs[k + 1]
<1>1. s \in Seq(Values) /\ e \in Values /\ FirstOf(vs, k + 1) = Append(s, e)
      /\ Behind(s) = IF k = 0 THEN <<>> ELSE <<Comma>>
  BY FirstAre DEF Behind
<1> HIDE DEF s, e
<1>2. Joined(Append(s, e)) = Joined(s) \o (Behind(s) \o Written[e])
  <2>1. Values \in SUBSET Values
    OBVIOUS
  <2> QED BY <1>1, <2>1, AllAreText, OneMoreElement
<1> QED BY <1>1, <1>2 DEF s, e

LEMMA JoinedIs ==
    ASSUME NEW us \in Seq(Values)
    PROVE  Joined(us) \in Seq(Characters)
<1>1. Values \in SUBSET Values
  OBVIOUS
<1> QED BY <1>1, AllAreText, JoinedElements

LEMMA StillBehind ==
    ASSUME NEW c \in Seq(Characters), NEW s \in Seq(Characters), NEW u \in Seq(Characters),
           \E rest \in Seq(Characters) : s = c \o rest
    PROVE  \E rest \in Seq(Characters) : s \o u = c \o rest
<1>1. PICK rest \in Seq(Characters) : s = c \o rest
  OBVIOUS
<1>2. (c \o rest) \o u = c \o (rest \o u)
  BY ConcatAssociative
<1>3. rest \o u \in Seq(Characters)
  BY ConcatProperties
<1> QED BY <1>1, <1>2, <1>3

\* What stands behind the first j elements.
LEMMA Rest ==
    ASSUME NEW vs \in Seq(Values), NEW j \in 1..Len(vs)
    PROVE  \E more \in Seq(Characters) :
               /\ Joined(vs) = Joined(FirstOf(vs, j)) \o more
               /\ j = Len(vs) => more = <<>>
               /\ j # Len(vs) => \E rest \in Seq(Characters) : more = <<Comma>> \o rest
<1>1. Len(vs) \in Nat /\ j \in 0..Len(vs)
  BY LenProperties
<1> DEFINE J(m) == Joined(FirstOf(vs, m))
           Stands(m, more) == /\ J(m) = J(j) \o more
                              /\ m = j => more = <<>>
                              /\ m # j => \E rest \in Seq(Characters) : more = <<Comma>> \o rest
           M == {i \in Nat : j + i <= Len(vs) => \E more \in Seq(Characters) : Stands(j + i, more)}
<1>2. \A m \in 0..Len(vs) : J(m) \in Seq(Characters)
  BY FirstAre, JoinedIs
<1>3. 0 \in M
  <2>1. J(j) \o <<>> = J(j) /\ <<>> \in Seq(Characters) /\ j + 0 = j
    BY <1>1, <1>2, ConcatEmptySeq, EmptySeq
  <2> HIDE DEF J
  <2> QED BY <2>1
<1>4. ASSUME NEW i \in 0..(Len(vs) - j - 1), i \in M PROVE i + 1 \in M
  <2> DEFINE m == j + i
  <2>1. m \in 0..Len(vs) /\ m < Len(vs) /\ m # 0 /\ m + 1 = j + (i + 1) /\ m + 1 # j
    BY <1>1
  <2>2. PICK more \in Seq(Characters) : Stands(m, more)
    <3>1. m <= Len(vs)
      BY <1>1, <2>1
    <3>2. m <= Len(vs) => \E more \in Seq(Characters) : Stands(m, more)
      <4> HIDE DEF Stands
      <4> QED BY <1>4
    <3> HIDE DEF Stands, m
    <3> QED BY <3>1, <3>2
  <2> HIDE DEF m
  <2> DEFINE t == Written[vs[m + 1]]
             c == <<Comma>>
  <2>3. J(m + 1) = J(m) \o (c \o t)
    BY <2>1, OneMoreFirst
  <2>4. t \in Seq(Characters) /\ c \in Seq(Characters)
    BY <2>1, FirstAre, AllAreText, CommaIsText
  <2> HIDE DEF t, c
  <2> DEFINE u == c \o t
  <2>5. u \in Seq(Characters) /\ J(m) \in Seq(Characters) /\ J(j) \in Seq(Characters)
    BY <1>1, <1>2, <2>1, <2>4, ThreeJoined
  <2> HIDE DEF u, J
  <2>6. J(m) = J(j) \o more /\ more \o u \in Seq(Characters)
    BY <2>2, <2>5, ThreeJoined
  <2>7. (J(j) \o more) \o u = J(j) \o (more \o u)
    BY <2>5, Regrouped
  <2>8. J(m + 1) = J(j) \o (more \o u)
    BY <2>3, <2>6, <2>7 DEF u
  <2>9. \E rest \in Seq(Characters) : more \o u = c \o rest
    <3>1. CASE m = j
      <4>1. more \o u = u
        BY <2>2, <2>5, <3>1, ConcatEmptySeq
      <4> QED BY <2>4, <4>1 DEF u
    <3>2. CASE m # j
      <4>1. \E rest \in Seq(Characters) : more = c \o rest
        BY <2>2, <3>2 DEF c
      <4>2. c \in Seq(Characters) /\ u \in Seq(Characters)
        BY <2>4, <2>5
      <4> HIDE DEF Stands, M, m
      <4> QED BY <4>1, <4>2, StillBehind
    <3> QED BY <3>1, <3>2
  <2>10. Stands(m + 1, more \o u)
    BY <2>1, <2>8, <2>9 DEF c
  <2>11. \E x \in Seq(Characters) : Stands(m + 1, x)
    <3> HIDE DEF Stands
    <3> QED BY <2>6, <2>10
  <2> HIDE DEF Stands
  <2>12. i + 1 \in Nat
    BY <1>1
  <2> QED BY <2>1, <2>11, <2>12
<1> HIDE DEF M
<1>5. Len(vs) - j \in Nat
  BY <1>1
<1>6. 0..(Len(vs) - j) \subseteq M
  BY <1>3, <1>4, <1>5, Induction
<1>7. Len(vs) - j \in M /\ j + (Len(vs) - j) = Len(vs)
  BY <1>1, <1>5, <1>6
<1>8. PICK more \in Seq(Characters) : Stands(Len(vs), more)
  <2> HIDE DEF Stands
  <2>1. j + (Len(vs) - j) <= Len(vs) =>
            \E more \in Seq(Characters) : Stands(j + (Len(vs) - j), more)
    BY <1>7, Zenon DEF M
  <2>2. Len(vs) <= Len(vs)
    BY <1>1
  <2> QED BY <1>7, <2>1, <2>2, Zenon
<1>9. J(Len(vs)) = Joined(vs)
  BY <1>1, FirstAre
<1> QED BY <1>8, <1>9

\* What stands behind p.
LEMMA SuffixIs ==
    ASSUME NEW S, NEW p \in Seq(S), NEW q \in Seq(S)
    PROVE  /\ p \o q \in Seq(S) /\ Len(p \o q) = Len(p) + Len(q)
           /\ SubSeq(p \o q, Len(p) + 1, Len(p \o q)) = q
<1>1. Len(p) \in Nat /\ Len(q) \in Nat
  BY LenProperties
<1>2. p \o q \in Seq(S) /\ Len(p \o q) = Len(p) + Len(q)
  BY ConcatProperties
<1>3. CASE Len(q) = 0
  <2>1. q = <<>>
    BY <1>3, EmptySeq
  <2>2. Len(p) + 1 \in Int /\ Len(p) + Len(q) \in Int /\ Len(p) + Len(q) < Len(p) + 1
    BY <1>1, <1>3
  <2>3. SubSeq(p \o q, Len(p) + 1, Len(p) + Len(q)) = <<>>
    <3> DEFINE s == p \o q
               m == Len(p) + 1
               n == Len(p) + Len(q)
    <3>1. m \in Int /\ n \in Int /\ n < m
      BY <2>2
    <3> HIDE DEF s, m, n
    <3>2. SubSeq(s, m, n) = <<>>
      BY <3>1, SubSeqEmpty
    <3> QED BY <3>2 DEF s, m, n
  <2> QED BY <1>2, <2>1, <2>3
<1>4. CASE Len(q) # 0
  <2> DEFINE m == Len(p) + 1
             n == Len(p) + Len(q)
  <2>1. /\ m \in (Len(p) + 1)..(Len(p) + Len(q)) /\ n \in (Len(p) + 1)..(Len(p) + Len(q))
        /\ m - Len(p) = 1 /\ n - Len(p) = Len(q)
    BY <1>1, <1>4
  <2> HIDE DEF m, n
  <2>2. SubSeq(p \o q, m, n) = SubSeq(q, m - Len(p), n - Len(p))
    BY <2>1, SubSeqOfConcat2
  <2>3. SubSeq(q, 1, Len(q)) = q
    BY SubSeqFull
  <2> QED BY <1>2, <2>1, <2>2, <2>3 DEF m, n
<1> QED BY <1>1, <1>2, <1>3, <1>4

LEMMA EndedStays ==
    ASSUME NEW read, NEW u \in Seq(Characters)
    PROVE  Run("scan", Ended(read), u) = Ended(read)
<1> DEFINE after == [n \in 0..Len(u) |-> Ended(read)]
<1>1. Len(u) \in Nat
  BY LenProperties
<1>2. <<>> \in Brackets
  BY EmptySeq DEF Brackets
<1>3. \A ch : StepOf("scan", Ended(read), ch) = Ended(read)
  BY <1>2, ScanSteps
<1>4. \A n \in 0..Len(u) : after[n] = Ended(read)
  OBVIOUS
<1> HIDE DEF after
<1>5. Follows("scan", Ended(read), u, after)
  <2>1. after[0] = Ended(read)
    BY <1>1, <1>4
  <2>2. \A n \in 0..(Len(u) - 1) : after[n + 1] = StepOf("scan", after[n], u[n + 1])
    <3> TAKE n \in 0..(Len(u) - 1)
    <3>1. n \in 0..Len(u) /\ n + 1 \in 0..Len(u)
      BY <1>1
    <3> QED BY <1>3, <1>4, <3>1
  <2> QED BY <2>1, <2>2 DEF Follows
<1>6. Run("scan", Ended(read), u) = after[Len(u)]
  BY <1>1, <1>5, RunIs
<1>7. Len(u) \in 0..Len(u)
  BY <1>1
<1> QED BY <1>4, <1>6, <1>7

\* The text t of an element and what stands behind it.
LEMMA ElementIsScanned ==
    ASSUME NEW t \in Seq(Characters), ScannedOn(t), NEW more \in Seq(Characters)
    PROVE  /\ more = <<>> => Run("scan", Outside(<<>>, <<>>), t \o more) = Outside(<<>>, t)
           /\ (\E rest \in Seq(Characters) : more = <<Comma>> \o rest) =>
                  Run("scan", Outside(<<>>, <<>>), t \o more) = Ended(Append(t, Comma))
<1>1. <<>> \in Brackets
  BY EmptySeq DEF Brackets
<1>2. <<>> \in Seq(Characters) /\ <<>> \o t = t /\ t \o <<>> = t
  BY CommaIsText, ConcatEmptySeq
<1>3. PICK none \in Seq(Characters) : none = <<>>
  BY <1>2
<1>4. Run("scan", Outside(none, none), t) = Outside(none, none \o t)
  BY <1>1, <1>3 DEF ScannedOn
<1>5. none \o t = t
  BY <1>2, <1>3
<1>6. ASSUME more = <<>>
      PROVE  Run("scan", Outside(<<>>, <<>>), t \o more) = Outside(<<>>, t)
  BY <1>2, <1>3, <1>4, <1>5, <1>6
<1>7. ASSUME NEW rest \in Seq(Characters), more = <<Comma>> \o rest
      PROVE  Run("scan", Outside(<<>>, <<>>), t \o more) = Ended(Append(t, Comma))
  <2>1. PICK c \in Seq(Characters) : c = <<Comma>>
    BY CommaIsText
  <2>2. Run("scan", Outside(none, none), t \o more)
            = Run("scan", Run("scan", Outside(none, none), t), more)
    BY RunOverBoth
  <2>3. Run("scan", Outside(none, none), t) = Outside(none, t)
    BY <1>4, <1>5
  <2>4. Run("scan", Outside(none, t), c \o rest)
            = Run("scan", Run("scan", Outside(none, t), c), rest)
    BY RunOverBoth
  <2>5. Run("scan", Outside(none, t), c) = StepOf("scan", Outside(none, t), Comma)
    BY <2>1, RunOverOne
  <2>6. StepOf("scan", Outside(none, t), Comma) = Ended(Append(t, Comma))
    BY <1>1, <1>3, ScanSteps
  <2>7. Run("scan", Ended(Append(t, Comma)), rest) = Ended(Append(t, Comma))
    BY EndedStays
  <2>8. more = c \o rest
    BY <1>7, <2>1
  <2>9. Run("scan", Outside(none, none), t \o more) = Ended(Append(t, Comma))
    BY <2>2, <2>3, <2>4, <2>5, <2>6, <2>7, <2>8, Zenon
  <2> QED BY <1>3, <2>9
<1> QED BY <1>6, <1>7

LEMMA FrontOfAppend ==
    ASSUME NEW S, NEW s \in Seq(S), NEW e \in S
    PROVE  Front(Append(s, e)) = s /\ Last(Append(s, e)) = e /\ Len(Append(s, e)) = Len(s) + 1
<1>1. PICK t \in Seq(S) : t = Append(s, e)
  BY AppendProperties
<1>2. Len(s) \in Nat /\ Len(t) = Len(s) + 1 /\ t[Len(s) + 1] = e /\ \A i \in 1..Len(s) : t[i] = s[i]
  BY <1>1, AppendProperties, LenProperties
<1>3. SubSeq(t, 1, Len(s)) \in Seq(S) /\ Len(SubSeq(t, 1, Len(s))) = Len(s)
      /\ \A i \in 1..Len(s) : SubSeq(t, 1, Len(s))[i] = t[i]
  BY <1>1, <1>2
<1>4. SubSeq(t, 1, Len(s)) = s
  BY <1>2, <1>3, SeqEqual
<1>5. Len(t) - 1 = Len(s)
  BY <1>2
<1>6. Front(t) = s
  BY <1>4, <1>5 DEF Front
<1> QED BY <1>1, <1>2, <1>6 DEF Last

\* The text of an element stands between its offset and the next one's.
Stands(vs, k, p, t, more) ==
    /\ p \in Seq(Characters) /\ Len(p) = OffsetOf(vs, k)
    /\ Joined(vs) = p \o (t \o more)
    /\ \/ more = <<>> /\ OffsetOf(vs, k + 1) = OffsetOf(vs, k) + Len(t)
       \/ /\ \E rest \in Seq(Characters) : more = <<Comma>> \o rest
          /\ OffsetOf(vs, k + 1) = OffsetOf(vs, k) + Len(t) + 1

LEMMA ElementStands ==
    ASSUME NEW vs \in Seq(Values), NEW k \in 0..Len(vs), k < Len(vs)
    PROVE  \E p, more \in Seq(Characters) : Stands(vs, k, p, Written[vs[k + 1]], more)
<1>1. Len(vs) \in Nat /\ k + 1 \in 1..Len(vs) /\ k + 1 \in 0..Len(vs) /\ 0 < k + 1
  BY LenProperties
<1> DEFINE x == Joined(FirstOf(vs, k))
           b == IF k = 0 THEN <<>> ELSE <<Comma>>
           t == Written[vs[k + 1]]
           y == Joined(FirstOf(vs, k + 1))
           p == x \o b
<1>2. x \in Seq(Characters) /\ t \in Seq(Characters) /\ y \in Seq(Characters)
  <2>1. FirstOf(vs, k) \in Seq(Values) /\ FirstOf(vs, k + 1) \in Seq(Values) /\ vs[k + 1] \in Values
    BY <1>1, FirstAre
  <2> QED BY <2>1, JoinedIs, AllAreText
<1>3. y = x \o (b \o t)
  BY OneMoreFirst
<1>4. b \in Seq(Characters) /\ Len(b) = IF k = 0 THEN 0 ELSE 1
  <2>1. CASE k = 0
    BY <2>1, CommaIsText, EmptySeq
  <2>2. CASE k # 0
    <3>1. PICK c \in Seq(Characters) : c = <<Comma>>
      BY CommaIsText
    <3>2. Len(c) = 1
      BY <3>1
    <3> QED BY <2>2, <3>1, <3>2
  <2> QED BY <2>1, <2>2
<1>5. PICK more \in Seq(Characters) :
          /\ Joined(vs) = y \o more
          /\ k + 1 = Len(vs) => more = <<>>
          /\ k + 1 # Len(vs) => \E rest \in Seq(Characters) : more = <<Comma>> \o rest
  BY <1>1, Rest
<1>6. OffsetOf(vs, k) = Len(x) + (IF k = 0 THEN 0 ELSE 1)
  BY <1>1 DEF OffsetOf
<1>7. OffsetOf(vs, k + 1) = Len(y) + (IF k + 1 = Len(vs) THEN 0 ELSE 1)
  BY <1>1 DEF OffsetOf
<1> HIDE DEF x, b, t, y, p
<1>8. p \in Seq(Characters) /\ Len(p) = Len(x) + Len(b)
  BY <1>2, <1>4, ConcatProperties DEF p
<1>9. y = p \o t
  <2>1. x \in Seq(Characters) /\ b \in Seq(Characters) /\ t \in Seq(Characters)
    BY <1>2, <1>4
  <2>2. (x \o b) \o t = x \o (b \o t)
    BY <2>1, Regrouped
  <2> QED BY <1>3, <2>2 DEF p
<1>10. Len(y) = Len(p) + Len(t)
  BY <1>2, <1>8, <1>9, ConcatProperties
<1>11. (p \o t) \o more = p \o (t \o more)
  BY <1>2, <1>8, Regrouped
<1>12. Joined(vs) = p \o (t \o more)
  BY <1>5, <1>9, <1>11
<1>13. Len(p) = OffsetOf(vs, k)
  BY <1>4, <1>6, <1>8
<1>14. Len(x) \in Nat /\ Len(t) \in Nat /\ Len(p) \in Nat
  BY <1>2, <1>8, LenProperties
<1>15. \/ more = <<>> /\ OffsetOf(vs, k + 1) = OffsetOf(vs, k) + Len(t)
       \/ /\ \E rest \in Seq(Characters) : more = <<Comma>> \o rest
          /\ OffsetOf(vs, k + 1) = OffsetOf(vs, k) + Len(t) + 1
  <2>1. CASE k + 1 = Len(vs)
    <3>1. OffsetOf(vs, k + 1) = OffsetOf(vs, k) + Len(t)
      BY <1>7, <1>10, <1>13, <1>14, <2>1
    <3> QED BY <1>5, <2>1, <3>1
  <2>2. CASE k + 1 # Len(vs)
    <3>1. OffsetOf(vs, k + 1) = OffsetOf(vs, k) + Len(t) + 1
      BY <1>7, <1>10, <1>13, <1>14, <2>2
    <3> QED BY <1>5, <2>2, <3>1
  <2> QED BY <2>1, <2>2
<1>16. Stands(vs, k, p, t, more)
  BY <1>8, <1>12, <1>13, <1>15 DEF Stands
<1> QED BY <1>8, <1>16 DEF t

LEMMA OffsetsAre ==
    ASSUME NEW vs \in Seq(Values)
    PROVE  /\ OffsetOf(vs, 0) = 0 /\ OffsetOf(vs, Len(vs)) = Len(Joined(vs))
           /\ \A k \in 0..Len(vs) : OffsetOf(vs, k) \in Nat
<1>1. Len(vs) \in Nat /\ 0 \in 0..Len(vs) /\ Len(vs) \in 0..Len(vs)
  BY LenProperties
<1>2. FirstOf(vs, 0) = <<>> /\ FirstOf(vs, Len(vs)) = vs
  BY <1>1, FirstAre
<1>3. OffsetOf(vs, 0) = 0
  BY <1>2, NoElements, EmptySeq DEF OffsetOf
<1>4. Len(Joined(vs)) \in Nat
  BY JoinedIs, LenProperties
<1>5. OffsetOf(vs, Len(vs)) = Len(Joined(vs))
  BY <1>1, <1>2, <1>4 DEF OffsetOf
<1>6. ASSUME NEW k \in 0..Len(vs) PROVE OffsetOf(vs, k) \in Nat
  <2>1. Len(Joined(FirstOf(vs, k))) \in Nat
    BY FirstAre, JoinedIs, LenProperties
  <2> QED BY <2>1 DEF OffsetOf
<1> QED BY <1>3, <1>5, <1>6

\* ParseValueStr takes the elements one after the other.
LEMMA ElementIsParsed ==
    ASSUME NEW vs \in Seq(Values), NEW k \in 0..Len(vs), k < Len(vs), QuoteFree(vs[k + 1])
    PROVE  /\ OffsetOf(vs, k) < Len(Joined(vs))
           /\ ParseValueStr(Joined(vs), OffsetOf(vs, k))
                  = [valueStr |-> Written[vs[k + 1]], offset |-> OffsetOf(vs, k + 1)]
<1> DEFINE t == Written[vs[k + 1]]
           o == OffsetOf(vs, k)
           s == Joined(vs)
           begin == Outside(<<>>, <<>>)
           r == Scanned(s, o)
<1>1. vs[k + 1] \in Values
  BY FirstAre
<1>2. t \in Seq(Characters) /\ ScannedOn(t) /\ t # <<>> /\ Last(t) # Comma
  BY <1>1, WrittenIsScanned, WrittenIsText DEF IsWritten
<1>3. PICK p, more \in Seq(Characters) : Stands(vs, k, p, t, more)
  BY ElementStands
<1>4. o \in Nat
  BY OffsetsAre
<1>5. Len(t) \in Nat \ {0} /\ Len(more) \in Nat
  BY <1>2, EmptySeq, LenProperties
<1> HIDE DEF t, o
<1> DEFINE q == t \o more
<1>6. q \in Seq(Characters) /\ Len(q) = Len(t) + Len(more)
  BY <1>2, ConcatProperties
<1>7. p \in Seq(Characters) /\ Len(p) = o /\ s = p \o q
  BY <1>3 DEF Stands, o
<1> HIDE DEF q, s
<1>8. Len(s) = o + Len(q) /\ SubSeq(s, o + 1, Len(s)) = q /\ s \in Seq(Characters)
  BY <1>6, <1>7, SuffixIs
<1>9. o < Len(s)
  BY <1>4, <1>5, <1>6, <1>8
<1>10. r = Run("scan", begin, q)
  <2>1. Len(q) \in Nat
    BY <1>6, LenProperties
  <2>2. Fold(ScanStep, begin, q) = Run("scan", begin, q)
    <3> HIDE DEF begin
    <3> QED BY <2>1, ScanFold
  <2>3. begin = [expectedDelimiters |-> <<>>, isInsideStr |-> FALSE, values |-> <<>>, ended |-> FALSE]
    BY DEF Outside
  <2> HIDE DEF begin
  <2> QED BY <1>8, <2>2, <2>3, Zenon DEF Scanned
<1> HIDE DEF r, begin
<1>11. CASE more = <<>> /\ OffsetOf(vs, k + 1) = o + Len(t)
  <2>1. r = Outside(<<>>, t)
    BY <1>2, <1>10, <1>11, ElementIsScanned DEF q, begin
  <2>2. r.expectedDelimiters = <<>> /\ r.values = t
    BY <2>1 DEF Outside
  <2>3. WithoutComma(t) = t
    BY <1>2 DEF WithoutComma
  <2>4. ParseValueStr(s, o) = [valueStr |-> t, offset |-> o + Len(t)]
    BY <2>2, <2>3 DEF ParseValueStr, r
  <2> QED BY <1>9, <1>11, <2>4 DEF s, t, o
<1>12. CASE /\ \E rest \in Seq(Characters) : more = <<Comma>> \o rest
            /\ OffsetOf(vs, k + 1) = o + Len(t) + 1
  <2>1. r = Ended(Append(t, Comma))
    BY <1>2, <1>10, <1>12, ElementIsScanned DEF q, begin
  <2>2. r.expectedDelimiters = <<>> /\ r.values = Append(t, Comma)
    BY <2>1 DEF Ended
  <2>3. Front(Append(t, Comma)) = t /\ Last(Append(t, Comma)) = Comma /\ Len(Append(t, Comma)) = Len(t) + 1
    BY <1>2, CommaIsText, FrontOfAppend
  <2>4. WithoutComma(Append(t, Comma)) = t
    BY <2>3 DEF WithoutComma
  <2>5. ParseValueStr(s, o) = [valueStr |-> t, offset |-> o + (Len(t) + 1)]
    BY <2>2, <2>3, <2>4 DEF ParseValueStr, r
  <2>6. o + (Len(t) + 1) = o + Len(t) + 1
    BY <1>4, <1>5
  <2> QED BY <1>9, <1>12, <2>5, <2>6 DEF s, t, o
<1> QED BY <1>3, <1>11, <1>12 DEF Stands, o

-----------------------------------------------------------------------------
(* A call of ParseArray. *)

\* With k elements taken and the offset behind m of them.
CallAt(v, k, m) ==
    [str |-> Joined(v.arrayValue), offset |-> OffsetOf(v.arrayValue, m),
     newArrayValue |-> FirstOf(v.arrayValue, k)]

\* Between two turns; and while another call reads w.
Ready(v, call) == \E k \in 0..Len(v.arrayValue) : call = CallAt(v, k, k)
Waiting(v, call, w) ==
    \E k \in 0..(Len(v.arrayValue) - 1) : call = CallAt(v, k, k + 1) /\ w = v.arrayValue[k + 1]

IsFreeArray(v) == v \in Values /\ v.type = "Array" /\ QuoteFree(v)

Calls == [str : Seq(Characters), offset : Nat, newArrayValue : Seq(Values)]

LEMMA CallAtIs ==
    ASSUME NEW v, IsFreeArray(v), NEW k \in 0..Len(v.arrayValue), NEW m \in 0..Len(v.arrayValue)
    PROVE  CallAt(v, k, m) \in Calls
<1>1. v.arrayValue \in Seq(Values)
  BY ValueIs DEF IsFreeArray, IsArrayOfLess
<1>2. Joined(v.arrayValue) \in Seq(Characters) /\ OffsetOf(v.arrayValue, m) \in Nat
      /\ FirstOf(v.arrayValue, k) \in Seq(Values)
  BY <1>1, JoinedIs, OffsetsAre, FirstAre
<1> QED BY <1>2 DEF CallAt, Calls

LEMMA CallsAre ==
    ASSUME NEW v, IsFreeArray(v), NEW call
    PROVE  /\ Ready(v, call) => call \in Calls
           /\ \A w : Waiting(v, call, w) => call \in Calls
<1>1. v.arrayValue \in Seq(Values)
  BY ValueIs DEF IsFreeArray, IsArrayOfLess
<1>2. Len(v.arrayValue) \in Nat
  BY <1>1, LenProperties
<1>3. \A k \in 0..(Len(v.arrayValue) - 1) : k \in 0..Len(v.arrayValue) /\ k + 1 \in 0..Len(v.arrayValue)
  BY <1>2
<1> QED BY <1>3, CallAtIs DEF Ready, Waiting

LEMMA BracketsAre ==
    ASSUME NEW s \in Seq(Characters), NEW t, t = Between("[", s, "]")
    PROVE  IsArray(t) /\ Inner(t) = s
<1>1. "[" \in Characters /\ "]" \in Characters
  BY JsonAssumption DEF Symbols
<1>2. PICK a \in Characters, b \in Characters : a = "[" /\ b = "]"
  BY <1>1
<1>3. PICK u : u = Between(a, s, b)
  OBVIOUS
<1>4. u # <<>> /\ Inner(u) = s
  BY <1>3, BetweenIs
<1>5. u[1] = a
  BY <1>3, BetweenIs
<1>6. Last(u) = b
  BY <1>3, BetweenIs
<1>7. u = t
  BY <1>2, <1>3
<1> QED BY <1>2, <1>4, <1>5, <1>6, <1>7 DEF IsArray

LEMMA CallBegins ==
    ASSUME NEW v, IsFreeArray(v)
    PROVE  IsArray(Written[v]) /\ Ready(v, Call(Written[v]))
<1>1. v.arrayValue \in Seq(Values)
  BY ValueIs DEF IsFreeArray, IsArrayOfLess
<1> DEFINE s == Joined(v.arrayValue)
           t == Written[v]
<1>2. t = Between("[", s, "]")
  BY WrittenIsText DEF IsWritten, IsFreeArray
<1>3. s \in Seq(Characters)
  BY <1>1, JoinedIs
<1> HIDE DEF s, t
<1>4. IsArray(t) /\ Inner(t) = s
  BY <1>2, <1>3, BracketsAre
<1>5. 0 \in 0..Len(v.arrayValue)
  BY <1>1, LenProperties
<1>6. OffsetOf(v.arrayValue, 0) = 0 /\ FirstOf(v.arrayValue, 0) = <<>>
  BY <1>1, <1>5, OffsetsAre, FirstAre
<1>7. Call(t) = CallAt(v, 0, 0)
  BY <1>4, <1>6 DEF Call, CallAt, s
<1> QED BY <1>4, <1>5, <1>7 DEF Ready, t

LEMMA NoArrayIsTaken ==
    ASSUME NEW v \in Values, v.type # "Array"
    PROVE  ~IsArray(Written[v]) /\ ParseScalar(Written[v]) = v
BY WrittenIsText DEF IsWritten, IsArray

Passed(call, next) == [call EXCEPT !.offset = next.offset]
Taken(call, w) == [call EXCEPT !.newArrayValue = Append(@, w)]

LEMMA TakenIs ==
    ASSUME NEW v, NEW k, NEW m, NEW w,
           FirstOf(v.arrayValue, k + 1) = Append(FirstOf(v.arrayValue, k), w)
    PROVE  Taken(CallAt(v, k, m), w) = CallAt(v, k + 1, m)
BY DEF Taken, CallAt

\* A turn.
LEMMA CallTurns ==
    ASSUME NEW v, IsFreeArray(v), NEW call, Ready(v, call), call.offset < Len(call.str),
           NEW next, next = ParseValueStr(call.str, call.offset)
    PROVE  \E w \in Values :
               /\ QuoteFree(w) /\ next.valueStr = Written[w]
               /\ Waiting(v, Passed(call, next), w)
               /\ Ready(v, Taken(Passed(call, next), w))
<1> DEFINE vs == v.arrayValue
<1>1. vs \in Seq(Values)
  BY ValueIs DEF IsFreeArray, IsArrayOfLess
<1>2. PICK k \in 0..Len(vs) : call = CallAt(v, k, k)
  BY DEF Ready
<1>3. Len(vs) \in Nat
  BY <1>1, LenProperties
<1>4. call.str = Joined(vs) /\ call.offset = OffsetOf(vs, k) /\ call.newArrayValue = FirstOf(vs, k)
  BY <1>2 DEF CallAt
<1>5. k < Len(vs)
  <2>1. OffsetOf(vs, Len(vs)) = Len(Joined(vs)) /\ Len(Joined(vs)) \in Nat
    BY <1>1, OffsetsAre, JoinedIs, LenProperties
  <2>2. k # Len(vs)
    BY <1>4, <2>1
  <2> QED BY <1>3, <2>2
<1> DEFINE w == vs[k + 1]
<1>6. w \in Values /\ QuoteFree(w)
  <2>1. k + 1 \in DOMAIN vs
    BY <1>1, <1>3, <1>5, LenProperties
  <2>2. QuoteFree(vs[k + 1])
    BY <2>1, QuoteFreeIs DEF IsFreeArray
  <2> QED BY <1>1, <1>5, <2>2, FirstAre
<1>7. next.valueStr = Written[w] /\ next.offset = OffsetOf(vs, k + 1)
  BY <1>1, <1>4, <1>5, <1>6, ElementIsParsed
<1>8. FirstOf(vs, k + 1) = Append(FirstOf(vs, k), w)
  BY <1>1, <1>5, FirstAre
<1> HIDE DEF w
<1>9. Passed(call, next) = CallAt(v, k, k + 1)
  <2> HIDE DEF vs
  <2>1. Passed(CallAt(v, k, k), next) = [CallAt(v, k, k) EXCEPT !.offset = OffsetOf(vs, k + 1)]
    BY <1>7 DEF Passed
  <2>2. [CallAt(v, k, k) EXCEPT !.offset = OffsetOf(vs, k + 1)] = CallAt(v, k, k + 1)
    BY DEF CallAt, vs
  <2> QED BY <1>2, <2>1, <2>2, Zenon
<1>10. Taken(CallAt(v, k, k + 1), w) = CallAt(v, k + 1, k + 1)
  BY <1>8, TakenIs, Zenon DEF vs
<1>11. k \in 0..(Len(vs) - 1) /\ k + 1 \in 0..Len(vs)
  BY <1>3, <1>5
<1>12. Waiting(v, Passed(call, next), w)
  BY <1>9, <1>11 DEF Waiting, w
<1>13. Ready(v, Taken(Passed(call, next), w))
  BY <1>9, <1>10, <1>11 DEF Ready
<1> QED BY <1>6, <1>7, <1>12, <1>13

\* The end.
LEMMA CallEnds ==
    ASSUME NEW v, IsFreeArray(v), NEW call, Ready(v, call), call.offset >= Len(call.str)
    PROVE  Array(call.newArrayValue) = v
<1> DEFINE vs == v.arrayValue
<1>1. vs \in Seq(Values) /\ v = Array(vs)
  BY ValueIs DEF IsFreeArray, IsArrayOfLess
<1>2. PICK k \in 0..Len(vs) : call = CallAt(v, k, k)
  BY DEF Ready
<1>3. Len(vs) \in Nat
  BY <1>1, LenProperties
<1>4. call.str = Joined(vs) /\ call.offset = OffsetOf(vs, k) /\ call.newArrayValue = FirstOf(vs, k)
  BY <1>2 DEF CallAt
<1>5. k = Len(vs)
  <2> SUFFICES ASSUME k < Len(vs) PROVE FALSE
    BY <1>3
  <2>1. k + 1 \in DOMAIN vs
    BY <1>1, <1>3, LenProperties
  <2>2. QuoteFree(vs[k + 1])
    BY <2>1, QuoteFreeIs DEF IsFreeArray
  <2>3. OffsetOf(vs, k) < Len(Joined(vs))
    BY <1>1, <2>2, ElementIsParsed
  <2>4. OffsetOf(vs, k) \in Nat /\ Len(Joined(vs)) \in Nat
    BY <1>1, OffsetsAre, JoinedIs, LenProperties
  <2> QED BY <1>4, <2>3, <2>4
<1> QED BY <1>1, <1>4, <1>5, FirstAre

\* The result of another call.
LEMMA CallTakes ==
    ASSUME NEW v, IsFreeArray(v), NEW call, NEW w, Waiting(v, call, w)
    PROVE  Ready(v, Taken(call, w))
<1> DEFINE vs == v.arrayValue
<1>1. vs \in Seq(Values)
  BY ValueIs DEF IsFreeArray, IsArrayOfLess
<1>2. PICK k \in 0..(Len(vs) - 1) : call = CallAt(v, k, k + 1) /\ w = vs[k + 1]
  BY DEF Waiting
<1>3. Len(vs) \in Nat
  BY <1>1, LenProperties
<1>4. k \in 0..Len(vs) /\ k < Len(vs) /\ k + 1 \in 0..Len(vs)
  BY <1>3
<1>5. FirstOf(vs, k + 1) = Append(FirstOf(vs, k), w)
  BY <1>1, <1>2, <1>4, FirstAre
<1>6. Taken(call, w) = CallAt(v, k + 1, k + 1)
  <2>1. Taken(CallAt(v, k, k + 1), w) = CallAt(v, k + 1, k + 1)
    BY <1>5, TakenIs, Zenon DEF vs
  <2> QED BY <1>2, <2>1, Zenon
<1> QED BY <1>4, <1>6 DEF Ready

-----------------------------------------------------------------------------
(* The calls of ParseArray, one in the other. *)

LEMMA FrontIs ==
    ASSUME NEW S, NEW s \in Seq(S), s # <<>>
    PROVE  /\ Len(s) \in Nat \ {0} /\ Front(s) \in Seq(S) /\ Len(Front(s)) = Len(s) - 1
           /\ \A i \in 1..(Len(s) - 1) : Front(s)[i] = s[i]
<1>1. Len(s) \in Nat \ {0}
  BY EmptySeq
<1> DEFINE n == Len(s) - 1
<1>2. n \in Nat /\ \A i \in 1..n : s[i] \in S
  <2>1. \A i \in 1..n : i \in 1..Len(s)
    BY <1>1
  <2> QED BY <1>1, <2>1, ElementOfSeq
<1> HIDE DEF n
<1>3. /\ SubSeq(s, 1, n) \in Seq(S) /\ Len(SubSeq(s, 1, n)) = (IF 1 <= n THEN n - 1 + 1 ELSE 0)
      /\ \A i \in 1..(n - 1 + 1) : SubSeq(s, 1, n)[i] = s[1 + i - 1]
  BY <1>2, SubSeqProperties
<1>4. Len(SubSeq(s, 1, n)) = n
  BY <1>2, <1>3
<1>5. \A i \in 1..n : SubSeq(s, 1, n)[i] = s[i]
  <2> TAKE i \in 1..n
  <2>1. i \in 1..(n - 1 + 1) /\ 1 + i - 1 = i
    BY <1>2
  <2> QED BY <1>3, <2>1
<1> QED BY <1>1, <1>3, <1>4, <1>5 DEF Front, n

LEMMA OnTopOfFront ==
    ASSUME NEW S, NEW s \in Seq(S), s # <<>>, NEW q \in Seq(S)
    PROVE  /\ Front(s) \o q \in Seq(S) /\ Len(Front(s) \o q) = Len(s) - 1 + Len(q)
           /\ \A i \in 1..(Len(s) - 1) : (Front(s) \o q)[i] = s[i]
           /\ \A i \in 1..Len(q) : (Front(s) \o q)[Len(s) - 1 + i] = q[i]
<1> DEFINE f == Front(s)
<1>1. Len(s) \in Nat \ {0} /\ f \in Seq(S) /\ Len(f) = Len(s) - 1
      /\ \A i \in 1..(Len(s) - 1) : f[i] = s[i]
  BY FrontIs
<1>2. Len(q) \in Nat /\ Len(f) \in Nat
  BY <1>1, LenProperties
<1> HIDE DEF f
<1>3. /\ f \o q \in Seq(S) /\ Len(f \o q) = Len(f) + Len(q)
      /\ \A i \in 1..(Len(f) + Len(q)) : (f \o q)[i] = IF i <= Len(f) THEN f[i] ELSE q[i - Len(f)]
  BY <1>1, ConcatProperties
<1>4. \A i \in 1..(Len(s) - 1) : (f \o q)[i] = s[i]
  <2> TAKE i \in 1..(Len(s) - 1)
  <2>1. i \in 1..(Len(f) + Len(q)) /\ i <= Len(f)
    BY <1>1, <1>2
  <2> QED BY <1>1, <1>3, <2>1
<1>5. \A i \in 1..Len(q) : (f \o q)[Len(s) - 1 + i] = q[i]
  <2> TAKE i \in 1..Len(q)
  <2> DEFINE m == Len(s) - 1 + i
  <2>1. m \in 1..(Len(f) + Len(q)) /\ ~(m <= Len(f)) /\ m - Len(f) = i
    BY <1>1, <1>2
  <2> HIDE DEF m
  <2>2. (f \o q)[m] = q[i]
    BY <1>3, <2>1
  <2> QED BY <2>2 DEF m
<1> QED BY <1>1, <1>3, <1>4, <1>5 DEF f

\* Each reads an element of the one before it; the innermost is between two turns.
IsPath(path, cs) ==
    /\ path \in Seq(Values) /\ path # <<>> /\ cs \in Seq(Calls) /\ Len(cs) = Len(path)
    /\ \A i \in 1..Len(path) : IsFreeArray(path[i])
    /\ \A i \in 1..(Len(path) - 1) : Waiting(path[i], cs[i], path[i + 1])
    /\ Ready(path[Len(path)], cs[Len(path)])

LEMMA PathTurns ==
    ASSUME NEW path, NEW cs, IsPath(path, cs), NEW d \in Seq(Calls), Len(d) = Len(cs),
           \A i \in 1..(Len(cs) - 1) : d[i] = cs[i], Ready(path[Len(path)], d[Len(path)])
    PROVE  IsPath(path, d)
BY DEF IsPath

LEMMA PathGrows ==
    ASSUME NEW path, NEW cs, IsPath(path, cs), NEW d \in Seq(Calls), Len(d) = Len(cs) + 1,
           \A i \in 1..(Len(cs) - 1) : d[i] = cs[i],
           NEW w, IsFreeArray(w), Waiting(path[Len(path)], d[Len(path)], w), Ready(w, d[Len(path) + 1])
    PROVE  IsPath(Append(path, w), d) /\ Append(path, w)[1] = path[1]
<1> DEFINE more == Append(path, w)
           n == Len(path)
<1>1. path \in Seq(Values) /\ w \in Values /\ n \in Nat \ {0} /\ Len(cs) = n
  BY EmptySeq DEF IsPath, IsFreeArray
<1>2. more \in Seq(Values) /\ more # <<>> /\ Len(more) = n + 1 /\ more[n + 1] = w
      /\ \A i \in 1..n : more[i] = path[i]
  BY <1>1, AppendProperties
<1> HIDE DEF more, n
<1>3. \A i \in 1..(n + 1) : IsFreeArray(more[i])
  <2> TAKE i \in 1..(n + 1)
  <2>1. i \in 1..n \/ i = n + 1
    BY <1>1
  <2> QED BY <1>2, <2>1 DEF IsPath, n
<1>4. \A i \in 1..n : Waiting(more[i], d[i], more[i + 1])
  <2> TAKE i \in 1..n
  <2>1. CASE i = n
    <3>1. n \in 1..n
      BY <1>1
    <3> QED BY <1>2, <2>1, <3>1 DEF n
  <2>2. CASE i # n
    <3>1. i \in 1..(n - 1) /\ i + 1 \in 1..n
      BY <1>1, <2>2
    <3>2. Waiting(path[i], cs[i], path[i + 1])
      BY <3>1 DEF IsPath, n
    <3>3. d[i] = cs[i] /\ more[i] = path[i] /\ more[i + 1] = path[i + 1]
      BY <1>1, <1>2, <3>1
    <3> QED BY <3>2, <3>3
  <2> QED BY <2>1, <2>2
<1>5. Ready(more[n + 1], d[n + 1])
  BY <1>2 DEF n
<1>6. Len(more) - 1 = n /\ 1 \in 1..n /\ Len(d) = Len(more)
  BY <1>1, <1>2
<1>7. IsPath(more, d)
  <2>1. \A i \in 1..Len(more) : IsFreeArray(more[i])
    BY <1>2, <1>3
  <2>2. \A i \in 1..(Len(more) - 1) : Waiting(more[i], d[i], more[i + 1])
    BY <1>4, <1>6
  <2>3. Ready(more[Len(more)], d[Len(more)])
    BY <1>2, <1>5
  <2> QED BY <1>2, <1>6, <2>1, <2>2, <2>3 DEF IsPath
<1> QED BY <1>2, <1>6, <1>7 DEF more

LEMMA PathShrinks ==
    ASSUME NEW path, NEW cs, IsPath(path, cs), Len(path) # 1, NEW d \in Seq(Calls),
           Len(d) = Len(cs) - 1, \A i \in 1..(Len(d) - 1) : d[i] = cs[i],
           Ready(path[Len(d)], d[Len(d)])
    PROVE  IsPath(Front(path), d) /\ Front(path)[1] = path[1]
<1> DEFINE less == Front(path)
           n == Len(path)
<1>1. path \in Seq(Values) /\ path # <<>> /\ Len(cs) = n
  BY DEF IsPath
<1>2. n \in Nat \ {0} /\ less \in Seq(Values) /\ Len(less) = n - 1
      /\ \A i \in 1..(n - 1) : less[i] = path[i]
  BY <1>1, FrontIs
<1> HIDE DEF less, n
<1>3. n \in Nat \ {0, 1} /\ Len(d) = n - 1
  BY <1>1, <1>2 DEF n
<1>4. less # <<>>
  BY <1>2, <1>3, EmptySeq
<1>5. \A i \in 1..(n - 1) : IsFreeArray(less[i])
  <2> TAKE i \in 1..(n - 1)
  <2>1. i \in 1..n
    BY <1>3
  <2> QED BY <1>2, <2>1 DEF IsPath, n
<1>6. \A i \in 1..(n - 1 - 1) : Waiting(less[i], d[i], less[i + 1])
  <2> TAKE i \in 1..(n - 1 - 1)
  <2>1. i \in 1..(n - 1) /\ i + 1 \in 1..(n - 1)
    BY <1>3
  <2>2. Waiting(path[i], cs[i], path[i + 1])
    BY <2>1 DEF IsPath, n
  <2>3. d[i] = cs[i]
    BY <1>3
  <2> QED BY <1>2, <2>1, <2>2, <2>3
<1>7. n - 1 \in 1..(n - 1) /\ 1 \in 1..(n - 1)
  BY <1>3
<1>8. Ready(less[n - 1], d[n - 1])
  BY <1>2, <1>3, <1>7
<1>9. IsPath(less, d)
  BY <1>2, <1>3, <1>4, <1>5, <1>6, <1>8 DEF IsPath
<1> QED BY <1>2, <1>7, <1>9 DEF less

\* The innermost call goes for another; and makes another.
Replaced(cs, a) == Front(cs) \o <<a>>
Covered(cs, a, b) == Front(cs) \o <<a, b>>

LEMMA TopReplaced ==
    ASSUME NEW S, NEW s \in Seq(S), s # <<>>, NEW a \in S
    PROVE  /\ Replaced(s, a) \in Seq(S) /\ Len(Replaced(s, a)) = Len(s) /\ Replaced(s, a)[Len(s)] = a
           /\ \A i \in 1..(Len(s) - 1) : Replaced(s, a)[i] = s[i]
<1>1. <<a>> \in Seq(S)
  OBVIOUS
<1>2. PICK q \in Seq(S) : q = <<a>>
  BY <1>1
<1>3. Len(q) = 1 /\ q[1] = a
  BY <1>2
<1> DEFINE e == Front(s) \o q
<1>4. e \in Seq(S) /\ Len(e) = Len(s) - 1 + Len(q)
  BY OnTopOfFront
<1>5. \A i \in 1..(Len(s) - 1) : e[i] = s[i]
  BY OnTopOfFront
<1>6. \A i \in 1..Len(q) : e[Len(s) - 1 + i] = q[i]
  BY OnTopOfFront
<1>7. Len(s) \in Nat
  BY LenProperties
<1>8. Replaced(s, a) = e
  BY <1>2 DEF Replaced
<1> HIDE DEF e
<1>9. 1 \in 1..Len(q) /\ Len(s) - 1 + 1 = Len(s)
  BY <1>3, <1>7
<1>10. e[Len(s)] = a
  BY <1>3, <1>6, <1>9
<1> QED BY <1>3, <1>4, <1>5, <1>7, <1>8, <1>10

LEMMA TopCovered ==
    ASSUME NEW S, NEW s \in Seq(S), s # <<>>, NEW a \in S, NEW b \in S
    PROVE  /\ Covered(s, a, b) \in Seq(S) /\ Len(Covered(s, a, b)) = Len(s) + 1 /\ Covered(s, a, b)[Len(s)] = a /\ Covered(s, a, b)[Len(s) + 1] = b
           /\ \A i \in 1..(Len(s) - 1) : Covered(s, a, b)[i] = s[i]
<1>1. <<a, b>> \in Seq(S)
  OBVIOUS
<1>2. PICK q \in Seq(S) : q = <<a, b>>
  BY <1>1
<1>3. Len(q) = 2 /\ q[1] = a /\ q[2] = b
  BY <1>2
<1> DEFINE e == Front(s) \o q
<1>4. e \in Seq(S) /\ Len(e) = Len(s) - 1 + Len(q)
  BY OnTopOfFront
<1>5. \A i \in 1..(Len(s) - 1) : e[i] = s[i]
  BY OnTopOfFront
<1>6. \A i \in 1..Len(q) : e[Len(s) - 1 + i] = q[i]
  BY OnTopOfFront
<1>7. Len(s) \in Nat
  BY LenProperties
<1>8. Covered(s, a, b) = e
  BY <1>2 DEF Covered
<1> HIDE DEF e
<1>9. 1 \in 1..Len(q) /\ 2 \in 1..Len(q) /\ Len(s) - 1 + 1 = Len(s) /\ Len(s) - 1 + 2 = Len(s) + 1
  BY <1>3, <1>7
<1>10. e[Len(s)] = a
  BY <1>3, <1>6, <1>9
<1>11. e[Len(s) + 1] = b
  BY <1>3, <1>6, <1>9
<1> QED BY <1>3, <1>4, <1>5, <1>7, <1>8, <1>10, <1>11

LEMMA TopReads ==
    ASSUME NEW path, NEW cs, IsPath(path, cs)
    PROVE  /\ Len(path) \in Nat \ {0} /\ Len(cs) = Len(path) /\ cs # <<>> /\ cs \in Seq(Calls)
           /\ IsFreeArray(path[Len(path)]) /\ Ready(path[Len(path)], Last(cs))
<1>1. Len(path) \in Nat \ {0}
  BY EmptySeq DEF IsPath
<1>2. Len(path) \in 1..Len(path) /\ cs # <<>>
  BY <1>1, EmptySeq DEF IsPath
<1> QED BY <1>1, <1>2 DEF IsPath, Last

LEMMA TurnReads ==
    ASSUME NEW path, NEW cs, IsPath(path, cs), NEW a, Ready(path[Len(path)], a)
    PROVE  IsPath(path, Replaced(cs, a))
<1>1. /\ Len(cs) = Len(path) /\ cs # <<>> /\ cs \in Seq(Calls) /\ IsFreeArray(path[Len(path)])
  BY TopReads
<1>2. a \in Calls
  BY <1>1, CallsAre
<1>3. PICK d : d = Replaced(cs, a)
  OBVIOUS
<1>4. /\ d \in Seq(Calls) /\ Len(d) = Len(cs) /\ d[Len(cs)] = a
      /\ \A i \in 1..(Len(cs) - 1) : d[i] = cs[i]
  BY <1>1, <1>2, <1>3, TopReplaced
<1>5. Ready(path[Len(path)], d[Len(path)])
  BY <1>1, <1>4
<1>6. IsPath(path, d)
  BY <1>4, <1>5, PathTurns
<1> QED BY <1>3, <1>6

LEMMA CoveredCalls ==
    ASSUME NEW cs \in Seq(Calls), cs # <<>>, NEW a \in Calls, NEW b \in Calls
    PROVE  /\ Covered(cs, a, b) \in Seq(Calls) /\ Len(Covered(cs, a, b)) = Len(cs) + 1
           /\ Covered(cs, a, b)[Len(cs)] = a /\ Covered(cs, a, b)[Len(cs) + 1] = b
           /\ \A i \in 1..(Len(cs) - 1) : Covered(cs, a, b)[i] = cs[i]
<1>1. Covered(cs, a, b) \in Seq(Calls) /\ Len(Covered(cs, a, b)) = Len(cs) + 1
  BY TopCovered
<1>2. Covered(cs, a, b)[Len(cs)] = a
  BY TopCovered
<1>3. Covered(cs, a, b)[Len(cs) + 1] = b
  BY TopCovered
<1>4. \A i \in 1..(Len(cs) - 1) : Covered(cs, a, b)[i] = cs[i]
  BY TopCovered
<1> QED BY <1>1, <1>2, <1>3, <1>4

LEMMA CallReads ==
    ASSUME NEW path, NEW cs, IsPath(path, cs), NEW w, IsFreeArray(w),
           NEW a, Waiting(path[Len(path)], a, w), NEW b, Ready(w, b)
    PROVE  IsPath(Append(path, w), Covered(cs, a, b)) /\ Append(path, w)[1] = path[1]
<1>1. /\ Len(cs) = Len(path) /\ cs # <<>> /\ cs \in Seq(Calls) /\ IsFreeArray(path[Len(path)])
  BY TopReads
<1>2. a \in Calls /\ b \in Calls
  BY <1>1, CallsAre
<1> DEFINE d == Covered(cs, a, b)
<1>3. /\ d \in Seq(Calls) /\ Len(d) = Len(cs) + 1 /\ d[Len(cs)] = a /\ d[Len(cs) + 1] = b
      /\ \A i \in 1..(Len(cs) - 1) : d[i] = cs[i]
  <2>1. cs # <<>> /\ cs \in Seq(Calls) /\ a \in Calls /\ b \in Calls
    BY <1>1, <1>2
  <2> QED BY <2>1, CoveredCalls
<1> HIDE DEF d
<1>4. Waiting(path[Len(path)], d[Len(path)], w)
  BY <1>1, <1>3
<1>5. Ready(w, d[Len(path) + 1])
  BY <1>1, <1>3
<1>6. IsPath(Append(path, w), d) /\ Append(path, w)[1] = path[1]
  BY <1>3, <1>4, <1>5, PathGrows
<1> QED BY <1>6 DEF d

-----------------------------------------------------------------------------
(* One step, from calls that read v. *)

BeingRead(v, cs) == \E path \in Seq(Values) : IsPath(path, cs) /\ path[1] = v

LEMMA ElementReads ==
    ASSUME NEW v, value = NoValue, BeingRead(v, calls), Element
    PROVE  value' = NoValue /\ BeingRead(v, calls')
<1>1. PICK path \in Seq(Values) : IsPath(path, calls) /\ path[1] = v
  BY DEF BeingRead
<1> DEFINE top == path[Len(path)]
<1>2. IsFreeArray(top) /\ Ready(top, Top)
  BY <1>1, TopReads DEF Top
<1>3. PICK next : /\ next = ParseValueStr(Top.str, Top.offset)
                  /\ calls' = Front(calls) \o
                        IF IsArray(next.valueStr) THEN <<Passed(Top, next), Call(next.valueStr)>>
                        ELSE <<Taken(Passed(Top, next), ParseScalar(next.valueStr))>>
  BY DEF Element, Passed, Taken
<1>4. Top.offset < Len(Top.str) /\ value' = value
  BY DEF Element
<1>5. PICK w \in Values : /\ QuoteFree(w) /\ next.valueStr = Written[w]
                          /\ Waiting(top, Passed(Top, next), w)
                          /\ Ready(top, Taken(Passed(Top, next), w))
  <2> HIDE DEF top
  <2> QED BY <1>2, <1>3, <1>4, CallTurns
<1>6. CASE w.type = "Array"
  <2>1. IsFreeArray(w)
    BY <1>5, <1>6 DEF IsFreeArray
  <2>2. IsArray(next.valueStr) /\ Ready(w, Call(next.valueStr))
    BY <1>5, <2>1, CallBegins
  <2>3. calls' = Covered(calls, Passed(Top, next), Call(next.valueStr))
    BY <1>3, <2>2 DEF Covered
  <2>4. IsPath(Append(path, w), calls') /\ Append(path, w)[1] = path[1]
    BY <1>1, <1>5, <2>1, <2>2, <2>3, CallReads
  <2>5. Append(path, w) \in Seq(Values)
    BY <2>4 DEF IsPath
  <2> QED BY <1>1, <1>4, <2>4, <2>5 DEF BeingRead
<1>7. CASE w.type # "Array"
  <2>1. ~IsArray(next.valueStr) /\ ParseScalar(next.valueStr) = w
    BY <1>5, <1>7, NoArrayIsTaken
  <2>2. calls' = Replaced(calls, Taken(Passed(Top, next), w))
    BY <1>3, <2>1 DEF Replaced
  <2>3. IsPath(path, calls')
    BY <1>1, <1>5, <2>2, TurnReads
  <2> QED BY <1>1, <1>4, <2>3 DEF BeingRead
<1> QED BY <1>6, <1>7

LEMMA ReturnReads ==
    ASSUME NEW v, value = NoValue, BeingRead(v, calls), Return
    PROVE  (calls' = <<>> /\ value' = v) \/ (value' = NoValue /\ BeingRead(v, calls'))
<1>1. PICK path \in Seq(Values) : IsPath(path, calls) /\ path[1] = v
  BY DEF BeingRead
<1> DEFINE n == Len(path)
           top == path[n]
<1>2. /\ n \in Nat \ {0} /\ Len(calls) = n /\ calls # <<>> /\ calls \in Seq(Calls)
      /\ IsFreeArray(top) /\ Ready(top, Top)
  BY <1>1, TopReads DEF Top
<1>3. Top.offset >= Len(Top.str)
  BY DEF Return
<1>4. Array(Top.newArrayValue) = top
  <2> HIDE DEF top
  <2> QED BY <1>2, <1>3, CallEnds
<1>5. CASE n = 1
  <2>1. calls' = <<>> /\ value' = Array(Top.newArrayValue)
    BY <1>2, <1>5 DEF Return
  <2> QED BY <1>1, <1>4, <1>5, <2>1
<1>6. CASE n # 1
  <2> DEFINE f == Front(calls)
             m == n - 1
             d == [f EXCEPT ![m].newArrayValue = Append(@, top)]
  <2>1. calls' = d /\ value' = value
    BY <1>2, <1>4, <1>6 DEF Return
  <2>2. f \in Seq(Calls) /\ Len(f) = m /\ \A i \in 1..m : f[i] = calls[i]
    BY <1>2, FrontIs
  <2>3. m \in Nat \ {0} /\ m \in 1..m /\ m + 1 = n
    BY <1>2, <1>6
  <2>4. IsFreeArray(path[m]) /\ Waiting(path[m], calls[m], top)
    <3>1. m \in 1..n /\ m \in 1..(n - 1)
      BY <1>2, <1>6
    <3>2. \A i \in 1..n : IsFreeArray(path[i])
      BY <1>1 DEF IsPath
    <3>3. \A i \in 1..(n - 1) : Waiting(path[i], calls[i], path[i + 1])
      BY <1>1 DEF IsPath
    <3> HIDE DEF m, n
    <3> QED BY <2>3, <3>1, <3>2, <3>3
  <2> HIDE DEF f, m, n, top
  <2> DEFINE t == Taken(f[m], top)
  <2>5. d = [f EXCEPT ![m] = t]
    BY <2>2, <2>3, LenProperties DEF Taken
  <2>6. f[m] = calls[m]
    BY <2>2, <2>3
  <2>7. Ready(path[m], t)
    BY <2>4, <2>6, CallTakes
  <2>8. t \in Calls
    BY <2>4, <2>7, CallsAre
  <2> HIDE DEF t, d
  <2>9. d \in Seq(Calls) /\ Len(d) = m /\ \A j \in 1..m : d[j] = IF j = m THEN t ELSE f[j]
    BY <2>2, <2>3, <2>5, <2>8, ExceptSeq
  <2>10. \A i \in 1..(m - 1) : d[i] = calls[i]
    <3> TAKE i \in 1..(m - 1)
    <3>1. i \in 1..m /\ i # m
      BY <2>3
    <3> QED BY <2>2, <2>9, <3>1
  <2>11. Len(d) = Len(calls) - 1 /\ Len(path) # 1 /\ Ready(path[Len(d)], d[Len(d)])
    BY <1>2, <1>6, <2>3, <2>7, <2>9 DEF n
  <2>12. IsPath(Front(path), d) /\ Front(path)[1] = path[1]
    BY <1>1, <2>9, <2>10, <2>11, PathShrinks
  <2>13. Front(path) \in Seq(Values)
    BY <2>12 DEF IsPath
  <2> QED BY <1>1, <2>1, <2>12, <2>13 DEF BeingRead
<1> QED BY <1>5, <1>6

-----------------------------------------------------------------------------
(* What is written is read. *)

\* Read, or being read.
ReadSoFar ==
    \A v \in Values :
        (Written[v] = text /\ (v.type = "Array" => QuoteFree(v))) =>
            \/ calls = <<>> /\ value = v
            \/ value = NoValue /\ BeingRead(v, calls)

LEMMA InitReads == JsonInit => ReadSoFar
<1> SUFFICES ASSUME JsonInit, NEW v \in Values, Written[v] = text, v.type = "Array" => QuoteFree(v)
             PROVE  \/ calls = <<>> /\ value = v
                    \/ value = NoValue /\ BeingRead(v, calls)
  BY DEF ReadSoFar
<1>1. CASE v.type # "Array"
  <2>1. ~IsArray(text) /\ ParseScalar(text) = v
    BY <1>1, NoArrayIsTaken
  <2> QED BY <2>1 DEF JsonInit
<1>2. CASE v.type = "Array"
  <2>1. IsFreeArray(v)
    BY <1>2 DEF IsFreeArray
  <2>2. IsArray(text) /\ Ready(v, Call(text))
    BY <2>1, CallBegins
  <2>3. calls = <<Call(text)>> /\ value = NoValue
    BY <2>2 DEF JsonInit
  <2>4. Call(text) \in Calls
    BY <2>1, <2>2, CallsAre
  <2> DEFINE b == Call(text)
  <2>5. b \in Calls /\ Ready(v, b)
    BY <2>2, <2>4
  <2> HIDE DEF b
  <2>6. \E path \in Seq(Values), cs \in Seq(Calls) : cs = <<b>> /\ IsPath(path, cs) /\ path[1] = v
    <3>1. <<v>> \in Seq(Values) /\ <<b>> \in Seq(Calls)
      BY <2>5
    <3>2. PICK path \in Seq(Values), cs \in Seq(Calls) : path = <<v>> /\ cs = <<b>>
      BY <3>1
    <3>3. Len(path) = 1 /\ Len(cs) = 1 /\ path[1] = v /\ cs[1] = b /\ path # <<>>
      BY <3>2
    <3>4. \A i \in 1..1 : i = 1
      OBVIOUS
    <3>5. IsPath(path, cs)
      BY <2>1, <2>5, <3>3, <3>4 DEF IsPath
    <3> QED BY <3>2, <3>3, <3>5
  <2>7. BeingRead(v, calls)
    <3>1. calls = <<b>>
      BY <2>3 DEF b
    <3> QED BY <2>6, <3>1, Zenon DEF BeingRead
  <2> QED BY <2>3, <2>7
<1> QED BY <1>1, <1>2

LEMMA StepReads == ReadSoFar /\ [JsonNext]_jsonVars => ReadSoFar'
<1> SUFFICES ASSUME ReadSoFar, [JsonNext]_jsonVars,
                    NEW v \in Values, Written[v] = text', v.type = "Array" => QuoteFree(v)
             PROVE  \/ calls' = <<>> /\ value' = v
                    \/ value' = NoValue /\ BeingRead(v, calls')
  BY DEF ReadSoFar, BeingRead
<1>1. text' = text
  BY DEF JsonNext, Element, Return, jsonVars
<1>2. (calls = <<>> /\ value = v) \/ (value = NoValue /\ BeingRead(v, calls))
  BY <1>1 DEF ReadSoFar
<1>3. CASE Element
  <2>1. calls # <<>>
    BY <1>3 DEF Element
  <2> QED BY <1>2, <1>3, <2>1, ElementReads
<1>4. CASE Return
  <2>1. calls # <<>>
    BY <1>4 DEF Return
  <2> QED BY <1>2, <1>4, <2>1, ReturnReads
<1>5. CASE UNCHANGED jsonVars
  BY <1>2, <1>5 DEF jsonVars
<1> QED BY <1>3, <1>4, <1>5 DEF JsonNext

LEMMA ReadIsRight == ReadSoFar => ReadsWhatIsWritten
<1> SUFFICES ASSUME ReadSoFar, value # NoValue, text \in DOMAIN WrittenFrom,
                    NEW v \in WrittenFrom[text], v.type = "Array" => QuoteFree(v)
             PROVE  value = v
  BY DEF ReadsWhatIsWritten, QuoteFree, HasNoQuote
<1>1. v \in Values /\ Written[v] = text
  BY DEF WrittenFrom
<1> QED BY <1>1 DEF ReadSoFar

\* Json::FromString returns the value that ToString wrote, whatever its characters
\* and its integer, and Json's text of an array with the values in it, however many
\* and however deep, unless a string in it holds a quote.
THEOREM WrittenIsRead == JsonSpec => []ReadsWhatIsWritten
<1>1. JsonInit => ReadSoFar
  BY InitReads
<1>2. ReadSoFar /\ [JsonNext]_jsonVars => ReadSoFar'
  BY StepReads
<1>3. ReadSoFar => ReadsWhatIsWritten
  BY ReadIsRight
<1> QED BY <1>1, <1>2, <1>3, PTL DEF JsonSpec
=============================================================================

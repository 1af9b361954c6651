------------------------------- MODULE Codec -------------------------------
(***************************************************************************)
(* The wire codec of protocol/session.py, on byte strings (sequences of    *)
(* 0 .. Base - 1), with the widths of the format as parameters.            *)
(*                                                                         *)
(* decode_wire_message() never raises; its result is the set of messages   *)
(* it returns: one for Ok(m), none for Err(MalformedMessage(...)).         *)
(***************************************************************************)
EXTENDS Naturals, Sequences

CONSTANTS
    ByteBits,       \* 8
    Magic,          \* b"TF01"
    UuidLen,        \* 16
    LengthLen,      \* 4
    ChecksumLen,    \* 4
    CrcPoly         \* CRC-32's polynomial: the coefficients of x^0, x^1, ...

ASSUME WidthAssumption ==
    /\ {ByteBits, UuidLen, LengthLen, ChecksumLen} \subseteq Nat \ {0}
    /\ ByteBits >= 3    \* room for every kind code

(* Numbers by their digits in a base, the most significant first.          *)
Power(base, n) ==
    LET power[i \in 0 .. n] == IF i = 0 THEN 1 ELSE base * power[i - 1]
    IN  power[n]
ToDigits(n, len, base) == [i \in 1 .. len |-> (n \div Power(base, len - i)) % base]
FromDigits(s, base) ==
    LET value[i \in 0 .. Len(s)] == IF i = 0 THEN 0 ELSE base * value[i - 1] + s[i]
    IN  value[Len(s)]

Base == Power(2, ByteBits)
Bytes == 0 .. Base - 1
ASSUME MagicAssumption == Magic \in Seq(Bytes)

KindCodes == [hello |-> 1, hello_ack |-> 2, data |-> 3, close |-> 4]
HeaderLen == Len(Magic) + 1 + UuidLen + UuidLen + LengthLen

(* int.to_bytes(len, "big") and int.from_bytes(s, "big").                  *)
ToBytes(n, len) == ToDigits(n, len, Base)
FromBytes(s) == FromDigits(s, Base)

-----------------------------------------------------------------------------
(* zlib.crc32: a shift register that starts with ones, into which the      *)
(* bytes are fed from their lowest bits on, and which is inverted at the   *)
(* end.  Its places hold the coefficients of x^0, x^1, ...                 *)
CrcWidth == ByteBits * ChecksumLen
ASSUME PolynomialAssumption == CrcPoly \in [1 .. CrcWidth -> {0, 1}] /\ CrcPoly[1] = 1

(* What goes out at the top, together with the bit that comes in, decides  *)
(* whether the polynomial is subtracted.                                   *)
Shifted(r, bit) ==
    LET out == (r[CrcWidth] + bit) % 2
    IN  [k \in 1 .. CrcWidth |-> ((IF k = 1 THEN 0 ELSE r[k - 1]) + out * CrcPoly[k]) % 2]

Fed(r, byte) ==
    LET bits == ToDigits(byte, ByteBits, 2)
        after[k \in 0 .. ByteBits] ==
          IF k = 0 THEN r ELSE Shifted(after[k - 1], bits[ByteBits + 1 - k])
    IN  after[ByteBits]

CrcRegister(s) ==
    LET after[i \in 0 .. Len(s)] ==
          IF i = 0 THEN [k \in 1 .. CrcWidth |-> 1] ELSE Fed(after[i - 1], s[i])
    IN  after[Len(s)]

(* The bytes of the inverted register.                                     *)
Crc(s) ==
    LET register == CrcRegister(s)
    IN  [i \in 1 .. ChecksumLen |->
          FromDigits([j \in 1 .. ByteBits |-> 1 - register[ByteBits * (i - 1) + j]], 2)]

-----------------------------------------------------------------------------
(* A bug: only the header is checksummed.                                  *)
Checksum_HeaderOnly(body) == Crc(SubSeq(body, 1, HeaderLen))

Checksum(body) == Crc(body)

EncodeWireMessage(m) ==
    LET body == Magic \o << KindCodes[m.kind] >> \o m.msg_id \o m.sender
                      \o ToBytes(Len(m.payload), LengthLen) \o m.payload
    IN  body \o Checksum(body)

(* The parts of a frame.                                                   *)
Body(data) == SubSeq(data, 1, Len(data) - ChecksumLen)
Trailer(data) == SubSeq(data, Len(data) - ChecksumLen + 1, Len(data))
Slice(data, offset, len) == SubSeq(data, offset + 1, offset + len)
KindByte(data) == data[Len(Magic) + 1]
MsgIdBytes(data) == Slice(data, Len(Magic) + 1, UuidLen)
SenderBytes(data) == Slice(data, Len(Magic) + 1 + UuidLen, UuidLen)
LengthBytes(data) == Slice(data, HeaderLen - LengthLen, LengthLen)
Payload(data) == Slice(data, HeaderLen, Len(data) - HeaderLen - ChecksumLen)

WellFormed(data) ==
    /\ Len(data) >= HeaderLen + ChecksumLen
    /\ Trailer(data) = Checksum(Body(data))
    /\ Slice(data, 0, Len(Magic)) = Magic
    /\ KindByte(data) \in { KindCodes[kind] : kind \in DOMAIN KindCodes }
    /\ Len(Payload(data)) = FromBytes(LengthBytes(data))

DecodeWireMessage(data) ==
    IF WellFormed(data)
    THEN { [ msg_id |-> MsgIdBytes(data), sender |-> SenderBytes(data),
             kind |-> CHOOSE kind \in DOMAIN KindCodes : KindCodes[kind] = KindByte(data),
             payload |-> Payload(data) ] }
    ELSE {}

(* FaultInjector.corrupt(): every bit of one byte is flipped.              *)
Corruptions(data) ==
    { [data EXCEPT ![i] = Base - 1 - @] : i \in DOMAIN data }
=============================================================================

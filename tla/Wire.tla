-------------------------------- MODULE Wire --------------------------------
(***************************************************************************)
(* The bus together with the codec of what it carries: what makes a frame  *)
(* of the bus clean or not.  The bus itself never looks into a frame.      *)
(***************************************************************************)
EXTENDS Bus, Codec

CONSTANTS
    Ids,        \* the bytes of message and agent ids
    Payloads,   \* the payloads that are sent
    Strings     \* the byte strings that are decoded

ASSUME WireAssumption ==
    /\ Ids \subseteq [1 .. UuidLen -> Bytes]
    /\ \A p \in Payloads : p \in Seq(Bytes) /\ Len(p) < Power(Base, LengthLen)
    /\ \A s \in Strings : s \in Seq(Bytes)

Wires == [msg_id : Ids, sender : Ids, kind : DOMAIN KindCodes, payload : Payloads]

CleanDecodes == \A m \in Wires : DecodeWireMessage(EncodeWireMessage(m)) = {m}
OnlyCleanDecodes == \A s \in Strings : \A m \in DecodeWireMessage(s) : EncodeWireMessage(m) = s
CorruptedFails ==
    \A m \in Wires : \A s \in Corruptions(EncodeWireMessage(m)) : DecodeWireMessage(s) = {}

Received(clean) == \E e \in Endpoint : \E i \in DOMAIN received[e] : received[e][i].clean = clean

(* A frame received clean gives back what was encoded, whatever that was;  *)
(* decoding lets no byte string through that is not, to the last byte, the *)
(* encoding of what it returns; and a frame corrupted in whichever byte is *)
(* never decoded: in Bus and all that is built on it, a frame that is not  *)
(* clean carries no message.                                               *)
WireExact ==
    /\ Received(TRUE) => CleanDecodes /\ OnlyCleanDecodes
    /\ Received(FALSE) => CorruptedFails
=============================================================================

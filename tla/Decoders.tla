----------------------------- MODULE Decoders -------------------------------
(***************************************************************************)
(* What the protocol decoders make of bytes (internal/protocol): whether   *)
(* they are a message of the protocol, end before its declared length, or  *)
(* are an observation.                                                     *)
(*                                                                         *)
(* Bytes are a sequence of pieces [message, at], at counting from 1; a     *)
(* whole message is its pieces in order.  A decoder believes the length    *)
(* the first piece declares, so where other pieces have come between it    *)
(* reads their bytes as the values of this message.                        *)
(***************************************************************************)
EXTENDS Inventory

CONSTANTS
  Messages  \* the messages there are, as [protocol, length, header, refusal, fields, identity, role]:
            \* length and header in pieces, fields the names the decoder sets,
            \* identity the identity fields it fills, {} of them for a message without

(* A header is part of its message, and "no decoder emits a name with a     *)
(* space in it" (pcap.go:641).                                              *)
ASSUME MessagesAssumption ==
  \A m \in DOMAIN Messages :
    /\ {Messages[m].header, Messages[m].length} \subseteq Nat
    /\ Messages[m].header <= Messages[m].length
    /\ "identity was recorded" \notin Messages[m].fields

Pieces(message, from, to) == [i \in 1 .. to - from + 1 |-> [message |-> message, at |-> from + i - 1]]

Garbled == <<"garbled">>

NotThis == [verdict |-> "other"]
Truncated == [verdict |-> "truncated"]

Starts(bytes, i, protocol) == bytes[i].at = 1 /\ Messages[bytes[i].message].protocol = protocol

(* A decode: the values of the message that starts, unless its pieces are   *)
(* not all its own.  ErrDeviceError comes with an observation too.          *)
Said(bytes) ==
  LET m == Messages[bytes[1].message]
      intact == SubSeq(bytes, 1, m.length) = Pieces(bytes[1].message, 1, m.length)
  IN  [verdict |-> "said", protocol |-> m.protocol, fields |-> m.fields, role |-> m.role,
       refusal |-> m.refusal,
       identity |-> IF intact THEN m.identity ELSE [f \in DOMAIN m.identity |-> Garbled]]

Declared(bytes, i) == Messages[bytes[i].message].length

(* modbusFraming: every byte must belong to a whole frame.                  *)
ModbusFraming(bytes) ==
  LET From[i \in 1 .. Len(bytes) + 1] ==
        IF i > Len(bytes) THEN "said"
        ELSE IF ~ Starts(bytes, i, "modbus") THEN "other"
        ELSE IF i + Declared(bytes, i) > Len(bytes) + 1 THEN "truncated"
        ELSE From[i + Declared(bytes, i)]
  IN  From[1]

DecodeModbus(bytes) ==
  CASE ModbusFraming(bytes) = "said" -> Said(bytes)
    [] ModbusFraming(bytes) = "truncated" -> Truncated
    [] OTHER -> NotThis

(* A header that is not all there is not recognised at all.                 *)
DecodeENIP(bytes) ==
  IF ~ Starts(bytes, 1, "enip") \/ Len(bytes) < Messages[bytes[1].message].header THEN NotThis
  ELSE IF Len(bytes) < Declared(bytes, 1) THEN Truncated
  ELSE Said(bytes)

DecodeStarted(bytes, protocol) ==
  IF ~ Starts(bytes, 1, protocol) THEN NotThis
  ELSE IF Len(bytes) < Declared(bytes, 1) THEN Truncated
  ELSE Said(bytes)

DecodeS7(bytes) == DecodeStarted(bytes, "s7comm")

DecodeBACnet(bytes) == DecodeStarted(bytes, "bacnet")

Decoder(protocol, bytes) ==
  CASE protocol = "modbus" -> DecodeModbus(bytes)
    [] protocol = "enip" -> DecodeENIP(bytes)
    [] protocol = "s7comm" -> DecodeS7(bytes)
    [] OTHER -> DecodeBACnet(bytes)

AllDecoders == <<"modbus", "enip", "s7comm", "bacnet">>

(* PassiveDecoders, and every decoder for a port none is registered for.    *)
DecodersFor(port) ==
  CASE port = 502 -> <<"modbus">>
    [] port = 44818 -> <<"enip">>
    [] port = 102 -> <<"s7comm">>
    [] port = 47808 -> <<"bacnet">>
    [] OTHER -> AllDecoders

(* Observation.Empty. *)
IsObservation(decoded) ==
  decoded.verdict = "said" /\ (decoded.fields # {} \/ DOMAIN decoded.identity # {})
=============================================================================

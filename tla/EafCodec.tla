------------------------------- MODULE EafCodec -------------------------------
(***************************************************************************)
(* The EAF report codec, once per vehicle: the Python persona's            *)
(* (personas/protocol.py) and the firmware's (eaf_protocol.cpp, with the   *)
(* staging that main.cpp does around it).  A wire report is a sequence of  *)
(* bytes that starts with the report id; a decoded command is a record.    *)
(* The radix of a byte is a parameter: 256 on the wire, smaller for TLC.   *)
(***************************************************************************)
EXTENDS Integers, Sequences

CONSTANTS
  Byte,             \* number of values of a byte (256 on the wire)
  Magic0, Magic1,   \* the two bytes that lead every report body
  TemperatureBias   \* what the device adds to hundredths of a degree

ASSUME ByteAssumption == Byte \in Nat /\ Byte > 13
ASSUME MagicAssumption == Magic0 \in 0..(Byte - 1) /\ Magic1 \in 0..(Byte - 1)
ASSUME BiasAssumption == TemperatureBias \in 0..(Byte * Byte - 1)

Bytes == 0..(Byte - 1)

\* Register numbers (class Register, namespace reg), report ids and sizes.
RegRead == 2
RegState == 3
RegIdentity == 4
RegSerial == 12
RegUnknown0D == 13

REPORT_IN == 1
REPORT_OUT == 3
REPORT_SIZE == 16
BODY_SIZE == 12

SETTINGS_BASE == 1
Absent == -1     \* kSettingsAbsent, and Python's settings=None

AtMost(a, b) == IF a <= b THEN a ELSE b
AtLeast(a, b) == IF a >= b THEN a ELSE b

-----------------------------------------------------------------------------
(* Decoded commands, in the one representation both parsers are compared in *)

Malformed == [kind |-> "malformed"]

ReadRegister(register) == [kind |-> "read", register |-> register]

WriteState(go, position, sync, settings) ==
  [kind |-> "write", go |-> go, position |-> position,
   sync |-> sync, settings |-> settings]

Command ==
  [kind : {"malformed"}]
    \union [kind : {"read"}, register : Bytes]
    \union [kind : {"write"}, go : BOOLEAN, position : Nat, sync : BOOLEAN,
            settings : Bytes \union {Absent}]

-----------------------------------------------------------------------------
(* Python vehicle *)

\* int.from_bytes(word, "big") on four bytes.
FromBytes(word) ==
  ((word[1] * Byte + word[2]) * Byte + word[3]) * Byte + word[4]

\* protocol.parse_command: raising MalformedReport is the value Malformed.
\* Python's data[a:b] clips at the end of data.
ParseCommand(data) ==
  LET body == SubSeq(data, 5, AtMost(Len(data), 4 + BODY_SIZE))
      framed == /\ Len(data) >= 5
                /\ data[1] = REPORT_OUT
                /\ data[2] = Magic0 /\ data[3] = Magic1
  IN  IF framed /\ data[4] = RegRead
        THEN ReadRegister(data[5])
      ELSE IF framed /\ data[4] = RegState /\ Len(body) >= 6
        THEN WriteState(body[1] # 0, FromBytes(SubSeq(body, 3, 6)),
                        Len(body) > 6 /\ body[7] # 0,
                        IF Len(body) > 9 THEN body[10] ELSE Absent)
      ELSE Malformed

\* Mutant: clamped above only.
EncodeTemperatureUnclamped(centi) ==
  AtMost(Byte * Byte - 1, centi + TemperatureBias)

\* protocol.encode_temperature, on hundredths of a degree.
EncodeTemperature(centi) ==
  AtLeast(0, AtMost(Byte * Byte - 1, centi + TemperatureBias))

\* Mutant: the halves of the word swapped.
ToBytes4Swapped(n) ==
  LET low == n % (Byte * Byte)
      high == n \div (Byte * Byte)
  IN  << low \div Byte, low % Byte, high \div Byte, high % Byte >>

\* n.to_bytes(2, "big") and n.to_bytes(4, "big").
ToBytes2(n) == << n \div Byte, n % Byte >>
ToBytes4(n) == ToBytes2(n \div (Byte * Byte)) \o ToBytes2(n % (Byte * Byte))

\* protocol.encode_state.
EncodeState(moving, position, centi, settings) ==
  << IF moving THEN 1 ELSE 0, 0 >> \o ToBytes4(position) \o << 0 >>
    \o ToBytes2(EncodeTemperature(centi)) \o << settings % Byte >>
    \o ToBytes2(TemperatureBias)

\* protocol.frame_reply.
FrameReply(register, body) == << REPORT_IN, Magic0, Magic1, register >> \o body

-----------------------------------------------------------------------------
(* Firmware vehicle *)

\* The shifts of ParseCommand in eaf_protocol.cpp, on bytes b0 (high) to b3.
ShiftWord(b0, b1, b2, b3) ==
  b0 * (Byte * Byte * Byte) + b1 * (Byte * Byte) + b2 * Byte + b3

\* Mutant: the settings byte looked for one byte too late.
FwParseCommandOffByOne(data) ==
  LET length == Len(data)
      framed == /\ length >= 5
                /\ data[1] = REPORT_OUT
                /\ data[2] = Magic0 /\ data[3] = Magic1
  IN  IF framed /\ data[4] = RegRead
        THEN ReadRegister(data[5])
      ELSE IF framed /\ data[4] = RegState /\ length >= 10
        THEN WriteState(data[5] # 0,
                        ShiftWord(data[7], data[8], data[9], data[10]),
                        length > 10 /\ data[11] # 0,
                        IF length > 14 THEN data[14] ELSE Absent)
      ELSE Malformed

\* eaf::ParseCommand. C++ indexes from 0: data[i] there is data[i + 1] here.
FwParseCommand(data) ==
  LET length == Len(data)
      framed == /\ length >= 5
                /\ data[1] = REPORT_OUT
                /\ data[2] = Magic0 /\ data[3] = Magic1
  IN  IF framed /\ data[4] = RegRead
        THEN ReadRegister(data[5])
      ELSE IF framed /\ data[4] = RegState /\ length >= 10
        THEN WriteState(data[5] # 0,
                        ShiftWord(data[7], data[8], data[9], data[10]),
                        length > 10 /\ data[11] # 0,
                        IF length > 13 THEN data[14] ELSE Absent)
      ELSE Malformed

\* tud_hid_set_report_cb: TinyUSB strips the report id; the callback puts it
\* back in front of at most REPORT_SIZE - 1 payload bytes.
StageSetReport(data) ==
  LET buffer == Tail(data)
  IN  << data[1] >> \o SubSeq(buffer, 1, AtMost(Len(buffer), REPORT_SIZE - 1))

\* static_cast<int32_t> of a four-byte unsigned word, and back.
WordSize == Byte * Byte * Byte * Byte
ToSigned(word) == IF 2 * word >= WordSize THEN word - WordSize ELSE word
ToUnsigned(n) == IF n < 0 THEN n + WordSize ELSE n

\* eaf::EncodeState: every byte is a shift of the word cut to eight bits.
FwEncodeState(moving, position, centi, settings) ==
  LET raw == AtMost(AtLeast(centi + TemperatureBias, 0), Byte * Byte - 1)
      cut(n) == n % Byte
  IN  << IF moving THEN 1 ELSE 0, 0,
         cut(position \div (Byte * Byte * Byte)), cut(position \div (Byte * Byte)),
         cut(position \div Byte), cut(position),
         0, cut(raw \div Byte), cut(raw), settings,
         cut(TemperatureBias \div Byte), cut(TemperatureBias) >>
=============================================================================

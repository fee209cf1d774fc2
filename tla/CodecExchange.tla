----------------------------- MODULE CodecExchange -----------------------------
(***************************************************************************)
(* The data stage of one SET_REPORT, arriving byte by byte: every prefix   *)
(* is a report the host could have sent, handed to both vehicles' codecs.  *)
(***************************************************************************)
EXTENDS EafCodec

CONSTANTS
  Offered,       \* Offered[i]: the values the i-th byte of a report may take
  Temperatures   \* hundredths of a degree a focuser may report

VARIABLE report

ASSUME OfferedAssumption ==
  \A i \in DOMAIN Offered : Offered[i] \subseteq Bytes
ASSUME TemperaturesAssumption == Temperatures \subseteq Int

Init == report = << >>

NextByte ==
  /\ Len(report) + 1 \in DOMAIN Offered
  /\ \E b \in Offered[Len(report) + 1] : report' = Append(report, b)

Spec == Init /\ [][NextByte]_report

-----------------------------------------------------------------------------
(* What the Python vehicle makes of the report so far.                      *)
Decoded == ParseCommand(report)

(* Both vehicles decode every report to the same command: the firmware cuts *)
(* it to sixteen bytes and indexes it, Python slices it.                     *)
ParsersAgree ==
  report # << >> => FwParseCommand(StageSetReport(report)) = Decoded

(* A position the host wrote comes back in the bytes it was written in: the  *)
(* parser of each vehicle composed with its state encoder, on the firmware   *)
(* through the signed position of the Focuser interface, is the identity.    *)
PositionBytesSurvive ==
  Decoded.kind = "write" =>
    LET sent == SubSeq(report, 7, 10)
        back(body) == SubSeq(body, 3, 6)
        signed == ToSigned(FwParseCommand(StageSetReport(report)).position)
    IN  /\ back(EncodeState(TRUE, Decoded.position, 0, SETTINGS_BASE)) = sent
        /\ back(FwEncodeState(TRUE, ToUnsigned(signed), 0, SETTINGS_BASE)) = sent

(* Both encoders put the same state block on the wire, whatever the          *)
(* temperature, and the block decodes to the temperature clamped to what     *)
(* its two bytes can carry (decode_temperature in protocol.py).              *)
EncodersAgree ==
  Decoded.kind = "write" =>
    \A c \in Temperatures, m \in BOOLEAN :
      LET s == IF Decoded.settings = Absent THEN SETTINGS_BASE
               ELSE Decoded.settings
          py == EncodeState(m, Decoded.position, c, s)
          decoded == (py[8] * Byte + py[9]) - (py[11] * Byte + py[12])
      IN  /\ py = FwEncodeState(m, Decoded.position, c, s)
          /\ Len(py) = BODY_SIZE
          /\ Len(FrameReply(RegState, py)) = REPORT_SIZE
          /\ c < -TemperatureBias => decoded = -TemperatureBias
          /\ c + TemperatureBias \in 0..(Byte * Byte - 1) => decoded = c
=============================================================================

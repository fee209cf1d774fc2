----------------------------- MODULE StreamDecoder -----------------------------
(***************************************************************************)
(* The decoder of the bus analyzer's byte stream (capture.StreamDecoder).  *)
(* The gateware writes records back to back; USB hands them over in chunks *)
(* cut anywhere; a transfer that ends in error is dropped by on_transfer   *)
(* with whatever it held.  feed() is a generator: one action is one turn   *)
(* of its loop.  Bytes have radix Byte (256), timestamps two bytes.        *)
(***************************************************************************)
EXTENDS Integers, Sequences, SequencesExt

CONSTANTS
  Byte,            \* number of values of a byte
  MAX_PACKET_SIZE, \* no packet on the bus is longer
  EventCodes,      \* codes of events the gateware reports
  Payloads,        \* packets it captures
  Gaps,            \* clock cycles that may pass between two records
  CLOCK_HZ,        \* clock cycles in a second
  TICKS,           \* floats in a second: times since 1970 are multiples of
                   \* 2^-22 s from 2004 to 2038
  Started,         \* time the capture was started at, such a multiple
  Million,         \* microseconds in a second
  MaxRecords,      \* bound: records the gateware writes
  MaxLost          \* bound: transfers that end in error

Bytes == 0..(Byte - 1)

ASSUME RadixAssumption ==
  /\ Byte \in Nat /\ Byte > 1
  /\ MAX_PACKET_SIZE \in Nat /\ MAX_PACKET_SIZE < (Byte - 1) * Byte
ASSUME TimeAssumption ==
  /\ Started \in Nat /\ CLOCK_HZ \in Nat \ {0}
  /\ TICKS \in Nat \ {0} /\ Million \in Nat \ {0}
ASSUME PayloadAssumption ==
  /\ EventCodes \subseteq Bytes /\ Gaps \subseteq Nat
  /\ \A p \in Payloads : p \in Seq(Bytes) /\ Len(p) <= MAX_PACKET_SIZE
ASSUME LossAssumption == MaxLost \in Nat

VARIABLES
  now,       \* clock cycles since the capture started
  sent,      \* what the gateware captured, with true timestamps
  wire,      \* bytes the host has not received
  lost,      \* transfers dropped so far
  buffer,    \* _buffer
  epoch,     \* _epoch
  lastRaw,   \* _last_raw
  feeding,   \* feed() is inside its loop
  desynced,  \* StreamDesyncError was raised
  out,       \* the records yielded
  file,      \* what PcapWriter has written
  captured   \* history: which of the records sent are packets

analyzer == << now, sent, captured >>
decoder == << buffer, epoch, lastRaw, feeding, desynced, out, file >>
vars == << analyzer, wire, lost, decoder >>

Wrap == Byte * Byte
Marker == Byte - 1    \* 0xFF

Record(kind, body, timestamp) ==
  [kind |-> kind, body |-> body, timestamp |-> timestamp]

Init ==
  /\ now = 0 /\ sent = << >> /\ wire = << >> /\ lost = 0
  /\ buffer = << >> /\ epoch = 0 /\ lastRaw = 0
  /\ feeding = FALSE /\ desynced = FALSE /\ out = << >>
  /\ file = << >> /\ captured = << >>

-----------------------------------------------------------------------------
(* The analyzer and the bus *)

Stamp(t) == << (t % Wrap) \div Byte, t % Byte >>

\* Every record starts on a sixteen-bit word; the padding byte is not defined,
\* and the worst it can be is a marker.
Pad(payload) == IF Len(payload) % 2 = 1 THEN << Marker >> ELSE << >>

Emit(bytes, kind, body, gap) ==
  /\ Len(sent) < MaxRecords
  /\ now' = now + gap
  /\ sent' = Append(sent, Record(kind, body, now + gap))
  /\ captured' = IF kind = "packet" THEN Append(captured, Len(sent) + 1) ELSE captured
  /\ wire' = wire \o bytes
  /\ UNCHANGED << lost, decoder >>

EmitEvent ==
  \E code \in EventCodes, gap \in Gaps :
    Emit(<< Marker, code >> \o Stamp(now + gap), "event", code, gap)

EmitPacket ==
  \E p \in Payloads, gap \in Gaps :
    Emit(<< Len(p) \div Byte, Len(p) % Byte >> \o Stamp(now + gap) \o p \o Pad(p),
         "packet", p, gap)

\* A transfer ends in error and on_transfer returns without feeding it.
LoseTransfer ==
  /\ lost < MaxLost /\ ~feeding
  /\ \E n \in 1..Len(wire) : wire' = SubSeq(wire, n + 1, Len(wire))
  /\ lost' = lost + 1
  /\ UNCHANGED << analyzer, decoder >>

-----------------------------------------------------------------------------
(* The capture file *)

\* Clock cycles in ticks.  Adding them to the start rounds to the nearest float;
\* no sum lies halfway.  The quotient's own rounding, a part in 2^53, is left out.
Nearest(cycles) == (2 * cycles * TICKS + CLOCK_HZ) \div (2 * CLOCK_HZ)

\* Mutant: whole seconds and fractions added up apart.
FrameWithoutCarry(packet) ==
  LET elapsed == Nearest(packet.timestamp)
  IN  [seconds |-> Started \div TICKS + elapsed \div TICKS,
       micros |-> (((Started % TICKS) + (elapsed % TICKS)) * Million) \div TICKS,
       data |-> packet.body]

\* PcapWriter.write.  Once the sum is a float, its fraction and a million times
\* the fraction are floats too, and int() cuts them down.
Frame(packet) ==
  LET when == Started + Nearest(packet.timestamp)
  IN  [seconds |-> when \div TICKS,
       micros |-> ((when % TICKS) * Million) \div TICKS,
       data |-> packet.body]

\* on_transfer writes every packet as it is yielded.
Writes(packet) == file' = Append(file, Frame(packet))

-----------------------------------------------------------------------------
(* feed() *)

Feed ==
  /\ ~feeding
  /\ \E n \in 1..Len(wire) :
       /\ buffer' = buffer \o SubSeq(wire, 1, n)
       /\ wire' = SubSeq(wire, n + 1, Len(wire))
  /\ feeding' = TRUE
  /\ UNCHANGED << analyzer, lost, epoch, lastRaw, desynced, out, file >>

\* struct.unpack_from(">H", buffer, offset)
Half(offset) == buffer[offset + 1] * Byte + buffer[offset + 2]

HeaderRead == feeding /\ Len(buffer) >= 4
IsEvent == buffer[1] = Marker
Length == Half(0)
\* Mutant: the padding byte forgotten.
PaddedForgotten == Length

Padded == Length + (Length % 2)

Drop(n) == SubSeq(buffer, n + 1, Len(buffer))

\* Mutant: _last_raw never updated.
YieldForgetsRaw(kind, body, raw) ==
  LET wrapped == IF raw < lastRaw THEN epoch + Wrap ELSE epoch
  IN  /\ epoch' = wrapped
      /\ lastRaw' = lastRaw
      /\ out' = Append(out, Record(kind, body, wrapped + raw))

\* yield a record stamped _extend(raw).
Yield(kind, body, raw) ==
  LET wrapped == IF raw < lastRaw THEN epoch + Wrap ELSE epoch
  IN  /\ epoch' = wrapped
      /\ lastRaw' = raw
      /\ out' = Append(out, Record(kind, body, wrapped + raw))

DecodeEvent ==
  /\ HeaderRead /\ IsEvent
  /\ Yield("event", buffer[2], Half(2))
  /\ buffer' = Drop(4)
  /\ UNCHANGED << analyzer, wire, lost, feeding, desynced, file >>

\* Mutant: no check of the length.
DecodePacketUnchecked ==
  /\ HeaderRead /\ ~IsEvent
  /\ Len(buffer) >= 4 + Padded
  /\ Yield("packet", SubSeq(buffer, 5, 4 + Length), Half(2))
  /\ Writes(Last(out'))
  /\ buffer' = Drop(4 + Padded)
  /\ UNCHANGED << analyzer, wire, lost, feeding, desynced >>

DecodePacket ==
  /\ HeaderRead /\ ~IsEvent
  /\ Length <= MAX_PACKET_SIZE
  /\ Len(buffer) >= 4 + Padded
  /\ Yield("packet", SubSeq(buffer, 5, 4 + Length), Half(2))
  /\ Writes(Last(out'))
  /\ buffer' = Drop(4 + Padded)
  /\ UNCHANGED << analyzer, wire, lost, feeding, desynced >>

\* StreamDesyncError leaves the buffer as it is: the next feed raises again.
Desync ==
  /\ HeaderRead /\ ~IsEvent
  /\ Length > MAX_PACKET_SIZE
  /\ desynced' = TRUE
  /\ feeding' = FALSE
  /\ UNCHANGED << analyzer, wire, lost, buffer, epoch, lastRaw, out, file >>

Return ==
  /\ feeding
  /\ \/ Len(buffer) < 4
     \/ /\ HeaderRead /\ ~IsEvent
        /\ Length <= MAX_PACKET_SIZE
        /\ Len(buffer) < 4 + Padded
  /\ feeding' = FALSE
  /\ UNCHANGED << analyzer, wire, lost, buffer, epoch, lastRaw, desynced, out, file >>

-----------------------------------------------------------------------------
Next ==
  \/ EmitEvent \/ EmitPacket \/ LoseTransfer
  \/ Feed \/ DecodeEvent \/ DecodePacket \/ Desync \/ Return

Spec == Init /\ [][Next]_vars

-----------------------------------------------------------------------------
(* Properties *)

(* No packet is yielded that is longer than a USB packet can be, even when   *)
(* bytes were lost and the stream is parsed out of step; counters stay in    *)
(* their ranges.                                                             *)
TypeOK ==
  /\ now \in Nat /\ epoch \in Nat /\ lastRaw \in 0..(Wrap - 1)
  /\ lost \in 0..MaxLost /\ feeding \in BOOLEAN /\ desynced \in BOOLEAN
  /\ buffer \in Seq(Bytes) /\ wire \in Seq(Bytes)
  /\ \A i \in DOMAIN out :
       /\ out[i].timestamp \in Nat
       /\ out[i].kind = "packet" => Len(out[i].body) <= MAX_PACKET_SIZE

WhatIsIn(records) ==
  [i \in DOMAIN records |-> << records[i].kind, records[i].body >>]

(* However the stream is cut into chunks, the records come out whole, once   *)
(* each and in order, also when their bytes look like markers; when every    *)
(* byte sent has been fed, none is held back.                                *)
ChunksDoNotMatter ==
  lost = 0 =>
    /\ IsPrefix(WhatIsIn(out), WhatIsIn(sent))
    /\ wire = << >> /\ ~feeding => Len(out) = Len(sent) /\ buffer = << >>
    /\ ~desynced

\* The first n records each followed the one before within a wrap period.
WithinWrap(n) ==
  \A i \in 1..n :
    sent[i].timestamp - (IF i = 1 THEN 0 ELSE sent[i - 1].timestamp) < Wrap

(* Timestamps are exact as long as records arrive within a wrap of each      *)
(* other, and never run ahead of the clock or backwards even when they do    *)
(* not.                                                                      *)
TimesExactOrLate ==
  lost = 0 =>
    /\ \A i \in DOMAIN out :
         /\ out[i].timestamp <= sent[i].timestamp
         /\ i > 1 => out[i - 1].timestamp <= out[i].timestamp
         /\ WithinWrap(i) => out[i].timestamp = sent[i].timestamp

FileMicros(frame) == frame.seconds * Million + frame.micros

\* How late a frame's time is, and what makes a microsecond and a tick of that.
Lateness(frame, record) ==
  FileMicros(frame) * TICKS * CLOCK_HZ
    - (Started * CLOCK_HZ + record.timestamp * TICKS) * Million
Microsecond == TICKS * CLOCK_HZ
Tick == Million * CLOCK_HZ

(* The capture file holds every packet yielded and nothing else, with times a *)
(* reader accepts: microseconds within a second and never running backwards.  *)
(* The rounding of the float makes them late by half a tick at most, and that *)
(* and the cut to whole microseconds early by less than both together, as     *)
(* long as no gap before the packet is longer than a wrap.                    *)
FileTellsTime ==
  lost = 0 =>
    /\ Len(file) <= Len(captured)
    /\ \A k \in DOMAIN captured : k \in DOMAIN file <=> captured[k] <= Len(out)
    /\ \A i \in DOMAIN file :
         LET truth == sent[captured[i]]
         IN  /\ file[i].micros < Million
             /\ file[i].data = truth.body
             /\ 2 * Lateness(file[i], truth) <= Tick
             /\ i > 1 => FileMicros(file[i - 1]) <= FileMicros(file[i])
             /\ WithinWrap(captured[i]) =>
                  2 * Lateness(file[i], truth) > -(2 * Microsecond + Tick)
=============================================================================

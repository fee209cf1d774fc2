-------------------------- MODULE StreamDecoderProofs --------------------------
(***************************************************************************)
(* The decoder for streams of any length, cut anywhere, and records of any *)
(* size.  The buffer and the wire hold one behind the other the encodings  *)
(* of the records that are not decoded yet (StreamOK); what the decoder    *)
(* knows of the time is what it knew of the last record (TimesOK); and the *)
(* file is the packets among the records decoded (FileOK).                 *)
(***************************************************************************)
EXTENDS StreamDecoder, SequenceTheorems, TLAPS

-----------------------------------------------------------------------------
(* Numbers in bytes *)

(* Quotient and remainder are what makes up a number.                        *)
LEMMA DivModUnique ==
  ASSUME NEW n \in Int, NEW b \in Int, b > 0,
         NEW q \in Int, NEW r \in 0..(b - 1), n = b * q + r
  PROVE  n \div b = q /\ n % b = r
  OBVIOUS

(* A number is its quotient and its remainder.                               *)
LEMMA DivModOf ==
  ASSUME NEW n \in Nat, NEW b \in Nat, b > 0
  PROVE  /\ n \div b \in Nat /\ n % b \in 0..(b - 1)
         /\ n = b * (n \div b) + (n % b)
<1>. DEFINE q == n \div b
            r == n % b
<1>1. q \in Int /\ r \in 0..(b - 1) /\ n = b * q + r
  OBVIOUS
<1>. HIDE DEF q, r
<1>2. q \in Nat
  <2>1. SUFFICES ASSUME q <= -1 PROVE FALSE
    BY <1>1
  <2>2. b * q <= b * (-1)
    BY <1>1, <2>1
  <2>3. b * q \in Int /\ b * q <= -b
    BY <1>1, <2>2
  <2>. QED
    BY <1>1, <2>3
<1>. QED
  BY <1>1, <1>2, Zenon DEF q, r

(* What pads a length.                                                       *)
LEMMA OddOrEven ==
  ASSUME NEW n \in Nat
  PROVE  n % 2 \in {0, 1}
  OBVIOUS

(* Division keeps an order.                                                  *)
LEMMA DivMonotone ==
  ASSUME NEW x \in Nat, NEW y \in Nat, NEW b \in Nat, b > 0, x <= y
  PROVE  x \div b <= y \div b
<1>. DEFINE q == x \div b
            p == y \div b
<1>1. q \in Nat /\ p \in Nat /\ b * q <= x /\ y <= b * p + (b - 1)
  <2>1. /\ q \in Nat /\ x % b \in 0..(b - 1) /\ x = b * q + (x % b)
        /\ p \in Nat /\ y % b \in 0..(b - 1) /\ y = b * p + (y % b)
    BY DivModOf
  <2>2. b * q \in Int /\ b * p \in Int
    BY <2>1
  <2>. QED
    BY <2>1, <2>2
<1>. HIDE DEF q, p
<1>2. SUFFICES ASSUME q >= p + 1 PROVE FALSE
  BY <1>1 DEF q, p
<1>3. b * q >= b * (p + 1)
  BY <1>1, <1>2
<1>4. b * (p + 1) = b * p + b /\ b * q \in Int /\ b * p \in Int
  BY <1>1
<1>. QED
  BY <1>1, <1>3, <1>4

(* The word made of two bytes.                                               *)
LEMMA WordOfBytes ==
  ASSUME NEW a \in Bytes, NEW c \in Bytes
  PROVE  a * Byte + c \in 0..(Wrap - 1)
<1>1. a \in Nat /\ c \in Nat /\ c < Byte /\ a <= Byte - 1 /\ Byte \in Nat
  BY RadixAssumption DEF Bytes
<1>2. a * Byte <= (Byte - 1) * Byte
  BY <1>1
<1>3. (Byte - 1) * Byte = Byte * Byte - Byte /\ Byte * Byte \in Nat /\ a * Byte \in Nat
  BY <1>1
<1>. QED
  BY <1>1, <1>2, <1>3 DEF Wrap

(* A wrap is longer than nothing.                                            *)
LEMMA WrapPositive == Wrap \in Nat /\ Wrap > 0 /\ 0 \in 0..(Wrap - 1)
<1>1. Byte \in Nat /\ Byte > 1
  BY RadixAssumption
<1>2. Byte * Byte \in Nat /\ Byte * Byte >= Byte * 1
  BY <1>1
<1>. QED
  BY <1>1, <1>2 DEF Wrap

(* A timestamp on the wire is the time within the wrap.                      *)
LEMMA StampBytes ==
  ASSUME NEW t \in Nat
  PROVE  LET a == (t % Wrap) \div Byte
             c == t % Byte
         IN  /\ Stamp(t) = << a, c >> /\ a \in Bytes /\ c \in Bytes
             /\ a * Byte + c = t % Wrap
<1>. DEFINE w == t % Wrap
            e == t \div Wrap
            a == w \div Byte
            c == w % Byte
<1>1. Byte \in Nat /\ Byte > 1
  BY RadixAssumption
<1>2. w \in 0..(Wrap - 1) /\ e \in Nat /\ t = Wrap * e + w
  BY WrapPositive, DivModOf
<1>3. w \in Nat
  BY <1>2, WrapPositive
<1>. HIDE DEF w, e
<1>4. a \in Nat /\ c \in 0..(Byte - 1) /\ w = Byte * a + c
  BY <1>1, <1>3, DivModOf
<1>. HIDE DEF a, c
<1>5. a < Byte
  <2>1. SUFFICES ASSUME a >= Byte PROVE FALSE
    BY <1>1, <1>4
  <2>2. Byte * a >= Byte * Byte
    BY <1>1, <1>4, <2>1
  <2>3. Byte * a \in Int /\ Wrap = Byte * Byte /\ Wrap \in Int
    BY <1>1, <1>4, WrapPositive DEF Wrap
  <2>. QED
    BY <1>2, <1>3, <1>4, <2>2, <2>3
<1>6. t % Byte = c
  <2>1. Byte * e + a \in Int /\ Byte * (Byte * e + a) = Byte * Byte * e + Byte * a
    BY <1>1, <1>2, <1>4
  <2>2. t = Byte * (Byte * e + a) + c
    BY <1>1, <1>2, <1>4, <2>1 DEF Wrap
  <2>3. Byte \in Int /\ Byte > 0 /\ t \in Int
    BY <1>1
  <2>. QED
    BY <1>4, <2>1, <2>2, <2>3, DivModUnique
<1>7. a \in Bytes /\ c \in Bytes /\ a * Byte + c = w
  BY <1>1, <1>4, <1>5 DEF Bytes
<1>. QED
  BY <1>6, <1>7 DEF Stamp, w, a

(* The length of a packet in two bytes, of which the first is no marker.     *)
LEMMA LengthBytes ==
  ASSUME NEW n \in Nat, n <= MAX_PACKET_SIZE
  PROVE  /\ n \div Byte \in Bytes /\ n \div Byte # Marker /\ n % Byte \in Bytes
         /\ (n \div Byte) * Byte + (n % Byte) = n
<1>. DEFINE q == n \div Byte
            r == n % Byte
<1>1. Byte \in Nat /\ Byte > 1
  BY RadixAssumption
<1>2. q \in Nat /\ r \in 0..(Byte - 1) /\ n = Byte * q + r
  BY <1>1, DivModOf
<1>. HIDE DEF q, r
<1>3. q < Byte - 1
  <2>1. SUFFICES ASSUME q >= Byte - 1 PROVE FALSE
    BY <1>1, <1>2
  <2>2. Byte * q >= Byte * (Byte - 1)
    BY <1>1, <1>2, <2>1
  <2>3. Byte * q \in Int /\ Byte * (Byte - 1) = (Byte - 1) * Byte
    BY <1>1, <1>2
  <2>4. (Byte - 1) * Byte \in Int /\ MAX_PACKET_SIZE \in Int
        /\ MAX_PACKET_SIZE < (Byte - 1) * Byte
    BY <1>1, RadixAssumption
  <2>. QED
    BY <1>2, <2>2, <2>3, <2>4
<1>4. q \in Bytes /\ q # Marker /\ r \in Bytes /\ q * Byte + r = n
  BY <1>1, <1>2, <1>3 DEF Bytes, Marker
<1>. QED
  BY <1>4, Zenon DEF q, r

-----------------------------------------------------------------------------
(* Records and their encodings *)

\* What the gateware captures, and what the decoder may make of it.
SentRecords ==
  [kind : {"event"}, body : EventCodes, timestamp : Nat]
    \union [kind : {"packet"}, body : Payloads, timestamp : Nat]
Bodies == {b \in Seq(Bytes) : Len(b) <= MAX_PACKET_SIZE}
OutRecords ==
  [kind : {"event"}, body : Bytes, timestamp : Nat]
    \union [kind : {"packet"}, body : Bodies, timestamp : Nat]

EventBytes(code, t) == << Marker, code >> \o Stamp(t)
PacketBytes(p, t) ==
  << Len(p) \div Byte, Len(p) % Byte >> \o Stamp(t) \o p \o Pad(p)

\* The bytes of a record.
Encoding(r) ==
  IF r.kind = "event" THEN EventBytes(r.body, r.timestamp)
  ELSE PacketBytes(r.body, r.timestamp)

(* An event is four bytes.                                                   *)
LEMMA EventEncoding ==
  ASSUME NEW code \in EventCodes, NEW t \in Nat
  PROVE  LET e == EventBytes(code, t)
         IN  /\ e \in Seq(Bytes) /\ Len(e) = 4
             /\ e[1] = Marker /\ e[2] = code /\ e[3] * Byte + e[4] = t % Wrap
<1>. DEFINE a == (t % Wrap) \div Byte
            c == t % Byte
<1>1. Stamp(t) = << a, c >> /\ a \in Bytes /\ c \in Bytes /\ a * Byte + c = t % Wrap
  BY StampBytes
<1>2. Marker \in Bytes /\ code \in Bytes
  BY RadixAssumption, PayloadAssumption DEF Marker, Bytes
<1>. HIDE DEF a, c
<1>. DEFINE e == << Marker, code >> \o << a, c >>
<1>3. << Marker, code >> \in Seq(Bytes) /\ << a, c >> \in Seq(Bytes)
  BY <1>1, <1>2
<1>4. /\ e \in Seq(Bytes) /\ Len(e) = 4
      /\ e[1] = Marker /\ e[2] = code /\ e[3] = a /\ e[4] = c
  BY <1>3, ConcatProperties
<1>. HIDE DEF e
<1>5. EventBytes(code, t) = e
  BY <1>1 DEF EventBytes, e
<1>. QED
  BY <1>1, <1>4, <1>5

(* The body of a packet follows its header.                                  *)
LEMMA PacketEncoding ==
  ASSUME NEW p \in Payloads, NEW t \in Nat
  PROVE  LET e == PacketBytes(p, t)
         IN  /\ e \in Seq(Bytes) /\ Len(p) \in Nat /\ Len(p) <= MAX_PACKET_SIZE
             /\ p \in Bodies /\ Len(e) = 4 + Len(p) + (Len(p) % 2)
             /\ Len(e) \in Nat /\ Len(e) >= 4
             /\ e[1] # Marker /\ e[1] * Byte + e[2] = Len(p)
             /\ e[3] * Byte + e[4] = t % Wrap
             /\ \A i \in 1..Len(p) : e[4 + i] = p[i]
<1>. DEFINE a == (t % Wrap) \div Byte
            c == t % Byte
            q == Len(p) \div Byte
            r == Len(p) % Byte
            head == << q, r >> \o << a, c >>
<1>1. Stamp(t) = << a, c >> /\ a \in Bytes /\ c \in Bytes /\ a * Byte + c = t % Wrap
  BY StampBytes
<1>2. p \in Seq(Bytes) /\ Len(p) \in Nat /\ Len(p) <= MAX_PACKET_SIZE
  BY PayloadAssumption, LenProperties
<1>3. q \in Bytes /\ q # Marker /\ r \in Bytes /\ q * Byte + r = Len(p)
  BY <1>2, LengthBytes
<1>4. Pad(p) \in Seq(Bytes) /\ Len(Pad(p)) = Len(p) % 2
  <2>1. Marker \in Bytes
    BY RadixAssumption DEF Marker, Bytes
  <2>2. CASE Len(p) % 2 = 1
    BY <2>1, <2>2 DEF Pad
  <2>3. CASE Len(p) % 2 # 1
    BY <1>2, <2>3 DEF Pad
  <2>. QED
    BY <2>2, <2>3
<1>. HIDE DEF a, c, q, r
<1>5. << q, r >> \in Seq(Bytes) /\ << a, c >> \in Seq(Bytes)
  BY <1>1, <1>3
<1>6. /\ head \in Seq(Bytes) /\ Len(head) = 4
      /\ head[1] = q /\ head[2] = r /\ head[3] = a /\ head[4] = c
  BY <1>5, ConcatProperties
<1>. HIDE DEF head
<1>7. /\ head \o p \in Seq(Bytes) /\ Len(head \o p) = 4 + Len(p)
      /\ \A i \in 1..4 : (head \o p)[i] = head[i]
      /\ \A i \in 1..Len(p) : (head \o p)[4 + i] = p[i]
  <2>1. /\ head \o p \in Seq(Bytes) /\ Len(head \o p) = 4 + Len(p)
        /\ \A i \in 1..(4 + Len(p)) :
             (head \o p)[i] = IF i <= 4 THEN head[i] ELSE p[i - 4]
    <3>1. head \in Seq(Bytes) /\ p \in Seq(Bytes) /\ Len(head) = 4
      BY <1>2, <1>6
    <3>2. /\ head \o p \in Seq(Bytes) /\ Len(head \o p) = Len(head) + Len(p)
          /\ \A i \in 1..(Len(head) + Len(p)) :
               (head \o p)[i] = IF i <= Len(head) THEN head[i] ELSE p[i - Len(head)]
      BY <3>1, ConcatProperties, Zenon
    <3>. QED
      BY <3>1, <3>2
  <2>2. ASSUME NEW i \in 1..Len(p)
        PROVE  (head \o p)[4 + i] = p[i]
    <3>1. 4 + i \in 1..(4 + Len(p)) /\ ~(4 + i <= 4) /\ (4 + i) - 4 = i
      BY <1>2
    <3>. QED
      BY <2>1, <3>1
  <2>3. ASSUME NEW i \in 1..4
        PROVE  (head \o p)[i] = head[i]
    <3>1. i \in 1..(4 + Len(p)) /\ i <= 4
      BY <1>2
    <3>. QED
      BY <2>1, <3>1
  <2>. QED
    BY <2>1, <2>2, <2>3
<1>. DEFINE e == (head \o p) \o Pad(p)
<1>8. /\ e \in Seq(Bytes) /\ Len(e) = 4 + Len(p) + (Len(p) % 2)
      /\ \A i \in 1..(4 + Len(p)) : e[i] = (head \o p)[i]
  <2>1. Len(p) % 2 \in Nat
    BY <1>2
  <2>. QED
    BY <1>2, <1>4, <1>7, <2>1, ConcatProperties
<1>9. PacketBytes(p, t) = e
  BY <1>1 DEF PacketBytes, q, r, head
<1>. HIDE DEF e
<1>10. \A i \in 1..4 : e[i] = head[i]
  BY <1>2, <1>7, <1>8
<1>11. \A i \in 1..Len(p) : e[4 + i] = p[i]
  BY <1>2, <1>7, <1>8
<1>12. Len(e) \in Nat /\ Len(e) >= 4
  <2>1. Len(p) % 2 \in Nat
    BY <1>2, OddOrEven
  <2>. QED
    BY <1>2, <1>8, <2>1
<1>. QED
  BY <1>1, <1>2, <1>3, <1>6, <1>8, <1>9, <1>10, <1>11, <1>12 DEF Bodies

(* Every record takes up four bytes and more.                                *)
LEMMA EncodingTyped ==
  ASSUME NEW r \in SentRecords
  PROVE  Encoding(r) \in Seq(Bytes) /\ Len(Encoding(r)) \in Nat /\ Len(Encoding(r)) >= 4
<1>1. CASE r.kind = "event"
  <2>1. r.body \in EventCodes /\ r.timestamp \in Nat
    BY <1>1 DEF SentRecords
  <2>. QED
    BY <1>1, <2>1, EventEncoding DEF Encoding
<1>2. CASE r.kind # "event"
  <2>1. r.body \in Payloads /\ r.timestamp \in Nat
    BY <1>2 DEF SentRecords
  <2>2. LET e == PacketBytes(r.body, r.timestamp)
        IN  e \in Seq(Bytes) /\ Len(e) \in Nat /\ Len(e) >= 4
    BY <2>1, PacketEncoding
  <2>. QED
    BY <1>2, <2>2 DEF Encoding
<1>. QED
  BY <1>1, <1>2

-----------------------------------------------------------------------------
(* Types *)

TypeInv == TypeOK /\ sent \in Seq(SentRecords) /\ out \in Seq(OutRecords)

(* What a header can hold.                                                   *)
LEMMA HeaderTypes ==
  ASSUME TypeInv, HeaderRead
  PROVE  /\ Len(buffer) \in Nat /\ Len(buffer) >= 4
         /\ \A i \in 1..4 : buffer[i] \in Bytes
         /\ Half(0) = buffer[1] * Byte + buffer[2] /\ Half(0) \in 0..(Wrap - 1)
         /\ Half(2) = buffer[3] * Byte + buffer[4] /\ Half(2) \in 0..(Wrap - 1)
         /\ Length \in Nat /\ Padded \in Nat /\ Padded >= Length
<1>1. /\ Len(buffer) \in Nat /\ Len(buffer) >= 4
      /\ \A i \in 1..4 : buffer[i] \in Bytes
  BY DEF TypeInv, TypeOK, HeaderRead
<1>2. Half(0) = buffer[1] * Byte + buffer[2] /\ Half(2) = buffer[3] * Byte + buffer[4]
  BY DEF Half
<1>3. Half(0) \in 0..(Wrap - 1) /\ Half(2) \in 0..(Wrap - 1)
  <2>1. buffer[1] \in Bytes /\ buffer[2] \in Bytes /\ buffer[3] \in Bytes /\ buffer[4] \in Bytes
    BY <1>1
  <2>2. /\ buffer[1] * Byte + buffer[2] \in 0..(Wrap - 1)
        /\ buffer[3] * Byte + buffer[4] \in 0..(Wrap - 1)
    BY <2>1, WordOfBytes
  <2>. QED
    BY <1>2, <2>2
<1>4. Length \in Nat
  BY <1>3, WrapPositive DEF Length
<1>5. Padded \in Nat /\ Padded >= Length
  BY <1>4, OddOrEven DEF Padded
<1>. QED
  BY <1>1, <1>2, <1>3, <1>4, <1>5

(* What is left of the buffer.                                               *)
LEMMA DropFacts ==
  ASSUME TypeInv, NEW n \in 0..Len(buffer)
  PROVE  /\ Drop(n) \in Seq(Bytes) /\ Len(Drop(n)) = Len(buffer) - n
         /\ \A i \in 1..(Len(buffer) - n) : Drop(n)[i] = buffer[n + i]
<1>1. buffer \in Seq(Bytes) /\ Len(buffer) \in Nat /\ n \in Nat /\ n <= Len(buffer)
  BY DEF TypeInv, TypeOK
<1>2. n + 1 \in Int /\ Len(buffer) \in Int
  BY <1>1
<1>3. \A i \in (n + 1)..Len(buffer) : buffer[i] \in Bytes
  BY <1>1
<1>4. /\ Drop(n) \in Seq(Bytes)
      /\ Len(Drop(n)) = IF n + 1 <= Len(buffer) THEN Len(buffer) - (n + 1) + 1 ELSE 0
      /\ \A i \in 1..(Len(buffer) - (n + 1) + 1) : Drop(n)[i] = buffer[(n + 1) + i - 1]
  BY <1>2, <1>3, SubSeqProperties DEF Drop
<1>5. Len(buffer) - (n + 1) + 1 = Len(buffer) - n
  BY <1>1
<1>6. ASSUME NEW i \in 1..(Len(buffer) - n)
      PROVE  Drop(n)[i] = buffer[n + i]
  <2>1. (n + 1) + i - 1 = n + i
    BY <1>1
  <2>. QED
    BY <1>4, <1>5, <2>1
<1>7. Len(Drop(n)) = Len(buffer) - n
  <2>1. CASE n + 1 <= Len(buffer)
    BY <1>4, <1>5, <2>1
  <2>2. CASE ~(n + 1 <= Len(buffer))
    <3>1. Len(Drop(n)) = 0
      BY <1>4, <2>2
    <3>. QED
      BY <1>1, <2>2, <3>1
  <2>. QED
    BY <2>1, <2>2
<1>. QED
  BY <1>4, <1>6, <1>7

(* A record is stamped with the epoch, and remembered by its raw time.       *)
LEMMA YieldFacts ==
  ASSUME TypeInv, NEW kind, NEW body, NEW raw \in 0..(Wrap - 1),
         Yield(kind, body, raw)
  PROVE  /\ epoch' = (IF raw < lastRaw THEN epoch + Wrap ELSE epoch)
         /\ epoch' \in Nat /\ lastRaw' = raw /\ epoch' + raw \in Nat
         /\ out' = Append(out, Record(kind, body, epoch' + raw))
<1>1. epoch' = (IF raw < lastRaw THEN epoch + Wrap ELSE epoch) /\ lastRaw' = raw
      /\ out' = Append(out, Record(kind, body, epoch' + raw))
  BY DEF Yield
<1>2. epoch \in Nat /\ Wrap \in Nat /\ raw \in Nat
  BY WrapPositive DEF TypeInv, TypeOK
<1>. QED
  BY <1>1, <1>2

(* Its type, and that it keeps those of the records before.                  *)
LEMMA OutTypes ==
  ASSUME out \in Seq(OutRecords), NEW r \in OutRecords, out' = Append(out, r)
  PROVE  /\ out' \in Seq(OutRecords) /\ Len(out') = Len(out) + 1
         /\ out'[Len(out) + 1] = r
         /\ \A i \in 1..Len(out) : out'[i] = out[i]
OBVIOUS

(* Every record yielded has a time, and no packet is too long.               *)
LEMMA OutTyped ==
  ASSUME NEW s \in Seq(OutRecords)
  PROVE  \A i \in DOMAIN s :
           /\ s[i].timestamp \in Nat
           /\ s[i].kind = "packet" => Len(s[i].body) <= MAX_PACKET_SIZE
<1>. SUFFICES ASSUME NEW i \in DOMAIN s
              PROVE  /\ s[i].timestamp \in Nat
                     /\ s[i].kind = "packet" => Len(s[i].body) <= MAX_PACKET_SIZE
  OBVIOUS
<1>1. s[i] \in OutRecords
  OBVIOUS
<1>. QED
  BY <1>1 DEF OutRecords, Bodies

(* An event out of the buffer, ...                                           *)
LEMMA EventTypes ==
  ASSUME TypeInv, DecodeEvent
  PROVE  /\ Half(2) \in 0..(Wrap - 1) /\ Len(Drop(4)) = Len(buffer) - 4
         /\ Record("event", buffer[2], epoch' + Half(2)) \in OutRecords
         /\ out' = Append(out, Record("event", buffer[2], epoch' + Half(2)))
         /\ TypeInv'
<1>1. Half(2) \in 0..(Wrap - 1) /\ Len(buffer) >= 4 /\ buffer[2] \in Bytes
      /\ 4 \in 0..Len(buffer)
  BY HeaderTypes DEF DecodeEvent
<1>2. /\ epoch' \in Nat /\ lastRaw' = Half(2) /\ epoch' + Half(2) \in Nat
      /\ out' = Append(out, Record("event", buffer[2], epoch' + Half(2)))
  BY <1>1, YieldFacts DEF DecodeEvent
<1>3. Record("event", buffer[2], epoch' + Half(2)) \in OutRecords
  BY <1>1, <1>2 DEF Record, OutRecords
<1>4. out' \in Seq(OutRecords)
  BY <1>2, <1>3, OutTypes DEF TypeInv
<1>5. buffer' \in Seq(Bytes) /\ Len(Drop(4)) = Len(buffer) - 4
  BY <1>1, DropFacts DEF DecodeEvent
<1>6. \A i \in DOMAIN out' :
        /\ out'[i].timestamp \in Nat
        /\ out'[i].kind = "packet" => Len(out'[i].body) <= MAX_PACKET_SIZE
  BY <1>4, OutTyped
<1>. QED
  BY <1>1, <1>2, <1>3, <1>4, <1>5, <1>6 DEF TypeInv, TypeOK, DecodeEvent, analyzer

(* ... a packet, ...                                                         *)
LEMMA PacketTypes ==
  ASSUME TypeInv, DecodePacket
  PROVE  LET data == SubSeq(buffer, 5, 4 + Length)
             r == Record("packet", data, epoch' + Half(2))
         IN  /\ Half(2) \in 0..(Wrap - 1) /\ Len(data) = Length
             /\ \A i \in 1..Length : data[i] = buffer[4 + i]
             /\ data \in Seq(Bytes) /\ r \in OutRecords /\ out' = Append(out, r)
             /\ TypeInv'
<1>. DEFINE data == SubSeq(buffer, 5, 4 + Length)
            r == Record("packet", data, epoch' + Half(2))
<1>1. /\ Half(2) \in 0..(Wrap - 1) /\ Len(buffer) \in Nat /\ Length \in Nat
      /\ Length <= MAX_PACKET_SIZE /\ Padded \in Nat /\ Padded >= Length
      /\ 4 + Padded \in 0..Len(buffer) /\ 4 + Length <= Len(buffer)
  BY HeaderTypes DEF DecodePacket
<1>2. /\ data \in Seq(Bytes) /\ Len(data) = Length
      /\ \A i \in 1..Length : data[i] = buffer[4 + i]
  <2>1. 5 \in Int /\ 4 + Length \in Int /\ \A i \in 5..(4 + Length) : buffer[i] \in Bytes
    BY <1>1 DEF TypeInv, TypeOK
  <2>2. /\ data \in Seq(Bytes)
        /\ Len(data) = IF 5 <= 4 + Length THEN (4 + Length) - 5 + 1 ELSE 0
        /\ \A i \in 1..((4 + Length) - 5 + 1) : data[i] = buffer[5 + i - 1]
    BY <2>1, SubSeqProperties
  <2>3. (4 + Length) - 5 + 1 = Length /\ \A i \in 1..Length : 5 + i - 1 = 4 + i
    BY <1>1
  <2>. QED
    BY <1>1, <2>2, <2>3
<1>. HIDE DEF data
<1>3. /\ epoch' \in Nat /\ lastRaw' = Half(2) /\ epoch' + Half(2) \in Nat
      /\ out' = Append(out, r)
  BY <1>1, YieldFacts DEF DecodePacket, data
<1>4. r \in OutRecords
  BY <1>1, <1>2, <1>3 DEF Record, OutRecords, Bodies
<1>5. out' \in Seq(OutRecords)
  BY <1>3, <1>4, OutTypes DEF TypeInv
<1>6. buffer' \in Seq(Bytes)
  BY <1>1, DropFacts DEF DecodePacket
<1>7. \A i \in DOMAIN out' :
        /\ out'[i].timestamp \in Nat
        /\ out'[i].kind = "packet" => Len(out'[i].body) <= MAX_PACKET_SIZE
  BY <1>5, OutTyped
<1>8. TypeInv'
  BY <1>1, <1>3, <1>5, <1>6, <1>7 DEF TypeInv, TypeOK, DecodePacket, analyzer
<1>. QED
  BY <1>1, <1>2, <1>3, <1>4, <1>8 DEF data

(* ... and a record on the wire.                                             *)
LEMMA EmitFacts ==
  ASSUME TypeInv, EmitEvent \/ EmitPacket
  PROVE  \E r \in SentRecords :
           /\ now' \in Nat /\ now' >= now /\ r.timestamp = now'
           /\ sent' = Append(sent, r) /\ wire' = wire \o Encoding(r)
           /\ Encoding(r) \in Seq(Bytes)
           /\ captured' = IF r.kind = "packet" THEN Append(captured, Len(sent) + 1)
                          ELSE captured
           /\ UNCHANGED << lost, decoder >>
<1>0. now \in Nat /\ \A gap \in Gaps : now + gap \in Nat /\ now + gap >= now
  BY PayloadAssumption DEF TypeInv, TypeOK
<1>1. CASE EmitEvent
  <2>1. PICK code \in EventCodes, gap \in Gaps :
          Emit(<< Marker, code >> \o Stamp(now + gap), "event", code, gap)
    BY <1>1 DEF EmitEvent
  <2>. DEFINE r == Record("event", code, now + gap)
  <2>2. r \in SentRecords /\ r.kind = "event" /\ r.timestamp = now + gap
    BY <1>0 DEF SentRecords, Record
  <2>3. Encoding(r) = << Marker, code >> \o Stamp(now + gap)
    BY DEF Encoding, EventBytes, Record
  <2>4. Encoding(r) \in Seq(Bytes)
    BY <2>2, EncodingTyped
  <2>5. /\ now' = now + gap /\ sent' = Append(sent, r) /\ wire' = wire \o Encoding(r)
        /\ captured' = captured /\ UNCHANGED << lost, decoder >>
    BY <2>1, <2>3 DEF Emit
  <2>. HIDE DEF r
  <2>. QED
    BY <1>0, <2>2, <2>4, <2>5
<1>2. CASE EmitPacket
  <2>1. PICK p \in Payloads, gap \in Gaps :
          Emit(PacketBytes(p, now + gap), "packet", p, gap)
    BY <1>2 DEF EmitPacket, PacketBytes
  <2>. DEFINE r == Record("packet", p, now + gap)
  <2>2. r \in SentRecords /\ r.kind = "packet" /\ r.timestamp = now + gap
    BY <1>0 DEF SentRecords, Record
  <2>3. Encoding(r) = PacketBytes(p, now + gap)
    BY DEF Encoding, Record
  <2>4. Encoding(r) \in Seq(Bytes)
    BY <2>2, EncodingTyped
  <2>5. /\ now' = now + gap /\ sent' = Append(sent, r) /\ wire' = wire \o Encoding(r)
        /\ captured' = Append(captured, Len(sent) + 1) /\ UNCHANGED << lost, decoder >>
    BY <2>1, <2>3 DEF Emit
  <2>. HIDE DEF r
  <2>. QED
    BY <1>0, <2>2, <2>4, <2>5
<1>. QED
  BY <1>1, <1>2

(* What a transfer takes off the wire.                                       *)
LEMMA WireFacts ==
  ASSUME TypeInv, NEW n \in 1..Len(wire)
  PROVE  /\ SubSeq(wire, 1, n) \in Seq(Bytes) /\ Len(SubSeq(wire, 1, n)) = n
         /\ SubSeq(wire, n + 1, Len(wire)) \in Seq(Bytes)
         /\ Len(SubSeq(wire, n + 1, Len(wire))) = Len(wire) - n
         /\ \A i \in 1..n : SubSeq(wire, 1, n)[i] = wire[i]
         /\ \A i \in 1..(Len(wire) - n) : SubSeq(wire, n + 1, Len(wire))[i] = wire[n + i]
<1>. DEFINE front == SubSeq(wire, 1, n)
            back == SubSeq(wire, n + 1, Len(wire))
<1>1. wire \in Seq(Bytes) /\ Len(wire) \in Nat /\ n \in Nat /\ 1 <= n /\ n <= Len(wire)
  BY DEF TypeInv, TypeOK
<1>2. \A i \in 1..Len(wire) : wire[i] \in Bytes
  BY <1>1
<1>3. /\ front \in Seq(Bytes)
      /\ Len(front) = IF 1 <= n THEN n - 1 + 1 ELSE 0
      /\ \A i \in 1..(n - 1 + 1) : front[i] = wire[1 + i - 1]
  <2>1. 1 \in Int /\ n \in Int /\ \A i \in 1..n : wire[i] \in Bytes
    BY <1>1, <1>2
  <2>. QED
    BY <2>1, SubSeqProperties
<1>4. /\ back \in Seq(Bytes)
      /\ Len(back) = IF n + 1 <= Len(wire) THEN Len(wire) - (n + 1) + 1 ELSE 0
      /\ \A i \in 1..(Len(wire) - (n + 1) + 1) : back[i] = wire[(n + 1) + i - 1]
  <2>1. n + 1 \in Int /\ Len(wire) \in Int /\ \A i \in (n + 1)..Len(wire) : wire[i] \in Bytes
    BY <1>1, <1>2
  <2>. QED
    BY <2>1, SubSeqProperties
<1>5. n - 1 + 1 = n /\ Len(wire) - (n + 1) + 1 = Len(wire) - n
  BY <1>1
<1>. HIDE DEF front, back
<1>6. /\ front \in Seq(Bytes) /\ Len(front) = n
      /\ \A i \in 1..n : front[i] = wire[i]
  <2>1. ASSUME NEW i \in 1..n
        PROVE  front[i] = wire[i]
    <3>1. 1 + i - 1 = i
      BY <1>1
    <3>. QED
      BY <1>3, <1>5, <3>1
  <2>. QED
    BY <1>1, <1>3, <1>5, <2>1
<1>7. /\ back \in Seq(Bytes) /\ Len(back) = Len(wire) - n
      /\ \A i \in 1..(Len(wire) - n) : back[i] = wire[n + i]
  <2>1. ASSUME NEW i \in 1..(Len(wire) - n)
        PROVE  back[i] = wire[n + i]
    <3>1. (n + 1) + i - 1 = n + i
      BY <1>1
    <3>. QED
      BY <1>4, <1>5, <3>1
  <2>2. Len(back) = Len(wire) - n
    <3>1. CASE n + 1 <= Len(wire)
      BY <1>4, <1>5, <3>1
    <3>2. CASE ~(n + 1 <= Len(wire))
      <4>1. Len(back) = 0
        BY <1>4, <3>2
      <4>. QED
        BY <1>1, <3>2, <4>1
    <3>. QED
      BY <3>1, <3>2
  <2>. QED
    BY <1>4, <2>1, <2>2
<1>. QED
  BY <1>6, <1>7 DEF front, back

(* A capture starts in its types ...                                         *)
LEMMA InitTypes == Init => TypeInv
<1>. SUFFICES ASSUME Init PROVE TypeInv
  OBVIOUS
<1>1. 0 \in 0..MaxLost /\ 0 \in 0..(Wrap - 1)
  BY LossAssumption, WrapPositive
<1>2. << >> \in Seq(Bytes) /\ << >> \in Seq(SentRecords) /\ << >> \in Seq(OutRecords)
  OBVIOUS
<1>3. \A i \in DOMAIN out :
        /\ out[i].timestamp \in Nat
        /\ out[i].kind = "packet" => Len(out[i].body) <= MAX_PACKET_SIZE
  BY <1>2, OutTyped DEF Init
<1>. QED
  BY <1>1, <1>2, <1>3 DEF Init, TypeInv, TypeOK

(* ... and keeps them.                                                       *)
LEMMA NextTypes == TypeInv /\ [Next]_vars => TypeInv'
<1>. SUFFICES ASSUME TypeInv, [Next]_vars PROVE TypeInv'
  OBVIOUS
<1>1. CASE EmitEvent \/ EmitPacket
  <2>1. PICK r \in SentRecords :
          /\ now' \in Nat /\ sent' = Append(sent, r) /\ wire' = wire \o Encoding(r)
          /\ Encoding(r) \in Seq(Bytes) /\ UNCHANGED << lost, decoder >>
    BY <1>1, EmitFacts
  <2>2. sent' \in Seq(SentRecords)
    BY <2>1 DEF TypeInv
  <2>3. wire' \in Seq(Bytes)
    BY <2>1, ConcatProperties DEF TypeInv, TypeOK
  <2>. QED
    BY <2>1, <2>2, <2>3 DEF TypeInv, TypeOK, decoder
<1>2. CASE LoseTransfer
  <2>1. PICK n \in 1..Len(wire) : wire' = SubSeq(wire, n + 1, Len(wire))
    BY <1>2 DEF LoseTransfer
  <2>2. wire' \in Seq(Bytes)
    BY <2>1, WireFacts
  <2>3. lost' \in 0..MaxLost
    BY <1>2, LossAssumption DEF LoseTransfer, TypeInv, TypeOK
  <2>. QED
    BY <1>2, <2>2, <2>3 DEF LoseTransfer, TypeInv, TypeOK, decoder, analyzer
<1>3. CASE Feed
  <2>1. PICK n \in 1..Len(wire) :
          /\ buffer' = buffer \o SubSeq(wire, 1, n)
          /\ wire' = SubSeq(wire, n + 1, Len(wire))
    BY <1>3 DEF Feed
  <2>2. wire' \in Seq(Bytes) /\ SubSeq(wire, 1, n) \in Seq(Bytes)
    BY <2>1, WireFacts
  <2>3. buffer' \in Seq(Bytes)
    BY <2>1, <2>2, ConcatProperties DEF TypeInv, TypeOK
  <2>. QED
    BY <1>3, <2>2, <2>3 DEF Feed, TypeInv, TypeOK, analyzer
<1>4. CASE DecodeEvent
  BY <1>4, EventTypes
<1>5. CASE DecodePacket
  BY <1>5, PacketTypes
<1>6. CASE Desync \/ Return \/ UNCHANGED vars
  BY <1>6 DEF Desync, Return, vars, TypeInv, TypeOK, analyzer, decoder
<1>. QED
  BY <1>1, <1>2, <1>3, <1>4, <1>5, <1>6 DEF Next

(* The decoder keeps its types, and no packet is longer than a packet can    *)
(* be, whatever was lost and however far out of step the stream is.          *)
THEOREM DecoderTypeCorrect == Spec => []TypeOK
<1>1. TypeInv => TypeOK
  BY DEF TypeInv
<1>. QED
  BY <1>1, InitTypes, NextTypes, PTL DEF Spec

-----------------------------------------------------------------------------
(* The stream *)

\* What the analyzer wrote and the decoder has not decoded.
Stream == buffer \o wire

\* The records that are not decoded lie one behind the other: record k ends
\* f[k] bytes from the start of everything that was sent.
Laid(f) ==
  /\ f \in [Nat -> Nat]
  /\ f[Len(sent)] = f[Len(out)] + Len(Stream)
  /\ \A j, k \in Len(out)..Len(sent) : j <= k => f[j] <= f[k]
  /\ \A k \in (Len(out) + 1)..Len(sent) :
       /\ f[k] = f[k - 1] + Len(Encoding(sent[k]))
       /\ \A i \in 1..Len(Encoding(sent[k])) :
            Stream[(f[k - 1] - f[Len(out)]) + i] = Encoding(sent[k])[i]

\* As long as nothing was lost.
StreamOK ==
  lost = 0 =>
    /\ Len(out) <= Len(sent) /\ ~desynced
    /\ \A i \in 1..Len(out) : out[i].kind = sent[i].kind /\ out[i].body = sent[i].body
    /\ \E f : Laid(f)
    /\ ~feeding /\ Len(out) < Len(sent) => Len(buffer) < Len(Encoding(sent[Len(out) + 1]))

(* Two sequences of bytes, one behind the other.                             *)
LEMMA Joined ==
  ASSUME NEW s \in Seq(Bytes), NEW t \in Seq(Bytes)
  PROVE  /\ s \o t \in Seq(Bytes) /\ Len(s) \in Nat /\ Len(t) \in Nat
         /\ Len(s \o t) = Len(s) + Len(t)
         /\ \A i \in 1..Len(s) : (s \o t)[i] = s[i]
         /\ \A i \in 1..Len(t) : (s \o t)[Len(s) + i] = t[i]
<1>1. /\ s \o t \in Seq(Bytes) /\ Len(s \o t) = Len(s) + Len(t)
      /\ \A i \in 1..(Len(s) + Len(t)) :
           (s \o t)[i] = IF i <= Len(s) THEN s[i] ELSE t[i - Len(s)]
  BY ConcatProperties
<1>2. Len(s) \in Nat /\ Len(t) \in Nat
  OBVIOUS
<1>3. ASSUME NEW i \in 1..Len(s)
      PROVE  (s \o t)[i] = s[i]
  <2>1. i \in 1..(Len(s) + Len(t)) /\ i <= Len(s)
    BY <1>2
  <2>. QED
    BY <1>1, <2>1
<1>4. ASSUME NEW i \in 1..Len(t)
      PROVE  (s \o t)[Len(s) + i] = t[i]
  <2>1. /\ Len(s) + i \in 1..(Len(s) + Len(t)) /\ ~(Len(s) + i <= Len(s))
        /\ (Len(s) + i) - Len(s) = i
    BY <1>2
  <2>. QED
    BY <1>1, <2>1
<1>. QED
  BY <1>1, <1>2, <1>3, <1>4

(* Where three sequences of bytes are cut makes no difference.               *)
LEMMA Reassociated ==
  ASSUME NEW s \in Seq(Bytes), NEW t \in Seq(Bytes), NEW u \in Seq(Bytes)
  PROVE  (s \o t) \o u = s \o (t \o u)
  BY ConcatAssociative

(* The lengths and numbers everything is about.                              *)
LEMMA StreamTypes ==
  ASSUME TypeInv
  PROVE  /\ Stream \in Seq(Bytes) /\ Len(Stream) = Len(buffer) + Len(wire)
         /\ Len(buffer) \in Nat /\ Len(wire) \in Nat /\ Len(Stream) \in Nat
         /\ Len(out) \in Nat /\ Len(sent) \in Nat
         /\ \A i \in 1..Len(buffer) : Stream[i] = buffer[i]
         /\ \A k \in 1..Len(sent) : sent[k] \in SentRecords
<1>1. buffer \in Seq(Bytes) /\ wire \in Seq(Bytes)
      /\ out \in Seq(OutRecords) /\ sent \in Seq(SentRecords)
  BY DEF TypeInv, TypeOK
<1>2. /\ Stream \in Seq(Bytes) /\ Len(Stream) = Len(buffer) + Len(wire)
      /\ Len(buffer) \in Nat /\ Len(wire) \in Nat
      /\ \A i \in 1..Len(buffer) : Stream[i] = buffer[i]
  BY <1>1, Joined DEF Stream
<1>3. Len(out) \in Nat /\ Len(sent) \in Nat
      /\ \A k \in 1..Len(sent) : sent[k] \in SentRecords
  BY <1>1
<1>. QED
  BY <1>2, <1>3

\* A record is sent, a chunk moves from the wire to the buffer, bytes leave it.
Sends(r) ==
  sent' = Append(sent, r) /\ wire' = wire \o Encoding(r) /\ UNCHANGED decoder
Takes(n) ==
  buffer' = buffer \o SubSeq(wire, 1, n) /\ wire' = SubSeq(wire, n + 1, Len(wire))
Drops(d) == buffer' = Drop(d) /\ wire' = wire

(* A record that is sent is laid behind the others.                          *)
LEMMA EmitLaid ==
  ASSUME TypeInv, Len(out) <= Len(sent), NEW f, Laid(f), NEW r \in SentRecords, Sends(r)
  PROVE  \E g : Laid(g)'
<1>. DEFINE n == Len(out)
            m == Len(sent)
            e == Encoding(r)
<1>1. n \in Nat /\ m \in Nat /\ n <= m /\ Len(Stream) \in Nat
  BY StreamTypes
<1>2. e \in Seq(Bytes) /\ Len(e) \in Nat
  BY EncodingTyped
<1>3. /\ out' = out /\ Len(sent') = m + 1 /\ sent'[m + 1] = r
      /\ \A k \in 1..m : sent'[k] = sent[k]
  BY DEF Sends, decoder, TypeInv
<1>4. Stream' = Stream \o e
  <2>1. buffer \in Seq(Bytes) /\ wire \in Seq(Bytes) /\ e \in Seq(Bytes)
    BY <1>2 DEF TypeInv, TypeOK
  <2>2. (buffer \o wire) \o e = buffer \o (wire \o e)
    BY <2>1, Reassociated
  <2>. QED
    BY <2>2 DEF Stream, Sends, decoder
<1>5. /\ Len(Stream') = Len(Stream) + Len(e)
      /\ \A i \in 1..Len(Stream) : Stream'[i] = Stream[i]
      /\ \A i \in 1..Len(e) : Stream'[Len(Stream) + i] = e[i]
  <2>1. Stream \in Seq(Bytes)
    BY StreamTypes
  <2>. QED
    BY <1>2, <1>4, <2>1, Joined
<1>6. f \in [Nat -> Nat]
  BY DEF Laid
<1>6a. f[m] = f[n] + Len(Stream)
  BY DEF Laid
<1>6b. \A j, k \in n..m : j <= k => f[j] <= f[k]
  BY DEF Laid
<1>6c. \A k \in (n + 1)..m :
         /\ f[k] = f[k - 1] + Len(Encoding(sent[k]))
         /\ \A i \in 1..Len(Encoding(sent[k])) :
              Stream[(f[k - 1] - f[n]) + i] = Encoding(sent[k])[i]
  BY DEF Laid
<1>. HIDE DEF n, m, e
<1>0. m \in Nat /\ m + 1 \in Nat /\ f[m] \in Nat /\ f[n] \in Nat
  <2>1. m \in Nat /\ n \in Nat /\ m + 1 \in Nat
    BY <1>1
  <2>2. \A k \in Nat : f[k] \in Nat
    BY <1>6, Zenon
  <2>. QED
    BY <2>1, <2>2, Zenon
<1>0a. f[m] + Len(e) \in Nat
  BY <1>0, <1>2
<1>7. PICK g : /\ g \in [Nat -> Nat] /\ g[m + 1] = f[m] + Len(e)
               /\ \A k \in Nat : k # m + 1 => g[k] = f[k]
  <2>. DEFINE h == [f EXCEPT ![m + 1] = f[m] + Len(e)]
  <2>1. /\ h \in [Nat -> Nat] /\ h[m + 1] = f[m] + Len(e)
        /\ \A k \in Nat : k # m + 1 => h[k] = f[k]
    BY <1>0, <1>0a, <1>6
  <2>. QED
    BY <2>1
<1>7a. \A k \in n..m : k \in Nat /\ g[k] = f[k]
  <2>. SUFFICES ASSUME NEW k \in n..m PROVE k \in Nat /\ g[k] = f[k]
    OBVIOUS
  <2>1. k \in Nat /\ k # m + 1
    BY <1>1
  <2>. QED
    BY <1>7, <2>1
<1>8. g[m + 1] = g[n] + Len(Stream')
  <2>1. n \in n..m
    BY <1>1
  <2>2. g[n] = f[n]
    BY <1>7a, <2>1
  <2>. QED
    <3>1. Len(Stream') = Len(Stream) + Len(e) /\ g[m + 1] = f[m] + Len(e)
          /\ Len(e) \in Nat /\ Len(Stream) \in Nat
      BY <1>1, <1>2, <1>5, <1>7
    <3>2. g[m + 1] = g[n] + (Len(Stream) + Len(e))
      BY <1>0, <1>6a, <2>2, <3>1
    <3>. QED
      BY <3>1, <3>2
<1>9. \A j, k \in n..(m + 1) : j <= k => g[j] <= g[k]
  <2>. SUFFICES ASSUME NEW j \in n..(m + 1), NEW k \in n..(m + 1), j <= k
                PROVE  g[j] <= g[k]
    OBVIOUS
  <2>0. g[j] \in Nat /\ g[k] \in Nat
    <3>1. j \in Nat /\ k \in Nat
      BY <1>1
    <3>. QED
      BY <1>7, <3>1
  <2>1. CASE k <= m
    <3>1. j \in n..m /\ k \in n..m
      BY <1>1, <2>1
    <3>. QED
      BY <1>6b, <1>7a, <3>1
  <2>2. CASE k = m + 1 /\ j = m + 1
    BY <2>0, <2>2
  <2>3. CASE k = m + 1 /\ j <= m
    <3>1. j \in n..m /\ m \in n..m /\ j <= m
      BY <1>1, <2>3
    <3>2. g[j] = f[j] /\ f[j] <= f[m]
      BY <1>6b, <1>7a, <3>1
    <3>3. g[k] = f[m] + Len(e)
      BY <1>7, <2>3
    <3>. QED
      BY <1>0, <1>2, <2>0, <3>2, <3>3
  <2>. QED
    BY <1>1, <2>1, <2>2, <2>3
<1>10. ASSUME NEW k \in (n + 1)..(m + 1)
       PROVE  /\ g[k] = g[k - 1] + Len(Encoding(sent'[k]))
              /\ \A i \in 1..Len(Encoding(sent'[k])) :
                   Stream'[(g[k - 1] - g[n]) + i] = Encoding(sent'[k])[i]
  <2>0. n \in n..m /\ g[n] = f[n]
    BY <1>1, <1>7a
  <2>1. CASE k <= m
    <3>1. k \in (n + 1)..m /\ k \in n..m /\ k - 1 \in n..m /\ k \in 1..m /\ m \in n..m
          /\ k - 1 \in Nat /\ k \in Nat
      BY <1>1, <2>1
    <3>. DEFINE c == Encoding(sent[k])
    <3>2. sent'[k] = sent[k] /\ g[k] = f[k] /\ g[k - 1] = f[k - 1]
      BY <1>3, <1>7a, <3>1
    <3>3. /\ f[k] = f[k - 1] + Len(c)
          /\ \A i \in 1..Len(c) : Stream[(f[k - 1] - f[n]) + i] = c[i]
      BY <1>6c, <3>1
    <3>3a. f[k] <= f[m] /\ f[n] <= f[k - 1]
      <4>1. k <= m /\ n <= k - 1
        BY <1>1, <2>1
      <4>. QED
        BY <1>6b, <2>0, <3>1, <4>1
    <3>4. c \in Seq(Bytes) /\ Len(c) \in Nat
      BY <3>1, EncodingTyped, StreamTypes DEF m
    <3>. HIDE DEF c
    <3>5. ASSUME NEW i \in 1..Len(c)
          PROVE  Stream'[(g[k - 1] - g[n]) + i] = c[i]
      <4>0. f[k] \in Nat /\ f[k - 1] \in Nat
        BY <1>6, <3>1
      <4>1. f[k] = f[k - 1] + Len(c) /\ i \in Nat /\ 1 <= i /\ i <= Len(c)
        BY <3>3, <3>4
      <4>2. (f[k - 1] - f[n]) + i \in 1..Len(Stream)
        <5>. DEFINE L == Len(Stream)
                    K == Len(c)
        <5>1. L \in Nat /\ K \in Nat /\ i \in Nat /\ 1 <= i /\ i <= K
          BY <1>1, <3>4, <4>1
        <5>2. f[k] = f[k - 1] + K /\ f[m] = f[n] + L
          BY <1>6a, <4>1
        <5>. HIDE DEF L, K
        <5>3. (f[k - 1] - f[n]) + i >= 1
          BY <1>0, <3>3a, <4>0, <5>1
        <5>4. (f[k - 1] - f[n]) + i <= L
          <6>. DEFINE x == f[k - 1]
                      y == f[n]
                      z == f[k]
          <6>1. x \in Nat /\ y \in Nat /\ z \in Nat /\ z = x + K
            BY <1>0, <4>0, <5>2
          <6>2. z <= y + L
            BY <3>3a, <5>2
          <6>. HIDE DEF x, y, z
          <6>3. (x - y) + i <= L
            BY <5>1, <6>1, <6>2
          <6>. QED
            BY <6>3 DEF x, y
        <5>5. (f[k - 1] - f[n]) + i \in 1..L
          BY <1>0, <4>0, <5>1, <5>3, <5>4
        <5>. QED
          BY <5>5 DEF L
      <4>3. Stream[(f[k - 1] - f[n]) + i] = c[i]
        BY <3>3
      <4>. QED
        BY <1>5, <2>0, <3>2, <4>2, <4>3
    <3>. QED
      BY <3>2, <3>3, <3>5 DEF c
  <2>2. CASE k = m + 1
    <3>1. sent'[k] = r /\ k - 1 = m /\ m \in n..m
      BY <1>1, <1>3, <2>2 DEF m
    <3>2. g[m] = f[m]
      BY <1>7a, <3>1
    <3>3. g[m] - g[n] = Len(Stream)
      <4>. DEFINE x == f[m]
                  y == f[n]
      <4>1. x \in Nat /\ y \in Nat /\ Len(Stream) \in Nat /\ x = y + Len(Stream)
        BY <1>0, <1>1, <1>6a
      <4>. HIDE DEF x, y
      <4>2. x - y = Len(Stream)
        BY <4>1
      <4>3. g[m] = x /\ g[n] = y
        BY <2>0, <3>2 DEF x, y
      <4>. QED
        BY <4>2, <4>3
    <3>4. Encoding(sent'[k]) = e /\ g[k] = g[k - 1] + Len(e)
      BY <1>7, <2>2, <3>1, <3>2 DEF e
    <3>5. ASSUME NEW i \in 1..Len(e)
          PROVE  Stream'[(g[k - 1] - g[n]) + i] = e[i]
      BY <1>5, <3>1, <3>3
    <3>. QED
      BY <3>4, <3>5
  <2>3. k <= m \/ k = m + 1
    BY <1>1
  <2>. QED
    BY <2>1, <2>2, <2>3
<1>11. Len(out') = n /\ Len(sent') = m + 1
  BY <1>3 DEF n, m
<1>12. /\ g[Len(sent')] = g[Len(out')] + Len(Stream')
       /\ \A j, k \in Len(out')..Len(sent') : j <= k => g[j] <= g[k]
       /\ \A k \in (Len(out') + 1)..Len(sent') :
            /\ g[k] = g[k - 1] + Len(Encoding(sent'[k]))
            /\ \A i \in 1..Len(Encoding(sent'[k])) :
                 Stream'[(g[k - 1] - g[Len(out')]) + i] = Encoding(sent'[k])[i]
  BY <1>8, <1>9, <1>10, <1>11, Zenon
<1>13. Laid(g)'
  <2>1. g \in [Nat -> Nat]
    BY <1>7
  <2>. QED
    BY <1>12, <2>1 DEF Laid
<1>. QED
  BY <1>13

(* A chunk moves from the wire to the buffer.                                *)
LEMMA FeedStream ==
  ASSUME TypeInv, NEW n \in 1..Len(wire), Takes(n)
  PROVE  Stream' = Stream
<1>. DEFINE front == SubSeq(wire, 1, n)
            back == SubSeq(wire, n + 1, Len(wire))
<1>1. buffer \in Seq(Bytes) /\ wire \in Seq(Bytes) /\ Len(wire) \in Nat
  BY DEF TypeInv, TypeOK
<1>2. /\ front \in Seq(Bytes) /\ Len(front) = n
      /\ back \in Seq(Bytes) /\ Len(back) = Len(wire) - n
      /\ \A i \in 1..n : front[i] = wire[i]
      /\ \A i \in 1..(Len(wire) - n) : back[i] = wire[n + i]
  BY WireFacts
<1>. HIDE DEF front, back
<1>3. front \o back = wire
  <2>1. /\ front \o back \in Seq(Bytes) /\ Len(front \o back) = Len(wire)
        /\ \A i \in 1..n : (front \o back)[i] = wire[i]
        /\ \A i \in 1..(Len(wire) - n) : (front \o back)[n + i] = wire[n + i]
    BY <1>1, <1>2, Joined
  <2>2. ASSUME NEW i \in 1..Len(wire)
        PROVE  (front \o back)[i] = wire[i]
    <3>0. i \in Nat /\ n \in Nat /\ 1 <= i
      BY <1>1
    <3>1. CASE i <= n
      <4>1. i \in 1..n
        BY <3>0, <3>1
      <4>. QED
        BY <2>1, <4>1
    <3>2. CASE i > n
      <4>1. i - n \in 1..(Len(wire) - n) /\ n + (i - n) = i
        BY <1>1, <3>2
      <4>2. (front \o back)[n + (i - n)] = wire[n + (i - n)]
        BY <2>1, <4>1
      <4>. QED
        BY <4>1, <4>2
    <3>3. i <= n \/ i > n
      BY <3>0
    <3>. QED
      BY <3>1, <3>2, <3>3
  <2>. QED
    BY <1>1, <2>1, <2>2, SeqEqual
<1>4. (buffer \o front) \o back = buffer \o (front \o back)
  BY <1>1, <1>2, Reassociated
<1>. QED
  BY <1>3, <1>4 DEF Stream, Takes, front, back

(* A record leaves the buffer.                                               *)
LEMMA DropStream ==
  ASSUME TypeInv, NEW d \in 0..Len(buffer), Drops(d)
  PROVE  /\ Len(Stream') = Len(Stream) - d
         /\ \A i \in 1..(Len(Stream) - d) : Stream'[i] = Stream[d + i]
<1>1. /\ buffer \in Seq(Bytes) /\ wire \in Seq(Bytes) /\ d \in Nat /\ d <= Len(buffer)
      /\ Len(buffer) \in Nat /\ Len(wire) \in Nat
  BY DEF TypeInv, TypeOK
<1>2. /\ buffer' \in Seq(Bytes) /\ Len(buffer') = Len(buffer) - d
      /\ \A i \in 1..(Len(buffer) - d) : buffer'[i] = buffer[d + i]
  BY DropFacts DEF Drops
<1>3. /\ Len(Stream) = Len(buffer) + Len(wire)
      /\ \A i \in 1..Len(buffer) : Stream[i] = buffer[i]
      /\ \A i \in 1..Len(wire) : Stream[Len(buffer) + i] = wire[i]
  BY <1>1, Joined DEF Stream
<1>4. /\ Len(Stream') = Len(buffer') + Len(wire)
      /\ \A i \in 1..Len(buffer') : Stream'[i] = buffer'[i]
      /\ \A i \in 1..Len(wire) : Stream'[Len(buffer') + i] = wire[i]
  <2>1. Stream' = buffer' \o wire
    BY DEF Stream, Drops
  <2>2. buffer' \in Seq(Bytes) /\ wire \in Seq(Bytes)
    BY <1>1, <1>2
  <2>. QED
    BY <2>1, <2>2, Joined
<1>5. ASSUME NEW i \in 1..(Len(Stream) - d)
      PROVE  Stream'[i] = Stream[d + i]
  <2>1. CASE i <= Len(buffer) - d
    <3>1. i \in 1..(Len(buffer) - d) /\ d + i \in 1..Len(buffer)
      BY <1>1, <1>3, <2>1
    <3>. QED
      BY <1>2, <1>3, <1>4, <3>1
  <2>2. CASE i > Len(buffer) - d
    <3>. DEFINE j == i - (Len(buffer) - d)
    <3>1. /\ j \in 1..Len(wire) /\ Len(buffer') + j = i
          /\ Len(buffer) + j = d + i
      BY <1>1, <1>2, <1>3, <2>2
    <3>. HIDE DEF j
    <3>2. Stream'[Len(buffer') + j] = wire[j] /\ Stream[Len(buffer) + j] = wire[j]
      BY <1>3, <1>4, <3>1
    <3>. QED
      BY <3>1, <3>2
  <2>. QED
    BY <1>1, <1>3, <2>1, <2>2
<1>. QED
  BY <1>1, <1>2, <1>3, <1>4, <1>5

(* The first record laid is what the stream begins with.                     *)
LEMMA FirstLaid ==
  ASSUME TypeInv, NEW f, Laid(f), Len(out) < Len(sent)
  PROVE  LET n == Len(out)
             e == Encoding(sent[n + 1])
         IN  /\ n + 1 \in 1..Len(sent) /\ sent[n + 1] \in SentRecords
             /\ Len(e) \in Nat /\ Len(e) >= 4 /\ f[n + 1] = f[n] + Len(e)
             /\ Len(e) <= Len(Stream) /\ \A i \in 1..Len(e) : Stream[i] = e[i]
<1>. DEFINE n == Len(out)
            m == Len(sent)
            e == Encoding(sent[n + 1])
<1>1. /\ n \in Nat /\ m \in Nat /\ n < m /\ Len(Stream) \in Nat
      /\ \A k \in 1..m : sent[k] \in SentRecords
  BY StreamTypes
<1>2. /\ n + 1 \in (n + 1)..m /\ n + 1 \in 1..m /\ n + 1 \in n..m /\ m \in n..m
      /\ n \in Nat /\ n + 1 \in Nat /\ (n + 1) - 1 = n /\ n + 1 <= m
  BY <1>1
<1>3. sent[n + 1] \in SentRecords
  BY <1>1, <1>2
<1>4. Len(e) \in Nat /\ Len(e) >= 4
  BY <1>3, EncodingTyped
<1>5. f[n] \in Nat /\ f[n + 1] \in Nat
  BY <1>2 DEF Laid
<1>6. f[m] = f[n] + Len(Stream) /\ f[n + 1] <= f[m]
  BY <1>2 DEF Laid
<1>7. /\ f[n + 1] = f[n] + Len(e)
      /\ \A i \in 1..Len(e) : Stream[(f[n] - f[n]) + i] = e[i]
  <2>1. /\ f[n + 1] = f[(n + 1) - 1] + Len(e)
        /\ \A i \in 1..Len(e) : Stream[(f[(n + 1) - 1] - f[n]) + i] = e[i]
    BY <1>2 DEF Laid
  <2>. QED
    BY <1>2, <2>1
<1>. HIDE DEF n, m, e
<1>8. ASSUME NEW i \in 1..Len(e)
      PROVE  Stream[i] = e[i]
  <2>1. (f[n] - f[n]) + i = i
    BY <1>4, <1>5
  <2>. QED
    BY <1>7, <2>1
<1>9. Len(e) <= Len(Stream)
  <2>1. f[n] + Len(e) <= f[n] + Len(Stream)
    BY <1>6, <1>7
  <2>. QED
    BY <1>1, <1>4, <1>5, <2>1
<1>. QED
  BY <1>2, <1>3, <1>4, <1>7, <1>8, <1>9 DEF n, m, e

(* When every record is decoded, nothing is left.                            *)
LEMMA NoneLaid ==
  ASSUME TypeInv, NEW f, Laid(f), Len(out) = Len(sent)
  PROVE  Len(buffer) = 0 /\ Len(wire) = 0
<1>1. Len(out) \in Nat /\ Len(Stream) \in Nat /\ Len(buffer) \in Nat /\ Len(wire) \in Nat
      /\ Len(Stream) = Len(buffer) + Len(wire)
  BY StreamTypes
<1>2. f[Len(out)] \in Nat /\ f[Len(out)] = f[Len(out)] + Len(Stream)
  BY <1>1 DEF Laid
<1>. QED
  BY <1>1, <1>2

(* A place in what is left is that many bytes further on in what there was.  *)
LEMMA Shifted ==
  ASSUME NEW a \in Nat, NEW b \in Nat, NEW c \in Nat, NEW d \in Nat, NEW i \in Nat,
         NEW l \in Nat, b <= a, b = c + d, 1 <= i, a + i <= c + l
  PROVE  LET x == (a - b) + i
         IN  x \in Int /\ 1 <= x /\ x <= l - d /\ d + x = (a - c) + i
  OBVIOUS

\* The first record that is not decoded leaves the buffer, whole.
Advances ==
  LET d == Len(Encoding(sent[Len(out) + 1]))
  IN  /\ Len(out) < Len(sent) /\ d <= Len(buffer) /\ Drops(d)
      /\ Len(out') = Len(out) + 1 /\ sent' = sent

(* A record that leaves the buffer leaves the others laid.                   *)
LEMMA DropLaid ==
  ASSUME TypeInv, NEW f, Laid(f), Advances
  PROVE  Laid(f)'
<1>. DEFINE n == Len(out)
            m == Len(sent)
            d == Len(Encoding(sent[n + 1]))
<1>1. /\ n \in Nat /\ m \in Nat /\ n < m /\ Len(Stream) \in Nat /\ Len(buffer) \in Nat
      /\ \A k \in 1..m : sent[k] \in SentRecords
  BY StreamTypes DEF Advances
<1>2. d \in Nat /\ d <= Len(Stream) /\ f[n + 1] = f[n] + d
  BY FirstLaid DEF Advances
<1>3. d \in 0..Len(buffer) /\ Drops(d)
  BY <1>1, <1>2 DEF Advances
<1>4. Len(Stream') = Len(Stream) - d
  BY <1>3, DropStream
<1>5. \A i \in 1..(Len(Stream) - d) : Stream'[i] = Stream[d + i]
  BY <1>3, DropStream
<1>6. f \in [Nat -> Nat]
  BY DEF Laid
<1>6a. f[m] = f[n] + Len(Stream)
  BY DEF Laid
<1>6b. \A j, k \in n..m : j <= k => f[j] <= f[k]
  BY DEF Laid
<1>6c. \A k \in (n + 1)..m :
         /\ f[k] = f[k - 1] + Len(Encoding(sent[k]))
         /\ \A i \in 1..Len(Encoding(sent[k])) :
              Stream[(f[k - 1] - f[n]) + i] = Encoding(sent[k])[i]
  BY DEF Laid
<1>7. Len(out') = n + 1 /\ Len(sent') = m /\ sent' = sent
  BY DEF Advances
<1>. HIDE DEF n, m, d
<1>8. f[n] \in Nat /\ f[n + 1] \in Nat /\ f[m] \in Nat
  <2>1. n \in Nat /\ n + 1 \in Nat /\ m \in Nat
    BY <1>1
  <2>. QED
    BY <1>6, <2>1
<1>9. f[m] = f[n + 1] + Len(Stream')
  <2>1. Len(Stream) \in Nat
    BY <1>1
  <2>. QED
    BY <1>2, <1>4, <1>6a, <1>8, <2>1
<1>10. \A j, k \in (n + 1)..m : j <= k => f[j] <= f[k]
  <2>. SUFFICES ASSUME NEW j \in (n + 1)..m, NEW k \in (n + 1)..m, j <= k
                PROVE  f[j] <= f[k]
    OBVIOUS
  <2>1. j \in n..m /\ k \in n..m
    BY <1>1
  <2>. QED
    BY <1>6b, <2>1
<1>11. ASSUME NEW k \in ((n + 1) + 1)..m
       PROVE  /\ f[k] = f[k - 1] + Len(Encoding(sent[k]))
              /\ \A i \in 1..Len(Encoding(sent[k])) :
                   Stream'[(f[k - 1] - f[n + 1]) + i] = Encoding(sent[k])[i]
  <2>. DEFINE c == Encoding(sent[k])
  <2>1. /\ k \in (n + 1)..m /\ k \in 1..m /\ k \in n..m /\ k - 1 \in n..m /\ k \in Nat
        /\ k - 1 \in Nat /\ n + 1 \in n..m /\ m \in n..m /\ n + 1 <= k - 1 /\ k <= m
    BY <1>1
  <2>2. c \in Seq(Bytes) /\ Len(c) \in Nat
    BY <1>1, <2>1, EncodingTyped
  <2>3. /\ f[k] = f[k - 1] + Len(c)
        /\ \A i \in 1..Len(c) : Stream[(f[k - 1] - f[n]) + i] = c[i]
    BY <1>6c, <2>1
  <2>4. f[n + 1] <= f[k - 1] /\ f[k] <= f[m]
    BY <1>6b, <2>1
  <2>5. f[k] \in Nat /\ f[k - 1] \in Nat
    BY <1>6, <2>1
  <2>. HIDE DEF c
  <2>6. ASSUME NEW i \in 1..Len(c)
        PROVE  Stream'[(f[k - 1] - f[n + 1]) + i] = c[i]
    <3>. DEFINE L == Len(Stream)
                x == (f[k - 1] - f[n + 1]) + i
    <3>1. L \in Nat /\ i \in Nat /\ 1 <= i /\ i <= Len(c)
      BY <1>1, <2>2
    <3>2. f[m] = f[n] + L /\ f[n + 1] = f[n] + d
      BY <1>2, <1>6a
    <3>. HIDE DEF L
    <3>3. f[k - 1] + i <= f[n] + L
      <4>1. f[k - 1] + i <= f[k]
        BY <2>2, <2>3, <2>5, <3>1
      <4>. QED
        BY <1>8, <2>4, <2>5, <3>1, <3>2, <4>1
    <3>4. x \in Int /\ 1 <= x /\ x <= L - d /\ d + x = (f[k - 1] - f[n]) + i
      <4>1. f[n + 1] \in Nat /\ f[k - 1] \in Nat /\ f[n] \in Nat /\ d \in Nat
        BY <1>2, <1>8, <2>5
      <4>2. f[n + 1] <= f[k - 1] /\ f[n + 1] = f[n] + d
        BY <2>4, <3>2
      <4>3. i \in Nat /\ L \in Nat /\ 1 <= i /\ f[k - 1] + i <= f[n] + L
        BY <3>1, <3>3
      <4>. DEFINE a == f[k - 1]
                  b == f[n + 1]
                  c0 == f[n]
      <4>4. /\ a \in Nat /\ b \in Nat /\ c0 \in Nat /\ b <= a /\ b = c0 + d
            /\ a + i <= c0 + L
        BY <4>1, <4>2, <4>3
      <4>. HIDE DEF a, b, c0
      <4>5. d \in Nat /\ i \in Nat /\ L \in Nat /\ 1 <= i
        BY <4>1, <4>3
      <4>6. /\ (a - b) + i \in Int /\ 1 <= (a - b) + i /\ (a - b) + i <= L - d
            /\ d + ((a - b) + i) = (a - c0) + i
        BY <4>4, <4>5, Shifted
      <4>. QED
        BY <4>6 DEF a, b, c0
    <3>. HIDE DEF x
    <3>5. x \in 1..(L - d)
      BY <1>2, <3>1, <3>4
    <3>6. Stream'[x] = Stream[d + x]
      BY <1>5, <3>5 DEF L
    <3>7. Stream[d + x] = c[i]
      BY <2>3, <3>4
    <3>. QED
      BY <3>6, <3>7 DEF x
  <2>. QED
    BY <2>3, <2>6 DEF c
<1>12. f[Len(sent')] = f[Len(out')] + Len(Stream')
  BY <1>7, <1>9, Zenon
<1>13. \A j, k \in Len(out')..Len(sent') : j <= k => f[j] <= f[k]
  BY <1>7, <1>10, Zenon
<1>14. ASSUME NEW k \in (Len(out') + 1)..Len(sent')
       PROVE  /\ f[k] = f[k - 1] + Len(Encoding(sent'[k]))
              /\ \A i \in 1..Len(Encoding(sent'[k])) :
                   Stream'[(f[k - 1] - f[Len(out')]) + i] = Encoding(sent'[k])[i]
  <2>1. k \in ((n + 1) + 1)..m
    BY <1>7
  <2>2. /\ f[k] = f[k - 1] + Len(Encoding(sent[k]))
        /\ \A i \in 1..Len(Encoding(sent[k])) :
             Stream'[(f[k - 1] - f[n + 1]) + i] = Encoding(sent[k])[i]
    BY <1>11, <2>1, Zenon
  <2>. QED
    BY <1>7, <2>2, Zenon
<1>. QED
  BY <1>6, <1>12, <1>13, <1>14, Zenon DEF Laid

(* The header in the buffer is that of the first record that is not decoded, *)
(* and so is what follows it.                                                *)
LEMMA NextRecord ==
  ASSUME TypeInv, StreamOK, lost = 0, HeaderRead
  PROVE  LET r == sent[Len(out) + 1]
         IN  /\ Len(out) < Len(sent) /\ Len(out) + 1 \in 1..Len(sent)
             /\ r \in SentRecords /\ Half(2) = r.timestamp % Wrap
             /\ r.kind = "event" =>
                  IsEvent /\ buffer[2] = r.body /\ Len(Encoding(r)) = 4
             /\ r.kind # "event" =>
                  /\ ~IsEvent /\ Length = Len(r.body) /\ Length <= MAX_PACKET_SIZE
                  /\ Len(Encoding(r)) = 4 + Padded /\ r.kind = "packet"
                  /\ r.body \in Seq(Bytes)
                  /\ 4 + Padded <= Len(buffer) =>
                       \A i \in 1..Length : buffer[4 + i] = r.body[i]
<1>. DEFINE n == Len(out)
            r == sent[n + 1]
            e == Encoding(r)
<1>1. PICK f : Laid(f)
  BY DEF StreamOK
<1>2. /\ n \in Nat /\ Len(sent) \in Nat /\ Len(buffer) \in Nat /\ n <= Len(sent)
      /\ \A i \in 1..Len(buffer) : Stream[i] = buffer[i]
  BY StreamTypes DEF StreamOK
<1>3. /\ Len(buffer) >= 4 /\ Half(2) = buffer[3] * Byte + buffer[4]
      /\ Length = buffer[1] * Byte + buffer[2] /\ Length \in Nat /\ Padded \in Nat
      /\ Padded >= Length
  BY HeaderTypes DEF Length
<1>4. n < Len(sent)
  <2>1. n # Len(sent)
    BY <1>1, <1>2, <1>3, NoneLaid
  <2>. QED
    BY <1>2, <2>1
<1>5. /\ n + 1 \in 1..Len(sent) /\ r \in SentRecords /\ Len(e) \in Nat /\ Len(e) >= 4
      /\ \A i \in 1..Len(e) : Stream[i] = e[i]
  BY <1>1, <1>4, FirstLaid
<1>. HIDE DEF n, r, e
<1>6. ASSUME NEW i \in Nat, 1 <= i, i <= Len(e), i <= Len(buffer)
      PROVE  buffer[i] = e[i]
  <2>1. i \in 1..Len(e) /\ i \in 1..Len(buffer)
    BY <1>2, <1>5, <1>6
  <2>. QED
    BY <1>2, <1>5, <2>1
<1>7. buffer[1] = e[1] /\ buffer[2] = e[2] /\ buffer[3] = e[3] /\ buffer[4] = e[4]
  <2>1. ASSUME NEW i \in 1..4
        PROVE  i \in Nat /\ 1 <= i /\ i <= Len(e) /\ i <= Len(buffer)
    BY <1>2, <1>3, <1>5
  <2>2. \A i \in 1..4 : buffer[i] = e[i]
    BY <1>6, <2>1
  <2>. QED
    BY <2>2
<1>8. CASE r.kind = "event"
  <2>1. r.body \in EventCodes /\ r.timestamp \in Nat
    BY <1>5, <1>8 DEF SentRecords
  <2>2. e = EventBytes(r.body, r.timestamp)
    BY <1>8 DEF e, Encoding
  <2>3. /\ Len(e) = 4 /\ e[1] = Marker /\ e[2] = r.body
        /\ e[3] * Byte + e[4] = r.timestamp % Wrap
    BY <2>1, <2>2, EventEncoding
  <2>. QED
    BY <1>3, <1>4, <1>5, <1>7, <1>8, <2>3 DEF IsEvent, n, r, e
<1>9. CASE r.kind # "event"
  <2>1. r.body \in Payloads /\ r.timestamp \in Nat /\ r.kind = "packet"
    BY <1>5, <1>9 DEF SentRecords
  <2>2. e = PacketBytes(r.body, r.timestamp)
    BY <1>9 DEF e, Encoding
  <2>3. /\ Len(e) = 4 + Len(r.body) + (Len(r.body) % 2) /\ Len(r.body) <= MAX_PACKET_SIZE
        /\ e[1] # Marker /\ e[1] * Byte + e[2] = Len(r.body)
        /\ e[3] * Byte + e[4] = r.timestamp % Wrap
        /\ \A i \in 1..Len(r.body) : e[4 + i] = r.body[i]
    BY <2>1, <2>2, PacketEncoding
  <2>4. Length = Len(r.body)
    BY <1>3, <1>7, <2>3
  <2>5. Len(e) = 4 + Padded
    <3>1. Len(e) = 4 + Length + (Length % 2)
      BY <2>3, <2>4
    <3>. DEFINE x == Length % 2
    <3>2. x \in Nat
      BY <1>3, OddOrEven
    <3>3. Len(e) = 4 + Length + x
      BY <3>1
    <3>4. Padded = Length + x
      BY DEF Padded
    <3>. HIDE DEF x
    <3>. QED
      BY <1>3, <3>2, <3>3, <3>4
  <2>6. ASSUME 4 + Padded <= Len(buffer), NEW i \in 1..Length
        PROVE  buffer[4 + i] = r.body[i]
    <3>1. 4 + i \in Nat /\ 1 <= 4 + i /\ 4 + i <= Len(e) /\ 4 + i <= Len(buffer)
      BY <1>2, <1>3, <2>5, <2>6
    <3>2. buffer[4 + i] = e[4 + i]
      BY <1>6, <3>1
    <3>. QED
      BY <2>3, <2>4, <3>2
  <2>7. r.body \in Seq(Bytes)
    BY <2>1, PayloadAssumption
  <2>8. Half(2) = r.timestamp % Wrap /\ ~IsEvent
    BY <1>3, <1>7, <2>3 DEF IsEvent
  <2>. QED
    BY <1>4, <1>5, <1>9, <2>1, <2>3, <2>4, <2>5, <2>6, <2>7, <2>8 DEF n, r, e
<1>. QED
  BY <1>8, <1>9

-----------------------------------------------------------------------------
(* feed() and the stream *)

(* What is laid stays where it is, whichever side of the cut it is on.       *)
LEMMA LaidKept ==
  ASSUME NEW f, Laid(f), Stream' = Stream, sent' = sent, out' = out
  PROVE  Laid(f)'
<1>1. /\ f \in [Nat -> Nat]
      /\ f[Len(sent')] = f[Len(out')] + Len(Stream')
      /\ \A j, k \in Len(out')..Len(sent') : j <= k => f[j] <= f[k]
      /\ \A k \in (Len(out') + 1)..Len(sent') :
           /\ f[k] = f[k - 1] + Len(Encoding(sent'[k]))
           /\ \A i \in 1..Len(Encoding(sent'[k])) :
                Stream'[(f[k - 1] - f[Len(out')]) + i] = Encoding(sent'[k])[i]
  BY Zenon DEF Laid
<1>. QED
  BY <1>1, Zenon DEF Laid

(* The record decoded is the next one that was sent, but for its epoch, and  *)
(* goes to the file if it is a packet.                                       *)
LEMMA DecodeFacts ==
  ASSUME TypeInv, StreamOK, lost = 0, DecodeEvent \/ DecodePacket
  PROVE  LET r == sent[Len(out) + 1]
             o == Record(r.kind, r.body, epoch' + Half(2))
         IN  /\ Len(out) + 1 \in 1..Len(sent) /\ r \in SentRecords
             /\ Half(2) = r.timestamp % Wrap /\ Half(2) \in 0..(Wrap - 1)
             /\ o \in OutRecords /\ out' = Append(out, o) /\ Advances
             /\ file' = IF r.kind = "packet" THEN Append(file, Frame(o)) ELSE file
<1>. DEFINE n == Len(out)
            r == sent[n + 1]
            o == Record(r.kind, r.body, epoch' + Half(2))
<1>1. HeaderRead
  BY DEF DecodeEvent, DecodePacket
<1>2. /\ n < Len(sent) /\ n + 1 \in 1..Len(sent) /\ r \in SentRecords
      /\ Half(2) = r.timestamp % Wrap
      /\ r.kind = "event" => IsEvent /\ buffer[2] = r.body /\ Len(Encoding(r)) = 4
      /\ r.kind # "event" =>
           /\ ~IsEvent /\ Length = Len(r.body) /\ Length <= MAX_PACKET_SIZE
           /\ Len(Encoding(r)) = 4 + Padded /\ r.kind = "packet"
           /\ r.body \in Seq(Bytes)
           /\ 4 + Padded <= Len(buffer) => \A i \in 1..Length : buffer[4 + i] = r.body[i]
  BY <1>1, NextRecord
<1>. HIDE DEF n, r
<1>3. CASE DecodeEvent
  <2>1. r.kind = "event"
    BY <1>2, <1>3 DEF DecodeEvent
  <2>2. /\ Half(2) \in 0..(Wrap - 1) /\ Record("event", buffer[2], epoch' + Half(2)) \in OutRecords
        /\ out' = Append(out, Record("event", buffer[2], epoch' + Half(2))) /\ TypeInv'
    BY <1>3, EventTypes
  <2>3. o = Record("event", buffer[2], epoch' + Half(2))
    BY <1>2, <2>1
  <2>4. Len(Encoding(r)) = 4 /\ 4 <= Len(buffer)
    BY <1>1, <1>2, <2>1 DEF HeaderRead
  <2>5. buffer' = Drop(4) /\ wire' = wire /\ sent' = sent /\ file' = file
    BY <1>3 DEF DecodeEvent, analyzer
  <2>. HIDE DEF o
  <2>6. out' = Append(out, o) /\ o \in OutRecords
    BY <2>2, <2>3
  <2>7. Len(out') = n + 1
    BY <2>6, OutTypes DEF TypeInv, n
  <2>8. Advances
    BY <1>2, <2>4, <2>5, <2>7 DEF Advances, Drops, r, n
  <2>. QED
    BY <1>2, <2>1, <2>2, <2>5, <2>6, <2>8 DEF n, r, o
<1>4. CASE DecodePacket
  <2>. DEFINE data == SubSeq(buffer, 5, 4 + Length)
  <2>1. r.kind # "event"
    BY <1>2, <1>4 DEF DecodePacket
  <2>2. 4 + Padded <= Len(buffer)
    BY <1>4, HeaderTypes DEF DecodePacket
  <2>3. /\ Half(2) \in 0..(Wrap - 1) /\ Len(data) = Length /\ data \in Seq(Bytes)
        /\ \A i \in 1..Length : data[i] = buffer[4 + i]
        /\ Record("packet", data, epoch' + Half(2)) \in OutRecords
        /\ out' = Append(out, Record("packet", data, epoch' + Half(2)))
    BY <1>4, PacketTypes
  <2>4. /\ buffer' = Drop(4 + Padded) /\ wire' = wire /\ sent' = sent
        /\ file' = Append(file, Frame(Last(out')))
    BY <1>4 DEF DecodePacket, Writes, analyzer
  <2>. HIDE DEF data
  <2>5. data = r.body
    <3>1. Len(data) = Len(r.body) /\ \A i \in 1..Len(data) : data[i] = r.body[i]
      BY <1>2, <2>1, <2>2, <2>3
    <3>. QED
      BY <1>2, <2>1, <2>3, <3>1, SeqEqual
  <2>6. o = Record("packet", data, epoch' + Half(2))
    BY <1>2, <2>1, <2>5
  <2>. HIDE DEF o
  <2>7. out' = Append(out, o) /\ o \in OutRecords
    BY <2>3, <2>6
  <2>8. Len(out') = n + 1 /\ out'[n + 1] = o
    BY <2>7, OutTypes DEF TypeInv, n
  <2>9. Last(out') = o
    BY <2>8 DEF Last
  <2>10. Advances
    BY <1>2, <2>1, <2>2, <2>4, <2>8 DEF Advances, Drops, r, n
  <2>. QED
    BY <1>2, <2>1, <2>3, <2>4, <2>7, <2>9, <2>10 DEF n, r, o
<1>. QED
  BY <1>3, <1>4

(* While nothing is lost no transfer is.                                     *)
LEMMA NothingLost ==
  ASSUME TypeInv, [Next]_vars, lost' = 0
  PROVE  lost = 0 /\ ~LoseTransfer
<1>1. lost \in Nat
  BY LossAssumption DEF TypeInv, TypeOK
<1>2. ~LoseTransfer
  BY <1>1 DEF LoseTransfer
<1>. QED
  BY <1>2 DEF Next, EmitEvent, EmitPacket, Emit, Feed, DecodeEvent, DecodePacket, Desync,
              Return, vars

(* Nothing is in the stream when a capture starts ...                        *)
LEMMA InitStream == Init => StreamOK
<1>. SUFFICES ASSUME Init PROVE StreamOK
  OBVIOUS
<1>. DEFINE f == [k \in Nat |-> 0]
<1>1. Stream = << >> /\ Len(out) = 0 /\ Len(sent) = 0 /\ Len(Stream) = 0
  BY DEF Init, Stream
<1>2. f \in [Nat -> Nat] /\ \A k \in Nat : f[k] = 0
  OBVIOUS
<1>. HIDE DEF f
<1>3. Laid(f)
  BY <1>1, <1>2 DEF Laid
<1>4. \E g : Laid(g)
  BY <1>3
<1>. QED
  BY <1>1, <1>4 DEF StreamOK, Init

(* ... and what is in it stays in order.                                     *)
LEMMA NextStream == TypeInv /\ StreamOK /\ [Next]_vars => StreamOK'
<1>. SUFFICES ASSUME TypeInv, StreamOK, [Next]_vars, lost' = 0
              PROVE  StreamOK'
  BY DEF StreamOK
<1>1. lost = 0 /\ ~LoseTransfer
  BY NothingLost
<1>2. PICK f : Laid(f)
  BY <1>1 DEF StreamOK
<1>3. /\ Len(out) \in Nat /\ Len(sent) \in Nat /\ Len(out) <= Len(sent) /\ ~desynced
      /\ \A i \in 1..Len(out) : out[i].kind = sent[i].kind /\ out[i].body = sent[i].body
      /\ ~feeding /\ Len(out) < Len(sent) =>
           Len(buffer) < Len(Encoding(sent[Len(out) + 1]))
  BY <1>1, StreamTypes DEF StreamOK
<1>4. CASE EmitEvent \/ EmitPacket
  <2>1. PICK r \in SentRecords :
          /\ sent' = Append(sent, r) /\ wire' = wire \o Encoding(r)
          /\ UNCHANGED << lost, decoder >>
    BY <1>4, EmitFacts
  <2>2. \E g : Laid(g)'
    <3>1. Sends(r)
      BY <2>1 DEF Sends
    <3>. QED
      BY <1>2, <1>3, <3>1, EmitLaid
  <2>3. /\ Len(sent') = Len(sent) + 1 /\ sent'[Len(sent) + 1] = r
        /\ \A i \in 1..Len(sent) : sent'[i] = sent[i]
    BY <2>1 DEF TypeInv
  <2>4. out' = out /\ buffer' = buffer /\ feeding' = feeding /\ desynced' = desynced
    BY <2>1 DEF decoder
  <2>5. Len(out') <= Len(sent')
    BY <1>3, <2>3, <2>4
  <2>6. ASSUME NEW i \in 1..Len(out')
        PROVE  out'[i].kind = sent'[i].kind /\ out'[i].body = sent'[i].body
    <3>1. i \in 1..Len(out) /\ i \in 1..Len(sent)
      BY <1>3, <2>4
    <3>. QED
      BY <1>3, <2>3, <2>4, <3>1
  <2>7. ASSUME ~feeding, Len(out) < Len(sent')
        PROVE  Len(buffer) < Len(Encoding(sent'[Len(out) + 1]))
    <3>1. CASE Len(out) < Len(sent)
      <4>1. Len(out) + 1 \in 1..Len(sent)
        BY <1>3, <3>1
      <4>. QED
        BY <1>3, <2>3, <2>7, <3>1, <4>1
    <3>2. CASE Len(out) = Len(sent)
      <4>1. Len(buffer) = 0
        BY <1>2, <3>2, NoneLaid
      <4>2. Len(Encoding(r)) \in Nat /\ Len(Encoding(r)) >= 4
        BY EncodingTyped
      <4>. QED
        BY <2>3, <3>2, <4>1, <4>2
    <3>. QED
      BY <1>3, <3>1, <3>2
  <2>. QED
    BY <1>3, <2>2, <2>4, <2>5, <2>6, <2>7 DEF StreamOK
<1>5. CASE Feed
  <2>1. PICK n \in 1..Len(wire) : Takes(n)
    BY <1>5 DEF Feed, Takes
  <2>2. Stream' = Stream
    BY <2>1, FeedStream
  <2>3. sent' = sent /\ out' = out /\ feeding' /\ desynced' = desynced
    BY <1>5 DEF Feed, analyzer
  <2>4. Laid(f)'
    BY <1>2, <2>2, <2>3, LaidKept
  <2>. QED
    BY <1>3, <2>3, <2>4 DEF StreamOK
<1>6. CASE DecodeEvent \/ DecodePacket
  <2>. DEFINE n == Len(out)
              r == sent[n + 1]
              o == Record(r.kind, r.body, epoch' + Half(2))
  <2>1. /\ n + 1 \in 1..Len(sent) /\ o \in OutRecords /\ out' = Append(out, o) /\ Advances
    BY <1>1, <1>6, DecodeFacts
  <2>2. o.kind = r.kind /\ o.body = r.body
    BY DEF Record
  <2>. HIDE DEF o, r, n
  <2>3. /\ Len(out') = n + 1 /\ out'[n + 1] = o
        /\ \A i \in 1..n : out'[i] = out[i]
    BY <2>1, OutTypes DEF TypeInv, n
  <2>4. Laid(f)'
    BY <1>2, <2>1, DropLaid
  <2>5. sent' = sent /\ feeding' /\ desynced' = desynced
    BY <1>6 DEF DecodeEvent, DecodePacket, HeaderRead, analyzer
  <2>6. ASSUME NEW i \in 1..Len(out')
        PROVE  out'[i].kind = sent'[i].kind /\ out'[i].body = sent'[i].body
    <3>1. n \in Nat /\ (i \in 1..n \/ i = n + 1)
      BY <1>3, <2>3 DEF n
    <3>2. CASE i \in 1..n
      BY <1>3, <2>3, <2>5, <3>2 DEF n
    <3>3. CASE i = n + 1
      BY <2>2, <2>3, <2>5, <3>3 DEF r
    <3>. QED
      BY <3>1, <3>2, <3>3
  <2>7. Len(out') <= Len(sent')
    BY <1>3, <2>1, <2>3, <2>5
  <2>. QED
    BY <1>3, <2>4, <2>5, <2>6, <2>7 DEF StreamOK
<1>7. CASE Desync
  <2>1. /\ HeaderRead /\ ~IsEvent /\ Length > MAX_PACKET_SIZE /\ Length \in Nat
    BY <1>7, HeaderTypes DEF Desync
  <2>2. Length <= MAX_PACKET_SIZE
    BY <1>1, <2>1, NextRecord
  <2>. QED
    BY <2>1, <2>2, RadixAssumption
<1>8. CASE Return
  <2>1. UNCHANGED << sent, out, wire, buffer, desynced >>
    BY <1>8 DEF Return, analyzer
  <2>2. Stream' = Stream
    BY <2>1 DEF Stream
  <2>3. Laid(f)'
    BY <1>2, <2>1, <2>2, LaidKept
  <2>4. ASSUME Len(out) < Len(sent)
        PROVE  Len(buffer) < Len(Encoding(sent[Len(out) + 1]))
    <3>. DEFINE e == Encoding(sent[Len(out) + 1])
    <3>1. Len(buffer) \in Nat /\ Len(e) \in Nat /\ Len(e) >= 4
      BY <1>2, <2>4, FirstLaid, StreamTypes
    <3>2. CASE Len(buffer) < 4
      BY <3>1, <3>2
    <3>3. CASE ~(Len(buffer) < 4)
      <4>1. HeaderRead /\ ~IsEvent /\ Len(buffer) < 4 + Padded
        BY <1>8, <3>3 DEF Return
      <4>2. Len(e) = 4 + Padded
        BY <1>1, <4>1, NextRecord
      <4>. QED
        BY <4>1, <4>2
    <3>. QED
      BY <3>2, <3>3
  <2>. QED
    BY <1>3, <2>1, <2>3, <2>4 DEF StreamOK
<1>9. CASE UNCHANGED vars
  <2>1. UNCHANGED << sent, out, wire, buffer, desynced, feeding >>
    BY <1>9 DEF vars, analyzer, decoder
  <2>2. Stream' = Stream
    BY <2>1 DEF Stream
  <2>3. Laid(f)'
    BY <1>2, <2>1, <2>2, LaidKept
  <2>. QED
    BY <1>3, <2>1, <2>3 DEF StreamOK
<1>. QED
  BY <1>1, <1>4, <1>5, <1>6, <1>7, <1>8, <1>9 DEF Next

(* The stream in order is that nothing depends on where it was cut.          *)
LEMMA StreamTellsAll == TypeInv /\ StreamOK => ChunksDoNotMatter
<1>. SUFFICES ASSUME TypeInv, StreamOK, lost = 0
              PROVE  /\ IsPrefix(WhatIsIn(out), WhatIsIn(sent))
                     /\ wire = << >> /\ ~feeding => Len(out) = Len(sent) /\ buffer = << >>
                     /\ ~desynced
  BY DEF ChunksDoNotMatter
<1>1. /\ Len(out) \in Nat /\ Len(sent) \in Nat /\ Len(out) <= Len(sent) /\ ~desynced
      /\ \A i \in 1..Len(out) : out[i].kind = sent[i].kind /\ out[i].body = sent[i].body
  BY StreamTypes DEF StreamOK
<1>2. IsPrefix(WhatIsIn(out), WhatIsIn(sent))
  <2>. DEFINE s == WhatIsIn(out)
              t == WhatIsIn(sent)
              U == UNION {{s[i] : i \in 1..Len(out)}, {t[i] : i \in 1..Len(sent)}}
  <2>1. DOMAIN out = 1..Len(out) /\ DOMAIN sent = 1..Len(sent)
    BY DEF TypeInv
  <2>2. /\ s = [i \in 1..Len(out) |-> << out[i].kind, out[i].body >>]
        /\ t = [i \in 1..Len(sent) |-> << sent[i].kind, sent[i].body >>]
    BY <2>1 DEF WhatIsIn
  <2>3. \A i \in 1..Len(out) : i \in 1..Len(sent) /\ s[i] = t[i]
    BY <1>1, <2>2
  <2>4. s \in Seq(U) /\ t \in Seq(U) /\ Len(s) = Len(out) /\ Len(t) = Len(sent)
    <3>1. s \in [1..Len(out) -> U] /\ t \in [1..Len(sent) -> U]
      BY <2>2, Zenon
    <3>. HIDE DEF s, t, U
    <3>. QED
      BY <1>1, <3>1
  <2>. HIDE DEF s, t, U
  <2>5. s = SubSeq(t, 1, Len(s))
    <3>. DEFINE u == SubSeq(t, 1, Len(s))
    <3>1. 1 \in Int /\ Len(s) \in Int /\ \A i \in 1..Len(s) : t[i] \in U
      BY <1>1, <2>3, <2>4
    <3>2. /\ u \in Seq(U) /\ Len(u) = IF 1 <= Len(s) THEN Len(s) - 1 + 1 ELSE 0
          /\ \A i \in 1..(Len(s) - 1 + 1) : u[i] = t[1 + i - 1]
      BY <3>1, SubSeqProperties
    <3>. HIDE DEF u
    <3>3. Len(u) = Len(s) /\ \A i \in 1..Len(s) : u[i] = t[i]
      BY <1>1, <2>4, <3>2
    <3>4. \A i \in 1..Len(s) : s[i] = u[i]
      BY <2>3, <2>4, <3>3
    <3>. QED
      BY <2>4, <3>2, <3>3, <3>4, SeqEqual DEF u
  <2>6. SubSeq(s, 1, Len(s)) = s
    BY <2>4
  <2>. QED
    BY <1>1, <2>4, <2>5, <2>6 DEF IsPrefix, s, t
<1>3. ASSUME wire = << >>, ~feeding
      PROVE  Len(out) = Len(sent) /\ buffer = << >>
  <2>1. PICK f : Laid(f)
    BY DEF StreamOK
  <2>2. Len(Stream) = Len(buffer) /\ Len(buffer) \in Nat
    BY <1>3, StreamTypes
  <2>3. Len(out) = Len(sent)
    <3>1. SUFFICES ASSUME Len(out) < Len(sent) PROVE FALSE
      BY <1>1
    <3>2. Len(buffer) < Len(Encoding(sent[Len(out) + 1]))
      BY <1>3, <3>1 DEF StreamOK
    <3>3. /\ Len(Encoding(sent[Len(out) + 1])) \in Nat
          /\ Len(Encoding(sent[Len(out) + 1])) <= Len(Stream)
      BY <2>1, <3>1, FirstLaid
    <3>. QED
      BY <2>2, <3>2, <3>3
  <2>4. Len(buffer) = 0
    BY <2>1, <2>3, NoneLaid
  <2>. QED
    BY <2>3, <2>4, EmptySeq DEF TypeInv, TypeOK
<1>. QED
  BY <1>1, <1>2, <1>3

(* However a stream of which nothing is lost is cut, its records come out    *)
(* whole, once each and in order, and none is held back.                     *)
THEOREM CutsNeverMatter == Spec => []ChunksDoNotMatter
<1>1. Init => TypeInv /\ StreamOK
  BY InitTypes, InitStream
<1>2. TypeInv /\ StreamOK /\ [Next]_vars => (TypeInv /\ StreamOK)'
  BY NextTypes, NextStream
<1>. QED
  BY <1>1, <1>2, StreamTellsAll, PTL DEF Spec

-----------------------------------------------------------------------------
(* Time *)

\* The timestamp of record i, and the time the capture started at before any.
At(records, i) == IF i = 0 THEN 0 ELSE records[i].timestamp

\* The clock of the analyzer never goes back, ...
ClockOK ==
  \A i \in 1..Len(sent) : At(sent, i - 1) <= At(sent, i) /\ At(sent, i) <= now

\* ... and the decoder's time is what the last record said within a wrap, and
\* whole wraps, of which it may have missed some.
TimesOK ==
  lost = 0 =>
    /\ epoch + lastRaw = At(out, Len(out)) /\ lastRaw = At(sent, Len(out)) % Wrap
    /\ \E wraps \in Nat : epoch = Wrap * wraps
    /\ \A i, j \in 1..Len(out) : i <= j => At(out, i) <= At(out, j)
    /\ \A i \in 1..Len(out) :
         /\ At(out, i) <= At(sent, i)
         /\ (\A j \in 1..i : At(sent, j) - At(sent, j - 1) < Wrap) => At(out, i) = At(sent, i)

(* The later of two times has the larger quotient, the more so with the      *)
(* smaller remainder, ...                                                    *)
LEMMA QuotientsOrdered ==
  ASSUME NEW w \in Nat, NEW a \in Nat, NEW b \in Nat, NEW r \in Nat, NEW s \in Nat,
         s < w, w * a + r <= w * b + s
  PROVE  a <= b /\ (s < r => a < b)
<1>1. w * a \in Nat /\ w * b \in Nat
  OBVIOUS
<1>2. a <= b
  <2>1. SUFFICES ASSUME b + 1 <= a PROVE FALSE
    OBVIOUS
  <2>2. w * (b + 1) <= w * a
    BY <2>1
  <2>3. w * (b + 1) = w * b + w
    OBVIOUS
  <2>. QED
    BY <1>1, <2>2, <2>3
<1>3. ASSUME s < r PROVE a # b
  BY <1>1, <1>3
<1>. QED
  BY <1>2, <1>3

(* ... and when they are close, by no more than one.                         *)
LEMMA QuotientsClose ==
  ASSUME NEW w \in Nat, NEW a \in Nat, NEW b \in Nat, NEW r \in Nat, NEW s \in Nat,
         r < w, w * b + s < (w * a + r) + w
  PROVE  b <= a + 1 /\ (r <= s => b <= a)
<1>1. w * a \in Nat /\ w * b \in Nat
  OBVIOUS
<1>2. b <= a + 1
  <2>1. SUFFICES ASSUME a + 2 <= b PROVE FALSE
    OBVIOUS
  <2>2. w * (a + 2) <= w * b
    BY <2>1
  <2>3. w * (a + 2) = w * a + w + w
    OBVIOUS
  <2>. QED
    BY <1>1, <2>2, <2>3
<1>3. ASSUME r <= s PROVE b <= a
  <2>1. SUFFICES ASSUME a + 1 <= b PROVE FALSE
    OBVIOUS
  <2>2. w * (a + 1) <= w * b
    BY <2>1
  <2>3. w * (a + 1) = w * a + w
    OBVIOUS
  <2>. QED
    BY <1>1, <1>3, <2>2, <2>3
<1>. QED
  BY <1>2, <1>3

\* _extend, when the last record was of time t and this one is of time u: the
\* wraps counted so far are e, the last raw time r and the new one s.
Extends(w, t, u, e, r, s, x) ==
  /\ w \in Nat /\ w > 0 /\ t \in Nat /\ u \in Nat /\ t <= u /\ e \in Nat
  /\ r = t % w /\ w * e + r <= t
  /\ s = u % w /\ x = IF s < r THEN w * e + w ELSE w * e

(* Whatever time has passed, the extended time does not go back and is not   *)
(* late of the truth; it is the truth if it was and less than a wrap has     *)
(* passed.                                                                   *)
LEMMA ExtendFacts ==
  ASSUME NEW w, NEW t, NEW u, NEW e, NEW r, NEW s, NEW x, Extends(w, t, u, e, r, s, x)
  PROVE  /\ w * e + r <= x + s /\ x + s <= u
         /\ w * e + r = t /\ u - t < w => x + s = u
         /\ \E k \in Nat : x = w * k
<1>. DEFINE a == t \div w
            b == u \div w
<1>0. /\ w \in Nat /\ w > 0 /\ t \in Nat /\ u \in Nat /\ t <= u /\ e \in Nat
      /\ r = t % w /\ w * e + r <= t
      /\ s = u % w /\ x = IF s < r THEN w * e + w ELSE w * e
  BY DEF Extends
<1>1. a \in Nat /\ r \in 0..(w - 1) /\ t = w * a + r
  BY <1>0, DivModOf
<1>2. b \in Nat /\ s \in 0..(w - 1) /\ u = w * b + s
  BY <1>0, DivModOf
<1>. HIDE DEF a, b
<1>3. r \in Nat /\ s \in Nat /\ r < w /\ s < w
  BY <1>0, <1>1, <1>2
<1>4. w * e \in Nat /\ w * a \in Nat /\ w * b \in Nat /\ w * (e + 1) \in Nat
      /\ w * (e + 1) = w * e + w
  BY <1>0, <1>1, <1>2
<1>5. a <= b /\ (s < r => a < b)
  <2>1. w * a + r <= w * b + s
    BY <1>0, <1>1, <1>2
  <2>. QED
    BY <1>0, <1>1, <1>2, <1>3, <2>1, QuotientsOrdered
<1>6. e <= a
  <2>1. w * e + r <= w * a + r
    BY <1>0, <1>1
  <2>. QED
    BY <1>0, <1>1, <1>3, <2>1, QuotientsOrdered
<1>7. CASE s < r
  <2>1. x = w * (e + 1) /\ e + 1 \in Nat
    BY <1>0, <1>4, <1>7
  <2>2. w * e + r <= x + s
    BY <1>0, <1>3, <1>4, <2>1
  <2>3. x + s <= u
    <3>1. e + 1 <= b
      BY <1>0, <1>1, <1>2, <1>5, <1>6, <1>7
    <3>2. w * (e + 1) <= w * b
      BY <1>0, <1>2, <3>1
    <3>. QED
      BY <1>2, <1>3, <1>4, <2>1, <3>2
  <2>4. ASSUME w * e + r = t, u - t < w
        PROVE  x + s = u
    <3>1. w * b + s < (w * a + r) + w
      BY <1>0, <1>1, <1>2, <1>3, <1>4, <2>4
    <3>2. b <= a + 1
      BY <1>0, <1>1, <1>2, <1>3, <3>1, QuotientsClose
    <3>3. a <= e
      <4>1. w * a + r <= w * e + r
        BY <1>1, <2>4
      <4>. QED
        BY <1>0, <1>1, <1>3, <4>1, QuotientsOrdered
    <3>4. b = e + 1
      BY <1>0, <1>1, <1>2, <1>5, <1>6, <1>7, <3>2, <3>3
    <3>. QED
      BY <1>2, <2>1, <3>4
  <2>. QED
    BY <2>1, <2>2, <2>3, <2>4
<1>8. CASE ~(s < r)
  <2>1. x = w * e /\ r <= s
    BY <1>0, <1>3, <1>8
  <2>2. w * e + r <= x + s
    BY <1>3, <1>4, <2>1
  <2>3. x + s <= u
    <3>1. e <= b
      BY <1>0, <1>1, <1>2, <1>5, <1>6
    <3>2. w * e <= w * b
      BY <1>0, <1>2, <3>1
    <3>. QED
      BY <1>2, <1>3, <1>4, <2>1, <3>2
  <2>4. ASSUME w * e + r = t, u - t < w
        PROVE  x + s = u
    <3>1. w * b + s < (w * a + r) + w
      BY <1>0, <1>1, <1>2, <1>3, <1>4, <2>4
    <3>2. b <= a
      BY <1>0, <1>1, <1>2, <1>3, <2>1, <3>1, QuotientsClose
    <3>3. a <= e
      <4>1. w * a + r <= w * e + r
        BY <1>1, <2>4
      <4>. QED
        BY <1>0, <1>1, <1>3, <4>1, QuotientsOrdered
    <3>4. b = e
      BY <1>0, <1>1, <1>2, <1>5, <1>6, <3>2, <3>3
    <3>. QED
      BY <1>2, <2>1, <3>4
  <2>. QED
    BY <1>0, <2>1, <2>2, <2>3, <2>4
<1>. QED
  BY <1>7, <1>8

(* Records have times.                                                       *)
LEMMA TimesTyped ==
  ASSUME TypeInv
  PROVE  /\ \A i \in 0..Len(sent) : At(sent, i) \in Nat
         /\ \A i \in 0..Len(out) : At(out, i) \in Nat
<1>1. ASSUME NEW i \in 0..Len(sent)
      PROVE  At(sent, i) \in Nat
  <2>1. Len(sent) \in Nat /\ \A k \in 1..Len(sent) : sent[k] \in SentRecords
    BY StreamTypes
  <2>2. i = 0 \/ i \in 1..Len(sent)
    BY <2>1
  <2>3. \A q \in SentRecords : q.timestamp \in Nat
    BY DEF SentRecords
  <2>. QED
    BY <2>1, <2>2, <2>3 DEF At
<1>2. ASSUME NEW i \in 0..Len(out)
      PROVE  At(out, i) \in Nat
  <2>1. Len(out) \in Nat /\ \A k \in 1..Len(out) : out[k] \in OutRecords
    BY DEF TypeInv
  <2>2. i = 0 \/ i \in 1..Len(out)
    BY <2>1
  <2>3. \A q \in OutRecords : q.timestamp \in Nat
    BY DEF OutRecords
  <2>. QED
    BY <2>1, <2>2, <2>3 DEF At
<1>. QED
  BY <1>1, <1>2

(* The clock starts at nothing, ...                                          *)
LEMMA InitTimes == Init => ClockOK /\ TimesOK
<1>. SUFFICES ASSUME Init PROVE ClockOK /\ TimesOK
  OBVIOUS
<1>1. Len(sent) = 0 /\ Len(out) = 0 /\ epoch = 0 /\ lastRaw = 0
  BY DEF Init
<1>2. 0 % Wrap = 0 /\ 0 = Wrap * 0
  BY WrapPositive
<1>3. \E wraps \in Nat : epoch = Wrap * wraps
  BY <1>1, <1>2
<1>. QED
  BY <1>1, <1>2, <1>3 DEF ClockOK, TimesOK, At

(* ... runs on, ...                                                          *)
LEMMA NextClock == TypeInv /\ ClockOK /\ [Next]_vars => ClockOK'
<1>. SUFFICES ASSUME TypeInv, ClockOK, [Next]_vars PROVE ClockOK'
  OBVIOUS
<1>1. CASE EmitEvent \/ EmitPacket
  <2>. DEFINE m == Len(sent)
  <2>1. PICK r \in SentRecords :
          /\ now' \in Nat /\ now' >= now /\ r.timestamp = now' /\ sent' = Append(sent, r)
    BY <1>1, EmitFacts
  <2>2. /\ m \in Nat /\ Len(sent') = m + 1 /\ sent'[m + 1] = r
        /\ \A i \in 1..m : sent'[i] = sent[i]
    BY <2>1 DEF TypeInv
  <2>3. now \in Nat /\ \A i \in 0..m : At(sent, i) \in Nat /\ At(sent, i) <= now
    <3>1. now \in Nat /\ \A i \in 0..m : At(sent, i) \in Nat
      BY TimesTyped DEF TypeInv, TypeOK
    <3>2. ASSUME NEW i \in 0..m
          PROVE  At(sent, i) <= now
      <4>1. i = 0 \/ i \in 1..m
        BY <2>2
      <4>. QED
        BY <3>1, <4>1 DEF At, ClockOK
    <3>. QED
      BY <3>1, <3>2
  <2>. HIDE DEF m
  <2>4. At(sent', m + 1) = now' /\ \A i \in 0..m : At(sent', i) = At(sent, i)
    <3>1. m + 1 # 0
      BY <2>2
    <3>2. ASSUME NEW i \in 0..m
          PROVE  At(sent', i) = At(sent, i)
      <4>1. i = 0 \/ i \in 1..m
        BY <2>2
      <4>. QED
        BY <2>2, <4>1 DEF At
    <3>. QED
      BY <2>1, <2>2, <3>1, <3>2 DEF At
  <2>5. ASSUME NEW i \in 1..(m + 1)
        PROVE  At(sent', i - 1) <= At(sent', i) /\ At(sent', i) <= now'
    <3>1. i = m + 1 \/ (i \in 1..m /\ i \in 0..m)
      BY <2>2
    <3>2. i - 1 \in 0..m
      BY <2>2
    <3>3. CASE i = m + 1
      BY <2>1, <2>3, <2>4, <3>2, <3>3
    <3>4. CASE i \in 1..m
      <4>1. At(sent, i - 1) <= At(sent, i) /\ At(sent, i) <= now
        BY <3>4 DEF ClockOK, m
      <4>2. i \in 0..m
        BY <3>4
      <4>. QED
        BY <2>1, <2>3, <2>4, <3>2, <4>1, <4>2
    <3>. QED
      BY <3>1, <3>3, <3>4
  <2>. QED
    BY <2>2, <2>5 DEF ClockOK
<1>2. CASE UNCHANGED << now, sent >>
  BY <1>2 DEF ClockOK
<1>. QED
  BY <1>1, <1>2 DEF Next, LoseTransfer, Feed, DecodeEvent, DecodePacket, Desync, Return,
                    vars, analyzer

(* Records sent before keep their places and their times.                    *)
LEMMA SentKept ==
  ASSUME TypeInv, EmitEvent \/ EmitPacket
  PROVE  /\ Len(sent') = Len(sent) + 1
         /\ \A i \in 1..Len(sent) : sent'[i] = sent[i]
         /\ \A i \in 0..Len(sent) : At(sent', i) = At(sent, i)
         /\ UNCHANGED << lost, decoder >>
<1>1. PICK r \in SentRecords : sent' = Append(sent, r) /\ UNCHANGED << lost, decoder >>
  BY EmitFacts
<1>2. /\ Len(sent) \in Nat /\ Len(sent') = Len(sent) + 1
      /\ \A i \in 1..Len(sent) : sent'[i] = sent[i]
  BY <1>1 DEF TypeInv
<1>3. ASSUME NEW i \in 0..Len(sent)
      PROVE  At(sent', i) = At(sent, i)
  <2>1. i = 0 \/ i \in 1..Len(sent)
    BY <1>2
  <2>. QED
    BY <1>2, <2>1 DEF At
<1>. QED
  BY <1>1, <1>2, <1>3

(* A record's extended time is a time.                                       *)
LEMMA YieldTyped ==
  ASSUME TypeInv, DecodeEvent \/ DecodePacket
  PROVE  epoch' + Half(2) \in Nat
<1>1. HeaderRead /\ \E kind, body : Yield(kind, body, Half(2))
  BY DEF DecodeEvent, DecodePacket
<1>2. Half(2) \in 0..(Wrap - 1)
  BY <1>1, HeaderTypes
<1>. QED
  BY <1>1, <1>2, YieldFacts

(* The gaps between the records as the property has them.                    *)
LEMMA GapsAreGaps ==
  ASSUME NEW n \in Nat, WithinWrap(n)
  PROVE  \A j \in 1..n : At(sent, j) - At(sent, j - 1) < Wrap
<1>. SUFFICES ASSUME NEW j \in 1..n
              PROVE  At(sent, j) - At(sent, j - 1) < Wrap
  OBVIOUS
<1>1. sent[j].timestamp - (IF j = 1 THEN 0 ELSE sent[j - 1].timestamp) < Wrap
  BY DEF WithinWrap
<1>2. j # 0 /\ (j - 1 = 0 <=> j = 1)
  OBVIOUS
<1>. QED
  BY <1>1, <1>2 DEF At

(* ... and the decoder goes by it.                                           *)
LEMMA NextTimes ==
  TypeInv /\ StreamOK /\ ClockOK /\ TimesOK /\ [Next]_vars => TimesOK'
<1>. SUFFICES ASSUME TypeInv, StreamOK, ClockOK, TimesOK, [Next]_vars, lost' = 0
              PROVE  TimesOK'
  BY DEF TimesOK
<1>. DEFINE n == Len(out)
<1>1. lost = 0 /\ ~LoseTransfer
  BY NothingLost
<1>2. n \in Nat /\ Len(sent) \in Nat /\ n <= Len(sent)
  BY <1>1, StreamTypes DEF StreamOK
<1>3. /\ epoch + lastRaw = At(out, n) /\ lastRaw = At(sent, n) % Wrap
      /\ \E wraps \in Nat : epoch = Wrap * wraps
      /\ \A i, j \in 1..n : i <= j => At(out, i) <= At(out, j)
      /\ \A i \in 1..n :
           /\ At(out, i) <= At(sent, i)
           /\ (\A j \in 1..i : At(sent, j) - At(sent, j - 1) < Wrap) =>
                At(out, i) = At(sent, i)
  BY <1>1 DEF TimesOK
<1>4. CASE EmitEvent \/ EmitPacket
  <2>1. /\ \A i \in 0..Len(sent) : At(sent', i) = At(sent, i)
        /\ epoch' = epoch /\ lastRaw' = lastRaw /\ out' = out
    BY <1>4, SentKept DEF decoder
  <2>. HIDE DEF n
  <2>2. \A i \in 0..n : At(sent', i) = At(sent, i)
    BY <1>2, <2>1
  <2>3. epoch' + lastRaw' = At(out', n) /\ lastRaw' = At(sent', n) % Wrap
    BY <1>2, <1>3, <2>1, <2>2
  <2>4. ASSUME NEW i \in 1..n
        PROVE  /\ At(out', i) <= At(sent', i)
               /\ (\A j \in 1..i : At(sent', j) - At(sent', j - 1) < Wrap) =>
                    At(out', i) = At(sent', i)
    <3>1. i \in 0..n /\ \A j \in 1..i : j \in 0..n /\ j - 1 \in 0..n
      BY <1>2
    <3>2. \A j \in 1..i : At(sent', j) = At(sent, j) /\ At(sent', j - 1) = At(sent, j - 1)
      BY <2>2, <3>1
    <3>3. At(sent', i) = At(sent, i) /\ At(out', i) = At(out, i)
      BY <2>1, <2>2, <3>1
    <3>. QED
      BY <1>3, <3>2, <3>3
  <2>. QED
    BY <1>3, <2>1, <2>3, <2>4 DEF TimesOK, n
<1>5. CASE DecodeEvent \/ DecodePacket
  <2>. DEFINE r == sent[n + 1]
              raw == Half(2)
              o == Record(r.kind, r.body, epoch' + raw)
              t == At(sent, n)
              u == At(sent, n + 1)
  <2>1. /\ n + 1 \in 1..Len(sent) /\ r \in SentRecords
        /\ raw = r.timestamp % Wrap /\ raw \in 0..(Wrap - 1)
        /\ o \in OutRecords /\ out' = Append(out, o)
    BY <1>1, <1>5, DecodeFacts
  <2>2. o.timestamp = epoch' + raw
    BY DEF Record
  <2>3. /\ epoch' = (IF raw < lastRaw THEN epoch + Wrap ELSE epoch) /\ lastRaw' = raw
    BY <1>5, <2>1, YieldFacts DEF DecodeEvent, DecodePacket
  <2>4. u = r.timestamp
    BY <1>2 DEF At
  <2>. HIDE DEF o
  <2>5. Len(out') = n + 1 /\ out'[n + 1] = o /\ \A i \in 1..n : out'[i] = out[i]
    BY <2>1, OutTypes DEF TypeInv
  <2>6. At(out', n + 1) = epoch' + raw
    BY <1>2, <2>2, <2>5 DEF At
  <2>7. \A i \in 1..n : At(out', i) = At(out, i)
    BY <2>5 DEF At
  <2>8. \A i \in 0..n : At(out, i) \in Nat
    BY TimesTyped
  <2>9. \A i \in 0..Len(sent) : At(sent, i) \in Nat
    BY TimesTyped
  <2>10. t \in Nat /\ u \in Nat /\ t <= u
    <3>1. (n + 1) - 1 = n /\ n \in 0..Len(sent) /\ n + 1 \in 0..Len(sent)
      BY <1>2, <2>1
    <3>. QED
      BY <2>1, <2>9, <3>1 DEF ClockOK
  <2>11. sent' = sent
    BY <1>5 DEF DecodeEvent, DecodePacket, analyzer
  <2>12. At(out, n) <= t
    <3>1. n = 0 \/ n \in 1..n
      BY <1>2
    <3>. QED
      BY <1>3, <3>1 DEF At
  <2>13. PICK e \in Nat : epoch = Wrap * e
    BY <1>3
  <2>. HIDE DEF n, raw, t, u, r
  <2>14. /\ At(out, n) <= epoch' + raw /\ epoch' + raw <= u
         /\ At(out, n) = t /\ u - t < Wrap => epoch' + raw = u
         /\ \E k \in Nat : epoch' = Wrap * k
    <3>1. lastRaw = t % Wrap /\ Wrap * e + lastRaw = At(out, n) /\ Wrap * e + lastRaw <= t
      BY <1>3, <2>12, <2>13 DEF t
    <3>2. raw = u % Wrap
      BY <2>1, <2>4
    <3>3. /\ Wrap * e + lastRaw <= epoch' + raw /\ epoch' + raw <= u
          /\ Wrap * e + lastRaw = t /\ u - t < Wrap => epoch' + raw = u
          /\ \E k \in Nat : epoch' = Wrap * k
      <4>1. epoch' = IF raw < lastRaw THEN Wrap * e + Wrap ELSE Wrap * e
        BY <2>3, <2>13
      <4>2. Extends(Wrap, t, u, e, lastRaw, raw, epoch')
        BY <2>10, <3>1, <3>2, <4>1, WrapPositive DEF Extends
      <4>. QED
        BY <4>2, ExtendFacts
    <3>. QED
      BY <3>1, <3>3
  <2>15. epoch' + lastRaw' = At(out', n + 1) /\ lastRaw' = At(sent', n + 1) % Wrap
    BY <2>1, <2>3, <2>4, <2>6, <2>11 DEF u
  <2>16. ASSUME NEW i \in 1..(n + 1), NEW j \in 1..(n + 1), i <= j
         PROVE  At(out', i) <= At(out', j)
    <3>1. CASE j \in 1..n
      <4>1. i \in 1..n
        BY <1>2, <2>16, <3>1
      <4>. QED
        BY <1>3, <2>7, <2>16, <3>1, <4>1
    <3>2. CASE j = n + 1 /\ i \in 1..n
      <4>1. n \in 1..n /\ i <= n /\ i \in 0..n /\ n \in 0..n
        BY <1>2, <3>2
      <4>2. At(out, i) <= At(out, n)
        BY <1>3, <3>2, <4>1
      <4>3. At(out, n) <= At(out', n + 1) /\ At(out', n + 1) \in Int
        BY <1>5, <2>6, <2>14, YieldTyped DEF raw
      <4>4. At(out', i) = At(out, i)
        BY <2>7, <3>2
      <4>. QED
        BY <2>8, <3>2, <4>1, <4>2, <4>3, <4>4
    <3>3. CASE i = n + 1 /\ j = n + 1
      <4>1. At(out', n + 1) \in Int
        BY <2>6, YieldTyped, <1>5 DEF raw
      <4>. QED
        BY <3>3, <4>1
    <3>4. j \in 1..n \/ (j = n + 1 /\ i \in 1..n) \/ (i = n + 1 /\ j = n + 1)
      BY <1>2, <2>16
    <3>. QED
      BY <3>1, <3>2, <3>3, <3>4
  <2>17. ASSUME NEW i \in 1..(n + 1)
         PROVE  /\ At(out', i) <= At(sent', i)
                /\ (\A j \in 1..i : At(sent', j) - At(sent', j - 1) < Wrap) =>
                     At(out', i) = At(sent', i)
    <3>1. CASE i \in 1..n
      BY <1>3, <2>7, <2>11, <3>1
    <3>2. CASE i = n + 1
      <4>1. At(out', i) <= At(sent', i)
        BY <2>6, <2>11, <2>14, <3>2 DEF u
      <4>2. ASSUME \A j \in 1..i : At(sent, j) - At(sent, j - 1) < Wrap
            PROVE  At(out', i) = At(sent, i)
        <5>1. At(out, n) = t
          <6>1. CASE n = 0
            BY <6>1 DEF At, t
          <6>2. CASE n # 0
            <7>1. n \in 1..n /\ \A j \in 1..n : j \in 1..i
              BY <1>2, <3>2, <6>2
            <7>. QED
              BY <1>3, <4>2, <7>1 DEF t
          <6>. QED
            BY <6>1, <6>2
        <5>2. u - t < Wrap
          <6>1. i \in 1..i /\ i - 1 = n
            BY <1>2, <3>2
          <6>. QED
            BY <3>2, <4>2, <6>1 DEF u, t
        <5>. QED
          BY <2>6, <2>14, <3>2, <5>1, <5>2 DEF u
      <4>. QED
        BY <2>11, <4>1, <4>2
    <3>3. i \in 1..n \/ i = n + 1
      BY <1>2
    <3>. QED
      BY <3>1, <3>2, <3>3
  <2>. QED
    BY <2>5, <2>14, <2>15, <2>16, <2>17 DEF TimesOK
<1>6. CASE UNCHANGED << sent, lost, epoch, lastRaw, out >>
  BY <1>6 DEF TimesOK
<1>. QED
  BY <1>1, <1>4, <1>5, <1>6 DEF Next, Feed, Desync, Return, vars, analyzer, decoder

(* Times that go by the clock are exact or late.                             *)
LEMMA TimesTell == TypeInv /\ StreamOK /\ TimesOK => TimesExactOrLate
<1>. SUFFICES ASSUME TypeInv, StreamOK, TimesOK, lost = 0, NEW i \in DOMAIN out
              PROVE  /\ out[i].timestamp <= sent[i].timestamp
                     /\ i > 1 => out[i - 1].timestamp <= out[i].timestamp
                     /\ WithinWrap(i) => out[i].timestamp = sent[i].timestamp
  BY DEF TimesExactOrLate
<1>1. /\ Len(out) \in Nat /\ i \in 1..Len(out) /\ i # 0
  BY DEF TypeInv
<1>2. At(out, i) = out[i].timestamp /\ At(sent, i) = sent[i].timestamp
  BY <1>1 DEF At
<1>3. ASSUME i > 1
      PROVE  out[i - 1].timestamp <= out[i].timestamp
  <2>1. i - 1 \in 1..Len(out) /\ i - 1 # 0 /\ i - 1 <= i
    BY <1>1, <1>3
  <2>2. At(out, i - 1) <= At(out, i)
    BY <1>1, <2>1 DEF TimesOK
  <2>. QED
    BY <1>2, <2>1, <2>2 DEF At
<1>4. ASSUME WithinWrap(i)
      PROVE  \A j \in 1..i : At(sent, j) - At(sent, j - 1) < Wrap
  BY <1>1, <1>4, GapsAreGaps
<1>. QED
  BY <1>1, <1>2, <1>3, <1>4 DEF TimesOK

(* The timestamps are the truth as long as no gap is longer than a wrap, and *)
(* never later than the truth nor running backwards when one is.             *)
THEOREM TimesAlwaysExactOrLate == Spec => []TimesExactOrLate
<1>1. Init => TypeInv /\ StreamOK /\ ClockOK /\ TimesOK
  BY InitTypes, InitStream, InitTimes
<1>2. TypeInv /\ StreamOK /\ ClockOK /\ TimesOK /\ [Next]_vars
        => (TypeInv /\ StreamOK /\ ClockOK /\ TimesOK)'
  BY NextTypes, NextStream, NextClock, NextTimes
<1>. QED
  BY <1>1, <1>2, TimesTell, PTL DEF Spec

-----------------------------------------------------------------------------
(* The capture file *)

\* What PcapWriter may write.
Frames == {Frame(o) : o \in OutRecords}

\* captured names the packets among the records sent, in order, ...
CapturedOK ==
  /\ captured \in Seq(Nat)
  /\ \A k \in 1..Len(captured) :
       captured[k] \in 1..Len(sent) /\ sent[captured[k]].kind = "packet"
  /\ \A j, k \in 1..Len(captured) : j < k => captured[j] < captured[k]
  /\ \A i \in 1..Len(sent) :
       sent[i].kind = "packet" => \E k \in 1..Len(captured) : captured[k] = i

\* ... and the file has a frame for each of those that were decoded.
FileOK ==
  lost = 0 =>
    /\ file \in Seq(Frames) /\ Len(file) <= Len(captured)
    /\ \A k \in 1..Len(captured) : k <= Len(file) <=> captured[k] <= Len(out)
    /\ \A k \in 1..Len(file) : file[k] = Frame(out[captured[k]])

(* A record sent is listed if it is a packet, ...                            *)
LEMMA NextCaptured == TypeInv /\ CapturedOK /\ [Next]_vars => CapturedOK'
<1>. SUFFICES ASSUME TypeInv, CapturedOK, [Next]_vars PROVE CapturedOK'
  OBVIOUS
<1>1. CASE EmitEvent \/ EmitPacket
  <2>. DEFINE m == Len(sent)
              c == Len(captured)
  <2>1. PICK r \in SentRecords :
          /\ sent' = Append(sent, r)
          /\ captured' = IF r.kind = "packet" THEN Append(captured, m + 1) ELSE captured
    BY <1>1, EmitFacts
  <2>2. /\ m \in Nat /\ Len(sent') = m + 1 /\ sent'[m + 1] = r
        /\ \A i \in 1..m : sent'[i] = sent[i]
    BY <2>1 DEF TypeInv
  <2>3. /\ captured \in Seq(Nat) /\ c \in Nat
        /\ \A k \in 1..c : captured[k] \in 1..m /\ sent[captured[k]].kind = "packet"
        /\ \A j, k \in 1..c : j < k => captured[j] < captured[k]
        /\ \A i \in 1..m : sent[i].kind = "packet" => \E k \in 1..c : captured[k] = i
    BY DEF CapturedOK
  <2>. HIDE DEF m
  <2>4. CASE r.kind # "packet"
    <3>. HIDE DEF c
    <3>1. \A k \in 1..c : captured[k] \in 1..(m + 1) /\ sent'[captured[k]].kind = "packet"
      BY <2>2, <2>3
    <3>2. ASSUME NEW i \in 1..(m + 1), sent'[i].kind = "packet"
          PROVE  \E k \in 1..c : captured[k] = i
      <4>1. i \in 1..m
        BY <2>2, <2>4, <3>2
      <4>. QED
        BY <2>2, <2>3, <3>2, <4>1
    <3>. QED
      BY <2>1, <2>2, <2>3, <2>4, <3>1, <3>2 DEF CapturedOK, c
  <2>5. CASE r.kind = "packet"
    <3>1. /\ captured' \in Seq(Nat) /\ Len(captured') = c + 1 /\ captured'[c + 1] = m + 1
          /\ \A k \in 1..c : captured'[k] = captured[k]
      BY <2>1, <2>2, <2>3, <2>5
    <3>. HIDE DEF c
    <3>2. ASSUME NEW k \in 1..(c + 1)
          PROVE  /\ captured'[k] \in 1..(m + 1) /\ sent'[captured'[k]].kind = "packet"
      <4>1. CASE k \in 1..c
        <5>1. captured'[k] = captured[k]
          BY <3>1, <4>1
        <5>2. captured[k] \in 1..m /\ sent[captured[k]].kind = "packet"
          BY <2>3, <4>1
        <5>3. captured[k] \in 1..(m + 1)
          BY <2>2, <5>2
        <5>4. sent'[captured[k]] = sent[captured[k]]
          BY <2>2, <5>2
        <5>. QED
          BY <5>1, <5>2, <5>3, <5>4
      <4>2. CASE k = c + 1
        BY <2>2, <2>5, <3>1, <4>2
      <4>. QED
        BY <2>3, <4>1, <4>2
    <3>3. ASSUME NEW j \in 1..(c + 1), NEW k \in 1..(c + 1), j < k
          PROVE  captured'[j] < captured'[k]
      <4>1. j \in 1..c
        BY <2>3, <3>3
      <4>2. CASE k \in 1..c
        BY <2>3, <3>1, <3>3, <4>1, <4>2
      <4>3. CASE k = c + 1
        <5>1. captured[j] \in 1..m
          BY <2>3, <4>1
        <5>. QED
          BY <2>2, <3>1, <4>1, <4>3, <5>1
      <4>. QED
        BY <2>3, <4>2, <4>3
    <3>4. ASSUME NEW i \in 1..(m + 1), sent'[i].kind = "packet"
          PROVE  \E k \in 1..(c + 1) : captured'[k] = i
      <4>1. CASE i \in 1..m
        <5>1. PICK k \in 1..c : captured[k] = i
          BY <2>2, <2>3, <3>4, <4>1
        <5>2. k \in 1..(c + 1) /\ captured'[k] = i
          BY <2>3, <3>1, <5>1
        <5>. QED
          BY <5>2
      <4>2. CASE i = m + 1
        <5>1. c + 1 \in 1..(c + 1) /\ captured'[c + 1] = i
          BY <2>3, <3>1, <4>2
        <5>. QED
          BY <5>1
      <4>. QED
        BY <2>2, <4>1, <4>2
    <3>. QED
      BY <2>2, <3>1, <3>2, <3>3, <3>4 DEF CapturedOK
  <2>. QED
    BY <2>4, <2>5
<1>2. CASE UNCHANGED << sent, captured >>
  BY <1>2 DEF CapturedOK
<1>. QED
  BY <1>1, <1>2 DEF Next, LoseTransfer, Feed, DecodeEvent, DecodePacket, Desync, Return,
                    vars, analyzer

(* ... and written when it is decoded.                                       *)
LEMMA NextFile ==
  TypeInv /\ StreamOK /\ CapturedOK /\ FileOK /\ [Next]_vars => FileOK'
<1>. SUFFICES ASSUME TypeInv, StreamOK, CapturedOK, FileOK, [Next]_vars, lost' = 0
              PROVE  FileOK'
  BY DEF FileOK
<1>. DEFINE n == Len(out)
            c == Len(captured)
            w == Len(file)
<1>1. lost = 0 /\ ~LoseTransfer
  BY NothingLost
<1>2. n \in Nat /\ Len(sent) \in Nat /\ n <= Len(sent)
  BY <1>1, StreamTypes DEF StreamOK
<1>3. /\ file \in Seq(Frames) /\ w \in Nat /\ w <= c
      /\ \A k \in 1..c : k <= w <=> captured[k] <= n
      /\ \A k \in 1..w : file[k] = Frame(out[captured[k]])
  BY <1>1 DEF FileOK
<1>4. /\ c \in Nat /\ captured \in Seq(Nat)
      /\ \A k \in 1..c : captured[k] \in 1..Len(sent) /\ sent[captured[k]].kind = "packet"
      /\ \A j, k \in 1..c : j < k => captured[j] < captured[k]
      /\ \A i \in 1..Len(sent) : sent[i].kind = "packet" => \E k \in 1..c : captured[k] = i
  BY DEF CapturedOK
<1>5. CASE EmitEvent \/ EmitPacket
  <2>1. PICK r \in SentRecords :
          /\ captured' = IF r.kind = "packet" THEN Append(captured, Len(sent) + 1)
                         ELSE captured
          /\ UNCHANGED << lost, decoder >>
    BY <1>5, EmitFacts
  <2>2. out' = out /\ file' = file
    BY <2>1 DEF decoder
  <2>3. CASE r.kind # "packet"
    BY <1>1, <2>1, <2>2, <2>3 DEF FileOK
  <2>4. CASE r.kind = "packet"
    <3>1. /\ Len(captured') = c + 1 /\ captured'[c + 1] = Len(sent) + 1
          /\ \A k \in 1..c : captured'[k] = captured[k]
      BY <1>2, <1>4, <2>1, <2>4
    <3>. HIDE DEF n, c, w
    <3>2. ASSUME NEW k \in 1..(c + 1)
          PROVE  k <= w <=> captured'[k] <= n
      <4>1. CASE k \in 1..c
        BY <1>3, <3>1, <4>1
      <4>2. CASE k = c + 1
        BY <1>2, <1>3, <1>4, <3>1, <4>2
      <4>. QED
        BY <1>4, <4>1, <4>2
    <3>3. \A k \in 1..w : file[k] = Frame(out[captured'[k]])
      BY <1>3, <1>4, <3>1
    <3>. QED
      BY <1>3, <1>4, <2>2, <3>1, <3>2, <3>3 DEF FileOK, n, w
  <2>. QED
    BY <2>3, <2>4
<1>6. CASE DecodeEvent \/ DecodePacket
  <2>. DEFINE r == sent[n + 1]
              o == Record(r.kind, r.body, epoch' + Half(2))
  <2>1. /\ n + 1 \in 1..Len(sent) /\ o \in OutRecords /\ out' = Append(out, o)
        /\ file' = IF r.kind = "packet" THEN Append(file, Frame(o)) ELSE file
    BY <1>1, <1>6, DecodeFacts
  <2>. HIDE DEF o, r
  <2>2. Len(out') = n + 1 /\ out'[n + 1] = o /\ \A i \in 1..n : out'[i] = out[i]
    BY <2>1, OutTypes DEF TypeInv
  <2>3. captured' = captured
    BY <1>6 DEF DecodeEvent, DecodePacket, analyzer
  <2>. HIDE DEF n, c
  <2>4. ASSUME NEW k \in 1..w
        PROVE  file[k] = Frame(out'[captured[k]])
    <3>1. k \in 1..c /\ k <= w
      BY <1>3, <1>4
    <3>2. captured[k] \in 1..n
      BY <1>2, <1>3, <1>4, <3>1
    <3>. QED
      BY <1>3, <2>2, <3>2
  <2>5. CASE r.kind # "packet"
    <3>1. \A k \in 1..c : captured[k] # n + 1
      BY <1>4, <2>5 DEF r
    <3>2. \A k \in 1..c : captured[k] <= n + 1 <=> captured[k] <= n
      BY <1>2, <1>4, <3>1
    <3>3. file' = file
      BY <2>1, <2>5
    <3>. QED
      BY <1>3, <2>2, <2>3, <2>4, <3>2, <3>3 DEF FileOK, c, w
  <2>6. CASE r.kind = "packet"
    <3>1. PICK q \in 1..c : captured[q] = n + 1
      BY <1>4, <2>1, <2>6 DEF r
    <3>2. Frame(o) \in Frames
      BY <2>1 DEF Frames
    <3>3. /\ file' \in Seq(Frames) /\ Len(file') = w + 1 /\ file'[w + 1] = Frame(o)
          /\ \A k \in 1..w : file'[k] = file[k]
      BY <1>3, <2>1, <2>6, <3>2
    <3>. HIDE DEF w
    <3>4. q = w + 1
      <4>1. ~(q <= w)
        BY <1>2, <1>3, <3>1
      <4>2. ASSUME q > w + 1 PROVE FALSE
        <5>1. w + 1 \in 1..c /\ ~(w + 1 <= w) /\ w + 1 < q
          BY <1>3, <1>4, <4>2
        <5>2. captured[w + 1] \in Nat /\ captured[w + 1] < n + 1
          BY <1>4, <3>1, <5>1
        <5>3. captured[w + 1] <= n
          BY <1>2, <5>2
        <5>. QED
          BY <1>3, <5>1, <5>3
      <4>. QED
        BY <1>3, <4>1, <4>2
    <3>5. ASSUME NEW k \in 1..c
          PROVE  k <= w + 1 <=> captured[k] <= n + 1
      <4>1. k \in Nat /\ captured[k] \in Nat
        BY <1>4
      <4>2. CASE k <= w
        <5>1. captured[k] <= n
          BY <1>3, <4>2
        <5>. QED
          BY <1>2, <1>3, <4>1, <4>2, <5>1
      <4>3. CASE k = w + 1
        BY <1>2, <1>3, <3>1, <3>4, <4>3
      <4>4. CASE k > w + 1
        <5>1. n + 1 < captured[k]
          BY <1>4, <3>1, <3>4, <4>4
        <5>. QED
          BY <1>2, <1>3, <4>1, <4>4, <5>1
      <4>. QED
        BY <1>3, <4>1, <4>2, <4>3, <4>4
    <3>6. ASSUME NEW k \in 1..(w + 1)
          PROVE  file'[k] = Frame(out'[captured[k]])
      <4>1. CASE k \in 1..w
        BY <2>4, <3>3, <4>1
      <4>2. CASE k = w + 1
        BY <2>2, <3>1, <3>3, <3>4, <4>2
      <4>. QED
        BY <1>3, <4>1, <4>2
    <3>7. w + 1 <= c
      BY <1>4, <3>1, <3>4
    <3>. QED
      BY <2>2, <2>3, <3>3, <3>5, <3>6, <3>7 DEF FileOK, c
  <2>. QED
    BY <2>5, <2>6
<1>7. CASE UNCHANGED << lost, out, file, captured >>
  BY <1>7 DEF FileOK
<1>. QED
  BY <1>1, <1>5, <1>6, <1>7 DEF Next, Feed, Desync, Return, vars, analyzer, decoder

(* The float nearest to a time is no more than half a tick away from it.     *)
LEMMA NearestFacts ==
  ASSUME NEW n \in Nat
  PROVE  /\ Nearest(n) \in Nat
         /\ 2 * (CLOCK_HZ * Nearest(n)) \in Nat /\ 2 * (n * TICKS) \in Nat
         /\ 2 * (CLOCK_HZ * Nearest(n)) <= 2 * (n * TICKS) + CLOCK_HZ
         /\ 2 * (n * TICKS) < 2 * (CLOCK_HZ * Nearest(n)) + CLOCK_HZ
<1>. DEFINE h == CLOCK_HZ
            x == n * TICKS
            q == Nearest(n)
            r == (2 * x + h) % (2 * h)
<1>1. h \in Nat /\ h > 0 /\ x \in Nat
  BY TimeAssumption
<1>2. q = (2 * x + h) \div (2 * h)
  <2>1. 2 * n * TICKS = 2 * x
    BY TimeAssumption
  <2>. QED
    BY <2>1 DEF Nearest
<1>. HIDE DEF h, x, q
<1>3. 2 * x + h \in Nat /\ 2 * h \in Nat /\ 2 * h > 0
  BY <1>1
<1>4. q \in Nat /\ r \in 0..(2 * h - 1) /\ 2 * x + h = (2 * h) * q + r
  BY <1>2, <1>3, DivModOf
<1>. HIDE DEF r
<1>5. (2 * h) * q = 2 * (h * q) /\ h * q \in Nat
  BY <1>1, <1>4
<1>6. /\ q \in Nat /\ 2 * (h * q) \in Nat /\ 2 * x \in Nat
      /\ 2 * (h * q) <= 2 * x + h /\ 2 * x < 2 * (h * q) + h
  <2>. DEFINE z == h * q
  <2>1. z \in Nat /\ 2 * x + h = 2 * z + r /\ r \in 0..(2 * h - 1)
    BY <1>4, <1>5
  <2>. HIDE DEF z
  <2>2. 2 * z \in Nat /\ 2 * x \in Nat /\ 2 * z <= 2 * x + h /\ 2 * x < 2 * z + h
    BY <2>1, <1>1
  <2>. QED
    BY <2>2, <1>4 DEF z
<1>. QED
  BY <1>6 DEF h, x, q

LEMMA NearestTyped ==
  ASSUME NEW n \in Nat
  PROVE  Nearest(n) \in Nat
BY NearestFacts, Zenon

(* A later time does not become an earlier float.                            *)
LEMMA NearestMonotone ==
  ASSUME NEW m \in Nat, NEW n \in Nat, m <= n
  PROVE  Nearest(m) <= Nearest(n)
<1>. DEFINE x == 2 * m * TICKS + CLOCK_HZ
            y == 2 * n * TICKS + CLOCK_HZ
            b == 2 * CLOCK_HZ
<1>1. x \in Nat /\ y \in Nat /\ b \in Nat /\ b > 0
  BY TimeAssumption
<1>2. x <= y
  <2>1. m * TICKS <= n * TICKS /\ m * TICKS \in Nat /\ n * TICKS \in Nat
    BY TimeAssumption
  <2>2. 2 * m * TICKS = 2 * (m * TICKS) /\ 2 * n * TICKS = 2 * (n * TICKS)
    BY TimeAssumption
  <2>. QED
    BY <2>1, <2>2, TimeAssumption
<1>. HIDE DEF x, y, b
<1>3. x \div b <= y \div b
  BY <1>1, <1>2, DivMonotone
<1>. QED
  BY <1>3 DEF Nearest, x, y, b

(* A frame's time in floats.                                                 *)
When(o) == Started + Nearest(o.timestamp)

(* The seconds and the fraction of a frame are its float in microseconds,    *)
(* cut once.                                                                 *)
LEMMA FrameFacts ==
  ASSUME NEW o, o.timestamp \in Nat
  PROVE  /\ FileMicros(Frame(o)) = (When(o) * Million) \div TICKS
         /\ Frame(o).micros < Million /\ Frame(o).data = o.body
         /\ When(o) \in Nat /\ When(o) * Million \in Nat
<1>. DEFINE when == When(o)
            h == TICKS
            m == Million
            s == when \div h
            f == when % h
            q == (f * m) \div h
            g == (f * m) % h
<1>1. when \in Nat /\ h \in Nat /\ h > 0 /\ m \in Nat /\ m > 0
  <2>1. Nearest(o.timestamp) \in Nat
    BY NearestTyped
  <2>. QED
    BY <2>1, TimeAssumption DEF When
<1>2. Frame(o).seconds = s /\ Frame(o).micros = q /\ Frame(o).data = o.body
  BY DEF Frame, When
<1>. HIDE DEF when, h, m
<1>3. s \in Nat /\ f \in 0..(h - 1) /\ when = h * s + f
  BY <1>1, DivModOf
<1>. HIDE DEF s, f
<1>4. f \in Nat /\ f <= h - 1 /\ f * m \in Nat
  BY <1>1, <1>3
<1>5. q \in Nat /\ g \in 0..(h - 1) /\ f * m = h * q + g
  BY <1>1, <1>4, DivModOf
<1>. HIDE DEF q, g
<1>6. (when * m) \div h = s * m + q
  <2>1. when * m = (h * s) * m + f * m
    BY <1>1, <1>3
  <2>2. (h * s) * m = h * (s * m) /\ s * m \in Nat
    BY <1>1, <1>3
  <2>3. h * (s * m) + h * q = h * (s * m + q)
    BY <1>1, <1>5, <2>2
  <2>4. h * (s * m) \in Nat /\ h * q \in Nat
    BY <1>1, <1>5, <2>2
  <2>5. when * m = h * (s * m + q) + g
    BY <1>1, <1>5, <2>1, <2>2, <2>3, <2>4
  <2>6. when * m \in Int /\ s * m + q \in Int /\ h \in Int
    BY <1>1, <1>5, <2>2
  <2>. QED
    BY <1>1, <1>5, <2>5, <2>6, DivModUnique
<1>7. q < m
  <2>1. SUFFICES ASSUME m <= q PROVE FALSE
    BY <1>1, <1>5
  <2>2. h * m <= h * q /\ f * m <= (h - 1) * m
    BY <1>1, <1>4, <1>5, <2>1
  <2>3. (h - 1) * m = h * m - m /\ h * m \in Nat /\ h * q \in Nat
    BY <1>1, <1>5
  <2>. QED
    BY <1>1, <1>4, <1>5, <2>2, <2>3
<1>8. when * m \in Nat
  BY <1>1
<1>. QED
  BY <1>1, <1>2, <1>6, <1>7, <1>8 DEF FileMicros, when, m, h

(* Frames come in the order of the times of their records, ...               *)
LEMMA MicrosMonotone ==
  ASSUME NEW o, NEW p, o.timestamp \in Nat, p.timestamp \in Nat, o.timestamp <= p.timestamp
  PROVE  FileMicros(Frame(o)) <= FileMicros(Frame(p))
<1>. DEFINE x == When(o)
            y == When(p)
<1>1. x \in Nat /\ y \in Nat /\ Million \in Nat /\ TICKS \in Nat /\ TICKS > 0 /\ Started \in Nat
  BY TimeAssumption, FrameFacts
<1>2. x <= y
  <2>1. /\ Nearest(o.timestamp) \in Nat /\ Nearest(p.timestamp) \in Nat
        /\ Nearest(o.timestamp) <= Nearest(p.timestamp)
    BY NearestTyped, NearestMonotone
  <2>. QED
    BY <1>1, <2>1 DEF When
<1>. HIDE DEF x, y
<1>3. x * Million \in Nat /\ y * Million \in Nat /\ x * Million <= y * Million
  BY <1>1, <1>2
<1>4. (x * Million) \div TICKS <= (y * Million) \div TICKS
  BY <1>1, <1>3, DivMonotone
<1>. QED
  BY <1>4, FrameFacts DEF x, y

(* ... and each is as close to its record's time as the rounding and the cut *)
(* allow.                                                                    *)
LEMMA FrameIsClose ==
  ASSUME NEW o, o.timestamp \in Nat
  PROVE  /\ Lateness(Frame(o), o) \in Int
         /\ 2 * Lateness(Frame(o), o) <= Tick
         /\ 2 * Lateness(Frame(o), o) > -(2 * Microsecond + Tick)
<1>. DEFINE n == o.timestamp
            t == TICKS
            h == CLOCK_HZ
            m == Million
            s == Started
            c == Nearest(n)
            f == FileMicros(Frame(o))
            x == n * t
            z == h * c
            r == ((s + c) * m) % t
<1>1. /\ t \in Nat /\ t > 0 /\ h \in Nat /\ h > 0 /\ m \in Nat /\ m > 0
      /\ s \in Nat /\ n \in Nat /\ c \in Nat
  <2>1. c \in Nat
    BY NearestTyped
  <2>. QED
    BY <2>1, TimeAssumption
<1>2. 2 * z \in Nat /\ 2 * x \in Nat /\ 2 * z <= 2 * x + h /\ 2 * x < 2 * z + h
  BY NearestFacts
<1>3. f = ((s + c) * m) \div t /\ (s + c) * m \in Nat
  BY FrameFacts DEF When
<1>4. Lateness(Frame(o), o) = f * t * h - (s * h + x) * m
  BY DEF Lateness
<1>. HIDE DEF n, t, h, m, s, c, f
<1>5. f \in Nat /\ r \in 0..(t - 1) /\ (s + c) * m = t * f + r
  BY <1>1, <1>3, DivModOf
<1>. HIDE DEF r
<1>6. x \in Nat /\ z \in Nat
  BY <1>1
\* In units of a tick's and a microsecond's parts, what was cut off is h * r.
<1>7. f * t * h = ((s + c) * m) * h - h * r /\ h * r \in Nat
  <2>1. f * t * h = (t * f) * h /\ h * r = r * h /\ h * r \in Nat
    BY <1>1, <1>5
  <2>2. (t * f + r) * h = (t * f) * h + r * h
    BY <1>1, <1>5
  <2>3. ((s + c) * m) * h = (t * f) * h + r * h /\ (t * f) * h \in Nat
    BY <2>2, <1>1, <1>5
  <2>. QED
    BY <2>1, <2>3
<1>8. ((s + c) * m) * h = (s * h + z) * m
  <2>1. ((s + c) * m) * h = ((s + c) * h) * m
    BY <1>1
  <2>2. (s + c) * h = s * h + z
    BY <1>1
  <2>. QED
    BY <2>1, <2>2
<1>. HIDE DEF x, z
<1>9. (s * h + z) * m = (s * h) * m + z * m /\ (s * h + x) * m = (s * h) * m + x * m
  BY <1>1, <1>6
<1>10. /\ (s * h) * m \in Nat /\ z * m \in Nat /\ x * m \in Nat
       /\ m * h \in Nat /\ t * h \in Nat
  BY <1>1, <1>6
<1>11. 2 * (z * m) <= 2 * (x * m) + m * h
  <2>1. (2 * z) * m <= (2 * x + h) * m
    BY <1>1, <1>2
  <2>2. (2 * z) * m = 2 * (z * m) /\ (2 * x + h) * m = 2 * (x * m) + m * h
    BY <1>1, <1>6
  <2>. QED
    BY <2>1, <2>2
<1>12. 2 * (x * m) < 2 * (z * m) + m * h
  <2>1. (2 * x + 1) * m <= (2 * z + h) * m
    <3>1. 2 * x + 1 <= 2 * z + h /\ 2 * x + 1 \in Nat /\ 2 * z + h \in Nat
      BY <1>1, <1>2
    <3>. QED
      BY <3>1, <1>1
  <2>2. (2 * x + 1) * m = 2 * (x * m) + m /\ (2 * z + h) * m = 2 * (z * m) + m * h
    BY <1>1, <1>6
  <2>. QED
    BY <2>1, <2>2, <1>1, <1>10
<1>13. h * r <= t * h
  <2>1. h * r <= h * t
    BY <1>1, <1>5
  <2>. QED
    BY <2>1, <1>1
<1>14. Lateness(Frame(o), o) = z * m - x * m - h * r
  <2>. DEFINE a == (s * h) * m
              e == z * m
              g == x * m
              k == h * r
  <2>1. f * t * h = (a + e) - k /\ (s * h + x) * m = a + g
    BY <1>7, <1>8, <1>9
  <2>2. a \in Nat /\ e \in Nat /\ g \in Nat /\ k \in Nat
    BY <1>7, <1>10
  <2>. HIDE DEF a, e, g, k
  <2>3. ((a + e) - k) - (a + g) = e - g - k
    BY <2>2
  <2>4. Lateness(Frame(o), o) = e - g - k
    BY <1>4, <2>1, <2>3
  <2>. QED
    BY <2>4 DEF e, g, k
<1>15. Tick = m * h /\ Microsecond = t * h
  BY DEF Tick, Microsecond, m, h, t
<1>16. ASSUME NEW l, NEW e \in Nat, NEW g \in Nat, NEW k \in Nat, NEW u \in Nat, NEW v \in Nat,
              l = e - g - k, 2 * e <= 2 * g + v, 2 * g < 2 * e + v, k <= u
       PROVE  l \in Int /\ 2 * l <= v /\ 2 * l > -(2 * u + v)
  BY <1>16
<1>. QED
  BY <1>7, <1>10, <1>11, <1>12, <1>13, <1>14, <1>15, <1>16

(* Measured against a later truth a frame is less late.                      *)
LEMMA LatenessFalls ==
  ASSUME NEW o, NEW truth, o.timestamp \in Nat, truth.timestamp \in Nat,
         o.timestamp <= truth.timestamp
  PROVE  2 * Lateness(Frame(o), truth) <= Tick
<1>. DEFINE a == FileMicros(Frame(o)) * TICKS * CLOCK_HZ
            e == (Started * CLOCK_HZ + o.timestamp * TICKS) * Million
            g == (Started * CLOCK_HZ + truth.timestamp * TICKS) * Million
<1>1. e \in Nat /\ g \in Nat /\ e <= g
  <2>. DEFINE y == Started * CLOCK_HZ + o.timestamp * TICKS
              z == Started * CLOCK_HZ + truth.timestamp * TICKS
  <2>1. o.timestamp * TICKS <= truth.timestamp * TICKS
    BY TimeAssumption
  <2>2. y \in Nat /\ z \in Nat /\ y <= z
    BY <2>1, TimeAssumption
  <2>. HIDE DEF y, z
  <2>3. y * Million <= z * Million /\ y * Million \in Nat /\ z * Million \in Nat
    BY <2>2, TimeAssumption
  <2>. QED
    BY <2>3 DEF y, z
<1>2. a \in Nat
  <2>. DEFINE b == (When(o) * Million) \div TICKS
  <2>1. b \in Nat
    BY FrameFacts, DivModOf, TimeAssumption
  <2>2. FileMicros(Frame(o)) = b
    BY FrameFacts
  <2>. HIDE DEF b
  <2>. QED
    BY <2>1, <2>2, TimeAssumption
<1>3. Lateness(Frame(o), o) = a - e /\ Lateness(Frame(o), truth) = a - g
  BY DEF Lateness
<1>4. 2 * Lateness(Frame(o), o) <= Tick /\ Tick \in Nat
  BY FrameIsClose, TimeAssumption DEF Tick
<1>. HIDE DEF a, e, g
<1>. QED
  BY <1>1, <1>2, <1>3, <1>4

(* What the file says of the packets is true.                                *)
LEMMA FileTells ==
  TypeInv /\ StreamOK /\ TimesOK /\ CapturedOK /\ FileOK => FileTellsTime
<1>. SUFFICES ASSUME TypeInv, StreamOK, TimesOK, CapturedOK, FileOK, lost = 0
              PROVE  FileTellsTime
  BY DEF FileTellsTime
<1>1. /\ Len(file) \in Nat /\ DOMAIN file = 1..Len(file) /\ Len(file) <= Len(captured)
      /\ \A k \in 1..Len(captured) : k <= Len(file) <=> captured[k] <= Len(out)
      /\ \A k \in 1..Len(file) : file[k] = Frame(out[captured[k]])
  BY DEF FileOK
<1>2. /\ Len(captured) \in Nat /\ DOMAIN captured = 1..Len(captured)
      /\ \A k \in 1..Len(captured) : captured[k] \in 1..Len(sent)
      /\ \A j, k \in 1..Len(captured) : j < k => captured[j] < captured[k]
  BY DEF CapturedOK
<1>3. \A k \in DOMAIN captured : k \in DOMAIN file <=> captured[k] <= Len(out)
  <2>1. \A k \in 1..Len(captured) : k \in 1..Len(file) <=> k <= Len(file)
    BY <1>1, <1>2
  <2>. QED
    BY <1>1, <1>2, <2>1
<1>4. /\ Len(out) \in Nat /\ Len(sent) \in Nat
      /\ \A i \in 0..Len(out) : At(out, i) \in Nat
      /\ \A i \in 0..Len(sent) : At(sent, i) \in Nat
  BY StreamTypes, TimesTyped
<1>5. ASSUME NEW i \in 1..Len(file)
      PROVE  LET truth == sent[captured[i]]
             IN  /\ file[i].micros < Million
                 /\ file[i].data = truth.body
                 /\ 2 * Lateness(file[i], truth) <= Tick
                 /\ i > 1 => FileMicros(file[i - 1]) <= FileMicros(file[i])
                 /\ WithinWrap(captured[i]) =>
                      2 * Lateness(file[i], truth) > -(2 * Microsecond + Tick)
  <2>. DEFINE p == captured[i]
              o == out[p]
              truth == sent[p]
  <2>1. i \in 1..Len(captured) /\ i <= Len(file)
    BY <1>1, <1>2
  <2>2. p \in 1..Len(out) /\ p \in 1..Len(sent) /\ p \in Nat /\ p # 0
    BY <1>1, <1>2, <1>4, <2>1
  <2>3. file[i] = Frame(o)
    BY <1>1
  <2>4. o.timestamp = At(out, p) /\ truth.timestamp = At(sent, p)
    BY <2>2 DEF At
  <2>5. At(out, p) \in Nat /\ At(sent, p) \in Nat
    BY <1>4, <2>2
  <2>6. o.timestamp <= truth.timestamp /\ o.body = truth.body
    BY <2>2, <2>4 DEF TimesOK, StreamOK
  <2>7. WithinWrap(p) => o.timestamp = truth.timestamp
    BY <2>2, <2>4, GapsAreGaps DEF TimesOK
  <2>8. ASSUME i > 1
        PROVE  FileMicros(file[i - 1]) <= FileMicros(file[i])
    <3>. DEFINE b == captured[i - 1]
                d == out[b]
    <3>1. i - 1 \in 1..Len(captured) /\ i - 1 \in 1..Len(file) /\ i - 1 < i /\ i - 1 <= Len(file)
      BY <1>1, <1>2, <2>1, <2>8
    <3>2. b < p /\ b \in 1..Len(out) /\ b # 0
      <4>1. b < p
        BY <1>2, <2>1, <3>1
      <4>2. b \in 1..Len(sent) /\ b <= Len(out)
        BY <1>1, <1>2, <3>1
      <4>. QED
        BY <1>4, <4>1, <4>2
    <3>3. d.timestamp = At(out, b) /\ At(out, b) \in Nat
      BY <1>4, <3>2 DEF At
    <3>4. d.timestamp <= o.timestamp
      <4>1. b <= p
        BY <2>2, <3>2
      <4>. QED
        BY <2>2, <2>4, <3>2, <3>3, <4>1 DEF TimesOK
    <3>5. file[i - 1] = Frame(d)
      BY <1>1, <3>1
    <3>. HIDE DEF o, d, p, b
    <3>. QED
      BY <2>3, <2>4, <2>5, <3>3, <3>4, <3>5, MicrosMonotone
  <2>. HIDE DEF o, truth, p
  <2>9. file[i].micros < Million /\ file[i].data = truth.body
    BY <2>3, <2>4, <2>5, <2>6, FrameFacts
  <2>10. 2 * Lateness(file[i], truth) <= Tick
    BY <2>3, <2>4, <2>5, <2>6, LatenessFalls
  <2>11. ASSUME WithinWrap(p)
         PROVE  2 * Lateness(file[i], truth) > -(2 * Microsecond + Tick)
    <3>1. Lateness(file[i], truth) = Lateness(Frame(o), o)
      BY <2>3, <2>7, <2>11 DEF Lateness
    <3>2. 2 * Lateness(Frame(o), o) > -(2 * Microsecond + Tick)
      BY <2>4, <2>5, FrameIsClose
    <3>. QED
      BY <3>1, <3>2
  <2>. QED
    BY <2>8, <2>9, <2>10, <2>11 DEF p, truth
<1>. QED
  BY <1>1, <1>3, <1>5 DEF FileTellsTime

(* The capture file holds every packet decoded and nothing else, under times *)
(* that never run backwards and are late by half a tick of the float at most *)
(* and, as long as no gap is longer than a wrap, early by less than that and *)
(* a microsecond.                                                            *)
THEOREM FileAlwaysTellsTime == Spec => []FileTellsTime
<1>1. Init => CapturedOK /\ FileOK
  BY DEF Init, CapturedOK, FileOK
<1>2. Init => TypeInv /\ StreamOK /\ ClockOK /\ TimesOK
  BY InitTypes, InitStream, InitTimes
<1>3. TypeInv /\ StreamOK /\ ClockOK /\ TimesOK /\ CapturedOK /\ FileOK /\ [Next]_vars
        => (TypeInv /\ StreamOK /\ ClockOK /\ TimesOK /\ CapturedOK /\ FileOK)'
  BY NextTypes, NextStream, NextClock, NextTimes, NextCaptured, NextFile
<1>. QED
  BY <1>1, <1>2, <1>3, FileTells, PTL DEF Spec
=============================================================================

-------------------------- MODULE CodecExchangeProofs --------------------------
(***************************************************************************)
(* The two vehicles' parsers agree on every byte string, of any length and *)
(* for any radix of a byte; their encoders put the same block on the wire, *)
(* and a position comes back in the bytes it was sent in.                  *)
(***************************************************************************)
EXTENDS CodecExchange, SequenceTheorems, TLAPS

(* What the firmware stages: the report, cut to sixteen bytes.               *)
LEMMA StagedReport ==
  ASSUME NEW data \in Seq(Bytes), data # << >>
  PROVE  LET staged == StageSetReport(data) IN
         /\ Len(staged) = AtMost(Len(data), REPORT_SIZE)
         /\ \A i \in 1..AtMost(Len(data), REPORT_SIZE) : staged[i] = data[i]
<1>. DEFINE buffer == Tail(data)
            copied == AtMost(Len(buffer), REPORT_SIZE - 1)
            kept == SubSeq(buffer, 1, copied)
<1>1. /\ Len(data) \in Nat \ {0}
      /\ buffer \in Seq(Bytes) /\ Len(buffer) = Len(data) - 1
      /\ \A i \in 1..(Len(data) - 1) : buffer[i] = data[i + 1]
  OBVIOUS
<1>2. copied \in 0..Len(buffer) /\ copied + 1 = AtMost(Len(data), REPORT_SIZE)
  BY <1>1 DEF AtMost, REPORT_SIZE
<1>. HIDE DEF buffer, copied
<1>3. /\ kept \in Seq(Bytes) /\ Len(kept) = copied
      /\ \A i \in 1..copied : kept[i] = buffer[i]
  BY <1>1, <1>2
<1>. HIDE DEF kept
<1>4. /\ Len(<< data[1] >> \o kept) = copied + 1
      /\ (<< data[1] >> \o kept)[1] = data[1]
      /\ \A i \in 2..(copied + 1) : (<< data[1] >> \o kept)[i] = kept[i - 1]
  BY <1>2, <1>3
<1>5. ASSUME NEW i \in 1..(copied + 1)
      PROVE  (<< data[1] >> \o kept)[i] = data[i]
  <2>1. CASE i = 1
    BY <2>1, <1>4
  <2>2. CASE i # 1
    <3>1. i \in 2..(copied + 1) /\ i - 1 \in 1..copied
      BY <2>2, <1>1, <1>2
    <3>2. (<< data[1] >> \o kept)[i] = buffer[i - 1]
      BY <3>1, <1>3, <1>4
    <3>3. i - 1 \in 1..(Len(data) - 1)
      BY <3>1, <1>1, <1>2
    <3>4. buffer[i - 1] = data[(i - 1) + 1]
      BY <3>3, <1>1
    <3>5. (i - 1) + 1 = i
      BY <3>1
    <3>6. QED
      BY <3>2, <3>4, <3>5
  <2>3. QED
    BY <2>1, <2>2
<1>6. QED
  BY <1>2, <1>4, <1>5 DEF StageSetReport, kept, copied, buffer

(* Shifting four bytes into a word and folding them big-endian is the same.  *)
LEMMA ShiftIsBigEndian ==
  ASSUME NEW b0 \in Nat, NEW b1 \in Nat, NEW b2 \in Nat, NEW b3 \in Nat
  PROVE  ShiftWord(b0, b1, b2, b3) = ((b0 * Byte + b1) * Byte + b2) * Byte + b3
  BY ByteAssumption DEF ShiftWord

(* Slicing and indexing agree on every report the host can send.             *)
LEMMA ParsersAgreeOnReports ==
  ASSUME NEW data \in Seq(Bytes), data # << >>
  PROVE  FwParseCommand(StageSetReport(data)) = ParseCommand(data)
<1>. DEFINE staged == StageSetReport(data)
            last == AtMost(Len(data), REPORT_SIZE)
            body == SubSeq(data, 5, last)
<1>1. /\ Len(staged) = last
      /\ \A i \in 1..last : staged[i] = data[i]
  BY StagedReport
<1>2. /\ Len(data) \in Nat \ {0} /\ last \in 1..Len(data) /\ last <= 16
      /\ (Len(data) <= 16 => last = Len(data))
      /\ (Len(data) > 16 => last = 16)
  BY DEF AtMost, REPORT_SIZE
<1>3. \A i \in 1..last : data[i] \in Nat
  <2>1. \A i \in 1..Len(data) : data[i] \in Bytes
    OBVIOUS
  <2>2. QED
    BY <1>2, <2>1, ByteAssumption DEF Bytes
<1>4. /\ Len(body) = IF last >= 5 THEN last - 4 ELSE 0
      /\ \A i \in 1..(last - 4) : body[i] = data[i + 4]
  BY <1>2
<1>5. 4 + BODY_SIZE = REPORT_SIZE
  BY DEF BODY_SIZE, REPORT_SIZE
<1>. DEFINE framed == /\ Len(data) >= 5
                       /\ data[1] = REPORT_OUT
                       /\ data[2] = Magic0 /\ data[3] = Magic1
            py == WriteState(body[1] # 0, FromBytes(SubSeq(body, 3, 6)),
                             Len(body) > 6 /\ body[7] # 0,
                             IF Len(body) > 9 THEN body[10] ELSE Absent)
            fw == WriteState(staged[5] # 0,
                             ShiftWord(staged[7], staged[8], staged[9], staged[10]),
                             last > 10 /\ staged[11] # 0,
                             IF last > 13 THEN staged[14] ELSE Absent)
<1>6. ParseCommand(data) =
        IF framed /\ data[4] = RegRead THEN ReadRegister(data[5])
        ELSE IF framed /\ data[4] = RegState /\ Len(body) >= 6 THEN py
        ELSE Malformed
  BY <1>5 DEF ParseCommand
<1>7. FwParseCommand(staged) =
        IF framed /\ data[4] = RegRead THEN ReadRegister(data[5])
        ELSE IF framed /\ data[4] = RegState /\ last >= 10 THEN fw
        ELSE Malformed
  <2>1. CASE last >= 5
    <3>1. /\ staged[1] = data[1] /\ staged[2] = data[2] /\ staged[3] = data[3]
          /\ staged[4] = data[4] /\ staged[5] = data[5]
      BY <1>1, <1>2, <2>1
    <3>2. Len(data) >= 5 /\ Len(staged) = last
      BY <1>1, <1>2, <2>1
    <3>. HIDE DEF staged, last, fw
    <3>3. QED
      BY <2>1, <3>1, <3>2 DEF FwParseCommand, fw
  <2>2. CASE ~(last >= 5)
    <3>1. ~(Len(data) >= 5) /\ ~(Len(staged) >= 5) /\ ~(last >= 10)
      BY <1>1, <1>2, <2>2
    <3>. HIDE DEF staged, last, fw
    <3>2. QED
      BY <3>1 DEF FwParseCommand
  <2>3. QED
    BY <2>1, <2>2
<1>. HIDE DEF staged, last, body
<1>8. Len(body) >= 6 <=> last >= 10
  BY <1>2, <1>4
<1>9. ASSUME last >= 10
      PROVE  py = fw
  <2>1. Len(body) = last - 4 /\ last \in 10..16
    BY <1>2, <1>4, <1>9
  <2>2. body[1] = staged[5] /\ (Len(body) > 6 <=> last > 10)
        /\ (Len(body) > 9 <=> last > 13)
    BY <1>1, <1>4, <2>1
  <2>3. last > 10 => body[7] = staged[11]
    BY <1>1, <1>4, <2>1
  <2>4. last > 13 => body[10] = staged[14]
    BY <1>1, <1>4, <2>1
  <2>5. FromBytes(SubSeq(body, 3, 6)) =
          ((data[7] * Byte + data[8]) * Byte + data[9]) * Byte + data[10]
    <3>. DEFINE word == SubSeq(body, 3, 6)
    <3>1. body \in Seq(Bytes)
      BY <1>2 DEF body
    <3>2. \A i \in 1..4 : word[i] = body[i + 2]
      BY <2>1, <3>1
    <3>3. /\ body[3] = data[7] /\ body[4] = data[8]
          /\ body[5] = data[9] /\ body[6] = data[10]
      BY <1>4, <2>1
    <3>. HIDE DEF word
    <3>4. /\ word[1] = data[7] /\ word[2] = data[8]
          /\ word[3] = data[9] /\ word[4] = data[10]
      BY <3>2, <3>3
    <3>5. FromBytes(word) =
            ((data[7] * Byte + data[8]) * Byte + data[9]) * Byte + data[10]
      BY <3>4 DEF FromBytes
    <3>6. QED
      BY <3>5 DEF word
  <2>6. ShiftWord(staged[7], staged[8], staged[9], staged[10]) =
          ((data[7] * Byte + data[8]) * Byte + data[9]) * Byte + data[10]
    <3>1. /\ staged[7] = data[7] /\ staged[8] = data[8]
          /\ staged[9] = data[9] /\ staged[10] = data[10]
      BY <1>1, <2>1
    <3>2. /\ data[7] \in Nat /\ data[8] \in Nat
          /\ data[9] \in Nat /\ data[10] \in Nat
      BY <1>3, <2>1
    <3>3. QED
      BY <3>1, <3>2, ShiftIsBigEndian
  <2>7. QED
    BY <2>2, <2>3, <2>4, <2>5, <2>6
<1>. HIDE DEF framed, py, fw
<1>10. QED
  BY <1>6, <1>7, <1>8, <1>9 DEF staged

(* A report grows by bytes.                                                  *)
LEMMA ReportIsBytes == Spec => [](report \in Seq(Bytes))
<1>1. Init => report \in Seq(Bytes)
  BY DEF Init
<1>2. report \in Seq(Bytes) /\ [NextByte]_report => (report \in Seq(Bytes))'
  BY OfferedAssumption DEF NextByte
<1>3. QED
  BY <1>1, <1>2, PTL DEF Spec

(* The firmware and the Python vehicle decode every report to the same       *)
(* command: any length, any content, any radix of a byte.                    *)
THEOREM ParsersAlwaysAgree == Spec => []ParsersAgree
<1>1. report \in Seq(Bytes) => ParsersAgree
  BY ParsersAgreeOnReports DEF ParsersAgree, Decoded
<1>2. QED
  BY <1>1, ReportIsBytes, PTL
-----------------------------------------------------------------------------
(* Words and bytes                                                           *)

(* Quotient and remainder are what makes up a number.                        *)
LEMMA DivModUnique ==
  ASSUME NEW n \in Int, NEW b \in Int, b > 0,
         NEW q \in Int, NEW r \in 0..(b - 1), n = b * q + r
  PROVE  n \div b = q /\ n % b = r
  OBVIOUS

(* Two bytes make up a number below the square of the radix.                 *)
LEMMA TwoBytes ==
  ASSUME NEW a \in Bytes, NEW b \in Bytes
  PROVE  /\ Byte * a + b \in 0..(Byte * Byte - 1)
         /\ (Byte * a + b) \div Byte = a /\ (Byte * a + b) % Byte = b
<1>1. /\ Byte \in Int /\ Byte > 0
      /\ a \in Int /\ 0 <= a /\ a <= Byte - 1
      /\ b \in 0..(Byte - 1)
  BY ByteAssumption DEF Bytes
<1>2. Byte * a <= Byte * (Byte - 1) /\ 0 <= Byte * a
  BY <1>1
<1>3. Byte * (Byte - 1) = Byte * Byte - Byte
  BY <1>1
<1>4. Byte * a + b \in 0..(Byte * Byte - 1)
  BY <1>1, <1>2, <1>3
<1>. DEFINE n == Byte * a + b
<1>5. n \in Int
  BY <1>1
<1>. HIDE DEF n
<1>6. n = Byte * a + b => n \div Byte = a /\ n % Byte = b
  BY <1>1, <1>5, DivModUnique
<1>. QED
  BY <1>4, <1>6 DEF n

(* Two bytes after two.                                                      *)
LEMMA FourInARow ==
  ASSUME NEW a \in Int, NEW b \in Int, NEW c \in Int, NEW d \in Int
  PROVE  << a, b >> \o << c, d >> = << a, b, c, d >>
<1>. DEFINE row == << a, b >> \o << c, d >>
            whole == << a, b, c, d >>
<1>1. row \in Seq(Int) /\ Len(row) = 4 /\ whole \in Seq(Int) /\ Len(whole) = 4
  OBVIOUS
<1>2. \A i \in 1..4 : row[i] = whole[i]
  OBVIOUS
<1>. HIDE DEF row, whole
<1>3. row = whole
  BY <1>1, <1>2, SeqEqual
<1>. QED
  BY <1>3 DEF row, whole

(* Taking a word apart, by divisions or by shifts, gives the bytes it was    *)
(* made of.                                                                  *)
LEMMA WordTakenApart ==
  ASSUME NEW b0 \in Bytes, NEW b1 \in Bytes, NEW b2 \in Bytes, NEW b3 \in Bytes
  PROVE  LET word == ShiftWord(b0, b1, b2, b3) IN
         /\ word \in 0..(WordSize - 1)
         /\ ToBytes4(word) = << b0, b1, b2, b3 >>
         /\ word \div (Byte * Byte * Byte) = b0
         /\ (word \div (Byte * Byte)) % Byte = b1
         /\ (word \div Byte) % Byte = b2
         /\ word % Byte = b3
<1>. DEFINE word == ShiftWord(b0, b1, b2, b3)
            Square == Byte * Byte
            high == Byte * b0 + b1
            low == Byte * b2 + b3
<1>1. /\ Byte \in Int /\ Byte > 0
      /\ b0 \in Int /\ b1 \in Int /\ b2 \in Int /\ b3 \in Int
  BY ByteAssumption DEF Bytes
<1>2. /\ high \in 0..(Square - 1) /\ high \div Byte = b0 /\ high % Byte = b1
      /\ low \in 0..(Square - 1) /\ low \div Byte = b2 /\ low % Byte = b3
  BY TwoBytes
<1>3. /\ Square \in Int /\ Square > 0
      /\ word \in Int /\ word = Square * high + low /\ WordSize = Square * Square
  BY <1>1 DEF ShiftWord, WordSize
<1>4. ToBytes4(word) = ToBytes2(word \div Square) \o ToBytes2(word % Square)
  BY DEF ToBytes4
<1>5. word \in 0..(WordSize - 1)
  <2>. HIDE DEF high, low, word, Square
  <2>1. high \in Int /\ low \in Int /\ 0 <= high /\ high <= Square - 1
        /\ 0 <= low /\ low <= Square - 1
    BY <1>2, <1>3
  <2>2. Square * high <= Square * (Square - 1) /\ 0 <= Square * high
    BY <1>3, <2>1
  <2>3. Square * (Square - 1) = Square * Square - Square
    BY <1>3
  <2>. QED
    BY <1>3, <2>1, <2>2, <2>3
<1>6. word \div Square = high /\ word % Square = low
  <2>. HIDE DEF high, low, word, Square
  <2>. QED
    BY <1>2, <1>3, DivModUnique
<1>7. (word \div Byte) % Byte = b2 /\ word % Byte = b3
  <2>. DEFINE rest == Byte * high + b2
  <2>1. rest \in Int /\ word = Byte * rest + b3
    BY <1>1 DEF ShiftWord
  <2>2. b2 \in 0..(Byte - 1) /\ b3 \in 0..(Byte - 1) /\ high \in Int
    BY <1>2, <1>3 DEF Bytes
  <2>. HIDE DEF word, high
  <2>3. rest % Byte = b2
    <3>. DEFINE n == rest
    <3>1. n = Byte * high + b2
      OBVIOUS
    <3>. HIDE DEF n, rest
    <3>2. n \in Int => n % Byte = b2
      BY <1>1, <2>2, <3>1, DivModUnique
    <3>. QED
      BY <2>1, <3>2 DEF n
  <2>. HIDE DEF rest
  <2>4. word \div Byte = rest /\ word % Byte = b3
    BY <1>1, <1>3, <2>1, <2>2, DivModUnique
  <2>. QED
    BY <2>3, <2>4
<1>8. word \div (Square * Byte) = b0
  <2>. DEFINE rest == Square * b1 + low
              Cube == Square * Byte
  <2>1. rest \in Int /\ Cube \in Int /\ Cube > 0 /\ word = Cube * b0 + rest
    BY <1>1 DEF ShiftWord
  <2>2. b1 <= Byte - 1 /\ 0 <= b1
    BY <1>1 DEF Bytes
  <2>3. Square * b1 <= Square * (Byte - 1) /\ 0 <= Square * b1
    <3>. HIDE DEF Square
    <3>. QED
      BY <1>1, <1>3, <2>2
  <2>4. Square * (Byte - 1) = Cube - Square
    BY <1>1
  <2>5. rest \in 0..(Cube - 1)
    <3>1. low \in Int /\ 0 <= low /\ low <= Square - 1 /\ Square * b1 \in Int
      BY <1>1, <1>2, <1>3
    <3>. HIDE DEF Square, low, Cube
    <3>. QED
      BY <1>3, <2>1, <2>3, <2>4, <3>1
  <2>. HIDE DEF rest, Cube, word
  <2>6. word \div Cube = b0
    BY <1>1, <1>3, <2>1, <2>5, DivModUnique
  <2>. QED
    BY <2>6 DEF Cube
<1>9. word \div Square = high => (word \div Square) % Byte = b1
  BY <1>2
<1>. HIDE DEF word, high, low
<1>10. ToBytes4(word) = << b0, b1, b2, b3 >>
  <2>1. ToBytes4(word) = ToBytes2(high) \o ToBytes2(low)
    BY <1>4, <1>6
  <2>2. ToBytes2(high) = << b0, b1 >> /\ ToBytes2(low) = << b2, b3 >>
    BY <1>2 DEF ToBytes2
  <2>3. << b0, b1 >> \o << b2, b3 >> = << b0, b1, b2, b3 >>
    BY <1>1, FourInARow, Zenon
  <2>4. ToBytes4(word) = << b0, b1 >> \o << b2, b3 >>
    BY <2>1, <2>2, Zenon
  <2>. QED
    BY <2>3, <2>4, Zenon
<1>11. (word \div Square) % Byte = b1
  BY <1>6, <1>9
<1>. QED
  BY <1>5, <1>7, <1>8, <1>10, <1>11 DEF word

(* Four bytes of a longer row.                                               *)
LEMMA SliceOfFour ==
  ASSUME NEW row \in Seq(Bytes), NEW first \in Nat \ {0},
         first + 3 <= Len(row)
  PROVE  SubSeq(row, first, first + 3) =
           << row[first], row[first + 1], row[first + 2], row[first + 3] >>
<1>. DEFINE part == SubSeq(row, first, first + 3)
            whole == << row[first], row[first + 1], row[first + 2], row[first + 3] >>
<1>1. /\ row[first] \in Bytes /\ row[first + 1] \in Bytes
      /\ row[first + 2] \in Bytes /\ row[first + 3] \in Bytes
  OBVIOUS
<1>2. /\ part \in Seq(Bytes) /\ Len(part) = 4
      /\ part[1] = row[first] /\ part[2] = row[first + 1]
      /\ part[3] = row[first + 2] /\ part[4] = row[first + 3]
  OBVIOUS
<1>3. /\ whole \in Seq(Bytes) /\ Len(whole) = 4
      /\ whole[1] = row[first] /\ whole[2] = row[first + 1]
      /\ whole[3] = row[first + 2] /\ whole[4] = row[first + 3]
  BY <1>1
<1>. HIDE DEF part, whole
<1>4. \A i \in 1..4 : part[i] = whole[i]
  BY <1>2, <1>3
<1>5. part = whole
  BY <1>2, <1>3, <1>4, SeqEqual
<1>. QED
  BY <1>5 DEF part, whole

-----------------------------------------------------------------------------
(* The state block                                                           *)

(* A number below the square of the radix: its two bytes, and back.          *)
LEMMA NumberInTwoBytes ==
  ASSUME NEW n \in 0..(Byte * Byte - 1)
  PROVE  /\ n \div Byte \in Bytes /\ n % Byte \in Bytes
         /\ n = Byte * (n \div Byte) + (n % Byte)
<1>. DEFINE q == n \div Byte
            r == n % Byte
<1>1. Byte \in Int /\ Byte > 0 /\ n \in Int /\ 0 <= n /\ n <= Byte * Byte - 1
  BY ByteAssumption
<1>2. /\ q \in Int /\ r \in 0..(Byte - 1)
      /\ n = Byte * q + r
  BY <1>1
<1>. HIDE DEF q, r
<1>3. 0 <= q
  <2>1. SUFFICES ASSUME q <= -1 PROVE FALSE
    BY <1>2
  <2>2. Byte * q <= Byte * (-1)
    BY <1>1, <1>2, <2>1
  <2>. QED
    BY <1>1, <1>2, <2>2
<1>4. q <= Byte - 1
  <2>1. SUFFICES ASSUME q >= Byte PROVE FALSE
    BY <1>1, <1>2
  <2>2. Byte * q >= Byte * Byte
    BY <1>1, <1>2, <2>1
  <2>. QED
    BY <1>1, <1>2, <2>2
<1>5. q \in Bytes /\ r \in Bytes
  BY <1>1, <1>2, <1>3, <1>4 DEF Bytes
<1>6. q \in Bytes /\ r \in Bytes /\ n = Byte * q + r
  BY <1>2, <1>5
<1>. QED
  BY <1>6 DEF q, r

(* The temperature both encoders send is clamped to two bytes.               *)
LEMMA TemperatureFits ==
  ASSUME NEW c \in Int
  PROVE  /\ EncodeTemperature(c) \in 0..(Byte * Byte - 1)
         /\ AtMost(AtLeast(c + TemperatureBias, 0), Byte * Byte - 1) =
              EncodeTemperature(c)
         /\ c < -TemperatureBias => EncodeTemperature(c) = 0
         /\ c + TemperatureBias \in 0..(Byte * Byte - 1) =>
              EncodeTemperature(c) = c + TemperatureBias
<1>. DEFINE Square == Byte * Byte
<1>1. Square \in Int /\ Square > 0 /\ TemperatureBias \in 0..(Square - 1)
  BY ByteAssumption, BiasAssumption
<1>. HIDE DEF Square
<1>2. /\ AtLeast(0, AtMost(Square - 1, c + TemperatureBias)) \in 0..(Square - 1)
      /\ AtMost(AtLeast(c + TemperatureBias, 0), Square - 1) =
              AtLeast(0, AtMost(Square - 1, c + TemperatureBias))
      /\ (c < -TemperatureBias =>
              AtLeast(0, AtMost(Square - 1, c + TemperatureBias)) = 0)
      /\ (c + TemperatureBias \in 0..(Square - 1) =>
              AtLeast(0, AtMost(Square - 1, c + TemperatureBias)) =
                c + TemperatureBias)
  BY <1>1 DEF AtMost, AtLeast
<1>. QED
  BY <1>2 DEF EncodeTemperature, Square

(* The twelve bytes that both encoders put on the wire for a position that   *)
(* arrived as four bytes.                                                    *)
LEMMA EncodedBlock ==
  ASSUME NEW b0 \in Bytes, NEW b1 \in Bytes, NEW b2 \in Bytes, NEW b3 \in Bytes,
         NEW moving \in BOOLEAN, NEW c \in Int, NEW s \in Bytes
  PROVE  LET word == ShiftWord(b0, b1, b2, b3)
             t == EncodeTemperature(c)
             block == << IF moving THEN 1 ELSE 0, 0, b0, b1, b2, b3, 0,
                         t \div Byte, t % Byte, s,
                         TemperatureBias \div Byte, TemperatureBias % Byte >>
         IN  /\ EncodeState(moving, word, c, s) = block
             /\ FwEncodeState(moving, word, c, s) = block
<1>. DEFINE word == ShiftWord(b0, b1, b2, b3)
            t == EncodeTemperature(c)
            m == IF moving THEN 1 ELSE 0
            th == t \div Byte
            tl == t % Byte
            bh == TemperatureBias \div Byte
            bl == TemperatureBias % Byte
            block == << m, 0, b0, b1, b2, b3, 0, th, tl, s, bh, bl >>
<1>1. /\ b0 \in Int /\ b1 \in Int /\ b2 \in Int /\ b3 \in Int /\ s \in Int
      /\ \A b \in Bytes : b \in Int /\ b % Byte = b
  BY ByteAssumption DEF Bytes
<1>2. m \in Int
  OBVIOUS
<1>3. t \in 0..(Byte * Byte - 1)
  BY TemperatureFits
<1>4. th \in Bytes /\ tl \in Bytes
  <2>. HIDE DEF t
  <2>. QED
    BY <1>3, NumberInTwoBytes
<1>5. bh \in Bytes /\ bl \in Bytes
  BY BiasAssumption, NumberInTwoBytes
<1>6. EncodeState(moving, word, c, s) = block
  <2>1. /\ ToBytes4(word) = << b0, b1, b2, b3 >>
        /\ ToBytes2(t) = << th, tl >>
        /\ ToBytes2(TemperatureBias) = << bh, bl >>
        /\ s % Byte = s
    BY WordTakenApart, <1>1 DEF ToBytes2
  <2>2. EncodeState(moving, word, c, s) =
          << m, 0 >> \o ToBytes4(word) \o << 0 >> \o ToBytes2(t)
            \o << s % Byte >> \o ToBytes2(TemperatureBias)
    BY DEF EncodeState
  <2>. HIDE DEF word, t, m, th, tl, bh, bl
  <2>3. << m, 0 >> \o << b0, b1, b2, b3 >> \o << 0 >> \o << th, tl >>
            \o << s >> \o << bh, bl >> = block
    <3>0. /\ m \in Int /\ b0 \in Int /\ b1 \in Int /\ b2 \in Int /\ b3 \in Int
          /\ s \in Int /\ th \in Int /\ tl \in Int /\ bh \in Int /\ bl \in Int
      BY <1>1, <1>2, <1>4, <1>5
    <3>. DEFINE w1 == << m, 0 >> \o << b0, b1, b2, b3 >>
                w2 == w1 \o << 0 >>
                w3 == w2 \o << th, tl >>
                w4 == w3 \o << s >>
                w5 == w4 \o << bh, bl >>
    <3>1. w1 \in Seq(Int)
      BY <3>0
    <3>2. /\ Len(w1) = 6 /\ w1[1] = m /\ w1[2] = 0 /\ w1[3] = b0 /\ w1[4] = b1
          /\ w1[5] = b2 /\ w1[6] = b3
      BY <3>0
    <3>. HIDE DEF w1
    <3>3. w2 \in Seq(Int)
      BY <3>0, <3>1
    <3>4. /\ Len(w2) = Len(w1) + 1 /\ w2[Len(w1) + 1] = 0
          /\ \A n \in 1..Len(w1) : w2[n] = w1[n]
      BY <3>0, <3>1
    <3>. HIDE DEF w2
    <3>5. w3 \in Seq(Int)
      BY <3>0, <3>3
    <3>6. /\ Len(w3) = Len(w2) + 2 /\ w3[Len(w2) + 1] = th /\ w3[Len(w2) + 2] = tl
          /\ \A n \in 1..Len(w2) : w3[n] = w2[n]
      BY <3>0, <3>3
    <3>. HIDE DEF w3
    <3>7. w4 \in Seq(Int)
      BY <3>0, <3>5
    <3>8. /\ Len(w4) = Len(w3) + 1 /\ w4[Len(w3) + 1] = s
          /\ \A n \in 1..Len(w3) : w4[n] = w3[n]
      BY <3>0, <3>5
    <3>. HIDE DEF w4
    <3>9. w5 \in Seq(Int)
      BY <3>0, <3>7
    <3>10. /\ Len(w5) = Len(w4) + 2 /\ w5[Len(w4) + 1] = bh /\ w5[Len(w4) + 2] = bl
           /\ \A n \in 1..Len(w4) : w5[n] = w4[n]
      BY <3>0, <3>7
    <3>. HIDE DEF w5
    <3>11. Len(w2) = 7 /\ Len(w3) = 9 /\ Len(w4) = 10 /\ Len(w5) = 12
      BY <3>2, <3>4, <3>6, <3>8, <3>10
    <3>12. block \in Seq(Int) /\ Len(block) = 12
      BY <3>0
    <3>13. \A n \in 1..12 : w5[n] = block[n]
      BY <3>2, <3>4, <3>6, <3>8, <3>10, <3>11
    <3>. HIDE DEF block
    <3>14. w5 = block
      BY <3>9, <3>11, <3>12, <3>13, SeqEqual
    <3>. QED
      BY <3>14 DEF w1, w2, w3, w4, w5, block
  <2>. QED
    BY <2>1, <2>2, <2>3
<1>7. FwEncodeState(moving, word, c, s) = block
  <2>1. /\ (word \div (Byte * Byte * Byte)) % Byte = b0
        /\ (word \div (Byte * Byte)) % Byte = b1
        /\ (word \div Byte) % Byte = b2 /\ word % Byte = b3
    BY WordTakenApart, <1>1
  <2>2. /\ AtMost(AtLeast(c + TemperatureBias, 0), Byte * Byte - 1) = t
        /\ th % Byte = th /\ bh % Byte = bh
    BY TemperatureFits, <1>1, <1>4, <1>5
  <2>. HIDE DEF word, t
  <2>. QED
    BY <2>1, <2>2 DEF FwEncodeState
<1>. QED
  BY <1>6, <1>7

-----------------------------------------------------------------------------
(* What a report that both parsers take for a write carries.                 *)
LEMMA WrittenReport ==
  ASSUME NEW data \in Seq(Bytes), ParseCommand(data).kind = "write"
  PROVE  /\ Len(data) \in Nat /\ Len(data) >= 10
         /\ data[7] \in Bytes /\ data[8] \in Bytes
         /\ data[9] \in Bytes /\ data[10] \in Bytes
         /\ ParseCommand(data).position =
              ShiftWord(data[7], data[8], data[9], data[10])
         /\ SubSeq(data, 7, 10) = << data[7], data[8], data[9], data[10] >>
         /\ ParseCommand(data).settings \in Bytes \union {Absent}
<1>. DEFINE staged == StageSetReport(data)
            last == AtMost(Len(data), REPORT_SIZE)
            cmd == FwParseCommand(staged)
<1>0. data # << >>
  <2>1. SUFFICES ASSUME data = << >> PROVE FALSE
    OBVIOUS
  <2>2. ~(Len(data) >= 5)
    BY <2>1
  <2>3. ParseCommand(data) = Malformed
    BY <2>2 DEF ParseCommand
  <2>. QED
    BY <2>3 DEF Malformed
<1>1. cmd = ParseCommand(data)
  BY <1>0, ParsersAgreeOnReports
<1>2. /\ Len(data) \in Nat /\ last <= Len(data) /\ last \in Nat /\ last <= 16
      /\ Len(staged) = last /\ \A i \in 1..last : staged[i] = data[i]
  BY <1>0, StagedReport DEF AtMost, REPORT_SIZE
<1>3. \A i \in 1..Len(data) : data[i] \in Bytes
  OBVIOUS
<1>. HIDE DEF staged, last
<1>4. /\ last >= 10
      /\ cmd = WriteState(staged[5] # 0,
                 ShiftWord(staged[7], staged[8], staged[9], staged[10]),
                 last > 10 /\ staged[11] # 0,
                 IF last > 13 THEN staged[14] ELSE Absent)
  BY <1>1, <1>2 DEF FwParseCommand, Malformed, ReadRegister
<1>5. /\ staged[7] = data[7] /\ staged[8] = data[8]
      /\ staged[9] = data[9] /\ staged[10] = data[10]
      /\ (last > 13 => staged[14] = data[14] /\ data[14] \in Bytes)
      /\ data[7] \in Bytes /\ data[8] \in Bytes
      /\ data[9] \in Bytes /\ data[10] \in Bytes
  BY <1>2, <1>3, <1>4
<1>6. /\ cmd.position = ShiftWord(data[7], data[8], data[9], data[10])
      /\ cmd.settings = IF last > 13 THEN staged[14] ELSE Absent
  BY <1>4, <1>5 DEF WriteState
<1>7. SubSeq(data, 7, 10) = << data[7], data[8], data[9], data[10] >>
  <2>1. 7 \in Nat \ {0} /\ 7 + 3 <= Len(data)
    BY <1>2, <1>4
  <2>2. SubSeq(data, 7, 7 + 3) =
          << data[7], data[7 + 1], data[7 + 2], data[7 + 3] >>
    BY <2>1, SliceOfFour
  <2>. QED
    BY <2>2
<1>. QED
  BY <1>1, <1>2, <1>4, <1>5, <1>6, <1>7

(* A position the host wrote comes back in the bytes it was written in, from *)
(* either vehicle, whatever the radix: no word is lost to the signed         *)
(* position of the Focuser interface.                                        *)
THEOREM PositionBytesAlwaysSurvive == Spec => []PositionBytesSurvive
<1>1. ASSUME report \in Seq(Bytes)
      PROVE  PositionBytesSurvive
  <2>. DEFINE sent == SubSeq(report, 7, 10)
              signed == ToSigned(FwParseCommand(StageSetReport(report)).position)
  <2>. DEFINE Back(m, c) ==
         /\ SubSeq(EncodeState(m, Decoded.position, c, SETTINGS_BASE), 3, 6) = sent
         /\ SubSeq(FwEncodeState(m, ToUnsigned(signed), c, SETTINGS_BASE), 3, 6) = sent
  <2>write. SUFFICES ASSUME Decoded.kind = "write"
                 PROVE  Back(TRUE, 0)
    BY DEF PositionBytesSurvive
  <2>any. SUFFICES ASSUME NEW m \in BOOLEAN, NEW c \in Int
                 PROVE  Back(m, c)
    <3>1. ASSUME \A m \in BOOLEAN, c \in Int : Back(m, c)
          PROVE  Back(TRUE, 0)
      <4>1. TRUE \in BOOLEAN /\ 0 \in Int
        OBVIOUS
      <4>. HIDE DEF Back
      <4>. QED
        BY <3>1, <4>1, Zenon
    <3>. HIDE DEF Back
    <3>. QED
      BY <3>1
  <2>. DEFINE b0 == report[7]
              b1 == report[8]
              b2 == report[9]
              b3 == report[10]
              word == ShiftWord(b0, b1, b2, b3)
              t == EncodeTemperature(c)
              block == << IF m THEN 1 ELSE 0, 0, b0, b1, b2, b3, 0,
                          t \div Byte, t % Byte, SETTINGS_BASE,
                          TemperatureBias \div Byte, TemperatureBias % Byte >>
  <2>1. /\ report \in Seq(Bytes) /\ ParseCommand(report).kind = "write"
    BY <1>1, <2>write DEF Decoded
  <2>2. /\ b0 \in Bytes /\ b1 \in Bytes /\ b2 \in Bytes /\ b3 \in Bytes
        /\ Decoded.position = word
        /\ SubSeq(report, 7, 10) = << b0, b1, b2, b3 >>
        /\ report # << >>
    <3>1. Len(report) >= 10
      BY <2>1, WrittenReport
    <3>2. report # << >>
      BY <3>1
    <3>. QED
      BY <2>1, <3>2, WrittenReport DEF Decoded
  <2>3. FwParseCommand(StageSetReport(report)).position = word
    BY <2>1, <2>2, ParsersAgreeOnReports DEF Decoded
  <2>. HIDE DEF b0, b1, b2, b3
  <2>4. word \in 0..(WordSize - 1)
    BY <2>2, WordTakenApart
  <2>5. ToUnsigned(ToSigned(word)) = word
    <3>1. WordSize \in Int
      BY ByteAssumption DEF WordSize
    <3>. HIDE DEF word
    <3>2. QED
      BY <2>4, <3>1 DEF ToUnsigned, ToSigned
  <2>6. SETTINGS_BASE \in Bytes
    BY ByteAssumption DEF SETTINGS_BASE, Bytes
  <2>7. /\ EncodeState(m, word, c, SETTINGS_BASE) = block
        /\ FwEncodeState(m, word, c, SETTINGS_BASE) = block
    BY <2>2, <2>6, EncodedBlock
  <2>8. SubSeq(block, 3, 6) = << b0, b1, b2, b3 >>
    <3>1. t \in 0..(Byte * Byte - 1)
      BY TemperatureFits
    <3>2. /\ t \div Byte \in Bytes /\ t % Byte \in Bytes
          /\ TemperatureBias \div Byte \in Bytes /\ TemperatureBias % Byte \in Bytes
      <4>. HIDE DEF t
      <4>. QED
        BY <3>1, NumberInTwoBytes, BiasAssumption
    <3>3. 1 \in Bytes /\ 0 \in Bytes
      BY ByteAssumption DEF Bytes
    <3>4. block \in Seq(Bytes) /\ Len(block) = 12
      BY <2>2, <2>6, <3>2, <3>3
    <3>5. block[3] = b0 /\ block[4] = b1 /\ block[5] = b2 /\ block[6] = b3
      OBVIOUS
    <3>. HIDE DEF block
    <3>6. 3 \in Nat \ {0} /\ 3 + 3 <= Len(block)
      BY <3>4
    <3>7. SubSeq(block, 3, 3 + 3) =
            << block[3], block[3 + 1], block[3 + 2], block[3 + 3] >>
      BY <3>4, <3>6, SliceOfFour
    <3>. QED
      BY <3>5, <3>7
  <2>. HIDE DEF word, block
  <2>. QED
    BY <2>2, <2>3, <2>5, <2>7, <2>8
<1>2. QED
  BY <1>1, ReportIsBytes, PTL

(* Both encoders put the same block on the wire for whatever a host wrote,   *)
(* in a report of exactly the declared size, and the host reads the          *)
(* temperature back unchanged unless it was too cold to encode: then it      *)
(* reads the coldest value there is.                                         *)
THEOREM EncodersAlwaysAgree == Spec => []EncodersAgree
<1>1. ASSUME report \in Seq(Bytes)
      PROVE  EncodersAgree
  <2>. DEFINE s == IF Decoded.settings = Absent THEN SETTINGS_BASE
                   ELSE Decoded.settings
  <2>. SUFFICES ASSUME Decoded.kind = "write", NEW c \in Temperatures, NEW m \in BOOLEAN
                PROVE  LET py == EncodeState(m, Decoded.position, c, s)
                           decoded == (py[8] * Byte + py[9]) - (py[11] * Byte + py[12])
                       IN  /\ py = FwEncodeState(m, Decoded.position, c, s)
                           /\ Len(py) = BODY_SIZE
                           /\ Len(FrameReply(RegState, py)) = REPORT_SIZE
                           /\ (c < -TemperatureBias => decoded = -TemperatureBias)
                           /\ (c + TemperatureBias \in 0..(Byte * Byte - 1) => decoded = c)
    BY DEF EncodersAgree
  <2>. DEFINE b0 == report[7]
              b1 == report[8]
              b2 == report[9]
              b3 == report[10]
              word == ShiftWord(b0, b1, b2, b3)
              t == EncodeTemperature(c)
              block == << IF m THEN 1 ELSE 0, 0, b0, b1, b2, b3, 0,
                          t \div Byte, t % Byte, s,
                          TemperatureBias \div Byte, TemperatureBias % Byte >>
              reply == FrameReply(RegState, block)
              decoded == (block[8] * Byte + block[9]) - (block[11] * Byte + block[12])
  <2>1. report \in Seq(Bytes) /\ ParseCommand(report).kind = "write" /\ c \in Int
    BY <1>1, TemperaturesAssumption DEF Decoded
  <2>2. /\ b0 \in Bytes /\ b1 \in Bytes /\ b2 \in Bytes /\ b3 \in Bytes
        /\ Decoded.position = word
        /\ Decoded.settings \in Bytes \union {Absent}
    BY <2>1, WrittenReport DEF Decoded
  <2>3. s \in Bytes /\ 0 \in Bytes /\ 1 \in Bytes
    BY <2>2, ByteAssumption DEF SETTINGS_BASE, Bytes
  <2>. HIDE DEF b0, b1, b2, b3, s
  <2>4. /\ EncodeState(m, word, c, s) = block
        /\ FwEncodeState(m, word, c, s) = block
    BY <2>1, <2>2, <2>3, EncodedBlock
  <2>5. /\ t \in 0..(Byte * Byte - 1)
        /\ (c < -TemperatureBias => t = 0)
        /\ (c + TemperatureBias \in 0..(Byte * Byte - 1) => t = c + TemperatureBias)
    BY <2>1, TemperatureFits
  <2>. HIDE DEF t
  <2>6. /\ t \div Byte \in Bytes /\ t % Byte \in Bytes
        /\ t = Byte * (t \div Byte) + (t % Byte)
        /\ TemperatureBias \div Byte \in Bytes /\ TemperatureBias % Byte \in Bytes
        /\ TemperatureBias =
             Byte * (TemperatureBias \div Byte) + (TemperatureBias % Byte)
    BY <2>5, NumberInTwoBytes, BiasAssumption
  <2>7. block \in Seq(Bytes) /\ Len(block) = 12
    BY <2>2, <2>3, <2>6
  <2>8. Len(reply) = 16
    <3>1. << REPORT_IN, Magic0, Magic1, RegState >> \in Seq(Int)
          /\ Len(<< REPORT_IN, Magic0, Magic1, RegState >>) = 4
      BY MagicAssumption, ByteAssumption DEF REPORT_IN, RegState
    <3>2. block \in Seq(Int)
      BY <2>7, ByteAssumption DEF Bytes
    <3>. DEFINE head == << REPORT_IN, Magic0, Magic1, RegState >>
    <3>. HIDE DEF block, head
    <3>3. head \in Seq(Int) /\ Len(head) = 4
      BY <3>1 DEF head
    <3>4. Len(head \o block) = Len(head) + Len(block)
      <4>1. head \in Seq(Int) /\ block \in Seq(Int)
        BY <3>2, <3>3
      <4>. QED
        BY <4>1
    <3>5. reply = head \o block
      BY DEF FrameReply, head
    <3>. QED
      BY <2>7, <3>3, <3>4, <3>5
  <2>9. decoded = t - TemperatureBias
    <3>1. /\ block[8] = t \div Byte /\ block[9] = t % Byte
          /\ block[11] = TemperatureBias \div Byte
          /\ block[12] = TemperatureBias % Byte
      OBVIOUS
    <3>2. Byte \in Int /\ \A b \in Bytes : b \in Int
      BY ByteAssumption DEF Bytes
    <3>. DEFINE q == t \div Byte
                r == t % Byte
                x == TemperatureBias \div Byte
                y == TemperatureBias % Byte
    <3>3. /\ q \in Bytes /\ r \in Bytes /\ x \in Bytes /\ y \in Bytes
          /\ t = Byte * q + r /\ TemperatureBias = Byte * x + y
      BY <2>6
    <3>4. decoded = (q * Byte + r) - (x * Byte + y)
      BY <3>1
    <3>. HIDE DEF block, decoded, q, r, x, y
    <3>. QED
      BY <3>2, <3>3, <3>4
  <2>10. TemperatureBias \in Int /\ Byte \in Int /\ t \in Int
    BY <2>5, ByteAssumption, BiasAssumption
  <2>11. /\ (c < -TemperatureBias => decoded = -TemperatureBias)
         /\ (c + TemperatureBias \in 0..(Byte * Byte - 1) => decoded = c)
    <3>. HIDE DEF decoded
    <3>. QED
      BY <2>1, <2>5, <2>9, <2>10
  <2>. HIDE DEF word, block
  <2>. QED
    BY <2>2, <2>4, <2>7, <2>8, <2>11 DEF BODY_SIZE, REPORT_SIZE
<1>2. QED
  BY <1>1, ReportIsBytes, PTL
=============================================================================

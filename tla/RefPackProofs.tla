--------------------------- MODULE RefPackProofs ---------------------------
(* Decoding gives back what was encoded, for every text and for all limits  *)
(* that the codes have room for.                                            *)
(*                                                                          *)
(* Leaves name their prover: the numbers in the codes are large, and Zenon  *)
(* must not see them.                                                       *)
EXTENDS RefPack, SequenceTheorems, TLAPS

\* A number and its last byte.
LEMMA Bytes ==
  ASSUME NEW s \in Nat
  PROVE  \E q \in Nat, r \in 0..255 :
           s = q * 256 + r /\ q = s \div 256 /\ r = s % 256
<1>1. PICK q \in Nat, r \in 0..255 : q = s \div 256 /\ r = s % 256
  BY SMT
<1>2. s = q * 256 + r
  BY <1>1, SMT
<1> QED BY <1>1, <1>2, Zenon

\* What a command's code says, from its bytes.
LEMMA ShortFields ==
  ASSUME NEW c, NEW x \in Nat, NEW r \in Nat,
         c[1] = x, c[2] = r,
         NEW n, NEW a \in Nat, NEW b \in Nat,
         x % 4 = n, (x \div 4) % 8 = a, (x \div 32) % 4 = b
  PROVE  DecodedShort(c) = [run |-> n, len |-> a + 3, off |-> b * 256 + r, end |-> FALSE]
<1>1. DecodedShort(c).run = n
  BY SMT DEF DecodedShort
<1>2. DecodedShort(c).len = a + 3
  BY SMT DEF DecodedShort
<1>3. DecodedShort(c).off = b * 256 + r
  BY SMT DEF DecodedShort
<1>4. DecodedShort(c).end = FALSE
  BY SMT DEF DecodedShort
<1>5. DecodedShort(c) = [run |-> DecodedShort(c).run, len |-> DecodedShort(c).len,
             off |-> DecodedShort(c).off, end |-> DecodedShort(c).end]
  BY SMT DEF DecodedShort
<1> QED BY <1>1, <1>2, <1>3, <1>4, <1>5, SMT

\* The form of three bytes.
LEMMA MediumFields ==
  ASSUME NEW c, NEW x \in Nat, NEW y \in Nat, NEW r \in Nat,
         c[1] = x, c[2] = y, c[3] = r,
         NEW n, NEW a \in Nat, NEW b \in Nat,
         x % 64 = a, y \div 64 = n, y % 64 = b
  PROVE  DecodedMedium(c) = [run |-> n, len |-> a + 4, off |-> b * 256 + r, end |-> FALSE]
<1>1. DecodedMedium(c).run = n
  BY SMT DEF DecodedMedium
<1>2. DecodedMedium(c).len = a + 4
  BY SMT DEF DecodedMedium
<1>3. DecodedMedium(c).off = b * 256 + r
  BY SMT DEF DecodedMedium
<1>4. DecodedMedium(c).end = FALSE
  BY SMT DEF DecodedMedium
<1>5. DecodedMedium(c) = [run |-> DecodedMedium(c).run, len |-> DecodedMedium(c).len,
             off |-> DecodedMedium(c).off, end |-> DecodedMedium(c).end]
  BY SMT DEF DecodedMedium
<1> QED BY <1>1, <1>2, <1>3, <1>4, <1>5, SMT

\* The form of one byte.
LEMMA BlockFields ==
  ASSUME NEW c, NEW x \in Nat,
         c[1] = x,
         NEW n, (x % 32) * 4 + 4 = n
  PROVE  DecodedBlock(c) = [run |-> n, len |-> 0, off |-> 0, end |-> FALSE]
<1>1. DecodedBlock(c).run = n
  BY SMT DEF DecodedBlock
<1>2. DecodedBlock(c).len = 0
  BY SMT DEF DecodedBlock
<1>3. DecodedBlock(c).off = 0
  BY SMT DEF DecodedBlock
<1>4. DecodedBlock(c).end = FALSE
  BY SMT DEF DecodedBlock
<1>5. DecodedBlock(c) = [run |-> DecodedBlock(c).run, len |-> DecodedBlock(c).len,
             off |-> DecodedBlock(c).off, end |-> DecodedBlock(c).end]
  BY SMT DEF DecodedBlock
<1> QED BY <1>1, <1>2, <1>3, <1>4, <1>5, SMT

\* The end.
LEMMA EndFields ==
  ASSUME NEW c, NEW x \in Nat,
         c[1] = x,
         NEW n, x % 4 = n
  PROVE  DecodedEnd(c) = [run |-> n, len |-> 0, off |-> 0, end |-> TRUE]
<1>1. DecodedEnd(c).run = n
  BY SMT DEF DecodedEnd
<1>2. DecodedEnd(c).len = 0
  BY SMT DEF DecodedEnd
<1>3. DecodedEnd(c).off = 0
  BY SMT DEF DecodedEnd
<1>4. DecodedEnd(c).end = TRUE
  BY SMT DEF DecodedEnd
<1>5. DecodedEnd(c) = [run |-> DecodedEnd(c).run, len |-> DecodedEnd(c).len,
             off |-> DecodedEnd(c).off, end |-> DecodedEnd(c).end]
  BY SMT DEF DecodedEnd
<1> QED BY <1>1, <1>2, <1>3, <1>4, <1>5, SMT

\* The decoder finds in a code the numbers the encoder put into it.
LEMMA ShortCodes ==
  ASSUME NEW n \in 0..3, NEW len \in Nat, 3 <= len, len <= 10, NEW off \in Nat, off < 1024
  PROVE  Decoded(ShortCode(n, len, off)) = [run |-> n, len |-> len, off |-> off, end |-> FALSE]
<1>1. PICK b \in Nat, r \in 0..255 : off = b * 256 + r /\ b = off \div 256 /\ r = off % 256
  BY Bytes, SMT
<1>2. PICK a \in 0..7 : a = len - 3
  BY SMT
<1>3. off = b * 256 + r /\ len = a + 3
  BY <1>1, <1>2, SMT
<1>4. b \in 0..3
  BY <1>3, SMT
<1>5. PICK x \in 0..127 : x = b * 32 + a * 4 + n
  BY <1>4, SMT
<1>6. PICK c : c = ShortCode(n, len, off)
  OBVIOUS
<1>7. c = <<(b * 32 + a * 4 + n) % 256, r>>
  <2>1. c = <<((off \div 256) * 32 + (len - 3) * 4 + n) % 256, off % 256>>
    BY <1>6, SMT DEF ShortCode
  <2>2. off \div 256 = b /\ off % 256 = r
    BY <1>1, SMT
  <2> QED BY <1>2, <2>1, <2>2, SMT
<1>8. c[1] = x /\ c[2] = r
  BY <1>5, <1>7, SMT
<1>9. x % 4 = n /\ (x \div 4) % 8 = a /\ (x \div 32) % 4 = b
  BY <1>4, <1>5, SMT
<1>10. Decoded(c) = DecodedShort(c)
  BY <1>8, SMT DEF Decoded
<1>11. DecodedShort(c) = [run |-> n, len |-> a + 3, off |-> b * 256 + r, end |-> FALSE]
  BY <1>4, <1>8, <1>9, ShortFields, SMT
<1> QED BY <1>3, <1>6, <1>10, <1>11, SMT

\* The same for the form of three bytes.
LEMMA MediumCodes ==
  ASSUME NEW n \in 0..3, NEW len \in Nat, 4 <= len, len <= 67, NEW off \in Nat, off < 16384
  PROVE  Decoded(MediumCode(n, len, off)) = [run |-> n, len |-> len, off |-> off, end |-> FALSE]
<1>1. PICK b \in Nat, r \in 0..255 : off = b * 256 + r /\ b = off \div 256 /\ r = off % 256
  BY Bytes, SMT
<1>2. PICK a \in 0..63 : a = len - 4
  BY SMT
<1>3. off = b * 256 + r /\ len = a + 4
  BY <1>1, <1>2, SMT
<1>4. b \in 0..63
  BY <1>3, SMT
<1>5. PICK x \in 128..191 : x = 128 + a
  BY SMT
<1>6. PICK y \in 0..255 : y = n * 64 + b
  BY <1>4, SMT
<1>7. PICK c : c = MediumCode(n, len, off)
  OBVIOUS
<1>8. c = <<(128 + a) % 256, (n * 64 + b) % 256, r>>
  <2>1. c = <<(128 + (len - 4)) % 256, (n * 64 + off \div 256) % 256, off % 256>>
    BY <1>7, SMT DEF MediumCode
  <2>2. off \div 256 = b /\ off % 256 = r
    BY <1>1, SMT
  <2> QED BY <1>2, <2>1, <2>2, SMT
<1>9. c[1] = x /\ c[2] = y /\ c[3] = r
  BY <1>5, <1>6, <1>8, SMT
<1>10. x % 64 = a /\ y \div 64 = n /\ y % 64 = b
  BY <1>4, <1>5, <1>6, SMT
<1>11. Decoded(c) = DecodedMedium(c)
  BY <1>9, SMT DEF Decoded
<1>12. DecodedMedium(c) = [run |-> n, len |-> a + 4, off |-> b * 256 + r, end |-> FALSE]
  BY <1>4, <1>9, <1>10, MediumFields, SMT
<1> QED BY <1>3, <1>7, <1>11, <1>12, SMT

\* The same for the form of four bytes.
LEMMA LongCodes ==
  ASSUME NEW n \in 0..3, NEW len \in Nat, 5 <= len, len <= 1028, NEW off \in Nat, off < 131072
  PROVE  Decoded(LongCode(n, len, off)) = [run |-> n, len |-> len, off |-> off, end |-> FALSE]
<1>1. PICK b \in Nat, r \in 0..255 : off = b * 256 + r /\ b = off \div 256 /\ r = off % 256
  BY Bytes, SMT
<1>2. PICK e \in Nat, m \in 0..255 : b = e * 256 + m /\ e = b \div 256 /\ m = b % 256
  BY Bytes, SMT
<1>3. PICK k \in Nat : k = len - 5
  BY SMT
<1>4. PICK a \in Nat, s \in 0..255 : k = a * 256 + s /\ a = k \div 256 /\ s = k % 256
  BY Bytes, SMT
<1>5. off = e * 65536 + m * 256 + r
  <2>1. off = b * 256 + r
    BY <1>1, SMT
  <2>2. b = e * 256 + m
    BY <1>2, SMT
  <2> QED BY <2>1, <2>2, SMT
<1>6. len = a * 256 + s + 5
  <2>1. k = a * 256 + s
    BY <1>4, SMT
  <2> QED BY <1>3, <2>1, SMT
<1>7. e \in 0..1 /\ a \in 0..3
  BY <1>5, <1>6, SMT
<1>8. off \div 65536 = e
  BY <1>5, SMT
<1>9. PICK x \in 192..223 : x = 192 + e * 16 + a * 4 + n
  BY <1>7, SMT
<1>10. PICK c : c = LongCode(n, len, off)
  OBVIOUS
<1>11. c = <<(192 + e * 16 + a * 4 + n) % 256, m, r, s>>
  <2>1. c = <<(192 + e * 16 + ((len - 5) \div 256) * 4 + n) % 256,
              (off \div 256) % 256, off % 256, (len - 5) % 256>>
    BY <1>8, <1>10, SMT DEF LongCode
  <2>2. (len - 5) \div 256 = a /\ (len - 5) % 256 = s
    BY <1>3, <1>4, SMT
  <2>3. (off \div 256) % 256 = m /\ off % 256 = r
    <3>1. off \div 256 = b /\ off % 256 = r
      BY <1>1, SMT
    <3>2. b % 256 = m
      BY <1>2, SMT
    <3> QED BY <3>1, <3>2, SMT
  <2> QED BY <2>1, <2>2, <2>3, SMT
<1>12. c[1] = x /\ c[2] = m /\ c[3] = r /\ c[4] = s
  <2>1. (192 + e * 16 + a * 4 + n) % 256 = x
    BY <1>9, SMT
  <2> QED BY <1>11, <2>1, SMT
<1>13. x % 4 = n /\ (x \div 4) % 4 = a /\ (x \div 16) % 2 = e
  BY <1>7, <1>9, SMT
<1>14. Decoded(c) = DecodedLong(c)
  BY <1>12, SMT DEF Decoded
<1>15. DecodedLong(c)
         = [run |-> n, len |-> a * 256 + s + 5, off |-> e * 65536 + m * 256 + r, end |-> FALSE]
  <2>1. c[1] \in Nat /\ c[2] \in Nat /\ c[3] \in Nat /\ c[4] \in Nat
    BY <1>12, SMT
  <2>2. c[1] % 4 = n /\ (c[1] \div 4) % 4 = a /\ (c[1] \div 16) % 2 = e
    BY <1>12, <1>13, SMT
  <2>3. DecodedLong(c).run = n
    BY <2>1, <2>2, SMT DEF DecodedLong
  <2>4. DecodedLong(c).len = a * 256 + c[4] + 5
    BY <2>1, <2>2, SMT DEF DecodedLong
  <2>5. DecodedLong(c).off = e * 65536 + c[2] * 256 + c[3]
    BY <2>1, <2>2, SMT DEF DecodedLong
  <2>6. DecodedLong(c).end = FALSE
    BY <2>1, <2>2, SMT DEF DecodedLong
  <2>7. DecodedLong(c) = [run |-> DecodedLong(c).run, len |-> DecodedLong(c).len,
               off |-> DecodedLong(c).off, end |-> DecodedLong(c).end]
    BY <2>1, <2>2, SMT DEF DecodedLong
  <2>8. DecodedLong(c)
          = [run |-> n, len |-> a * 256 + c[4] + 5, off |-> e * 65536 + c[2] * 256 + c[3], end |-> FALSE]
    BY <2>3, <2>4, <2>5, <2>6, <2>7, SMT
  <2> QED BY <1>12, <2>8, SMT
<1> QED BY <1>5, <1>6, <1>10, <1>14, <1>15, SMT

\* The same for a block of literals.
LEMMA BlockCodes ==
  ASSUME NEW n \in Nat, 4 <= n, n <= 112, n % 4 = 0
  PROVE  Decoded(<<224 + n \div 4 - 1>>) = [run |-> n, len |-> 0, off |-> 0, end |-> FALSE]
<1>1. PICK k \in 1..28 : k = n \div 4 /\ n = 4 * k
  BY SMT
<1>2. PICK x \in 224..251 : x = 224 + k - 1
  BY SMT
<1>3. (x % 32) * 4 + 4 = n
  BY <1>1, <1>2, SMT
<1>4. PICK c : c = <<224 + n \div 4 - 1>>
  OBVIOUS
<1>5. c[1] = x
  BY <1>1, <1>2, <1>4, SMT
<1>6. Decoded(c) = DecodedBlock(c)
  BY <1>3, <1>5, SMT DEF Decoded
<1>7. DecodedBlock(c) = [run |-> n, len |-> 0, off |-> 0, end |-> FALSE]
  BY <1>3, <1>5, BlockFields, SMT
<1> QED BY <1>4, <1>6, <1>7, SMT

\* The same for the end of the stream.
LEMMA EndCodes ==
  ASSUME NEW n \in 0..3
  PROVE  Decoded(<<252 + n>>) = [run |-> n, len |-> 0, off |-> 0, end |-> TRUE]
<1>1. PICK x \in 252..255 : x = 252 + n
  BY SMT
<1>2. (x % 32) * 4 + 4 > 112 /\ x % 4 = n
  BY <1>1, SMT
<1>3. PICK c : c = <<252 + n>>
  OBVIOUS
<1>4. c[1] = x
  BY <1>1, <1>3, SMT
<1>5. Decoded(c) = DecodedEnd(c)
  BY <1>2, <1>4, SMT DEF Decoded
<1>6. DecodedEnd(c) = [run |-> n, len |-> 0, off |-> 0, end |-> TRUE]
  BY <1>2, <1>4, EndFields, SMT
<1> QED BY <1>3, <1>5, <1>6, SMT

\* RefPack_Uncompress returns the size RefPack_Compress put before the stream.
LEMMA Headers ==
  ASSUME NEW size \in Nat, size <= 2147483647
  PROVE  OutLength(Header(size)) = size
<1>1. PICK q \in Nat, r \in 0..255 : size = q * 256 + r /\ q = size \div 256 /\ r = size % 256
  BY Bytes, SMT
<1>2. PICK p \in Nat, m \in 0..255 : q = p * 256 + m /\ p = q \div 256 /\ m = q % 256
  BY Bytes, SMT
<1>3. PICK o \in Nat, l \in 0..255 : p = o * 256 + l /\ o = p \div 256 /\ l = p % 256
  BY Bytes, SMT
<1>4. size = p * 65536 + m * 256 + r /\ size = o * 16777216 + l * 65536 + m * 256 + r
  <2>1. size = q * 256 + r
    BY <1>1, SMT
  <2>2. q = p * 256 + m
    BY <1>2, SMT
  <2>3. p = o * 256 + l
    BY <1>3, SMT
  <2>4. size = p * 65536 + m * 256 + r
    BY <2>1, <2>2, SMT
  <2> QED BY <2>3, <2>4, SMT
<1>5. size \div 65536 = p
  BY <1>4, SMT
<1>6. size \div 16777216 = o
  BY <1>4, SMT
<1>7. o < 128
  BY <1>4, SMT
<1>8. o % 256 = o
  BY <1>7, SMT
<1>9. CASE size < 16777215
  <2>1. Header(size) = <<16, 251, (size \div 65536) % 256, (size \div 256) % 256, size % 256>>
    BY <1>9, SMT DEF Header
  <2>2. (size \div 65536) % 256 = l /\ (size \div 256) % 256 = m /\ size % 256 = r
    <3>1. size \div 256 = q /\ size % 256 = r
      BY <1>1, SMT
    <3>2. q % 256 = m
      BY <1>2, SMT
    <3>3. p % 256 = l
      BY <1>3, SMT
    <3> QED BY <3>3, <1>5, <3>1, <3>2, SMT
  <2>3. Header(size) = <<16, 251, l, m, r>>
    BY <2>1, <2>2, SMT
  <2>4. OutLength(<<16, 251, l, m, r>>) = l * 65536 + m * 256 + r
    BY SMT DEF OutLength
  <2>5. o = 0
    BY <1>4, <1>9, SMT
  <2> QED BY <1>4, <2>3, <2>4, <2>5, SMT
<1>10. CASE ~(size < 16777215)
  <2>1. Header(size) = <<144, 251, (size \div 16777216) % 256, (size \div 65536) % 256,
                         (size \div 256) % 256, size % 256>>
    BY <1>10, SMT DEF Header
  <2>2. /\ (size \div 16777216) % 256 = o /\ (size \div 65536) % 256 = l
        /\ (size \div 256) % 256 = m /\ size % 256 = r
    <3>1. size \div 256 = q /\ size % 256 = r
      BY <1>1, SMT
    <3>2. q % 256 = m
      BY <1>2, SMT
    <3>3. p % 256 = l
      BY <1>3, SMT
    <3> QED BY <3>3, <1>5, <1>6, <1>8, <3>1, <3>2, SMT
  <2>3. Header(size) = <<144, 251, o, l, m, r>>
    BY <2>1, <2>2, SMT
  <2>4. OutLength(<<144, 251, o, l, m, r>>) = o * 16777216 + l * 65536 + m * 256 + r
    BY SMT DEF OutLength
  <2> QED BY <1>4, <2>3, <2>4, SMT
<1> QED BY <1>9, <1>10, SMT
-----------------------------------------------------------------------------
(* The inductive invariant.                                                *)

Command == [code : Seq(Int), lits : Seq(Byte), at : Nat]

Typed ==
  /\ text \in Seq(Byte) /\ Len(text) <= MaxText /\ tail \in [1..2 -> Byte]
  /\ pc \in {"next", "search", "choose", "match", "enter", "end", "done"}
  /\ getp \in Nat /\ run \in Nat /\ runp \in Nat
  /\ hashtbl \in [Hashes -> Int] /\ link \in [0..(Window - 1) -> Int]
  /\ hoffset \in Int
  /\ best \in [len : Nat, cost : Nat, off : Nat]
  /\ out \in Seq(Command)
  /\ dpc \in {"read", "copy", "done"}
  /\ taken \in 0..Len(out) /\ dst \in Seq(Byte) /\ ref \in Int /\ left \in Nat

\* The literals not yet put lie before the position; of a match, the positions
\* still to be entered lie behind it.
Place ==
  /\ pc # "enter" => runp + run = getp /\ getp <= Len(text)
  /\ pc = "enter" => run = 0 /\ getp <= runp /\ runp <= Len(text)
  /\ pc \in {"search", "choose", "match"} => getp < Len(text)
  /\ pc \in {"end", "done"} => getp = Len(text)

\* Every position in the tables is before the encoder's, whatever was overwritten.
Tables ==
  /\ \A h \in Hashes : hashtbl[h] < getp
  /\ \A i \in 0..(Window - 1) : link[i] < getp
  /\ pc = "search" => hoffset < getp /\ MinOffset <= hoffset

\* A match is worth its code, fits its fields, and is one.
Match(b) ==
  /\ 3 <= b.len /\ b.len <= LongLength /\ getp + b.len <= Len(text)
  /\ b.off < getp /\ b.off + 2 <= Window
  /\ b.cost = Cost(b.off, b.len) /\ b.cost < b.len
  /\ \A j \in 0..(b.len - 1) : ByteAt(getp + j) = ByteAt(getp - 1 - b.off + j)
BestIsMatch ==
  pc \in {"search", "choose", "match"} => (best = NoMatch /\ pc # "match") \/ Match(best)

\* Command i stands for the text from StartOf(i) to StartOf(i + 1).
Reach == IF pc = "done" THEN runp + run ELSE runp
Begin(o, r, i) == IF i \in 1..Len(o) THEN o[i].at ELSE r
StartOf(i) == Begin(out, Reach, i)

Says(code, n, len, off, end) ==
  Decoded(code) = [run |-> n, len |-> len, off |-> off, end |-> end]
Stands(t, c, e) ==
  \E len, off \in Nat, end \in BOOLEAN :
    /\ Says(c.code, Len(c.lits), len, off, end)
    /\ e = c.at + Len(c.lits) + len /\ e <= Len(t)
    /\ \A j \in 1..Len(c.lits) : c.lits[j] = t[c.at + j]
    /\ len > 0 => off < c.at + Len(c.lits) /\ ~end
    /\ \A j \in 1..len :
         t[c.at + Len(c.lits) + j] = t[c.at + Len(c.lits) + j - 1 - off]
Stream ==
  /\ StartOf(1) = 0
  /\ \A i \in 1..Len(out) : Stands(text, out[i], StartOf(i + 1))

\* The end of the stream is marked, and nothing else is.
EndMark ==
  /\ \A i \in 1..Len(out) : Decoded(out[i].code).end <=> pc = "done" /\ i = Len(out)
  /\ pc = "done" => Len(out) > 0

\* The decoder has put the text up to its command, and that part of the command's
\* match that is not left.
Copying(c, n, from, l) ==
  LET d == Decoded(c.code) IN
  /\ ~d.end /\ 0 < l /\ l <= d.len
  /\ n = c.at + Len(c.lits) + d.len - l
  /\ from = n - 1 - d.off
Decoder ==
  /\ Len(dst) <= Len(text) /\ \A j \in 1..Len(dst) : dst[j] = text[j]
  /\ pc # "done" => dpc = "read" /\ taken = 0
  /\ dpc = "read" => Len(dst) = StartOf(taken + 1) /\ (pc = "done" => taken < Len(out))
  /\ dpc = "copy" => taken > 0 /\ Copying(out[taken], Len(dst), ref, left)
  /\ dpc = "done" => Len(dst) = Len(text)

IndInv == Typed /\ Place /\ Tables /\ BestIsMatch /\ Stream /\ EndMark /\ Decoder
-----------------------------------------------------------------------------
(* The pieces of the invariant.                                            *)

\* What the proofs use of the constants.
LEMMA Limits ==
  /\ Window \in Nat /\ Window > 0 /\ LongLength \in Nat /\ LongLength >= 5
  /\ HashOf \in [Byte \X Byte \X Byte -> Hashes]
BY FormAssumption, SMT

\* A position's slot in link.
LEMMA ModRange ==
  ASSUME NEW p \in Nat, NEW w \in Nat, w > 0
  PROVE  p % w \in 0..(w - 1)
BY SMT

\* The encoder reads bytes, in the text or just behind it.
LEMMA BytesRead ==
  ASSUME Typed
  PROVE  /\ \A p \in Nat : p < Len(text) + 2 => ByteAt(p) \in Byte
         /\ \A p \in Nat : p < Len(text) => HashAt(p) \in Hashes
<1>1. Len(text) \in Nat
  BY SMT DEF Typed
<1>2. ASSUME NEW p \in Nat, p < Len(text) + 2
      PROVE  ByteAt(p) \in Byte
  <2>1. CASE p < Len(text)
    <3>1. text[p + 1] \in Byte
      BY <1>1, <2>1, ElementOfSeq, SMT DEF Typed
    <3> QED BY <2>1, <3>1, SMT DEF ByteAt
  <2>2. CASE ~(p < Len(text))
    <3>1. PICK k \in 1..2 : k = p - Len(text) + 1
      BY <1>1, <1>2, <2>2, SMT
    <3>2. tail[k] \in Byte
      BY SMT DEF Typed
    <3> QED BY <2>2, <3>1, <3>2, SMT DEF ByteAt
  <2> QED BY <2>1, <2>2, SMT
<1>3. ASSUME NEW p \in Nat, p < Len(text)
      PROVE  HashAt(p) \in Hashes
  <2>1. ByteAt(p) \in Byte /\ ByteAt(p + 1) \in Byte /\ ByteAt(p + 2) \in Byte
    BY <1>1, <1>2, <1>3, SMT
  <2>2. <<ByteAt(p), ByteAt(p + 1), ByteAt(p + 2)>> \in Byte \X Byte \X Byte
    BY <2>1, SMT
  <2> QED BY <2>2, Limits, SMT DEF HashAt
<1> QED BY <1>2, <1>3, SMT

\* A position entered into the tables is behind the encoder.
LEMMA EnterTables ==
  ASSUME Typed, Tables, Enter(getp), getp < Len(text), getp' \in Nat, getp' > getp
  PROVE  /\ hashtbl' \in [Hashes -> Int] /\ link' \in [0..(Window - 1) -> Int]
         /\ \A h \in Hashes : hashtbl'[h] < getp'
         /\ \A i \in 0..(Window - 1) : link'[i] < getp'
<1>1. PICK g : g = HashAt(getp)
  OBVIOUS
<1>2. g \in Hashes
  BY <1>1, BytesRead, SMT DEF Typed
<1>3. /\ hashtbl' = [hashtbl EXCEPT ![g] = getp]
      /\ link' = [link EXCEPT ![getp % Window] = hashtbl[g]]
  BY <1>1, SMT DEF Enter
<1>4. hashtbl[g] \in Int /\ hashtbl[g] < getp /\ getp \in Nat
  BY <1>2, SMT DEF Typed, Tables
<1>5. hashtbl' \in [Hashes -> Int] /\ \A h \in Hashes : hashtbl'[h] < getp'
  BY <1>2, <1>3, <1>4, SMT DEF Typed, Tables
<1>6. link' \in [0..(Window - 1) -> Int]
  BY <1>3, <1>4, Limits, SMT DEF Typed
<1>7. ASSUME NEW i \in 0..(Window - 1)
      PROVE  link'[i] < getp'
  <2>1. link[i] \in Int /\ link[i] < getp
    BY Limits, SMT DEF Typed, Tables
  <2>2. link'[i] = hashtbl[g] \/ link'[i] = link[i]
    BY <1>3, SMT DEF Typed
  <2> QED BY <1>4, <2>1, <2>2, SMT
<1> QED BY <1>5, <1>6, <1>7, SMT

\* No candidate is behind its window or not yet passed.
LEMMA FromChain ==
  ASSUME Typed, Tables, NEW p, p \in Int, p < getp, getp' = getp, hoffset' = p,
         pc' = IF hoffset' >= MinOffset THEN "search" ELSE "choose"
  PROVE  /\ hoffset' \in Int /\ pc' \in {"search", "choose"}
         /\ pc' = "search" => hoffset' < getp' /\ MinOffset' <= hoffset'
<1>1. MinOffset' = MinOffset
  BY Zenon DEF MinOffset, Most
<1>2. MinOffset \in Int
  BY Limits, SMT DEF Typed, MinOffset, Most
<1> QED BY <1>1, <1>2, SMT

\* A candidate that is better than the best is a match.
LEMMA BetterIsMatch ==
  ASSUME Typed, Place, Tables, BestIsMatch, pc = "search",
         NEW n \in 0..MaxMatch, IsMatchLength(n, hoffset),
         NEW off, off = getp - 1 - hoffset, Better(n, Cost(off, n))
  PROVE  /\ [len |-> n, cost |-> Cost(off, n), off |-> off] \in [len : Nat, cost : Nat, off : Nat]
         /\ Match([len |-> n, cost |-> Cost(off, n), off |-> off])
<1>1. MaxMatch <= LongLength /\ MaxMatch <= Len(text) - getp /\ MaxMatch \in Int
  BY Limits, SMT DEF MaxMatch, Least, Typed
<1>2. off \in Nat /\ off < getp /\ off + 2 <= Window /\ hoffset = getp - 1 - off
  BY Limits, SMT DEF Typed, Tables, MinOffset, Most
<1>3. Cost(off, n) \in {2, 3, 4}
  BY SMT DEF Cost
<1>4. best.len \in Nat /\ best.cost \in Nat /\ best.len >= 2 /\ best.len >= best.cost
  BY Limits, SMT DEF Typed, BestIsMatch, Match, NoMatch
<1>5. n >= 3 /\ Cost(off, n) < n
  BY <1>1, <1>3, <1>4, SMT DEF Better
<1>6. \A j \in 0..(n - 1) : ByteAt(getp + j) = ByteAt(getp - 1 - off + j)
  BY <1>2, SMT DEF IsMatchLength
<1>7. n \in Nat /\ n <= LongLength /\ getp + n <= Len(text)
  BY <1>1, Limits, SMT DEF Typed
<1> QED BY <1>2, <1>3, <1>5, <1>6, <1>7, SMT DEF Match
-----------------------------------------------------------------------------
(* The encoder's steps keep its own part of the invariant.                 *)

Encoder == Typed /\ Place /\ Tables /\ BestIsMatch

\* The first candidate comes from the table.
LEMMA BeginSearchKeeps ==
  ASSUME Encoder, BeginSearch
  PROVE  Encoder'
<1> USE DEF Encoder
<1>1. PICK p : p = hashtbl[HashAt(getp)]
  OBVIOUS
<1>2. p \in Int /\ p < getp
  <2>1. HashAt(getp) \in Hashes
    BY BytesRead, SMT DEF Typed, BeginSearch
  <2> QED BY <1>1, <2>1, SMT DEF Typed, Tables
<1>3. /\ hoffset' \in Int /\ pc' \in {"search", "choose"}
      /\ pc' = "search" => hoffset' < getp' /\ MinOffset' <= hoffset'
  <2>1. hoffset' = p /\ getp' = getp /\ pc' = IF hoffset' >= MinOffset THEN "search" ELSE "choose"
    BY <1>1, SMT DEF BeginSearch, place
  <2> QED BY <1>2, <2>1, FromChain, SMT
<1>4. Typed'
  BY <1>3, SMT DEF Typed, BeginSearch, input, place, tables, stream, decoder, NoMatch
<1>5. Place'
  BY <1>3, SMT DEF Typed, Place, BeginSearch, input, place
<1>6. Tables'
  BY <1>3, SMT DEF Tables, BeginSearch, place, tables
<1>7. BestIsMatch'
  BY <1>3, SMT DEF BestIsMatch, BeginSearch
<1> QED BY <1>4, <1>5, <1>6, <1>7, SMT

\* The next one comes from its chain, and the best stays a match.
LEMMA TryCandidateKeeps ==
  ASSUME Encoder, TryCandidate
  PROVE  Encoder'
<1> USE DEF Encoder
<1>1. /\ text' = text /\ tail' = tail /\ getp' = getp /\ run' = run /\ runp' = runp
      /\ hashtbl' = hashtbl /\ link' = link /\ out' = out
      /\ dpc' = dpc /\ taken' = taken /\ dst' = dst /\ ref' = ref /\ left' = left
  BY SMT DEF TryCandidate, input, place, tables, stream, decoder
<1>2. /\ hoffset' \in Int /\ pc' \in {"search", "choose"}
      /\ pc' = "search" => hoffset' < getp' /\ MinOffset' <= hoffset'
  <2>1. MinOffset' = MinOffset
    BY <1>1, Zenon DEF MinOffset, Most
  <2>2. CASE best' # best /\ best'.len >= LongLength
    BY <1>1, <2>2, SMT DEF TryCandidate, Typed
  <2>3. CASE ~(best' # best /\ best'.len >= LongLength)
    <3>1. hoffset' = link[hoffset % Window] /\ pc' = IF hoffset' >= MinOffset THEN "search" ELSE "choose"
      BY <2>3, SMT DEF TryCandidate
    <3>2. hoffset \in Nat
      BY Limits, SMT DEF TryCandidate, Typed, Tables, MinOffset, Most
    <3>3. hoffset % Window \in 0..(Window - 1)
      BY <3>2, Limits, ModRange, SMT
    <3>4. link[hoffset % Window] \in Int /\ link[hoffset % Window] < getp
      BY <3>3, SMT DEF Typed, Tables
    <3> QED BY <1>1, <3>1, <3>4, FromChain, SMT
  <2> QED BY <2>2, <2>3, SMT
<1>3. best' \in [len : Nat, cost : Nat, off : Nat] /\ (best' = NoMatch \/ Match(best'))
  <2>1. PICK n \in 0..MaxMatch :
          LET off == getp - 1 - hoffset IN
          /\ IsMatchLength(n, hoffset)
          /\ best' = IF /\ ByteAt(getp + best.len) = ByteAt(hoffset + best.len)
                        /\ Better(n, Cost(off, n))
                     THEN [len |-> n, cost |-> Cost(off, n), off |-> off] ELSE best
    BY SMT DEF TryCandidate
  <2>2. PICK off : off = getp - 1 - hoffset
    OBVIOUS
  <2>3. CASE best' = best
    BY <2>3, SMT DEF Typed, BestIsMatch, TryCandidate
  <2>4. CASE best' # best
    <3>1. Better(n, Cost(off, n)) /\ best' = [len |-> n, cost |-> Cost(off, n), off |-> off]
      BY <2>1, <2>2, <2>4, SMT
    <3>2. pc = "search"
      BY SMT DEF TryCandidate
    <3> QED BY <2>1, <2>2, <3>1, <3>2, BetterIsMatch, SMT
  <2> QED BY <2>3, <2>4, SMT
<1>4. Typed'
  BY <1>1, <1>2, <1>3, SMT DEF Typed
<1>5. Place'
  BY <1>1, <1>2, SMT DEF Typed, Place, TryCandidate
<1>6. Tables'
  BY <1>1, <1>2, SMT DEF Tables
<1>7. BestIsMatch'
  <2>1. Match(best)' <=> Match(best')
    BY <1>1, Zenon DEF Match, ByteAt
  <2> QED BY <1>2, <1>3, <2>1, Zenon DEF BestIsMatch
<1> QED BY <1>4, <1>5, <1>6, <1>7, SMT

\* A literal's position is entered and passed.
LEMMA PutLiteralKeeps ==
  ASSUME Encoder, PutLiteral
  PROVE  Encoder'
<1> USE DEF Encoder
<1>1. /\ getp \in Nat /\ Len(text) \in Nat /\ getp < Len(text)
      /\ getp' \in Nat /\ getp' = getp + 1 /\ getp' > getp /\ Enter(getp) /\ pc' = "next"
  BY SMT DEF Typed, Place, PutLiteral
<1>2. /\ hashtbl' \in [Hashes -> Int] /\ link' \in [0..(Window - 1) -> Int]
      /\ \A h \in Hashes : hashtbl'[h] < getp'
      /\ \A i \in 0..(Window - 1) : link'[i] < getp'
  BY <1>1, EnterTables, SMT
<1>3. Typed'
  BY <1>1, <1>2, SMT DEF Typed, PutLiteral, input, stream, decoder
<1>4. Place'
  BY <1>1, SMT DEF Typed, Place, PutLiteral, input
<1>5. Tables'
  BY <1>1, <1>2, SMT DEF Tables
<1>6. BestIsMatch'
  BY <1>1, SMT DEF BestIsMatch
<1> QED BY <1>3, <1>4, <1>5, <1>6, SMT

\* A match is put only when it saves something.
LEMMA BeginMatchKeeps ==
  ASSUME Encoder, BeginMatch
  PROVE  Encoder'
<1> USE DEF Encoder
<1>1. Typed'
  BY SMT DEF Typed, BeginMatch, input, place, tables, stream, decoder
<1>2. Place'
  BY SMT DEF Place, BeginMatch, input, place
<1>3. Tables'
  BY SMT DEF Tables, BeginMatch, place, tables
<1>4. Match(best) /\ pc' = "match"
  BY SMT DEF BestIsMatch, BeginMatch, NoMatch
<1>5. Match(best)'
  BY <1>4, Zenon DEF BeginMatch, Match, ByteAt, input, place
<1>6. BestIsMatch'
  BY <1>5, SMT DEF BestIsMatch
<1> QED BY <1>1, <1>2, <1>3, <1>6, SMT

\* The positions of a match are entered up to its end.
LEMMA EnterMatchKeeps ==
  ASSUME Encoder, EnterMatch
  PROVE  Encoder'
<1> USE DEF Encoder
<1>1. /\ getp \in Nat /\ Len(text) \in Nat /\ getp < Len(text)
      /\ getp' \in Nat /\ getp' > getp /\ getp' <= runp /\ Enter(getp) /\ pc' = "enter" /\ pc = "enter"
  BY SMT DEF Typed, Place, EnterMatch
<1>2. /\ hashtbl' \in [Hashes -> Int] /\ link' \in [0..(Window - 1) -> Int]
      /\ \A h \in Hashes : hashtbl'[h] < getp'
      /\ \A i \in 0..(Window - 1) : link'[i] < getp'
  BY <1>1, EnterTables, SMT
<1>3. Typed'
  BY <1>1, <1>2, SMT DEF Typed, EnterMatch, input, stream, decoder
<1>4. Place'
  BY <1>1, SMT DEF Typed, Place, EnterMatch, input
<1>5. Tables'
  BY <1>1, <1>2, SMT DEF Tables
<1>6. BestIsMatch'
  BY <1>1, SMT DEF BestIsMatch
<1> QED BY <1>3, <1>4, <1>5, <1>6, SMT

\* After a match there are no literals to put.
LEMMA EndMatchKeeps ==
  ASSUME Encoder, EndMatch
  PROVE  Encoder'
<1> USE DEF Encoder
<1>1. Typed'
  BY SMT DEF Typed, EndMatch, input, place, tables, stream, decoder
<1>2. Place'
  BY SMT DEF Typed, Place, EndMatch, input, place
<1>3. Tables'
  BY SMT DEF Tables, EndMatch, place, tables
<1>4. BestIsMatch'
  BY SMT DEF BestIsMatch, EndMatch
<1> QED BY <1>1, <1>2, <1>3, <1>4, SMT

\* At the end of the text only literals are left.
LEMMA BeginEndKeeps ==
  ASSUME Encoder, BeginEnd
  PROVE  Encoder'
<1> USE DEF Encoder
<1>1. Typed'
  BY SMT DEF Typed, BeginEnd, input, place, tables, stream, decoder
<1>2. Place'
  BY SMT DEF Typed, Place, BeginEnd, input, place
<1>3. Tables'
  BY SMT DEF Tables, BeginEnd, place, tables
<1>4. BestIsMatch'
  BY SMT DEF BestIsMatch, BeginEnd
<1> QED BY <1>1, <1>2, <1>3, <1>4, SMT
-----------------------------------------------------------------------------
(* The commands stand for the text.                                        *)

\* The literals before the position.
LEMMA Substring ==
  ASSUME Typed, NEW n \in Nat, runp + n <= Len(text)
  PROVE  /\ SubSeq(text, runp + 1, runp + n) \in Seq(Byte)
         /\ Len(SubSeq(text, runp + 1, runp + n)) = n
         /\ \A j \in 1..n : SubSeq(text, runp + 1, runp + n)[j] = text[runp + j]
<1>1. runp \in Nat /\ Len(text) \in Nat /\ runp + 1 \in Int /\ runp + n \in Int
  BY SMT DEF Typed
<1>2. \A i \in (runp + 1)..(runp + n) : text[i] \in Byte
  BY <1>1, ElementOfSeq, SMT DEF Typed
<1>3. PICK s : s = SubSeq(text, runp + 1, runp + n)
  OBVIOUS
<1>4. /\ s \in Seq(Byte)
      /\ Len(s) = IF runp + 1 <= runp + n THEN (runp + n) - (runp + 1) + 1 ELSE 0
      /\ \A i \in 1..((runp + n) - (runp + 1) + 1) : s[i] = text[(runp + 1) + i - 1]
  BY <1>1, <1>2, <1>3, SubSeqProperties, SMTT(30)
<1>5. Len(s) = n /\ \A j \in 1..n : s[j] = text[runp + j]
  <2>1. Len(s) = n
    BY <1>1, <1>4, SMT
  <2>2. ASSUME NEW j \in 1..n
        PROVE  s[j] = text[runp + j]
    <3>1. j \in 1..((runp + n) - (runp + 1) + 1) /\ (runp + 1) + j - 1 = runp + j
      BY <1>1, SMT
    <3> QED BY <1>4, <3>1, Zenon
  <2> QED BY <2>1, <2>2, Zenon
<1> QED BY <1>3, <1>4, <1>5, Zenon

\* A record of three fields has its type.
LEMMA RecordIn ==
  ASSUME NEW A, NEW B, NEW a \in A, NEW b \in B, NEW p \in Nat
  PROVE  [code |-> a, lits |-> b, at |-> p] \in [code : A, lits : B, at : Nat]
BY SMT

\* Literals, and the match that follows them, are a command for their text.
LEMMA PutStands ==
  ASSUME Typed, NEW n \in Nat, NEW code \in Seq(Int), NEW len \in Nat, NEW off \in Nat, NEW end \in BOOLEAN,
         Says(code, n, len, off, end), runp + n + len <= Len(text),
         len > 0 => off < runp + n /\ ~end,
         \A j \in 1..len : text[runp + n + j] = text[runp + n + j - 1 - off],
         NEW c, c = [code |-> code, lits |-> SubSeq(text, runp + 1, runp + n), at |-> runp]
  PROVE  c \in Command /\ c.at = runp /\ Stands(text, c, runp + n + len) /\ (Decoded(c.code).end <=> end)
<1>1. runp \in Nat /\ Len(text) \in Nat
  BY SMT DEF Typed
<1>2. runp + n <= Len(text)
  BY <1>1, SMT
<1>3. PICK s : s = SubSeq(text, runp + 1, runp + n)
  OBVIOUS
<1>4. s \in Seq(Byte) /\ Len(s) = n /\ \A j \in 1..n : s[j] = text[runp + j]
  BY <1>2, <1>3, Substring, SMT
<1>5. c = [code |-> code, lits |-> s, at |-> runp]
  BY <1>3, SMT
<1>6. Len(s) = n /\ c.code = code /\ c.lits = s /\ c.at = runp
  <2>1. c.code = code /\ c.lits = s /\ c.at = runp
    BY <1>5, SMT
  <2> QED BY <1>4, <2>1, Zenon
<1>7. c \in Command
  <2>1. code \in Seq(Int) /\ s \in Seq(Byte) /\ runp \in Nat
    BY <1>1, <1>4, Zenon
  <2>2. [code |-> code, lits |-> s, at |-> runp] \in [code : Seq(Int), lits : Seq(Byte), at : Nat]
    BY <2>1, RecordIn, SMT
  <2> QED BY <1>5, <2>2, Zenon DEF Command
<1>8. Says(c.code, Len(c.lits), len, off, end)
  BY <1>6, Zenon
<1>9. Stands(text, c, runp + n + len)
  <2>1. PICK k \in Nat : k = runp + n
    BY <1>1, SMT
  <2>2. c.at + Len(c.lits) = k
    BY <1>6, <2>1, Zenon
  <2>3. \A j \in 1..Len(c.lits) : c.lits[j] = text[c.at + j]
    BY <1>4, <1>6, Zenon
  <2>4. runp + n + len = c.at + Len(c.lits) + len
    BY <2>1, <2>2, Zenon
  <2>5. len > 0 => off < c.at + Len(c.lits) /\ ~end
    BY <1>6, Zenon
  <2>6. \A j \in 1..len :
          text[c.at + Len(c.lits) + j] = text[c.at + Len(c.lits) + j - 1 - off]
    BY <1>6, Zenon
  <2> QED BY <1>8, <2>3, <2>4, <2>5, <2>6, Zenon DEF Stands
<1>10. Decoded(c.code).end = end
  BY <1>8, SMT DEF Says
<1> QED BY <1>6, <1>7, <1>9, <1>10, Zenon

\* A command put behind the others continues where they end.
LEMMA PutStream ==
  ASSUME Typed, Stream, EndMark, pc # "done", NEW c \in Command,
         out' = Append(out, c), text' = text, c.at = runp,
         Stands(text, c, Reach'), Decoded(c.code).end <=> pc' = "done"
  PROVE  Stream' /\ EndMark' /\ Len(out') > 0 /\ out' \in Seq(Command) /\ Len(out') = Len(out) + 1
<1>1. /\ Len(out) \in Nat /\ Len(out') = Len(out) + 1 /\ out' \in Seq(Command)
      /\ out'[Len(out) + 1] = c /\ \A i \in 1..Len(out) : out'[i] = out[i]
  BY AppendProperties, SMT DEF Typed
<1>2. ASSUME NEW i \in Int, 1 <= i, i <= Len(out) + 1
      PROVE  StartOf(i)' = StartOf(i)
  <2>1. CASE i <= Len(out)
    BY <1>1, <1>2, <2>1, SMT DEF StartOf, Begin
  <2>2. CASE i = Len(out) + 1
    <3>1. StartOf(i) = runp
      BY <1>1, <2>2, SMT DEF StartOf, Begin, Reach
    <3>2. StartOf(i)' = c.at
      BY <1>1, <2>2, SMT DEF StartOf, Begin
    <3> QED BY <3>1, <3>2, SMT
  <2> QED BY <1>1, <1>2, <2>1, <2>2, SMT
<1>3. ASSUME NEW i \in Int, i = Len(out) + 2
      PROVE  StartOf(i)' = Reach'
  BY <1>1, <1>3, SMT DEF StartOf, Begin
<1>4. ASSUME NEW i \in 1..Len(out')
      PROVE  Stands(text, out[i], StartOf(i + 1))'
  <2>1. CASE i \in 1..Len(out)
    <3>1. StartOf(i + 1)' = StartOf(i + 1) /\ out'[i] = out[i]
      BY <1>1, <1>2, <2>1, SMT
    <3>2. Stands(text, out[i], StartOf(i + 1))
      BY <2>1, SMT DEF Stream
    <3> QED BY <3>1, <3>2, Zenon
  <2>2. CASE i = Len(out) + 1
    <3>1. out'[i] = c
      BY <1>1, <2>2, SMT
    <3>2. StartOf(i + 1)' = Reach'
      <4>1. i + 1 \in Int /\ i + 1 = Len(out) + 2
        BY <1>1, <2>2, SMT
      <4> QED BY <1>3, <4>1, Zenon
    <3> QED BY <3>1, <3>2, Zenon
  <2> QED BY <1>1, <2>1, <2>2, SMT
<1>5. StartOf(1)' = 0
  BY <1>1, <1>2, SMT DEF Stream
<1>6. Stream'
  BY <1>4, <1>5, Zenon DEF Stream
<1>7. EndMark'
  <2>1. Len(out') > 0
    BY <1>1, SMT
  <2>2. ASSUME NEW i \in 1..Len(out')
        PROVE  Decoded(out'[i].code).end <=> pc' = "done" /\ i = Len(out')
    <3>1. CASE i \in 1..Len(out)
      <4>1. out'[i] = out[i] /\ i # Len(out')
        BY <1>1, <3>1, SMT
      <4> QED BY <3>1, <4>1, SMT DEF EndMark
    <3>2. CASE i = Len(out) + 1
      BY <1>1, <3>2, SMT
    <3> QED BY <1>1, <3>1, <3>2, SMT
  <2> QED BY <2>1, <2>2, Zenon DEF EndMark, Decoded
<1> QED BY <1>1, <1>6, <1>7, SMT

\* A step that puts nothing moves no command.
LEMMA QuietStream ==
  ASSUME Typed, Stream, EndMark, pc # "done", pc' # "done", text' = text, out' = out, runp' = runp
  PROVE  Stream' /\ EndMark'
<1>1. ASSUME NEW i
      PROVE  StartOf(i)' = StartOf(i)
  BY SMT DEF StartOf, Begin, Reach
<1>2. Stream'
  <2>1. StartOf(1)' = 0
    BY <1>1, SMT DEF Stream
  <2>2. ASSUME NEW i \in 1..Len(out)
        PROVE  Stands(text, out[i], StartOf(i + 1))'
    <3>1. Stands(text, out[i], StartOf(i + 1)) /\ StartOf(i + 1)' = StartOf(i + 1)
      BY <1>1, SMT DEF Stream
    <3> QED BY <3>1, Zenon
  <2> QED BY <2>1, <2>2, Zenon DEF Stream
<1>3. EndMark'
  BY SMT DEF EndMark
<1> QED BY <1>2, <1>3, SMT
-----------------------------------------------------------------------------
(* The steps that put a command.                                           *)

\* What one command takes of a long run of literals.
LEMMA LiteralsOfBlock ==
  ASSUME run \in Nat, run > 3
  PROVE  /\ Literals \in Nat /\ 4 <= Literals /\ Literals <= 112 /\ Literals % 4 = 0
         /\ Literals <= run
<1>1. /\ Block \in Nat /\ 4 <= Block /\ Block <= 112 /\ Block % 4 = 0
  BY FormAssumption, SMT
<1>2. PICK k \in Nat, r \in 0..3 : run = 4 * k + r /\ run % 4 = r
  <2>1. PICK k \in Nat, r \in 0..3 : k = run \div 4 /\ r = run % 4
    BY SMT
  <2>2. run = 4 * k + r
    BY <2>1, SMT
  <2>3. run % 4 = r
    BY <2>1, SMT
  <2> QED BY <2>2, <2>3, SMT
<1>3. PICK m \in Nat : m = run - (run % 4) /\ m = 4 * k
  BY <1>2, SMT
<1>4. Literals = Block \/ Literals = m
  BY <1>3, SMT DEF Literals, Least
<1>5. Literals <= m
  BY <1>1, <1>3, SMT DEF Literals, Least
<1>6. Literals <= Block
  BY <1>1, <1>3, SMT DEF Literals, Least
<1>7. m >= 4 /\ m <= run /\ m % 4 = 0
  BY <1>2, <1>3, SMT
<1> QED BY <1>1, <1>4, <1>5, <1>6, <1>7, SMT

\* A block of literals.
LEMMA PutBlockKeeps ==
  ASSUME Encoder, Stream, EndMark, PutBlock
  PROVE  Encoder' /\ Stream' /\ EndMark' /\ Len(out') > 0
<1> USE DEF Encoder
<1>1. PICK n : n = Literals
  OBVIOUS
<1>2. n \in Nat /\ 4 <= n /\ n <= 112 /\ n % 4 = 0 /\ n <= run
  BY <1>1, LiteralsOfBlock, SMT DEF PutBlock, Typed
<1>3. PICK code : code = <<224 + n \div 4 - 1>>
  OBVIOUS
<1>4. code \in Seq(Int)
  <2>1. 224 + n \div 4 - 1 \in Int
    BY <1>2, SMT
  <2> QED BY <1>3, <2>1, SMT
<1>5. Says(code, n, 0, 0, FALSE)
  BY <1>2, <1>3, BlockCodes, SMT DEF Says
<1>6. /\ runp \in Nat /\ run \in Nat /\ getp \in Nat /\ Len(text) \in Nat
      /\ runp + run = getp /\ getp <= Len(text)
  BY SMT DEF Typed, Place, PutBlock
<1>7. PICK c : c = [code |-> code, lits |-> SubSeq(text, runp + 1, runp + n), at |-> runp]
  OBVIOUS
<1>8. c \in Command /\ c.at = runp /\ Stands(text, c, runp + n) /\ (Decoded(c.code).end <=> FALSE)
  <2>1. runp + n + 0 <= Len(text)
    BY <1>2, <1>6, SMT
  <2>2. c \in Command /\ c.at = runp /\ Stands(text, c, runp + n + 0) /\ (Decoded(c.code).end <=> FALSE)
    <3>1. \A j \in 1..0 : text[runp + n + j] = text[runp + n + j - 1 - 0]
      BY SMT
    <3>2. 0 > 0 => 0 < runp + n /\ ~FALSE
      BY SMT
    <3>3. 0 \in Nat /\ FALSE \in BOOLEAN
      BY SMT
    <3> QED BY <1>2, <1>4, <1>5, <1>7, <2>1, <3>1, <3>2, <3>3, PutStands, Zenon
  <2>3. runp + n + 0 = runp + n
    BY <1>2, <1>6, SMT
  <2> QED BY <2>2, <2>3, SMT
<1>9. out' = Append(out, c)
  BY <1>1, <1>3, <1>7, SMT DEF PutBlock, Put
<1>10. /\ text' = text /\ tail' = tail /\ pc' = pc /\ getp' = getp /\ hashtbl' = hashtbl /\ link' = link
       /\ hoffset' = hoffset /\ best' = best /\ run' = run - n /\ runp' = runp + n
       /\ dpc' = dpc /\ taken' = taken /\ dst' = dst /\ ref' = ref /\ left' = left
       /\ pc \in {"match", "end"}
  BY <1>1, SMT DEF PutBlock, input, tables, decoder
<1>11. Stream' /\ EndMark' /\ Len(out') > 0 /\ out' \in Seq(Command) /\ Len(out') = Len(out) + 1
  <2>1. Reach' = runp + n
    BY <1>10, SMT DEF Reach
  <2> QED BY <1>8, <1>9, <1>10, <2>1, PutStream, SMT
<1>12. Typed'
  <2>1. taken' \in 0..Len(out')
    BY <1>10, <1>11, SMT DEF Typed
  <2>2. run' \in Nat /\ runp' \in Nat
    BY <1>2, <1>6, <1>10, SMT
  <2> QED BY <1>10, <1>11, <2>1, <2>2, SMT DEF Typed
<1>13. Place'
  BY <1>2, <1>6, <1>10, SMT DEF Place
<1>14. Tables'
  BY <1>10, SMT DEF Tables
<1>15. BestIsMatch'
  <2>1. Match(best)' <=> Match(best)
    BY <1>10, Zenon DEF Match, ByteAt
  <2> QED BY <1>10, <2>1, Zenon DEF BestIsMatch
<1> QED BY <1>11, <1>12, <1>13, <1>14, <1>15, SMT

\* The last literals, with the mark of the end.
LEMMA PutEndKeeps ==
  ASSUME Encoder, Stream, EndMark, PutEnd
  PROVE  Encoder' /\ Stream' /\ EndMark' /\ Len(out') > 0
<1> USE DEF Encoder
<1>1. run \in 0..3
  BY SMT DEF PutEnd, Typed
<1>2. PICK code : code = <<252 + run>>
  OBVIOUS
<1>3. code \in Seq(Int)
  BY <1>1, <1>2, SMT
<1>4. Says(code, run, 0, 0, TRUE)
  <2>1. Decoded(<<252 + run>>) = [run |-> run, len |-> 0, off |-> 0, end |-> TRUE]
    BY <1>1, EndCodes
  <2> QED BY <1>2, <2>1, SMT DEF Says
<1>5. /\ runp \in Nat /\ getp \in Nat /\ Len(text) \in Nat /\ runp + run = getp /\ getp <= Len(text)
  BY SMT DEF Typed, Place, PutEnd
<1>6. PICK c : c = [code |-> code, lits |-> SubSeq(text, runp + 1, runp + run), at |-> runp]
  OBVIOUS
<1>7. c \in Command /\ c.at = runp /\ Stands(text, c, runp + run) /\ (Decoded(c.code).end <=> TRUE)
  <2>1. runp + run + 0 <= Len(text) /\ run \in Nat
    BY <1>1, <1>5, SMT
  <2>2. c \in Command /\ c.at = runp /\ Stands(text, c, runp + run + 0) /\ (Decoded(c.code).end <=> TRUE)
    <3>1. \A j \in 1..0 : text[runp + run + j] = text[runp + run + j - 1 - 0]
      BY SMT
    <3>2. 0 > 0 => 0 < runp + run /\ ~TRUE
      BY SMT
    <3>3. 0 \in Nat /\ TRUE \in BOOLEAN
      BY SMT
    <3> QED BY <1>3, <1>4, <1>6, <2>1, <3>1, <3>2, <3>3, PutStands, Zenon
  <2>3. runp + run + 0 = runp + run
    BY <1>1, <1>5, SMT
  <2> QED BY <2>2, <2>3, SMT
<1>8. out' = Append(out, c)
  BY <1>2, <1>6, SMT DEF PutEnd, Put
<1>9. /\ text' = text /\ tail' = tail /\ pc' = "done" /\ pc = "end" /\ getp' = getp
      /\ hashtbl' = hashtbl /\ link' = link
      /\ hoffset' = hoffset /\ best' = best /\ run' = run /\ runp' = runp
      /\ dpc' = dpc /\ taken' = taken /\ dst' = dst /\ ref' = ref /\ left' = left
  BY SMT DEF PutEnd, input, place, tables, decoder
<1>10. Stream' /\ EndMark' /\ Len(out') > 0 /\ out' \in Seq(Command) /\ Len(out') = Len(out) + 1
  <2>1. Reach' = runp + run
    BY <1>9, SMT DEF Reach
  <2> QED BY <1>7, <1>8, <1>9, <2>1, PutStream, SMT
<1>11. Typed'
  <2>1. taken' \in 0..Len(out')
    BY <1>9, <1>10, SMT DEF Typed
  <2> QED BY <1>9, <1>10, <2>1, SMT DEF Typed
<1>12. Place'
  BY <1>9, SMT DEF Place
<1>13. Tables'
  BY <1>9, SMT DEF Tables
<1>14. BestIsMatch'
  BY <1>9, SMT DEF BestIsMatch
<1> QED BY <1>10, <1>11, <1>12, <1>13, <1>14, SMT

\* The code chosen for a match has room for it.
LEMMA MatchCodes ==
  ASSUME Typed, Match(best), run \in 0..3
  PROVE  MatchCode \in Seq(Int) /\ Says(MatchCode, run, best.len, best.off, FALSE)
<1>1. best.len \in Nat /\ best.off \in Nat /\ best.cost \in Nat
  BY SMT DEF Typed
<1>2. PICK len \in Nat : len = best.len
  BY <1>1, SMT
<1>3. PICK off \in Nat : off = best.off
  BY <1>1, SMT
<1>4. /\ 3 <= len /\ len <= LongLength /\ off + 2 <= Window
      /\ best.cost = Cost(off, len) /\ best.cost < len
  BY <1>2, <1>3, SMT DEF Match
<1>5. CASE off < ShortOffset /\ len <= ShortLength
  <2>1. best.cost = 2
    BY <1>4, <1>5, SMT DEF Cost
  <2>2. MatchCode = ShortCode(run, len, off)
    BY <1>2, <1>3, <2>1, SMT DEF MatchCode
  <2>3. len <= 10 /\ off < 1024
    BY <1>5, FormAssumption, SMT
  <2>4. Decoded(ShortCode(run, len, off)) = [run |-> run, len |-> len, off |-> off, end |-> FALSE]
    BY <1>4, <2>3, ShortCodes, SMT
  <2>5. ShortCode(run, len, off) \in Seq(Int)
    <3>1. ((off \div 256) * 32 + (len - 3) * 4 + run) % 256 \in Int /\ off % 256 \in Int
      BY SMT
    <3> QED BY <3>1, SMT DEF ShortCode
  <2> QED BY <1>2, <1>3, <2>2, <2>4, <2>5, SMT DEF Says
<1>6. CASE ~(off < ShortOffset /\ len <= ShortLength) /\ off < MediumOffset /\ len <= MediumLength
  <2>1. best.cost = 3
    BY <1>4, <1>6, SMT DEF Cost
  <2>2. MatchCode = MediumCode(run, len, off)
    BY <1>2, <1>3, <2>1, SMT DEF MatchCode
  <2>3. 4 <= len /\ len <= 67 /\ off < 16384
    BY <1>4, <1>6, <2>1, FormAssumption, SMT
  <2>4. Decoded(MediumCode(run, len, off)) = [run |-> run, len |-> len, off |-> off, end |-> FALSE]
    BY <2>3, MediumCodes, SMT
  <2>5. MediumCode(run, len, off) \in Seq(Int)
    <3>1. /\ (128 + (len - 4)) % 256 \in Int /\ (run * 64 + off \div 256) % 256 \in Int
          /\ off % 256 \in Int
      BY SMT
    <3> QED BY <3>1, SMT DEF MediumCode
  <2> QED BY <1>2, <1>3, <2>2, <2>4, <2>5, SMT DEF Says
<1>7. CASE /\ ~(off < ShortOffset /\ len <= ShortLength)
           /\ ~(off < MediumOffset /\ len <= MediumLength)
  <2>1. best.cost = 4
    BY <1>4, <1>7, SMT DEF Cost
  <2>2. MatchCode = LongCode(run, len, off)
    BY <1>2, <1>3, <2>1, SMT DEF MatchCode
  <2>3. 5 <= len /\ len <= 1028 /\ off < 131072
    BY <1>4, <2>1, FormAssumption, SMT
  <2>4. Decoded(LongCode(run, len, off)) = [run |-> run, len |-> len, off |-> off, end |-> FALSE]
    BY <2>3, LongCodes, SMT
  <2>5. LongCode(run, len, off) \in Seq(Int)
    <3>1. PICK a \in Int : a = (192 + (off \div 65536) * 16 + ((len - 5) \div 256) * 4 + run) % 256
      BY SMT
    <3>2. PICK b \in Int : b = (off \div 256) % 256
      BY SMT
    <3>3. PICK d \in Int : d = off % 256
      BY SMT
    <3>4. PICK e \in Int : e = (len - 5) % 256
      BY SMT
    <3>5. LongCode(run, len, off) = <<a, b, d, e>>
      BY <3>1, <3>2, <3>3, <3>4, SMT DEF LongCode
    <3> QED BY <3>5, SMT
  <2> QED BY <1>2, <1>3, <2>2, <2>4, <2>5, SMT DEF Says
<1> QED BY <1>5, <1>6, <1>7, Zenon

\* A match with up to three literals before it.
LEMMA PutMatchKeeps ==
  ASSUME Encoder, Stream, EndMark, PutMatch
  PROVE  Encoder' /\ Stream' /\ EndMark' /\ Len(out') > 0
<1> USE DEF Encoder
<1>1. run \in 0..3 /\ pc = "match" /\ Match(best)
  BY SMT DEF PutMatch, Typed, BestIsMatch
<1>2. PICK len \in Nat : len = best.len
  BY SMT DEF Typed
<1>3. PICK off \in Nat : off = best.off
  BY SMT DEF Typed
<1>4. PICK code : code = MatchCode
  OBVIOUS
<1>5. code \in Seq(Int) /\ Says(code, run, len, off, FALSE)
  BY <1>1, <1>2, <1>3, <1>4, MatchCodes, Zenon
<1>6. /\ runp \in Nat /\ getp \in Nat /\ Len(text) \in Nat /\ runp + run = getp
      /\ getp + len <= Len(text) /\ off < getp /\ 3 <= len
      /\ \A j \in 0..(len - 1) : ByteAt(getp + j) = ByteAt(getp - 1 - off + j)
  BY <1>1, <1>2, <1>3, SMT DEF Typed, Place, Match
<1>7. PICK c : c = [code |-> code, lits |-> SubSeq(text, runp + 1, runp + run), at |-> runp]
  OBVIOUS
<1>8. ASSUME NEW j \in 1..len
      PROVE  text[runp + run + j] = text[runp + run + j - 1 - off]
  <2>1. PICK i \in 0..(len - 1) : i = j - 1
    BY SMT
  <2>2. ByteAt(getp + i) = ByteAt(getp - 1 - off + i)
    BY <1>6, Zenon
  <2>3. getp + i < Len(text) /\ getp - 1 - off + i < Len(text)
    BY <1>6, SMT
  <2>4. text[getp + i + 1] = text[getp - 1 - off + i + 1]
    BY <2>2, <2>3, SMT DEF ByteAt
  <2>5. getp + i + 1 = runp + run + j /\ getp - 1 - off + i + 1 = runp + run + j - 1 - off
    BY <1>1, <1>6, <2>1, SMT
  <2> QED BY <2>4, <2>5, SMT
<1>9. c \in Command /\ c.at = runp /\ Stands(text, c, runp + run + len) /\ (Decoded(c.code).end <=> FALSE)
  <2>1. runp + run + len <= Len(text) /\ run \in Nat /\ off < runp + run
    BY <1>1, <1>6, SMT
  <2>2. len > 0 => off < runp + run /\ ~FALSE
    BY <2>1, Zenon
  <2>3. FALSE \in BOOLEAN
    BY Zenon
  <2> QED BY <1>5, <1>7, <1>8, <2>1, <2>2, <2>3, PutStands, Zenon
<1>10. out' = Append(out, c)
  BY <1>4, <1>7, SMT DEF PutMatch, Put
<1>11. /\ text' = text /\ tail' = tail /\ pc' = "enter" /\ getp' = getp /\ hashtbl' = hashtbl /\ link' = link
       /\ hoffset' = hoffset /\ best' = best /\ run' = 0 /\ runp' = getp + len
       /\ dpc' = dpc /\ taken' = taken /\ dst' = dst /\ ref' = ref /\ left' = left
  BY <1>2, SMT DEF PutMatch, input, tables, decoder
<1>12. Stream' /\ EndMark' /\ Len(out') > 0 /\ out' \in Seq(Command) /\ Len(out') = Len(out) + 1
  <2>1. Reach' = runp + run + len
    BY <1>1, <1>6, <1>11, SMT DEF Reach
  <2> QED BY <1>1, <1>9, <1>10, <1>11, <2>1, PutStream, SMT
<1>13. Typed'
  <2>1. taken' \in 0..Len(out')
    BY <1>11, <1>12, SMT DEF Typed
  <2>2. runp' \in Nat /\ run' \in Nat
    BY <1>6, <1>11, SMT
  <2> QED BY <1>11, <1>12, <2>1, <2>2, SMT DEF Typed
<1>14. Place'
  BY <1>6, <1>11, SMT DEF Place
<1>15. Tables'
  BY <1>11, SMT DEF Tables
<1>16. BestIsMatch'
  BY <1>11, SMT DEF BestIsMatch
<1> QED BY <1>12, <1>13, <1>14, <1>15, <1>16, SMT
-----------------------------------------------------------------------------
(* The decoder's steps.                                                    *)

\* While the encoder runs the decoder has not begun.
LEMMA DecoderWaits ==
  ASSUME Typed, Decoder, Stream, Stream', pc # "done", text' = text, decoder' = decoder,
         pc' = "done" => Len(out') > 0
  PROVE  Decoder'
<1>1. /\ dpc' = "read" /\ dpc = "read" /\ taken' = 0 /\ taken = 0 /\ dst' = dst
  BY SMT DEF Decoder, decoder
<1>2. StartOf(1)' = 0 /\ StartOf(1) = 0
  BY SMT DEF Stream
<1>3. Len(dst) = 0
  <2>1. taken + 1 = 1
    BY <1>1, SMT
  <2> QED BY <1>1, <1>2, <2>1, SMT DEF Decoder
<1>4. Len(dst') = StartOf(taken + 1)'
  <2>1. taken' + 1 = 1
    BY <1>1, SMT
  <2>2. Begin(out', Reach', 1) = 0
    BY <1>2, SMT DEF StartOf
  <2> QED BY <1>1, <1>3, <2>1, <2>2, SMT DEF StartOf
<1>5. Len(text) \in Nat /\ Len(dst') <= Len(text') /\ \A j \in 1..Len(dst') : dst'[j] = text'[j]
  BY <1>1, <1>3, SMT DEF Typed, Decoder
<1>6. pc' = "done" => taken' < Len(out')
  BY <1>1, SMT
<1> QED BY <1>1, <1>4, <1>5, <1>6, Zenon DEF Decoder

\* And its fields have theirs.
LEMMA InRecord ==
  ASSUME NEW A, NEW B, NEW c \in [code : A, lits : B, at : Nat]
  PROVE  c.code \in A /\ c.lits \in B /\ c.at \in Nat
BY SMT

\* A command the decoder may take, and what it says.
LEMMA CommandTaken ==
  ASSUME Typed, Stream, EndMark, NEW i \in 1..Len(out)
  PROVE  /\ out[i] \in Command
         /\ StartOf(i) = out[i].at
         /\ Stands(text, out[i], StartOf(i + 1))
         /\ i # Len(out) => ~Decoded(out[i].code).end
         /\ pc = "done" /\ i = Len(out) => Decoded(out[i].code).end
<1>1. out[i] \in Command
  BY ElementOfSeq, SMT DEF Typed
<1>2. StartOf(i) = out[i].at
  BY SMT DEF StartOf, Begin
<1>3. Stands(text, out[i], StartOf(i + 1))
  BY Zenon DEF Stream
<1>4. Decoded(out[i].code).end <=> pc = "done" /\ i = Len(out)
  BY Zenon DEF EndMark
<1> QED BY <1>1, <1>2, <1>3, <1>4, Zenon

\* The decoder appends the literals and stands at its match's first byte.
LEMMA TakeCommandKeeps ==
  ASSUME IndInv, TakeCommand
  PROVE  Typed' /\ Decoder'
<1> USE DEF IndInv
<1>1. PICK i \in 1..Len(out) : i = taken + 1
  BY SMT DEF Typed, Decoder, TakeCommand
<1>2. PICK c : c = out[i]
  OBVIOUS
<1>3. PICK e : e = StartOf(i + 1)
  OBVIOUS
<1>4. /\ c \in Command /\ Len(dst) = c.at /\ Stands(text, c, e)
      /\ Decoded(c.code).end <=> i = Len(out)
  BY <1>1, <1>2, <1>3, CommandTaken, SMT DEF Decoder, TakeCommand, EndMark
<1>5. PICK len \in Nat, off \in Nat, end \in BOOLEAN :
        /\ Says(c.code, Len(c.lits), len, off, end)
        /\ e = c.at + Len(c.lits) + len /\ e <= Len(text)
        /\ \A j \in 1..Len(c.lits) : c.lits[j] = text[c.at + j]
        /\ len > 0 => off < c.at + Len(c.lits) /\ ~end
        /\ \A j \in 1..len :
             text[c.at + Len(c.lits) + j] = text[c.at + Len(c.lits) + j - 1 - off]
  BY <1>4, Zenon DEF Stands
<1>6. PICK d : d = Decoded(c.code)
  OBVIOUS
<1>7. d.run = Len(c.lits) /\ d.len = len /\ d.off = off /\ d.end = end
  BY <1>5, <1>6, SMT DEF Says
<1>8. c.lits \in Seq(Byte) /\ Len(c.lits) \in Nat /\ c.at \in Nat /\ Len(text) \in Nat
  <2>1. c.lits \in Seq(Byte) /\ c.at \in Nat
    BY <1>4, InRecord, Zenon DEF Command
  <2>2. Len(c.lits) \in Nat
    BY <2>1, SMT
  <2>3. Len(text) \in Nat
    BY SMT DEF Typed
  <2> QED BY <2>1, <2>2, <2>3, Zenon
<1>9. /\ pc = "done" /\ pc' = pc /\ taken' = i /\ dst' = dst \o c.lits /\ left' = len
      /\ ref' = Len(dst') - 1 - off
      /\ dpc' = IF Len(c.lits) # Len(c.lits) \/ (len > 0 /\ ref' < 0) THEN "lost"
                ELSE IF end THEN "done" ELSE IF len > 0 THEN "copy" ELSE "read"
      /\ text' = text /\ out' = out /\ runp' = runp /\ run' = run
  BY <1>1, <1>2, <1>6, <1>7, SMT DEF TakeCommand, input, place, stream
<1>10. /\ dst' \in Seq(Byte) /\ Len(dst') = c.at + Len(c.lits)
       /\ \A j \in 1..Len(dst') : dst'[j] = text[j]
  <2>1. dst \in Seq(Byte) /\ \A j \in 1..Len(dst) : dst[j] = text[j]
    BY SMT DEF Typed, Decoder
  <2>2. /\ dst \o c.lits \in Seq(Byte) /\ Len(dst \o c.lits) = Len(dst) + Len(c.lits)
        /\ \A j \in 1..(Len(dst) + Len(c.lits)) :
             (dst \o c.lits)[j] = IF j <= Len(dst) THEN dst[j] ELSE c.lits[j - Len(dst)]
    BY <1>8, <2>1, ConcatProperties, SMT
  <2>3. PICK s : s = dst \o c.lits
    OBVIOUS
  <2>4. Len(s) = c.at + Len(c.lits)
    BY <1>4, <2>2, <2>3, SMT
  <2>5. ASSUME NEW j \in 1..Len(s)
        PROVE  s[j] = text[j]
    <3>1. CASE j <= c.at
      <4>1. j \in 1..Len(dst) /\ j \in 1..(Len(dst) + Len(c.lits)) /\ j <= Len(dst)
        BY <1>4, <1>8, <2>4, <3>1, SMT
      <4> QED BY <2>1, <2>2, <2>3, <4>1, Zenon
    <3>2. CASE ~(j <= c.at)
      <4>1. PICK k \in 1..Len(c.lits) : k = j - c.at
        BY <1>8, <2>4, <3>2, SMT
      <4>2. s[j] = c.lits[k]
        BY <1>4, <1>8, <2>2, <2>3, <2>4, <3>2, <4>1, SMT
      <4>3. c.lits[k] = text[c.at + k] /\ c.at + k = j
        <5>1. c.lits[k] = text[c.at + k]
          BY <1>5, Zenon
        <5>2. c.at + k = j
          BY <1>8, <4>1, SMT
        <5> QED BY <5>1, <5>2, Zenon
      <4> QED BY <4>2, <4>3, SMT
    <3> QED BY <3>1, <3>2, SMT
  <2> QED BY <1>9, <2>2, <2>3, <2>4, <2>5, SMTT(20)
<1>11. Len(dst') <= Len(text)
  BY <1>5, <1>8, <1>10, SMT
<1>12. len > 0 => ref' >= 0
  BY <1>5, <1>8, <1>9, <1>10, SMT
<1>13. dpc' = IF end THEN "done" ELSE IF len > 0 THEN "copy" ELSE "read"
  BY <1>9, <1>12, SMT
<1>14. Typed'
  <2>1. taken' \in 0..Len(out') /\ left' \in Nat /\ ref' \in Int
    BY <1>8, <1>9, <1>10, SMT
  <2>2. /\ tail' = tail /\ getp' = getp /\ hashtbl' = hashtbl /\ link' = link
        /\ hoffset' = hoffset /\ best' = best
    BY SMT DEF TakeCommand, input, place, tables
  <2> QED BY <1>9, <1>10, <1>13, <2>1, <2>2, SMT DEF Typed
<1>15. Reach' = Reach
  BY <1>9, Zenon DEF Reach
<1>16. Decoder'
  <2>1. CASE end
    <3>1. i = Len(out) /\ len = 0
      BY <1>4, <1>5, <1>6, <1>7, <2>1, SMT
    <3>2. e = Len(text)
      <4>1. e = Reach
        BY <1>3, <3>1, SMT DEF StartOf, Begin
      <4>2. Reach = getp /\ getp = Len(text)
        BY <1>9, SMT DEF Reach, Place
      <4> QED BY <4>1, <4>2, SMT
    <3>3. Len(dst') = Len(text)
      BY <1>5, <1>8, <1>10, <3>1, <3>2, SMT
    <3> QED BY <1>9, <1>10, <1>11, <1>13, <2>1, <3>3, SMT DEF Decoder
  <2>2. CASE ~end /\ len > 0
    <3>1. dpc' = "copy"
      BY <1>13, <2>2, SMT
    <3>2. out'[taken'] = c /\ taken' > 0
      BY <1>2, <1>9, SMT
    <3>3. /\ ~d.end /\ 0 < left' /\ left' <= d.len
          /\ Len(dst') = c.at + Len(c.lits) + d.len - left'
          /\ ref' = Len(dst') - 1 - d.off
      BY <1>7, <1>8, <1>9, <1>10, <2>2, SMT
    <3>4. Copying(c, Len(dst'), ref', left')
      BY <1>6, <3>3, Zenon DEF Copying
    <3> QED BY <1>9, <1>10, <1>11, <3>1, <3>2, <3>4, Zenon DEF Decoder
  <2>3. CASE ~end /\ ~(len > 0)
    <3>1. dpc' = "read" /\ i # Len(out)
      BY <1>4, <1>6, <1>7, <1>13, <2>3, SMT
    <3>2. Len(dst') = e /\ e = StartOf(taken + 1)' /\ taken' < Len(out')
      <4>1. Len(dst') = e
        BY <1>5, <1>8, <1>10, <2>3, SMT
      <4>2. e = StartOf(taken + 1)'
        BY <1>3, <1>9, <1>15, Zenon DEF StartOf
      <4>3. taken' < Len(out')
        BY <1>9, <3>1, SMT
      <4> QED BY <4>1, <4>2, <4>3, Zenon
    <3> QED BY <1>9, <1>10, <1>11, <3>1, <3>2, Zenon DEF Decoder
  <2> QED BY <2>1, <2>2, <2>3, SMT
<1> QED BY <1>14, <1>16, SMT

\* Every byte of a match is one that the decoder has already put.
LEMMA CopyByteKeeps ==
  ASSUME IndInv, CopyByte
  PROVE  Typed' /\ Decoder'
<1> USE DEF IndInv
<1>1. PICK i \in 1..Len(out) : i = taken
  BY SMT DEF Typed, Decoder, CopyByte
<1>2. PICK c : c = out[i]
  OBVIOUS
<1>3. PICK e : e = StartOf(i + 1)
  OBVIOUS
<1>4. /\ c \in Command /\ Stands(text, c, e)
      /\ i # Len(out) => ~Decoded(c.code).end
      /\ pc = "done" /\ i = Len(out) => Decoded(c.code).end
  BY <1>1, <1>2, <1>3, CommandTaken, SMT
<1>5. PICK len \in Nat, off \in Nat, end \in BOOLEAN :
        /\ Says(c.code, Len(c.lits), len, off, end)
        /\ e = c.at + Len(c.lits) + len /\ e <= Len(text)
        /\ \A j \in 1..Len(c.lits) : c.lits[j] = text[c.at + j]
        /\ len > 0 => off < c.at + Len(c.lits) /\ ~end
        /\ \A j \in 1..len :
             text[c.at + Len(c.lits) + j] = text[c.at + Len(c.lits) + j - 1 - off]
  BY <1>4, Zenon DEF Stands
<1>6. PICK d : d = Decoded(c.code)
  OBVIOUS
<1>7. d.run = Len(c.lits) /\ d.len = len /\ d.off = off /\ d.end = end
  BY <1>5, <1>6, SMT DEF Says
<1>8. PICK q \in Nat : q = c.at + Len(c.lits)
  BY <1>4, SMT DEF Command
<1>9. /\ c.at \in Nat /\ Len(text) \in Nat /\ q + len <= Len(text) /\ e = q + len
  BY <1>4, <1>5, <1>8, SMT DEF Command, Typed
<1>10. /\ ~end /\ left \in 1..len /\ Len(dst) = q + len - left /\ ref = Len(dst) - 1 - off
  <2>1. Copying(c, Len(dst), ref, left)
    BY <1>1, <1>2, Zenon DEF Decoder, CopyByte
  <2>2. /\ ~d.end /\ 0 < left /\ left <= d.len
        /\ Len(dst) = c.at + Len(c.lits) + d.len - left /\ ref = Len(dst) - 1 - d.off
    BY <1>6, <2>1, Zenon DEF Copying
  <2>3. left \in Nat
    BY SMT DEF Typed
  <2> QED BY <1>7, <1>8, <2>2, <2>3, SMT
<1>11. /\ dst' = Append(dst, dst[ref + 1]) /\ ref' = ref + 1 /\ left' = left - 1 /\ taken' = taken
       /\ dpc' = IF left' = 0 THEN "read" ELSE "copy"
       /\ text' = text /\ out' = out /\ runp' = runp /\ run' = run /\ pc' = pc /\ tail' = tail
       /\ getp' = getp /\ hashtbl' = hashtbl /\ link' = link /\ hoffset' = hoffset /\ best' = best
  BY SMT DEF CopyByte, input, place, tables, stream
<1>12. dst \in Seq(Byte) /\ \A j \in 1..Len(dst) : dst[j] = text[j]
  BY SMT DEF Typed, Decoder
<1>13. PICK j \in 1..len : j = len - left + 1
  BY <1>10, SMT
<1>14. text[q + j] = text[q + j - 1 - off] /\ off < q
  <2>1. len > 0
    BY <1>10, SMT
  <2>2. text[c.at + Len(c.lits) + j] = text[c.at + Len(c.lits) + j - 1 - off]
    BY <1>5, Zenon
  <2> QED BY <1>5, <1>8, <2>1, <2>2, Zenon
<1>15. PICK r \in 1..Len(dst) : r = ref + 1 /\ r = q + j - 1 - off
  BY <1>10, <1>12, <1>13, <1>14, SMT
<1>16. dst[r] = text[q + j] /\ dst[r] \in Byte
  BY <1>12, <1>14, <1>15, ElementOfSeq, SMT
<1>17. /\ dst' \in Seq(Byte) /\ Len(dst') = Len(dst) + 1
       /\ dst'[Len(dst) + 1] = dst[r] /\ \A k \in 1..Len(dst) : dst'[k] = dst[k]
  BY <1>11, <1>12, <1>15, <1>16, AppendProperties, SMT
<1>18. \A k \in 1..Len(dst') : dst'[k] = text[k]
  <2>1. Len(dst) + 1 = q + j /\ Len(dst) \in Nat
    BY <1>10, <1>12, <1>13, SMT
  <2>2. ASSUME NEW k \in 1..Len(dst')
        PROVE  dst'[k] = text[k]
    <3>1. CASE k \in 1..Len(dst)
      BY <1>12, <1>17, <3>1, Zenon
    <3>2. CASE k = Len(dst) + 1
      BY <1>16, <1>17, <2>1, <3>2, Zenon
    <3>3. k \in 1..Len(dst) \/ k = Len(dst) + 1
      BY <1>17, <2>1, SMT
    <3> QED BY <3>1, <3>2, <3>3, Zenon
  <2> QED BY <2>2, Zenon
<1>19. Len(dst') = q + len - left' /\ ref' = Len(dst') - 1 - off /\ Len(dst') <= Len(text)
  BY <1>9, <1>10, <1>11, <1>17, SMT
<1>20. Typed'
  <2>1. left' \in Nat /\ ref' \in Int
    BY <1>10, <1>11, SMT DEF Typed
  <2> QED BY <1>11, <1>17, <2>1, SMT DEF Typed
<1>21. pc = "done"
  BY SMT DEF CopyByte, Decoder
<1>22. Decoder'
  <2>1. CASE left' = 0
    <3>1. dpc' = "read"
      BY <1>11, <2>1, Zenon
    <3>2. Len(dst') = e
      BY <1>9, <1>19, <2>1, SMT
    <3>3. StartOf(taken + 1)' = e
      <4>1. Reach' = Reach
        BY <1>11, Zenon DEF Reach
      <4> QED BY <1>1, <1>3, <1>11, <4>1, Zenon DEF StartOf
    <3>4. taken' < Len(out')
      BY <1>1, <1>4, <1>6, <1>7, <1>10, <1>11, <1>21, SMT
    <3> QED BY <1>11, <1>18, <1>19, <1>21, <3>1, <3>2, <3>3, <3>4, Zenon DEF Decoder
  <2>2. CASE left' # 0
    <3>1. dpc' = "copy"
      BY <1>11, <2>2, SMT
    <3>2. out'[taken'] = c /\ taken' > 0
      BY <1>1, <1>2, <1>11, SMT
    <3>3. /\ ~d.end /\ 0 < left' /\ left' <= d.len
          /\ Len(dst') = c.at + Len(c.lits) + d.len - left'
          /\ ref' = Len(dst') - 1 - d.off
      BY <1>7, <1>8, <1>10, <1>11, <1>19, <2>2, SMT
    <3>4. Copying(c, Len(dst'), ref', left')
      BY <1>6, <3>3, Zenon DEF Copying
    <3> QED BY <1>11, <1>18, <1>19, <1>21, <3>1, <3>2, <3>4, Zenon DEF Decoder
  <2> QED BY <2>1, <2>2, SMT
<1> QED BY <1>20, <1>22, SMT
-----------------------------------------------------------------------------
(* The theorems.                                                           *)

\* The invariant holds at first.
LEMMA InitIndInv == Init => IndInv
<1> SUFFICES ASSUME Init PROVE IndInv
  OBVIOUS
<1>1. text \in Seq(Byte) /\ Len(text) \in Nat /\ Len(text) <= MaxText
  <2>1. PICK n \in 0..MaxText : text \in [1..n -> Byte]
    BY SMT DEF Init, Texts
  <2>2. n \in Nat /\ n <= MaxText
    BY FormAssumption, SMT
  <2>3. text \in Seq(Byte)
    BY <2>1, <2>2, SMT
  <2>4. Len(text) = n
    BY <2>1, <2>2, <2>3, LenProperties, SMT
  <2> QED BY <2>2, <2>3, <2>4, Zenon
<1>2. hashtbl \in [Hashes -> Int] /\ link \in [0..(Window - 1) -> Int]
  BY Limits, SMT DEF Init, NoPosition, Unwritten
<1>3. best \in [len : Nat, cost : Nat, off : Nat]
  BY SMT DEF Init, NoMatch
<1>4. Len(out) = 0 /\ out \in Seq(Command) /\ Len(dst) = 0 /\ dst \in Seq(Byte)
  BY EmptySeq, SMT DEF Init
<1>5. Typed
  BY <1>1, <1>2, <1>3, <1>4, SMT DEF Init, Typed, NoPosition
<1>6. Place
  BY <1>1, SMT DEF Init, Place
<1>7. Tables
  BY SMT DEF Init, Tables, NoPosition, Unwritten
<1>8. BestIsMatch
  BY SMT DEF Init, BestIsMatch
<1>9. StartOf(1) = 0
  BY <1>4, SMT DEF Init, StartOf, Begin, Reach
<1>10. Stream
  BY <1>4, <1>9, SMT DEF Stream
<1>11. EndMark
  BY <1>4, SMT DEF Init, EndMark
<1>12. Decoder
  <2>1. taken + 1 = 1
    BY SMT DEF Init
  <2>2. Len(dst) = StartOf(taken + 1)
    BY <1>4, <1>9, <2>1, SMT
  <2> QED BY <1>1, <1>4, <2>2, SMT DEF Init, Decoder
<1> QED BY <1>5, <1>6, <1>7, <1>8, <1>10, <1>11, <1>12, Zenon DEF IndInv

\* A step of the encoder that puts nothing.
LEMMA QuietSteps ==
  ASSUME IndInv, Encoder', pc # "done", pc' # "done", text' = text, stream' = stream, runp' = runp,
         decoder' = decoder
  PROVE  IndInv'
<1> USE DEF IndInv, Encoder
<1>1. Stream' /\ EndMark'
  BY QuietStream, SMT DEF stream
<1>2. Decoder'
  BY <1>1, DecoderWaits, SMT
<1> QED BY <1>1, <1>2, Zenon

\* A step of the encoder that puts a command.
LEMMA PutSteps ==
  ASSUME IndInv, Encoder', Stream', EndMark', pc # "done", text' = text, decoder' = decoder,
         Len(out') > 0
  PROVE  IndInv'
<1> USE DEF IndInv, Encoder
<1>1. Decoder'
  BY DecoderWaits, SMT
<1> QED BY <1>1, Zenon

\* A step of the decoder.
LEMMA DecoderSteps ==
  ASSUME IndInv, Typed', Decoder', UNCHANGED <<input, pc, place, tables, hoffset, best, stream>>
  PROVE  IndInv'
<1> USE DEF IndInv
<1>1. /\ text' = text /\ tail' = tail /\ pc' = pc /\ getp' = getp /\ run' = run /\ runp' = runp
      /\ hashtbl' = hashtbl /\ link' = link /\ hoffset' = hoffset /\ best' = best /\ out' = out
  BY SMT DEF input, place, tables, stream
<1>2. Place'
  BY <1>1, SMT DEF Place
<1>3. Tables'
  <2>1. MinOffset' = MinOffset
    BY <1>1, Zenon DEF MinOffset, Most
  <2> QED BY <1>1, <2>1, SMT DEF Tables
<1>4. BestIsMatch'
  <2>1. text' = text /\ tail' = tail /\ getp' = getp /\ best' = best
    BY <1>1, Zenon
  <2>2. Match(best) => Match(best)'
    BY <2>1, Zenon DEF Match, ByteAt
  <2> QED BY <1>1, <2>2, Zenon DEF BestIsMatch
<1>5. Stream'
  <2>1. Reach' = Reach
    BY <1>1, Zenon DEF Reach
  <2> QED BY <1>1, <2>1, Zenon DEF Stream, StartOf
<1>6. EndMark'
  BY <1>1, Zenon DEF EndMark
<1> QED BY <1>2, <1>3, <1>4, <1>5, <1>6, Zenon

\* Every step of the encoder and of the decoder keeps the invariant.
LEMMA NextIndInv == IndInv /\ [Next]_vars => IndInv'
<1> SUFFICES ASSUME IndInv, [Next]_vars PROVE IndInv'
  OBVIOUS
<1>0. Encoder /\ Stream /\ EndMark
  BY Zenon DEF IndInv, Encoder
<1>1. CASE BeginSearch
  BY <1>0, <1>1, BeginSearchKeeps, QuietSteps, SMT DEF BeginSearch, input, place
<1>2. CASE TryCandidate
  BY <1>0, <1>2, TryCandidateKeeps, QuietSteps, SMT DEF TryCandidate, input, place
<1>3. CASE PutLiteral
  BY <1>0, <1>3, PutLiteralKeeps, QuietSteps, SMT DEF PutLiteral, input
<1>4. CASE BeginMatch
  BY <1>0, <1>4, BeginMatchKeeps, QuietSteps, SMT DEF BeginMatch, input, place
<1>5. CASE PutBlock
  BY <1>0, <1>5, PutBlockKeeps, PutSteps, SMT DEF PutBlock, input
<1>6. CASE PutMatch
  BY <1>0, <1>6, PutMatchKeeps, PutSteps, SMT DEF PutMatch, input
<1>7. CASE EnterMatch
  BY <1>0, <1>7, EnterMatchKeeps, QuietSteps, SMT DEF EnterMatch, input
<1>8. CASE EndMatch
  BY <1>0, <1>8, EndMatchKeeps, QuietSteps, SMT DEF EndMatch, input, place
<1>9. CASE BeginEnd
  BY <1>0, <1>9, BeginEndKeeps, QuietSteps, SMT DEF BeginEnd, input, place
<1>10. CASE PutEnd
  BY <1>0, <1>10, PutEndKeeps, PutSteps, SMT DEF PutEnd, input
<1>11. CASE TakeCommand
  <2>1. Typed' /\ Decoder'
    BY <1>11, TakeCommandKeeps, Zenon
  <2>2. UNCHANGED <<input, pc, place, tables, hoffset, best, stream>>
    BY <1>11, Zenon DEF TakeCommand
  <2> QED BY <2>1, <2>2, DecoderSteps, Zenon
<1>12. CASE CopyByte
  <2>1. Typed' /\ Decoder'
    BY <1>12, CopyByteKeeps, Zenon
  <2>2. UNCHANGED <<input, pc, place, tables, hoffset, best, stream>>
    BY <1>12, SMT DEF CopyByte
  <2> QED BY <2>1, <2>2, DecoderSteps, Zenon
<1>13. CASE UNCHANGED vars
  <2>1. UNCHANGED <<input, pc, place, tables, hoffset, best, stream>> /\ decoder' = decoder
    BY <1>13, SMT DEF vars
  <2>2. Typed'
    BY <2>1, SMT DEF IndInv, Typed, input, place, tables, stream, decoder
  <2>3. Decoder'
    <3>1. /\ text' = text /\ pc' = pc /\ run' = run /\ runp' = runp /\ out' = out
          /\ dpc' = dpc /\ taken' = taken /\ dst' = dst /\ ref' = ref /\ left' = left
      BY <2>1, SMT DEF input, place, stream, decoder
    <3>2. Reach' = Reach
      BY <3>1, Zenon DEF Reach
    <3> QED BY <3>1, <3>2, Zenon DEF IndInv, Decoder, StartOf
  <2> QED BY <2>1, <2>2, <2>3, DecoderSteps, Zenon
<1> QED
  BY <1>1, <1>2, <1>3, <1>4, <1>5, <1>6, <1>7, <1>8, <1>9, <1>10, <1>11, <1>12, <1>13, Zenon
  DEF Next, Encode

\* The invariant says that the decoder is right.
LEMMA IndInvRoundTrip == IndInv => RoundTrip
<1> SUFFICES ASSUME IndInv PROVE RoundTrip
  OBVIOUS
<1>1. /\ text \in Seq(Byte) /\ dst \in Seq(Byte) /\ Len(text) \in Nat /\ Len(dst) \in Nat
      /\ Len(text) <= MaxText /\ dpc # "lost"
      /\ Len(dst) <= Len(text) /\ \A j \in 1..Len(dst) : dst[j] = text[j]
      /\ dpc = "done" => Len(dst) = Len(text)
  BY SMT DEF IndInv, Typed, Decoder
<1>2. PICK s : s = SubSeq(text, 1, Len(dst))
  OBVIOUS
<1>3. s \in Seq(Byte) /\ Len(s) = Len(dst) /\ \A j \in 1..Len(dst) : s[j] = text[j]
  <2>1. \A i \in 1..Len(dst) : text[i] \in Byte
    BY <1>1, ElementOfSeq, SMT
  <2>2. /\ s \in Seq(Byte) /\ Len(s) = IF 1 <= Len(dst) THEN Len(dst) - 1 + 1 ELSE 0
        /\ \A i \in 1..(Len(dst) - 1 + 1) : s[i] = text[1 + i - 1]
    BY <1>1, <1>2, <2>1, SubSeqProperties, SMT
  <2> QED BY <1>1, <2>2, SMT
<1>4. dst = SubSeq(text, 1, Len(dst))
  BY <1>1, <1>2, <1>3, SeqEqual, SMT
<1>5. dpc = "done" => dst = text
  BY <1>1, SeqEqual, SMT
<1>6. OutLength(Header(Len(text))) = Len(text)
  <2>1. Len(text) <= 2147483647
    BY <1>1, FormAssumption, SMT
  <2> QED BY <1>1, <2>1, Headers, SMT
<1> QED BY <1>1, <1>4, <1>5, <1>6, SMT DEF RoundTrip

\* Whatever a text is, and whatever limits, window and hash the encoder has within
\* what the fields of its codes hold, RefPack_Uncompress reads back from what
\* RefPack_Encode wrote the text, its size, and nothing else.
THEOREM DecodesWhatWasEncoded == Spec => []RoundTrip
<1>1. Init => IndInv
  BY InitIndInv
<1>2. IndInv /\ [Next]_vars => IndInv'
  BY NextIndInv
<1>3. IndInv => RoundTrip
  BY IndInvRoundTrip
<1> QED BY <1>1, <1>2, <1>3, PTL DEF Spec
-----------------------------------------------------------------------------
(* The size.                                                               *)

\* Blocks cost a byte for Block literals each; a shorter one is the last before a
\* match, which saves that byte again, or before the end.
Paid(k, n) == putp <= runp + k + n /\ Block * k + 4 * n <= runp
SizeInv ==
  /\ putp \in Nat
  /\ pc # "done" =>
       \/ \E k \in Nat : Paid(k, 0)
       \/ pc \in {"match", "end"} /\ run <= 3 /\ \E k \in Nat : Paid(k, 1)
  /\ pc = "done" => SizeBounded

\* As many blocks as fit.
LEMMA BlocksFit ==
  ASSUME NEW b \in Nat, b > 0, NEW n \in Nat, NEW k \in Nat, b * k <= n
  PROVE  k <= n \div b
<1>1. PICK q \in Nat : q = n \div b
  BY SMT
<1>2. n < b * q + b
  BY <1>1, SMT
<1>3. k > q => b * k >= b * q + b
  BY SMT
<1>4. b * k \in Nat /\ b * q \in Nat
  BY SMT
<1> QED BY <1>1, <1>2, <1>3, <1>4, SMT

\* What was paid is within the bound, with a byte to spare for the end.
LEMMA PaidBounded ==
  ASSUME Typed, putp \in Nat, NEW k \in Nat, NEW n \in 0..1, Paid(k, n), NEW r \in Nat,
         runp + r <= Len(text)
  PROVE  putp + r <= Len(text) + (Len(text) + Block - 1) \div Block
<1>1. Block \in Nat /\ 4 <= Block
  BY FormAssumption, SMT
<1>2. runp \in Nat /\ Len(text) \in Nat
  BY SMT DEF Typed
<1>3. PICK m \in Nat : m = Len(text) + Block - 1
  BY <1>1, <1>2, SMT
<1>4. Block * (k + n) <= m
  <2>1. CASE n = 0
    BY <1>1, <1>2, <1>3, <2>1, SMT DEF Paid
  <2>2. CASE n = 1
    <3>1. Block * (k + 1) = Block * k + Block
      BY <1>1, SMT
    <3>2. Block * k \in Nat
      BY <1>1, SMT
    <3>3. Block * k + 4 <= runp
      BY <2>2, <3>2, SMT DEF Paid
    <3> QED BY <1>1, <1>2, <1>3, <2>2, <3>1, <3>2, <3>3, SMT
  <2> QED BY <2>1, <2>2, SMT
<1>5. k + n <= m \div Block
  BY <1>1, <1>3, <1>4, BlocksFit, SMT
<1>6. putp <= runp + k + n
  BY SMT DEF Paid
<1>7. PICK q \in Nat : q = m \div Block
  BY <1>1, <1>3, SMT
<1>8. putp + r <= Len(text) + q
  BY <1>2, <1>5, <1>6, <1>7, SMT
<1> QED BY <1>3, <1>7, <1>8, SMT

\* A step that puts nothing costs nothing.
LEMMA QuietSize ==
  ASSUME SizeInv, pc \notin {"match", "end", "done"}, pc' # "done", putp' = putp, runp' = runp
  PROVE  SizeInv'
<1>1. PICK k \in Nat : Paid(k, 0)
  BY Zenon DEF SizeInv
<1>2. Paid(k, 0)'
  BY <1>1, Zenon DEF Paid
<1> QED BY <1>2, Zenon DEF SizeInv

\* A block of literals.
LEMMA PutBlockSize ==
  ASSUME IndInv, SizeInv, PutBlock
  PROVE  SizeInv'
<1>1. run \in Nat /\ runp \in Nat /\ putp \in Nat /\ run > 3 /\ pc \in {"match", "end"}
  BY SMT DEF IndInv, Typed, SizeInv, PutBlock
<1>2. PICK k \in Nat : Paid(k, 0)
  BY <1>1, SMT DEF SizeInv
<1>3. PICK n \in Nat : n = Literals /\ 4 <= n /\ n <= run
  BY <1>1, LiteralsOfBlock, SMT
<1>4. putp' = putp + 1 + n /\ runp' = runp + n /\ run' = run - n /\ pc' = pc
  <2>1. PICK x : x = 224 + Literals \div 4 - 1
    OBVIOUS
  <2>2. Len(<<x>>) = 1
    BY SMT
  <2>3. putp' = putp + Len(<<x>>) + Literals
    BY <2>1, Zenon DEF PutBlock, Put
  <2>4. runp' = runp + Literals /\ run' = run - Literals /\ pc' = pc
    BY Zenon DEF PutBlock
  <2> QED BY <1>3, <2>2, <2>3, <2>4, Zenon
<1>5. Block \in Nat /\ 4 <= Block
  BY FormAssumption, SMT
<1>6. putp <= runp + k /\ Block * k <= runp /\ Block * k \in Nat
  <2>1. Block * k \in Nat
    BY <1>5, SMT
  <2> QED BY <1>1, <1>2, <2>1, SMT DEF Paid
<1>7. CASE n = Block
  <2>1. Block * (k + 1) = Block * k + Block
    BY <1>5, SMT
  <2>2. putp' <= runp' + (k + 1) + 0 /\ Block * (k + 1) + 4 * 0 <= runp'
    BY <1>1, <1>4, <1>5, <1>6, <1>7, <2>1, SMT
  <2>3. Paid(k + 1, 0)' /\ k + 1 \in Nat
    BY <2>2, SMT DEF Paid
  <2>4. putp' \in Nat /\ pc' # "done"
    BY <1>1, <1>4, SMT
  <2> QED BY <2>3, <2>4, Zenon DEF SizeInv
<1>8. CASE n # Block
  <2>1. n = run - (run % 4)
    BY <1>3, <1>8, SMT DEF Literals, Least
  <2>2. run' <= 3
    <3>1. run % 4 \in 0..3
      BY <1>1, SMT
    <3> QED BY <1>1, <1>4, <2>1, <3>1, SMT
  <2>3. putp' <= runp' + k + 1 /\ Block * k + 4 * 1 <= runp'
    BY <1>1, <1>3, <1>4, <1>6, SMT
  <2>4. Paid(k, 1)'
    BY <2>3, SMT DEF Paid
  <2>5. putp' \in Nat /\ pc' # "done" /\ pc' \in {"match", "end"}
    BY <1>1, <1>4, SMT
  <2> QED BY <2>2, <2>4, <2>5, Zenon DEF SizeInv
<1> QED BY <1>7, <1>8, Zenon

\* A match: its code is shorter than what it stands for.
LEMMA PutMatchSize ==
  ASSUME IndInv, SizeInv, PutMatch
  PROVE  SizeInv'
<1>1. /\ run \in Nat /\ runp \in Nat /\ putp \in Nat /\ pc = "match" /\ runp + run = getp
      /\ Match(best)
  BY SMT DEF IndInv, Typed, Place, BestIsMatch, SizeInv, PutMatch
<1>2. PICK len \in Nat : len = best.len
  BY SMT DEF IndInv, Typed
<1>3. PICK cost \in 2..4 : cost = best.cost /\ cost < len
  <2>1. Cost(best.off, best.len) \in {2, 3, 4}
    BY SMT DEF Cost
  <2> QED BY <1>1, <1>2, <2>1, SMT DEF Match
<1>4. Len(MatchCode) = cost
  <2>1. PICK n, l, o : n = run /\ l = best.len /\ o = best.off
    OBVIOUS
  <2>2. CASE cost = 2
    <3>1. Len(ShortCode(n, l, o)) = 2
      BY SMT DEF ShortCode
    <3> QED BY <1>3, <2>1, <2>2, <3>1, SMT DEF MatchCode
  <2>3. CASE cost = 3
    <3>1. Len(MediumCode(n, l, o)) = 3
      BY SMT DEF MediumCode
    <3> QED BY <1>3, <2>1, <2>3, <3>1, SMT DEF MatchCode
  <2>4. CASE cost = 4
    <3>1. Len(LongCode(n, l, o)) = 4
      BY SMT DEF LongCode
    <3> QED BY <1>3, <2>1, <2>4, <3>1, SMT DEF MatchCode
  <2> QED BY <2>2, <2>3, <2>4, SMT
<1>5. putp' = putp + cost + run /\ runp' = runp + run + len /\ pc' = "enter"
  <2>1. putp' = putp + Len(MatchCode) + run /\ runp' = getp + best.len /\ pc' = "enter"
    BY Zenon DEF PutMatch, Put
  <2> QED BY <1>1, <1>2, <1>4, <2>1, SMT
<1>6. PICK k \in Nat, n \in 0..1 : Paid(k, n)
  BY <1>1, SMT DEF SizeInv
<1>7. Block * k \in Nat
  BY FormAssumption, SMT
<1>8. putp <= runp + k + n /\ Block * k + 4 * n <= runp
  BY <1>6, Zenon DEF Paid
<1>9. putp' <= runp' + k + 0 /\ Block * k + 4 * 0 <= runp'
  BY <1>1, <1>3, <1>5, <1>7, <1>8, SMT
<1>10. Paid(k, 0)'
  BY <1>9, SMT DEF Paid
<1>11. putp' \in Nat /\ pc' # "done"
  BY <1>1, <1>5, SMT
<1> QED BY <1>10, <1>11, Zenon DEF SizeInv

\* The end costs one byte.
LEMMA PutEndSize ==
  ASSUME IndInv, SizeInv, PutEnd
  PROVE  SizeInv'
<1>1. /\ run \in Nat /\ runp \in Nat /\ putp \in Nat /\ pc = "end" /\ runp + run <= Len(text)
      /\ Len(text) \in Nat
  BY SMT DEF IndInv, Typed, Place, SizeInv, PutEnd
<1>2. PICK k \in Nat, n \in 0..1 : Paid(k, n)
  BY <1>1, SMT DEF SizeInv
<1>3. putp' = putp + 1 + run /\ pc' = "done" /\ text' = text
  <2>1. PICK x : x = 252 + run
    OBVIOUS
  <2>2. Len(<<x>>) = 1
    BY SMT
  <2>3. putp' = putp + Len(<<x>>) + run /\ pc' = "done"
    BY <2>1, Zenon DEF PutEnd, Put
  <2> QED BY <2>2, <2>3, SMT DEF PutEnd, input
<1>4. PICK q \in Nat : q = (Len(text) + Block - 1) \div Block
  BY <1>1, FormAssumption, SMT
<1>5. putp + run <= Len(text) + q
  BY <1>1, <1>2, <1>4, PaidBounded, SMT DEF IndInv
<1>6. putp' <= Len(text') + q + 1
  BY <1>1, <1>3, <1>5, SMT
<1>7. SizeBounded'
  BY <1>3, <1>4, <1>6, SMT DEF SizeBounded
<1>8. putp' \in Nat
  BY <1>1, <1>3, SMT
<1> QED BY <1>3, <1>7, <1>8, Zenon DEF SizeInv

\* Every step keeps the account.
LEMMA NextSize == IndInv /\ SizeInv /\ [Next]_vars => SizeInv'
<1> SUFFICES ASSUME IndInv, SizeInv, [Next]_vars PROVE SizeInv'
  OBVIOUS
<1>1. CASE BeginSearch \/ TryCandidate \/ PutLiteral \/ EnterMatch \/ EndMatch
  <2>1. pc \notin {"match", "end", "done"} /\ pc' # "done" /\ putp' = putp /\ runp' = runp
    BY <1>1, SMT DEF BeginSearch, TryCandidate, PutLiteral, EnterMatch, EndMatch, place, stream
  <2> QED BY <2>1, QuietSize, Zenon
<1>2. CASE BeginMatch \/ BeginEnd
  <2>1. pc \notin {"match", "end", "done"} /\ pc' # "done" /\ putp' = putp /\ runp' = runp
    BY <1>2, SMT DEF BeginMatch, BeginEnd, place, stream
  <2> QED BY <2>1, QuietSize, Zenon
<1>3. CASE PutBlock
  BY <1>3, PutBlockSize, Zenon
<1>4. CASE PutMatch
  BY <1>4, PutMatchSize, Zenon
<1>5. CASE PutEnd
  BY <1>5, PutEndSize, Zenon
<1>6. CASE TakeCommand \/ CopyByte \/ UNCHANGED vars
  <2>1. putp' = putp /\ runp' = runp /\ run' = run /\ pc' = pc /\ text' = text
    BY <1>6, SMT DEF TakeCommand, CopyByte, vars, input, place, stream
  <2> QED BY <2>1, Zenon DEF SizeInv, Paid, SizeBounded
<1> QED BY <1>1, <1>2, <1>3, <1>4, <1>5, <1>6, Zenon DEF Next, Encode

\* The account bounds the size at every moment.
LEMMA SizeInvBounded == IndInv /\ SizeInv => SizeBounded
<1> SUFFICES ASSUME IndInv, SizeInv, pc # "done" PROVE SizeBounded
  BY Zenon DEF SizeInv
<1>1. PICK k \in Nat, n \in 0..1 : Paid(k, n)
  BY SMT DEF SizeInv
<1>2. Typed /\ putp \in Nat /\ runp \in Nat /\ Len(text) \in Nat /\ runp + 0 <= Len(text)
  BY SMT DEF IndInv, Typed, Place, SizeInv
<1>3. PICK q \in Nat : q = (Len(text) + Block - 1) \div Block
  BY <1>2, FormAssumption, SMT
<1>4. putp + 0 <= Len(text) + q
  BY <1>1, <1>2, <1>3, PaidBounded, SMTT(20)
<1>5. putp <= Len(text) + q + 1
  BY <1>2, <1>4, SMT
<1> QED BY <1>3, <1>5, Zenon DEF SizeBounded

\* The worst case a caller's buffer must hold: the text, a byte for every full block
\* of literals begun, and one for the end.
THEOREM WorstCase == Spec => []SizeBounded
<1>1. Init => IndInv /\ SizeInv
  <2>1. Init => SizeInv
    <3> SUFFICES ASSUME Init PROVE SizeInv
      OBVIOUS
    <3>1. putp = 0 /\ runp = 0 /\ pc = "next"
      BY Zenon DEF Init
    <3>2. Block * 0 = 0
      BY FormAssumption, SMT
    <3>3. Paid(0, 0)
      BY <3>1, <3>2, SMT DEF Paid
    <3> QED BY <3>1, <3>3, SMT DEF SizeInv
  <2> QED BY <2>1, InitIndInv, Zenon
<1>2. (IndInv /\ SizeInv) /\ [Next]_vars => (IndInv /\ SizeInv)'
  BY NextIndInv, NextSize, Zenon
<1>3. IndInv /\ SizeInv => SizeBounded
  BY SizeInvBounded
<1> QED BY <1>1, <1>2, <1>3, PTL DEF Spec
-----------------------------------------------------------------------------
(* The chains lead through links that were written.                        *)

Written(p) == link[p % Window] # Unwritten

LinksInv ==
  /\ \A h \in Hashes : hashtbl[h] # Unwritten /\ (hashtbl[h] >= 0 => Written(hashtbl[h]))
  /\ \A i \in 0..(Window - 1) : link[i] >= 0 => Written(link[i])
  /\ pc = "search" => hoffset >= 0 /\ Written(hoffset)

\* What the search reads before it takes its next candidate.
ReadsWritten == pc = "search" => link[hoffset % Window] # Unwritten

LEMMA WindowFrom0 ==
  ASSUME Typed
  PROVE  MinOffset \in Int /\ MinOffset >= 0
BY Limits, SMT DEF Typed, MinOffset, Most

\* Entering a position writes its link, and leaves no link unwritten that was written.
LEMMA EnterWrites ==
  ASSUME IndInv, LinksInv, Enter(getp), getp < Len(text), pc' # "search"
  PROVE  LinksInv'
<1>1. PICK g : g = HashAt(getp)
  OBVIOUS
<1>2. g \in Hashes /\ getp \in Nat
  BY <1>1, BytesRead, SMT DEF IndInv, Typed
<1>3. PICK k : k = getp % Window
  OBVIOUS
<1>4. k \in 0..(Window - 1)
  BY <1>2, <1>3, ModRange, Limits, SMT
<1>5. PICK v : v = hashtbl[g]
  OBVIOUS
<1>6. v \in Int /\ v # Unwritten /\ (v >= 0 => Written(v))
  BY <1>2, <1>5, SMT DEF IndInv, Typed, LinksInv
<1>7. hashtbl' = [hashtbl EXCEPT ![g] = getp] /\ link' = [link EXCEPT ![k] = v]
  BY <1>1, <1>3, <1>5, SMT DEF Enter
<1>8. hashtbl \in [Hashes -> Int] /\ link \in [0..(Window - 1) -> Int]
  BY SMT DEF IndInv, Typed
<1>9. link'[k] = v /\ \A i \in 0..(Window - 1) : i # k => link'[i] = link[i]
  BY <1>4, <1>7, <1>8, SMT
<1>10. ASSUME NEW p \in Nat, Written(p)
       PROVE  Written(p)'
  <2>1. PICK i \in 0..(Window - 1) : i = p % Window
    BY ModRange, Limits, SMT
  <2>2. link[i] # Unwritten
    BY <1>10, <2>1, SMT DEF Written
  <2>3. link'[i] # Unwritten
    BY <1>6, <1>9, <2>2, SMT
  <2> QED BY <2>1, <2>3, SMT DEF Written
<1>11. ASSUME NEW h \in Hashes
       PROVE  hashtbl'[h] # Unwritten /\ (hashtbl'[h] >= 0 => link'[hashtbl'[h] % Window] # Unwritten)
  <2>1. CASE h = g
    <3>1. hashtbl'[h] = getp
      BY <1>2, <1>7, <1>8, <2>1, SMT
    <3>2. getp # Unwritten
      BY <1>2, SMT DEF Unwritten
    <3>3. link'[getp % Window] # Unwritten
      BY <1>3, <1>6, <1>9, SMT
    <3> QED BY <3>1, <3>2, <3>3, Zenon
  <2>2. CASE h # g
    <3>1. hashtbl'[h] = hashtbl[h] /\ hashtbl[h] \in Int
      BY <1>7, <1>8, <2>2, SMT
    <3>2. hashtbl[h] # Unwritten /\ (hashtbl[h] >= 0 => Written(hashtbl[h]))
      BY Zenon DEF LinksInv
    <3>3. ASSUME hashtbl[h] >= 0 PROVE link'[hashtbl[h] % Window] # Unwritten
      <4>1. PICK p \in Nat : p = hashtbl[h]
        BY <3>1, <3>3, SMT
      <4>2. Written(p)'
        BY <1>10, <3>2, <3>3, <4>1, SMT
      <4>3. link'[p % Window] # Unwritten
        BY <4>2, Zenon DEF Written
      <4> QED BY <4>1, <4>3, Zenon
    <3> QED BY <3>1, <3>2, <3>3, Zenon
  <2> QED BY <2>1, <2>2, Zenon
<1>12. ASSUME NEW i \in 0..(Window - 1), link'[i] >= 0
       PROVE  link'[link'[i] % Window] # Unwritten
  <2>1. link'[i] \in Int /\ Written(link'[i])
    <3>1. CASE i = k
      BY <1>6, <1>9, <1>12, <3>1, SMT
    <3>2. CASE i # k
      <4>1. link'[i] = link[i] /\ link[i] \in Int /\ link[i] >= 0
        BY <1>8, <1>9, <1>12, <3>2, SMT
      <4> QED BY <4>1, SMT DEF LinksInv
    <3> QED BY <3>1, <3>2, Zenon
  <2>2. PICK p \in Nat : p = link'[i]
    BY <1>12, <2>1, SMT
  <2>3. Written(p)'
    BY <1>10, <2>1, <2>2, SMT
  <2>4. link'[p % Window] # Unwritten
    BY <2>3, Zenon DEF Written
  <2> QED BY <2>2, <2>4, Zenon
<1> QED BY <1>11, <1>12, Zenon DEF LinksInv, Written

\* A step that leaves the tables alone goes on to a candidate only from them.
LEMMA ChainWritten ==
  ASSUME LinksInv, tables' = tables, pc' = "search" => hoffset' >= 0 /\ Written(hoffset')
  PROVE  LinksInv'
<1>1. hashtbl' = hashtbl /\ link' = link
  BY SMT DEF tables
<1> QED BY <1>1, SMT DEF LinksInv, Written

LEMMA NextLinks == IndInv /\ LinksInv /\ [Next]_vars => LinksInv'
<1> SUFFICES ASSUME IndInv, LinksInv, [Next]_vars PROVE LinksInv'
  OBVIOUS
<1>1. MinOffset \in Int /\ MinOffset >= 0
  BY WindowFrom0, Zenon DEF IndInv
<1>2. CASE BeginSearch
  <2>1. tables' = tables /\ MinOffset' = MinOffset /\ hoffset' = hashtbl[HashAt(getp)]
    BY <1>2, SMT DEF BeginSearch, input, place, MinOffset, Most
  <2>2. HashAt(getp) \in Hashes /\ hashtbl[HashAt(getp)] \in Int
    BY <1>2, BytesRead, SMT DEF IndInv, Typed, BeginSearch
  <2>3. ASSUME pc' = "search" PROVE hoffset' >= 0 /\ Written(hoffset')
    <3>1. hoffset' >= MinOffset
      BY <1>2, <2>3, SMT DEF BeginSearch
    <3>2. hoffset' >= 0
      BY <1>1, <2>1, <2>2, <3>1, SMT
    <3> QED BY <2>1, <2>2, <3>2, SMT DEF LinksInv
  <2> QED BY <2>1, <2>3, ChainWritten, Zenon
<1>3. CASE TryCandidate
  <2>1. tables' = tables
    BY <1>3, Zenon DEF TryCandidate
  <2>2. hoffset \in Nat /\ link \in [0..(Window - 1) -> Int]
    BY <1>3, SMT DEF IndInv, Typed, LinksInv, TryCandidate
  <2>3. PICK i \in 0..(Window - 1) : i = hoffset % Window
    BY <2>2, ModRange, Limits, SMT
  <2>4. ASSUME pc' = "search" PROVE hoffset' >= 0 /\ Written(hoffset')
    <3>1. hoffset' = link[i] /\ hoffset' >= MinOffset
      BY <1>3, <2>3, <2>4, SMT DEF TryCandidate
    <3>2. hoffset' >= 0
      BY <1>1, <2>2, <3>1, SMT
    <3> QED BY <3>1, <3>2, SMT DEF LinksInv
  <2> QED BY <2>1, <2>4, ChainWritten, Zenon
<1>4. CASE PutLiteral
  <2>1. Enter(getp) /\ pc' # "search" /\ getp < Len(text)
    BY <1>4, SMT DEF PutLiteral, IndInv, Place
  <2> QED BY <2>1, EnterWrites, Zenon
<1>5. CASE EnterMatch
  <2>1. Enter(getp) /\ pc' # "search" /\ getp < Len(text)
    BY <1>5, SMT DEF EnterMatch, IndInv, Typed, Place
  <2> QED BY <2>1, EnterWrites, Zenon
<1>6. CASE BeginMatch \/ PutBlock \/ PutMatch \/ EndMatch \/ BeginEnd \/ PutEnd
  <2>1. tables' = tables /\ pc' # "search"
    BY <1>6, SMT DEF BeginMatch, PutBlock, PutMatch, EndMatch, BeginEnd, PutEnd
  <2> QED BY <2>1, ChainWritten, Zenon
<1>7. CASE TakeCommand \/ CopyByte \/ UNCHANGED vars
  <2>1. tables' = tables /\ pc' = pc /\ hoffset' = hoffset
    BY <1>7, SMT DEF TakeCommand, CopyByte, vars
  <2>2. pc' = "search" => hoffset' >= 0 /\ Written(hoffset')
    BY <2>1, SMT DEF LinksInv
  <2> QED BY <2>1, <2>2, ChainWritten, Zenon
<1> QED BY <1>2, <1>3, <1>4, <1>5, <1>6, <1>7, Zenon DEF Next, Encode

\* RefPack_Encode allocates its table of links and does not clear it; yet its search never follows
\* a link that was not written before, for any text, window and hash.
THEOREM LinksReadWereWritten == Spec => []ReadsWritten
<1>1. Init => IndInv /\ LinksInv
  <2> SUFFICES ASSUME Init PROVE IndInv /\ LinksInv
    OBVIOUS
  <2>1. LinksInv
    BY SMT DEF Init, LinksInv, NoPosition, Unwritten
  <2> QED BY <2>1, InitIndInv, Zenon
<1>2. (IndInv /\ LinksInv) /\ [Next]_vars => (IndInv /\ LinksInv)'
  BY NextIndInv, NextLinks, Zenon
<1>3. IndInv /\ LinksInv => ReadsWritten
  BY Zenon DEF LinksInv, Written, ReadsWritten
<1> QED BY <1>1, <1>2, <1>3, PTL DEF Spec
=============================================================================

------------------------------ MODULE RefPack ------------------------------
(***************************************************************************)
(* The RefPack compression of refpack.cpp: RefPack_Encode, one turn of a   *)
(* loop at a time, and RefPack_Uncompress reading what it wrote.           *)
(*                                                                         *)
(* The bytes of a text are members of any set, and positions count from 0  *)
(* as the pointers' distances do.  The stream is a sequence of commands:   *)
(* the bytes of its code, packed as they are, and the literal bytes that   *)
(* follow the code in the buffer.  The limits of the three forms are       *)
(* parameters, so that small texts meet all of them; the code's own values *)
(* are the largest that the assumption admits.                             *)
(***************************************************************************)
EXTENDS Integers, Sequences

CONSTANTS
  Byte,                         \* the values of a byte of the text
  MaxText,                      \* a bound on the texts that are compressed
  Hashes, HashOf,               \* the hash of three bytes, whatever it is
  ShortOffset, ShortLength,     \* 1024 and 10
  MediumOffset, MediumLength,   \* 16384 and 67
  Window, LongLength,           \* 131072 and 1028
  Block                         \* 112, the literals of one command

ASSUME FormAssumption ==
  /\ MaxText \in Nat /\ MaxText <= 2147483647         \* an int
  /\ HashOf \in [Byte \X Byte \X Byte -> Hashes]
  /\ ShortOffset \in Nat /\ 1 <= ShortOffset /\ ShortOffset <= 1024
  /\ ShortLength \in Nat /\ 3 <= ShortLength /\ ShortLength <= 10
  /\ MediumOffset \in Nat /\ 1 <= MediumOffset /\ MediumOffset <= 16384
  /\ MediumLength \in Nat /\ 4 <= MediumLength /\ MediumLength <= 67
  /\ Window \in Nat /\ 1 <= Window /\ Window <= 131072
  /\ LongLength \in Nat /\ 5 <= LongLength /\ LongLength <= 1028
  /\ Block \in Nat /\ 4 <= Block /\ Block <= 112 /\ Block % 4 = 0

VARIABLES
  text, tail, quick,            \* the source, the memory behind it, the mode
  pc, getp, run, runp,          \* RefPack_Encode: the position and the literals
  hashtbl, link, hoffset,       \* the chains of positions with equal hashes
  best,                         \* blen, bcost and boffset
  out, putp,                    \* the commands put, and the bytes they take
  dpc, taken, dst, ref, left    \* RefPack_Uncompress

input == <<text, tail, quick>>
place == <<getp, run, runp>>
tables == <<hashtbl, link>>
stream == <<out, putp>>
decoder == <<dpc, taken, dst, ref, left>>
vars == <<input, pc, place, tables, hoffset, best, stream, decoder>>

NoPosition == -1                \* memset of the table with 0xFF
Unwritten == -2                 \* a marker for what malloc left in link, which is not cleared
NoMatch == [len |-> 2, cost |-> 2, off |-> 0]

Texts == UNION {[1..n -> Byte] : n \in 0..MaxText}

Init ==
  /\ text \in Texts /\ tail \in [1..2 -> Byte] /\ quick \in BOOLEAN
  /\ pc = "next" /\ getp = 0 /\ run = 0 /\ runp = 0
  /\ hashtbl = [h \in Hashes |-> NoPosition]
  /\ link = [i \in 0..(Window - 1) |-> Unwritten]
  /\ hoffset = NoPosition /\ best = NoMatch
  /\ out = << >> /\ putp = 0
  /\ dpc = "read" /\ taken = 0 /\ dst = << >> /\ ref = 0 /\ left = 0

-----------------------------------------------------------------------------
(* The encoder's search.                                                   *)

Least(a, b) == IF a < b THEN a ELSE b
Most(a, b) == IF a > b THEN a ELSE b

\* Near its end the encoder reads two bytes behind the text.
ByteAt(p) == IF p < Len(text) THEN text[p + 1] ELSE tail[p - Len(text) + 1]

HashAt(p) == HashOf[<<ByteAt(p), ByteAt(p + 1), ByteAt(p + 2)>>]

Anything == 0                                \* mutant: no window
MinOffset == Most(getp - (Window - 1), 0)

MaxMatch == Least(Len(text) - getp, LongLength)

\* What RefPack_Matchlen returns.
IsMatchLength(n, p) ==
  /\ \A j \in 0..(n - 1) : ByteAt(getp + j) = ByteAt(p + j)
  /\ n < MaxMatch => ByteAt(getp + n) # ByteAt(p + n)

Cost(off, len) ==
  IF off < ShortOffset /\ len <= ShortLength THEN 2
  ELSE IF off < MediumOffset /\ len <= MediumLength THEN 3 ELSE 4

BeginSearch ==
  /\ pc = "next" /\ getp < Len(text)
  /\ best' = NoMatch
  /\ hoffset' = hashtbl[HashAt(getp)]
  /\ pc' = IF hoffset' >= MinOffset THEN "search" ELSE "choose"
  /\ UNCHANGED <<input, place, tables, stream, decoder>>

\* A match is better when it saves more than the one found before.
Better(len, cost) == len > best.len /\ len - cost > best.len - best.cost

TryCandidate ==
  /\ pc = "search"
  /\ \E n \in 0..MaxMatch :
       LET off == getp - 1 - hoffset IN
       /\ IsMatchLength(n, hoffset)
       /\ best' = IF /\ ByteAt(getp + best.len) = ByteAt(hoffset + best.len)
                     /\ Better(n, Cost(off, n))
                  THEN [len |-> n, cost |-> Cost(off, n), off |-> off] ELSE best
  /\ IF best' # best /\ best'.len >= LongLength
     THEN hoffset' = hoffset /\ pc' = "choose"
     ELSE /\ hoffset' = link[hoffset % Window]
          /\ pc' = IF hoffset' >= MinOffset THEN "search" ELSE "choose"
  /\ UNCHANGED <<input, place, tables, stream, decoder>>

-----------------------------------------------------------------------------
(* The encoder's output.                                                   *)

\* The position becomes the first of its chain.
Enter(p) ==
  /\ link' = [link EXCEPT ![p % Window] = hashtbl[HashAt(p)]]
  /\ hashtbl' = [hashtbl EXCEPT ![HashAt(p)] = p]

PutLiteral ==
  /\ pc = "choose" /\ best.cost >= best.len
  /\ Enter(getp)
  /\ run' = run + 1 /\ getp' = getp + 1
  /\ pc' = "next"
  /\ UNCHANGED <<input, runp, hoffset, best, stream, decoder>>

BeginMatch ==
  /\ pc = "choose" /\ best.cost < best.len
  /\ pc' = "match"
  /\ UNCHANGED <<input, place, tables, hoffset, best, stream, decoder>>

\* A command stands for the text from position at on; at is not in the stream.
Put(code, n) ==
  /\ out' = Append(out, [code |-> code, lits |-> SubSeq(text, runp + 1, runp + n), at |-> runp])
  /\ putp' = putp + Len(code) + n

FourLiterals == 4                            \* mutant: four literals to a command
AllLiterals == Least(Block, run)             \* mutant: not a multiple of four
Literals == Least(Block, run - (run % 4))

PutBlock ==
  /\ pc \in {"match", "end"} /\ run > 3
  /\ Put(<<224 + Literals \div 4 - 1>>, Literals)
  /\ run' = run - Literals /\ runp' = runp + Literals
  /\ UNCHANGED <<input, pc, getp, tables, hoffset, best, decoder>>

ShortCode(n, len, off) ==
  <<((off \div 256) * 32 + (len - 3) * 4 + n) % 256, off % 256>>
MediumCode(n, len, off) ==
  <<(128 + (len - 4)) % 256, (n * 64 + off \div 256) % 256, off % 256>>
LongCode(n, len, off) ==
  <<(192 + (off \div 65536) * 16 + ((len - 5) \div 256) * 4 + n) % 256,
    (off \div 256) % 256, off % 256, (len - 5) % 256>>

MatchCode ==
  IF best.cost = 2 THEN ShortCode(run, best.len, best.off)
  ELSE IF best.cost = 3 THEN MediumCode(run, best.len, best.off)
  ELSE LongCode(run, best.len, best.off)

PutMatch ==
  /\ pc = "match" /\ run <= 3
  /\ Put(MatchCode, run)
  /\ run' = 0 /\ runp' = getp + best.len
  /\ pc' = "enter"
  /\ UNCHANGED <<input, getp, tables, hoffset, best, decoder>>

\* In the quick mode only the first position of a match is entered.
EnterMatch ==
  /\ pc = "enter" /\ getp < runp
  /\ Enter(getp)
  /\ getp' = IF quick THEN runp ELSE getp + 1
  /\ UNCHANGED <<input, pc, run, runp, hoffset, best, stream, decoder>>

EndMatch ==
  /\ pc = "enter" /\ getp = runp
  /\ pc' = "next"
  /\ UNCHANGED <<input, place, tables, hoffset, best, stream, decoder>>

BeginEnd ==
  /\ pc = "next" /\ getp = Len(text)
  /\ pc' = "end"
  /\ UNCHANGED <<input, place, tables, hoffset, best, stream, decoder>>

PutEnd ==
  /\ pc = "end" /\ run <= 3
  /\ Put(<<252 + run>>, run)
  /\ pc' = "done"
  /\ UNCHANGED <<input, place, tables, hoffset, best, decoder>>

-----------------------------------------------------------------------------
(* The decoder.                                                            *)

\* What a command's code says: literals to take, then a match to copy.
DecodedShort(c) ==
  [run |-> c[1] % 4, len |-> ((c[1] \div 4) % 8) + 3,
   off |-> ((c[1] \div 32) % 4) * 256 + c[2], end |-> FALSE]
DecodedMedium(c) ==
  [run |-> c[2] \div 64, len |-> (c[1] % 64) + 4,
   off |-> (c[2] % 64) * 256 + c[3], end |-> FALSE]
DecodedLong(c) ==
  [run |-> c[1] % 4, len |-> ((c[1] \div 4) % 4) * 256 + c[4] + 5,
   off |-> ((c[1] \div 16) % 2) * 65536 + c[2] * 256 + c[3], end |-> FALSE]
DecodedBlock(c) == [run |-> (c[1] % 32) * 4 + 4, len |-> 0, off |-> 0, end |-> FALSE]
DecodedEnd(c) == [run |-> c[1] % 4, len |-> 0, off |-> 0, end |-> TRUE]

Decoded(c) ==
  IF c[1] < 128 THEN DecodedShort(c)
  ELSE IF c[1] < 192 THEN DecodedMedium(c)
  ELSE IF c[1] < 224 THEN DecodedLong(c)
  ELSE IF (c[1] % 32) * 4 + 4 <= 112 THEN DecodedBlock(c) ELSE DecodedEnd(c)

\* RefPack_Compress puts the size before the stream, and RefPack_Uncompress
\* returns it: three bytes, or four behind a flag.
Header(size) ==
  IF size < 16777215
  THEN <<16, 251, (size \div 65536) % 256, (size \div 256) % 256, size % 256>>
  ELSE <<144, 251, (size \div 16777216) % 256, (size \div 65536) % 256,
         (size \div 256) % 256, size % 256>>
OutLength(h) ==
  LET at == IF h[1] < 128 THEN IF h[1] % 2 = 1 THEN 7 ELSE 2
                          ELSE IF h[1] % 2 = 1 THEN 8 ELSE 2 IN
  IF h[1] < 128 THEN h[at + 1] * 65536 + h[at + 2] * 256 + h[at + 3]
  ELSE h[at + 1] * 16777216 + h[at + 2] * 65536 + h[at + 3] * 256 + h[at + 4]

\* A decoder that takes more or fewer literals than the command has reads its
\* next command from the wrong byte; one whose match begins before the text reads
\* what is not there.
TakeCommand ==
  /\ pc = "done" /\ dpc = "read"
  /\ taken' = taken + 1
  /\ LET c == out[taken + 1]
         d == Decoded(c.code) IN
     /\ dst' = dst \o c.lits
     /\ left' = d.len
     /\ ref' = Len(dst') - 1 - d.off
     /\ dpc' = IF d.run # Len(c.lits) \/ (d.len > 0 /\ ref' < 0) THEN "lost"
               ELSE IF d.end THEN "done" ELSE IF d.len > 0 THEN "copy" ELSE "read"
  /\ UNCHANGED <<input, pc, place, tables, hoffset, best, stream>>

\* The source of the copy may run into what the copy has put.
CopyByte ==
  /\ dpc = "copy"
  /\ dst' = Append(dst, dst[ref + 1])
  /\ ref' = ref + 1 /\ left' = left - 1
  /\ dpc' = IF left' = 0 THEN "read" ELSE "copy"
  /\ UNCHANGED <<input, pc, place, tables, hoffset, best, stream, taken>>

Encode ==
  \/ BeginSearch \/ TryCandidate \/ PutLiteral
  \/ BeginMatch \/ PutBlock \/ PutMatch \/ EnterMatch \/ EndMatch
  \/ BeginEnd \/ PutEnd
Next == Encode \/ TakeCommand \/ CopyByte

Spec == Init /\ [][Next]_vars
\* One thread runs both functions to their ends.
FairSpec == Spec /\ WF_vars(Next)

-----------------------------------------------------------------------------
\* Whatever the text, the memory behind it, the mode and the hashes, the decoder
\* follows the stream, puts the text and nothing else, and returns its size.
RoundTrip ==
  /\ dpc # "lost"
  /\ dst = SubSeq(text, 1, Len(dst))
  /\ dpc = "done" => dst = text /\ OutLength(Header(Len(text))) = Len(dst)

\* What a caller's buffer must hold: no match takes more bytes than it stands for,
\* and of the literals only the blocks and the end cost more.
SizeBounded == putp <= Len(text) + (Len(text) + Block - 1) \div Block + 1

\* Both loops end: no chain leads back to a position that was tried, and every
\* turn takes something from the text.
Terminates == <>(dpc = "done")
=============================================================================

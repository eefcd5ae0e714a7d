------------------------------- MODULE Strings -------------------------------
(***************************************************************************)
(* Utf8String (game/common/system/asciistring.cpp): a string is a pointer  *)
(* to a buffer with a reference count, which copies share.  Before it      *)
(* writes, a string makes sure that it has a buffer to itself that is      *)
(* large enough (Ensure_Unique_Buffer_Of_Size).  Utf16String is the same   *)
(* with wide characters.                                                   *)
(*                                                                         *)
(* One thread.  Every operation is a chain of the steps Release, Shared,   *)
(* Unique on a record of the heap.  Two things the class does not guard    *)
(* against are left out, as callers must avoid them: appending a string to *)
(* itself in place (strcpy would chase the terminator it has overwritten)  *)
(* and more copies than a 16 bit count can tell.  When Trim or Next_Token  *)
(* set a string to its own end in place, strcpy copies within one buffer,  *)
(* which C leaves undefined; it is modelled by what a copy from the first  *)
(* character to the last does.                                             *)
(***************************************************************************)
EXTENDS Integers, Sequences, FiniteSets

CONSTANTS
  Strings,     \* Utf8String objects
  Buffers,     \* addresses of AsciiStringData
  Chars,
  Space,       \* the character that separates words
  Texts,       \* what callers set strings to or append
  MaxLength,   \* bound of the model on the length of a string
  ActualSize,  \* Get_Actual_Allocation_Size, less the header, by the characters needed
  CountLimit,  \* 2^16, where ref_count wraps
  NoData       \* the null m_data

ASSUME StringsAssumption ==
  /\ IsFiniteSet(Strings) /\ IsFiniteSet(Buffers)
  /\ Cardinality(Strings) < Cardinality(Buffers)
  /\ CountLimit \in Nat /\ Cardinality(Strings) < CountLimit
  /\ MaxLength \in Nat /\ ActualSize \in [1..(MaxLength + 2) -> Nat]
  /\ \A n \in 1..(MaxLength + 2) : ActualSize[n] >= n
  /\ Texts \subseteq Seq(Chars) /\ \A v \in Texts : Len(v) <= MaxLength
  /\ NoData \notin Buffers

VARIABLES
  data,       \* m_data of each string
  refs,       \* ref_count of each buffer
  capacity,   \* num_chars_allocated
  text,       \* the characters before the terminator
  allocated   \* the buffers that are not free

vars == <<data, refs, capacity, text, allocated>>

Now == [data |-> data, refs |-> refs, capacity |-> capacity, text |-> text, allocated |-> allocated]

Become(h) ==
  /\ data' = h.data /\ refs' = h.refs /\ capacity' = h.capacity
  /\ text' = h.text /\ allocated' = h.allocated

TextOf(h, s) == IF h.data[s] = NoData THEN << >> ELSE h.text[h.data[s]]

\* Release_Buffer: the last owner frees the buffer.  What a free buffer holds is
\* of no account.
ReleaseKept(h, s) ==      \* mutant: the buffer is not freed
  IF h.data[s] = NoData THEN h
  ELSE [h EXCEPT !.refs[h.data[s]] = (@ - 1) % CountLimit, !.data[s] = NoData]
Release(h, s) ==
  IF h.data[s] = NoData THEN h
  ELSE LET b == h.data[s]
           n == (h.refs[b] - 1) % CountLimit
           r == [h EXCEPT !.refs[b] = n, !.data[s] = NoData] IN
       IF n # 0 THEN r
       ELSE [r EXCEPT !.allocated = @ \ {b}, !.capacity[b] = 0, !.text[b] = << >>]

\* Set of a string to another, and the copy constructor.
Shared(h, s, t) ==
  IF s = t THEN h
  ELSE LET r == Release(h, s)
           b == r.data[t] IN
       IF b = NoData THEN r
       ELSE [r EXCEPT !.data[s] = b, !.refs[b] = (@ + 1) % CountLimit]

\* Ensure_Unique_Buffer_Of_Size for need characters, the terminator included, with
\* the text that is there in the end.
InPlaceShared(h, s, need) ==      \* mutant: the count is not looked at
  h.data[s] # NoData /\ h.capacity[h.data[s]] >= need
InPlace(h, s, need) ==
  h.data[s] # NoData /\ h.refs[h.data[s]] = 1 /\ h.capacity[h.data[s]] >= need

Unique(h, s, need, new) ==
  IF InPlace(h, s, need) THEN [h EXCEPT !.text[h.data[s]] = new]
  ELSE LET b == CHOOSE b \in Buffers \ h.allocated : TRUE
           r == Release(h, s) IN
       [r EXCEPT !.data[s] = b, !.refs[b] = 1, !.capacity[b] = ActualSize[need],
                 !.text[b] = new, !.allocated = @ \cup {b}]

\* Set of characters, which may be the end of the string's own buffer.
SetChars(h, s, v) == IF v = << >> THEN Release(h, s) ELSE Unique(h, s, Len(v) + 1, v)

\* Concat: the need is counted from what is there.
NeededOfNew(h, s, v) == Len(v) + 1      \* mutant: what is there already is not counted
Needed(h, s, v) == Len(TextOf(h, s)) + Len(v) + 1

Appended(h, s, v) ==
  IF v = << >> THEN h
  ELSE IF h.data[s] = NoData THEN SetChars(h, s, v)
  ELSE Unique(h, s, Needed(h, s, v), TextOf(h, s) \o v)

LastRemoved(h, s) ==
  LET v == TextOf(h, s) IN
  IF v = << >> THEN h ELSE Unique(h, s, Len(v) + 1, SubSeq(v, 1, Len(v) - 1))

\* Get_Buffer_For_Read of len characters, which the caller fills.
Buffered(h, s, len, v) == Unique(h, s, len + 1, v)

-----------------------------------------------------------------------------

NonSpace(v) == {i \in 1..Len(v) : v[i] # Space}
First(S) == CHOOSE i \in S : \A j \in S : i <= j
Last(S) == CHOOSE i \in S : \A j \in S : i >= j

From(v, i) == SubSeq(v, i, Len(v))

Init ==
  /\ data = [s \in Strings |-> NoData]
  /\ refs = [b \in Buffers |-> 0] /\ capacity = [b \in Buffers |-> 0]
  /\ text = [b \in Buffers |-> << >>]
  /\ allocated = {}

Set(s, v) == Become(SetChars(Now, s, v))

SetString(s, t) == Become(Shared(Now, s, t))

Clear(s) == Become(Release(Now, s))

Concat(s, v) ==
  /\ Len(TextOf(Now, s)) + Len(v) <= MaxLength
  /\ Become(Appended(Now, s, v))

\* The characters of another string, which may share this one's buffer.
ConcatString(s, t) == s # t /\ Concat(s, TextOf(Now, t))

RemoveLastChar(s) == Become(LastRemoved(Now, s))

FillBuffer(s, v) == Become(Buffered(Now, s, Len(v), v))

\* Trim: the string is set to its own end if it begins with spaces, and loses its
\* last characters one by one while they are spaces.
Trim(s) ==
  LET v == TextOf(Now, s)
      lead == IF NonSpace(v) = {} THEN Len(v) ELSE First(NonSpace(v)) - 1
      h == IF lead > 0 THEN SetChars(Now, s, From(v, lead + 1)) ELSE Now
      w == TextOf(h, s) IN
  Become(IF w = << >> \/ w[Len(w)] # Space THEN h
         ELSE Unique(h, s, Len(w) + 1, SubSeq(w, 1, Last(NonSpace(w)))))

\* Next_Token: the first word goes to tok, and the string is set to its own end.  When
\* there is no word both are released.
NextToken(s, tok) ==
  LET v == TextOf(Now, s) IN
  /\ s # tok /\ v # << >>
  /\ IF NonSpace(v) = {} THEN Become(Release(Release(Now, s), tok))
     ELSE LET start == First(NonSpace(v))
              end == First({i \in start..Len(v) : v[i] = Space} \cup {Len(v) + 1})
              word == SubSeq(v, start, end - 1)
              h == Buffered(Now, tok, Len(word) + 1, word) IN
          Become(SetChars(h, s, From(v, end)))

Next ==
  \E s \in Strings :
    \/ Clear(s) \/ RemoveLastChar(s) \/ Trim(s)
    \/ \E v \in Texts : Set(s, v) \/ Concat(s, v) \/ FillBuffer(s, v)
    \/ \E t \in Strings : SetString(s, t) \/ ConcatString(s, t) \/ NextToken(s, t)

Spec == Init /\ [][Next]_vars

-----------------------------------------------------------------------------

Owners(h, b) == {s \in Strings : h.data[s] = b}

\* A buffer that is allocated has as many owners as it counts, and at least one;
\* a string's buffer is allocated.  So no buffer is freed under a string, twice or
\* never, through any chain of copies, writes and words cut off.
CountsOwners ==
  /\ \A s \in Strings : data[s] \in allocated \cup {NoData}
  /\ \A b \in allocated : refs[b] = Cardinality(Owners(Now, b)) /\ refs[b] > 0

\* No text runs over the end of its buffer, whose size is what the allocator gave
\* for another text, maybe of another string.
TextsFit == \A b \in allocated : Len(text[b]) + 1 <= capacity[b]

Values == INSTANCE StringValues WITH value <- [s \in Strings |-> TextOf(Now, s)]

\* To its users a string is a value: an operation on one changes no copy of it, and
\* trimming and cutting words, done in place or not, have their plain results.
ImplementsValues == Values!Spec
=============================================================================

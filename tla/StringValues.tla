---------------------------- MODULE StringValues ----------------------------
(***************************************************************************)
(* What Utf8String promises (game/common/system/asciistring.h): every      *)
(* string is a value of its own.  Whatever is done to one leaves all       *)
(* others as they are, although copies share their characters.             *)
(***************************************************************************)
EXTENDS Integers, Sequences

CONSTANTS
  Strings,
  Texts,   \* what callers set strings to or append, as sequences of characters
  Space    \* the separator of words

VARIABLE value

NonSpace(v) == {i \in 1..Len(v) : v[i] # Space}

Trimmed(v) ==
  IF NonSpace(v) = {} THEN << >>
  ELSE CHOOSE w \in {SubSeq(v, e[1], e[2]) : e \in NonSpace(v) \X NonSpace(v)} :
         \A i, j \in NonSpace(v) : Len(w) > j - i

\* w is the first word of v and rest is what follows it.
Splits(v, w, rest) ==
  /\ w # << >> /\ NonSpace(w) = 1..Len(w)
  /\ rest # << >> => Head(rest) = Space
  /\ \E n \in 0..Len(v) : v = [i \in 1..n |-> Space] \o w \o rest

Init == value = [s \in Strings |-> << >>]

Assign(s, v) == value' = [value EXCEPT ![s] = v]
Copy(s, t) == value' = [value EXCEPT ![s] = value[t]]
Concat(s, v) == value' = [value EXCEPT ![s] = @ \o v]
RemoveLast(s) == value[s] # << >> /\ value' = [value EXCEPT ![s] = SubSeq(@, 1, Len(@) - 1)]
Trim(s) == value' = [value EXCEPT ![s] = Trimmed(@)]
NextToken(s, tok) ==
  /\ s # tok /\ value[s] # << >>
  /\ IF NonSpace(value[s]) = {}
       THEN value' = [value EXCEPT ![s] = << >>, ![tok] = << >>]
       ELSE /\ Splits(value[s], value'[tok], value'[s])
            /\ \A t \in Strings \ {s, tok} : value'[t] = value[t]

Next ==
  \E s \in Strings :
    \/ Assign(s, << >>) \/ RemoveLast(s) \/ Trim(s)
    \/ \E t \in Strings : Copy(s, t) \/ Concat(s, value[t]) \/ NextToken(s, t)
    \/ \E v \in Texts : Assign(s, v) \/ Concat(s, v)

Spec == Init /\ [][Next]_value
=============================================================================

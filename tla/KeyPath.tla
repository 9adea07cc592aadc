------------------------------ MODULE KeyPath ------------------------------
(***************************************************************************)
(* Key paths, the texts "a.b[c]" by which select, update, interpolations    *)
(* and dotlists name a node: split_key and _find_eq of _utils.py, and the   *)
(* full keys _get_full_key of basecontainer.py renders.                     *)
(*                                                                          *)
(* A text is a sequence of characters; ".", "[", "]", "=" and "\" are       *)
(* themselves, every other character stands for one without a meaning.      *)
(* split_key has two implementations, one with regular expressions for      *)
(* texts without a backslash and one that reads character by character.     *)
(***************************************************************************)
EXTENDS Integers, Sequences, FiniteSets

_ESCAPABLE == {".", "[", "]", "="}

\* Characters i to j of text t.
Part(t, i, j) == SubSeq(t, i, j)

\* The first position from i on that holds a character of stops, or the end.
StopAt(t, i, stops) ==
    CHOOSE j \in i..(Len(t) + 1) :
        /\ j <= Len(t) => t[j] \in stops
        /\ \A k \in i..(j - 1) : t[k] \notin stops

-----------------------------------------------------------------------------
(* The two implementations of split_key.                                    *)

\* s.split("."), for a text that may start with dots and has no others.
SplitDots(s) ==
    LET dots == CHOOSE d \in 0..Len(s) : /\ \A k \in 1..d : s[k] = "."
                                         /\ d < Len(s) => s[d + 1] # "."
    IN  [k \in 1..(dots + 1) |-> IF k <= dots THEN <<>> ELSE Part(s, dots + 1, Len(s))]

\* KEY_PATH_OTHER.findall from position i: segments after a dot and segments
\* in closed brackets; what matches neither is skipped.
Others(t) ==
    LET n == Len(t)
        find[i \in 1..(n + 1)] ==
            IF i > n THEN <<>>
            ELSE IF t[i] = "."
                 THEN LET j == StopAt(t, i + 1, {".", "["})
                      IN  <<Part(t, i + 1, j - 1)>> \o find[j]
            ELSE IF t[i] = "[" /\ \E k \in (i + 1)..n : t[k] = "]"
                 THEN LET j == StopAt(t, i + 1, {"]"})
                      IN  <<Part(t, i + 1, j - 1)>> \o find[j + 1]
            ELSE find[i + 1]
    IN  find

\* KEY_PATH_HEAD: leading dots, then anything but dots and brackets.
HeadStop(t) ==
    LET dots == CHOOSE d \in 1..(Len(t) + 1) : /\ \A k \in 1..(d - 1) : t[k] = "."
                                               /\ d <= Len(t) => t[d] # "."
    IN  StopAt(t, dots, {".", "["})

FastSplit(t) ==
    LET stop == HeadStop(t)
        head == SplitDots(Part(t, 1, stop - 1))
        drop == stop <= Len(t) /\ t[stop] = "[" /\ head[Len(head)] = <<>>
    IN  (IF drop THEN Part(head, 1, Len(head) - 1) ELSE head) \o Others(t)[stop]

\* Position i of t holds a backslash that escapes the next character.
EscapesAt(t, i) == t[i] = "\\" /\ i < Len(t) /\ t[i + 1] \in _ESCAPABLE

\* Mutant of Segment: the backslash escapes whatever follows.
SegmentAnyEscape(t, i, stops) ==
    LET n == Len(t)
        read[k \in i..(n + 2)] ==
            IF k > n \/ (k <= n /\ t[k] \in stops) THEN [text |-> <<>>, end |-> k]
            ELSE IF t[k] = "\\" /\ k < n
                 THEN [read[k + 2] EXCEPT !.text = <<t[k + 1]>> \o @]
            ELSE [read[k + 1] EXCEPT !.text = <<t[k]>> \o @]
    IN  read[i]

\* _read_dot_seg and _read_bracket_seg: the segment from i up to an unescaped
\* character of stops, and where it ends.
Segment(t, i, stops) ==
    LET n == Len(t)
        read[k \in i..(n + 2)] ==
            IF k > n \/ (k <= n /\ t[k] \in stops) THEN [text |-> <<>>, end |-> k]
            ELSE IF EscapesAt(t, k)
                 THEN [read[k + 2] EXCEPT !.text = <<t[k + 1]>> \o @]
            ELSE [read[k + 1] EXCEPT !.text = <<t[k]>> \o @]
    IN  read[i]

SlowSplit(t) ==
    LET n == Len(t)
        first == Segment(t, 1, {".", "["})
        rest[i \in 1..(n + 1)] ==
            IF i > n THEN <<>>
            ELSE IF t[i] = "."
                 THEN LET s == Segment(t, i + 1, {".", "["}) IN <<s.text>> \o rest[s.end]
            ELSE LET s == Segment(t, i + 1, {"]"})
                 IN  IF s.end <= n THEN <<s.text>> \o rest[s.end + 1] ELSE <<>>
    IN  IF n = 0 \/ t[1] # "[" THEN <<first.text>> \o rest[first.end] ELSE rest[1]

HasBackslash(t) == \E i \in 1..Len(t) : t[i] = "\\"

split_key(t) == IF HasBackslash(t) THEN SlowSplit(t) ELSE FastSplit(t)

\* The position of the first unescaped "=", or 0.
_find_eq(t) ==
    LET s == Segment(t, 1, {"="}) IN IF s.end <= Len(t) THEN s.end ELSE 0

-----------------------------------------------------------------------------
(* Full keys.                                                               *)

\* _get_full_key for the keys of a path of containers, inSeq[i] telling
\* whether the i-th key is an index.  Keys are not escaped.
FullKey(keys, inSeq) ==
    LET n == Len(keys)
        up[i \in 1..(n + 1)] ==
            IF i > n THEN <<>>
            ELSE LET key   == IF inSeq[i] THEN <<"[">> \o keys[i] \o <<"]">> ELSE keys[i]
                     joint == IF i = n \/ inSeq[i + 1] THEN <<>> ELSE <<".">>
                 IN  key \o joint \o up[i + 1]
    IN  up[1]

-----------------------------------------------------------------------------
(* Reference: how the documentation of select tells users to write a path.  *)

\* A backslash before each special character.
Escaped(key) ==
    LET esc[i \in 1..(Len(key) + 1)] ==
            IF i > Len(key) THEN <<>>
            ELSE (IF key[i] \in _ESCAPABLE THEN <<"\\", key[i]>> ELSE <<key[i]>>) \o esc[i + 1]
    IN  esc[1]

\* The path with its i-th key in brackets or after a dot.
Written(keys, bracket) ==
    LET n == Len(keys)
        text[i \in 1..(n + 1)] ==
            IF i > n THEN <<>>
            ELSE (IF bracket[i] THEN <<"[">> \o Escaped(keys[i]) \o <<"]">>
                  ELSE (IF i = 1 THEN <<>> ELSE <<".">>) \o Escaped(keys[i]))
                 \o text[i + 1]
    IN  text[1]
=============================================================================

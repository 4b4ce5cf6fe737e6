-------------------------------- MODULE Strings --------------------------------
(***************************************************************************)
(* The string and number functions of the C library (strlib.c, ctype.c,    *)
(* stdlib.c, stdio.c), on a memory m that maps addresses to bytes.  Their  *)
(* loops are recursive functions; the last sections say what each should   *)
(* compute.  A string of delimiters is the set of its characters.          *)
(***************************************************************************)
EXTENDS Integers, Sequences, SequencesExt

NUL == 0       \* the byte that ends a string
NULL == 0      \* the pointer to nothing

isspace(c) == c \in 9..13 \union {32}
isdigit(c) == c \in 48..57

memset(m, s, c, n) == [a \in DOMAIN m |-> IF a \in s..(s + n - 1) THEN c ELSE m[a]]

(* The regions do not overlap.                                             *)
memcpy(m, dest, src, n) ==
  [a \in DOMAIN m |-> IF a \in dest..(dest + n - 1) THEN m[src + (a - dest)] ELSE m[a]]

(* Where a loop that stops at the end of the string and at one of `stops'  *)
(* is when it stops.                                                       *)
Stop(m, s, stops) ==
  LET at[p \in Nat] == IF m[p] \in stops \union {NUL} THEN p ELSE at[p + 1] IN at[s]

stringlen(m, s) == Stop(m, s, {}) - s

strcmp(m1, s1, m2, s2) ==
  LET from[i \in Nat] ==
        IF m1[s1 + i] # m2[s2 + i] THEN IF m1[s1 + i] < m2[s2 + i] THEN -1 ELSE 1
        ELSE IF m1[s1 + i] = NUL THEN 0 ELSE from[i + 1]
  IN  from[0]

(* Without the byte that ends src.                                         *)
strcpy(m, dest, src) == memcpy(m, dest, src, stringlen(m, src))

strpbrk(m, s, accept) == LET p == Stop(m, s, accept) IN IF m[p] = NUL THEN NULL ELSE p

(* Definitions whose names end in Mistake are what the code would be with  *)
(* a likely mistake in it: the runs check that each one breaks a property. *)
StrsepMistake(m, s, delim) ==
  LET p == Stop(m, s, delim) IN
  [result |-> s,
   rest |-> IF s = NULL \/ m[p] = NUL THEN NULL ELSE p + 1,
   m |-> IF s = NULL \/ m[p] = NUL THEN m ELSE [m EXCEPT ![p + 1] = NUL]]

(* The token, what becomes of *stringp, and of memory.                     *)
strsep(m, s, delim) ==
  LET p == Stop(m, s, delim) IN
  [result |-> s,
   rest |-> IF s = NULL \/ m[p] = NUL THEN NULL ELSE p + 1,
   m |-> IF s = NULL \/ m[p] = NUL THEN m ELSE [m EXCEPT ![p] = NUL]]

Skip(m, s, set) == LET at[p \in Nat] == IF m[p] \in set THEN at[p + 1] ELSE p IN at[s]

TokenMistake(m, s, delim) ==
  LET start == Skip(m, s, delim)
      end == Stop(m, s, delim)
  IN  IF delim = {} \/ m[start] = NUL THEN [result |-> NULL, save |-> NULL, m |-> m]
      ELSE [result |-> start, save |-> end + 1, m |-> [m EXCEPT ![end] = NUL]]

(* strtok_r from s, which is str, or what *saveptr was: the token, what    *)
(* *saveptr becomes (NULL stands for its empty string), and memory.        *)
(* *saveptr is past the end of the string once the last token is taken.    *)
strtok_r(m, s, delim) ==
  LET start == Skip(m, s, delim)
      end == Stop(m, start, delim)
  IN  IF delim = {} \/ m[start] = NUL THEN [result |-> NULL, save |-> NULL, m |-> m]
      ELSE [result |-> start, save |-> end + 1, m |-> [m EXCEPT ![end] = NUL]]

atoi(m, s) ==
  LET first == Skip(m, s, {c \in 0..255 : isspace(c)})
      end == Skip(m, first, {c \in 0..255 : isdigit(c)})
      value[p \in first..end] ==
        IF p = first THEN 0 ELSE value[p - 1] * 10 + (m[p - 1] - 48)
  IN  value[end]

DigitsMistake(value, base) ==
  LET digits[v \in 0..value] ==
        IF v < base THEN <<v>> ELSE <<v % base>> \o digits[v \div base]
      Character(d) == IF d \in 0..9 THEN 48 + d ELSE 87 + d
      d == digits[value]
  IN  [i \in DOMAIN d |-> Character(d[i])]

(* The digits that print_d (base 10) and print_x (base 16) print: filled   *)
(* in from the end of an array of 20, which holds those of any uint64_t.   *)
print_digits(value, base) ==
  LET digits[v \in 0..value] ==
        IF v < base THEN <<v>> ELSE Append(digits[v \div base], v % base)
      Character(d) == IF d \in 0..9 THEN 48 + d ELSE 87 + d
      d == digits[value]
  IN  [i \in DOMAIN d |-> Character(d[i])]

-----------------------------------------------------------------------------
(* What the functions are for.  Text is a sequence of characters.          *)
Holds(m, s, text) ==
  /\ \A i \in DOMAIN text : m[s + i - 1] = text[i]
  /\ m[s + Len(text)] = NUL

(* The first positions of the words between delimiters.                    *)
WordStarts(text, delim) ==
  {i \in DOMAIN text : text[i] \notin delim /\ (i = 1 \/ text[i - 1] \in delim)}

Word(text, delim, i) ==
  LET ends == {j \in i..Len(text) : j = Len(text) \/ text[j + 1] \in delim}
  IN  SubSeq(text, i, CHOOSE j \in ends : \A k \in ends : j <= k)

(* The tokens that calls of strtok_r take from text at s, until there are  *)
(* no more or *saveptr is past the end.                                    *)
Tokens(m, s, text, delim) ==
  LET end == s + Len(text)
      next[p \in s..(end + 1)] ==
        IF p > end THEN {}
        ELSE LET t == strtok_r(m, p, delim) IN
             IF t.result = NULL THEN {}
             ELSE {<<t.result - s + 1, [i \in 1..stringlen(t.m, t.result) |-> t.m[t.result + i - 1]]>>}
                    \union next[t.save]
  IN  next[s]

(* The first position from i on, or past the end, that is not in `set'.     *)
Past(text, i, set) ==
  CHOOSE k \in i..(Len(text) + 1) :
    /\ \A j \in i..(k - 1) : text[j] \in set
    /\ k <= Len(text) => text[k] \notin set

(* The digits that text begins with, after any white space.                *)
Number(text) ==
  LET begin == Past(text, 1, (9..13) \union {32})
  IN  SubSeq(text, begin, Past(text, begin, 48..57) - 1)

ValueOf(text, base) ==
  FoldLeft(LAMBDA v, c : v * base + (IF isdigit(c) THEN c - 48 ELSE c - 87), 0, text)

=============================================================================

------------------------------ MODULE PiString ------------------------------
(* pi_string.c: the growing buffer in which requests, pages and log lines   *)
(* are put together.  A buffer belongs to one thread, so a call is one      *)
(* step; any allocation may fail, and no caller is told.                    *)
EXTENDS Integers, Sequences, SequencesExt

Nul == "nul"

CONSTANTS
  Letters,      \* the characters that are appended
  Strings,      \* the strings that are appended
  Sizes,        \* the arguments of pi_string_new()
  SizeRange,    \* the number of values of a size_t
  MaxPosition   \* bound: the longest text

ASSUME RangeAssumption == SizeRange \in Nat \ {0}
ASSUME StringsAssumption == Strings \subseteq Seq(Letters)
ASSUME LettersAssumption == Nul \notin Letters
ASSUME SizesAssumption == Sizes \subseteq Nat

NoBuffer == << >>      \* c_string is NULL

VARIABLES
  live,         \* there is a pi_string_t
  bytes,        \* what c_string points to, as long as its allocation
  size, position,
  starved,      \* an allocation failed since the string was made
  undefined     \* a write went outside the allocation: anything may follow

stringVars == <<live, bytes, size, position, starved, undefined>>

Zeros(n) == [i \in 1 .. n |-> Nul]
Content == SubSeq(bytes, 1, position)

Init ==
  /\ live = FALSE
  /\ bytes = NoBuffer /\ size = 0 /\ position = 0
  /\ starved = FALSE /\ undefined = FALSE

\* At least four bytes, all zero.  A failed malloc() of them leaves the size
\* set; without a pi_string_t there is no string, and calls do nothing.
New(n) ==
  /\ ~live
  /\ live' = TRUE
  /\ size' = IF n > 4 THEN n ELSE 4
  /\ position' = 0
  /\ \/ bytes' = Zeros(size') /\ starved' = FALSE
     \/ bytes' = NoBuffer /\ starved' = TRUE
  /\ UNCHANGED undefined

Reset ==
  /\ live /\ ~undefined
  /\ position' = 0
  /\ bytes' = Zeros(Len(bytes))
  /\ UNCHANGED <<live, size, starved, undefined>>

Delete ==
  /\ live /\ ~undefined
  /\ live' = FALSE
  /\ bytes' = NoBuffer /\ size' = 0 /\ position' = 0
  /\ starved' = FALSE
  /\ UNCHANGED undefined

\* Mutant: all of the new buffer is cleared.
ResizedClearedMut(new) ==
  {[bytes |-> Zeros(new), size |-> new, failed |-> FALSE],
   [bytes |-> bytes, size |-> size, failed |-> TRUE]}

\* string_buffer_resize(): realloc() keeps the bytes, those from position on
\* are cleared; when it fails the old buffer stays.
Resized(new) == {[bytes |-> Content \o Zeros(new - position), size |-> new, failed |-> FALSE],
                 [bytes |-> bytes, size |-> size, failed |-> TRUE]}
AsIs == {[bytes |-> bytes, size |-> size, failed |-> FALSE]}

\* The loop of pi_string_append_str_length(): at least one doubling, and as
\* many as it takes.
Doubling(needed) ==
  LET turn[new \in Nat \ {0}] == IF new >= needed THEN new ELSE turn[2 * new]
  IN  turn
Doubled(needed) == Doubling(needed)[2 * size]

\* Mutant: position is that of the last char.
WriteLastMut(text, buffer) ==
  /\ size' = buffer.size
  /\ starved' = (starved \/ buffer.failed)
  /\ position' = position + Len(text) - 1
  /\ IF position + Len(text) <= Len(buffer.bytes)
       THEN /\ bytes' = [i \in DOMAIN buffer.bytes |->
                           IF i \in position + 1 .. position + Len(text)
                             THEN text[i - position] ELSE buffer.bytes[i]]
            /\ UNCHANGED undefined
       ELSE undefined' = TRUE /\ UNCHANGED bytes
  /\ UNCHANGED live

\* memcpy() to position: outside the allocation nothing is known any more.
Write(text, buffer) ==
  /\ size' = buffer.size
  /\ starved' = (starved \/ buffer.failed)
  /\ position' = position + Len(text)
  /\ IF position + Len(text) <= Len(buffer.bytes)
       THEN /\ bytes' = [i \in DOMAIN buffer.bytes |->
                           IF i \in position + 1 .. position + Len(text)
                             THEN text[i - position] ELSE buffer.bytes[i]]
            /\ UNCHANGED undefined
       ELSE undefined' = TRUE /\ UNCHANGED bytes
  /\ UNCHANGED live

\* Mutant: the buffer grows when the terminator's byte is taken as well.
AppendCharLateMut(c) ==
  /\ live /\ ~undefined
  /\ position < MaxPosition
  /\ \E buffer \in IF position = size THEN Resized(size * 2) ELSE AsIs :
       Write(<<c>>, buffer)

\* The last byte is kept for the terminator: a char that would take it grows
\* the buffer first.  Only the one position is looked at.
AppendChar(c) ==
  /\ live /\ ~undefined
  /\ position < MaxPosition
  /\ \E buffer \in IF position = size - 1 THEN Resized(size * 2) ELSE AsIs :
       Write(<<c>>, buffer)

\* Mutant: the terminator's byte is counted as free.
RemainingAllMut == (size - position) % SizeRange

\* The difference of two size_t wraps when there is no byte left.
Remaining == (size - position - 1) % SizeRange

AppendStr(text) ==
  /\ live /\ ~undefined
  /\ position + Len(text) <= MaxPosition
  /\ \E buffer \in IF Remaining < Len(text)
                     THEN Resized(Doubled(size + Len(text) - Remaining))
                     ELSE AsIs :
       Write(text, buffer)

\* vasprintf() allocates the text; when it fails, str is NULL or was never set.
Sprintf(text) ==
  \/ AppendStr(text)
  \/ /\ live /\ ~undefined
     /\ starved' = TRUE
     /\ undefined' \in BOOLEAN
     /\ UNCHANGED <<live, bytes, size, position>>

Next ==
  \/ \E n \in Sizes : New(n)
  \/ Reset
  \/ Delete
  \/ \E c \in Letters : AppendChar(c)
  \/ \E text \in Strings : AppendStr(text) \/ Sprintf(text)

Spec == Init /\ [][Next]_stringVars

-----------------------------------------------------------------------------
TypeOK ==
  /\ live \in BOOLEAN
  /\ bytes \in Seq(Letters \cup {Nul})
  /\ size \in Nat /\ position \in Nat
  /\ starved \in BOOLEAN /\ undefined \in BOOLEAN

\* A string that never lacked memory is a C string: its bytes from position on
\* are zero and there is at least one, so a "%s" stops where position says.
Terminated ==
  live /\ ~starved =>
    /\ Len(bytes) = size /\ position < size
    /\ \A i \in position + 1 .. size : bytes[i] = Nul
    /\ \A i \in 1 .. position : bytes[i] /= Nul

\* A write goes outside the buffer only after an allocation failed.
AllInside == undefined => starved

\* Nothing that was appended is lost or changed by what follows, whether the
\* buffer grew, moved or could not grow.
OnlyAppends ==
  [][undefined' \/ position' = 0 \/ IsPrefix(Content, Content')]_stringVars

-----------------------------------------------------------------------------
(* The inductive invariant.  As long as nothing is undefined the text lies   *)
(* inside the allocation, which is the size or, after a failed malloc(),     *)
(* nothing at all.                                                           *)
BufferFits ==
  /\ live => size >= 4
  /\ ~undefined =>
       /\ position <= Len(bytes)
       /\ Len(bytes) \in {0, size}

\* Only an append can write outside, and then the string is there to stay.
DeadIsDefined == undefined => live

StringInv == TypeOK /\ BufferFits /\ DeadIsDefined /\ Terminated /\ AllInside
=============================================================================

---------------------------- MODULE PiStringProofs ---------------------------
(***************************************************************************)
(* Proofs about the growing buffer, for any strings, sizes and width of a  *)
(* size_t, and whichever allocations fail.                                 *)
(***************************************************************************)
EXTENDS PiString, Minima, SequenceTheorems, TLAPS

-----------------------------------------------------------------------------
(* The doubling loop.                                                       *)

\* What a turn of the loop does with new.
Turn(f, n, needed) == IF n >= needed THEN n ELSE f[2 * n]

\* The values from which the loop ends within m turns of a slower loop.
Within(needed, m) == {n \in Nat \ {0} : n + m >= needed}

\* f is the loop on the values in D.
Runs(f, needed, D) == f = [n \in D |-> Turn(f, n, needed)]

\* The loop ends from every value: there is a function that is its result.
LEMMA LoopRuns ==
  ASSUME NEW needed \in Nat
  PROVE  \E f : Runs(f, needed, Nat \ {0})
<1> DEFINE Bad == {m \in Nat : ~ \E f : Runs(f, needed, Within(needed, m))}
<1>1. 0 \notin Bad
  <2> DEFINE f == [n \in Within(needed, 0) |-> n]
  <2>1. \A n \in Within(needed, 0) : n >= needed
    BY DEF Within
  <2>2. Runs(f, needed, Within(needed, 0))
    BY <2>1 DEF Runs, Turn
  <2>3. QED
    BY <2>2
<1>2. ASSUME NEW m \in Nat, m \notin Bad
      PROVE  m + 1 \notin Bad
  <2>1. PICK f : Runs(f, needed, Within(needed, m))
    BY <1>2
  <2> DEFINE D == Within(needed, m + 1)
             g == [n \in D |-> Turn(f, n, needed)]
  <2>2. ASSUME NEW n \in D  PROVE g[n] = Turn(g, n, needed)
    <3>1. g[n] = Turn(f, n, needed) /\ n \in Nat \ {0}
      BY <2>2 DEF Within
    <3>2. CASE n >= needed
      BY <3>1, <3>2 DEF Turn
    <3>3. CASE ~(n >= needed)
      <4>1. 2 * n \in Within(needed, m) /\ 2 * n \in D
        BY <2>2, <3>1 DEF Within
      <4>2. f[2 * n] = Turn(f, 2 * n, needed)
        BY <2>1, <4>1 DEF Runs
      <4>3. g[2 * n] = Turn(f, 2 * n, needed)
        BY <4>1
      <4>4. QED
        BY <3>1, <3>3, <4>2, <4>3 DEF Turn
    <3>4. QED
      BY <3>2, <3>3
  <2>3. g = [n \in D |-> Turn(g, n, needed)]
    <3>1. DOMAIN g = D /\ g = [n \in D |-> g[n]]
      OBVIOUS
    <3> HIDE DEF g
    <3>2. QED
      BY <2>2, <3>1
  <2>4. QED
    BY <2>3 DEF Runs
<1>3. Bad = {}
  <2>1. ASSUME Bad /= {}  PROVE FALSE
    <3>1. PICK x \in Bad : \A y \in Bad : x <= y
      BY <2>1, LeastIn
    <3>2. x - 1 \in Nat /\ x - 1 \notin Bad
      BY <1>1, <3>1
    <3>3. (x - 1) + 1 \notin Bad
      BY <1>2, <3>2
    <3>4. QED
      BY <3>1, <3>3
  <2>2. QED
    BY <2>1
<1>4. needed \in Nat /\ needed \notin Bad
  BY <1>3
<1>5. Within(needed, needed) = Nat \ {0}
  BY DEF Within
<1>6. QED
  BY <1>4, <1>5

\* So the loop's function is what its body says ...
LEMMA DoublingIs ==
  ASSUME NEW needed \in Nat
  PROVE  Doubling(needed) = [n \in Nat \ {0} |-> Turn(Doubling(needed), n, needed)]
<1> DEFINE f == CHOOSE g : g = [n \in Nat \ {0} |-> IF n >= needed THEN n ELSE g[2 * n]]
<1>1. \E g : g = [n \in Nat \ {0} |-> IF n >= needed THEN n ELSE g[2 * n]]
  BY LoopRuns DEF Runs, Turn
<1>2. f = [n \in Nat \ {0} |-> IF n >= needed THEN n ELSE f[2 * n]]
  BY <1>1
<1>3. Doubling(needed) = f
  BY DEF Doubling
<1>4. QED
  BY <1>2, <1>3 DEF Turn

\* ... and it ends with a size that is enough, and no smaller than the first.
LEMMA DoublingEnough ==
  ASSUME NEW needed \in Nat, NEW n \in Nat \ {0}
  PROVE  /\ Doubling(needed)[n] \in Nat
         /\ Doubling(needed)[n] >= needed
         /\ Doubling(needed)[n] >= n
<1> DEFINE f    == Doubling(needed)
           Good(i) == f[i] \in Nat /\ f[i] >= needed /\ f[i] >= i
           Bad == {m \in Nat : \E i \in Nat \ {0} : i + m >= needed /\ ~Good(i)}
<1>1. \A i \in Nat \ {0} : f[i] = Turn(f, i, needed)
  BY DoublingIs
<1> HIDE DEF f
<1>2. 0 \notin Bad
  BY <1>1 DEF Turn
<1>3. ASSUME NEW m \in Nat, m \notin Bad  PROVE m + 1 \notin Bad
  <2> SUFFICES ASSUME NEW i \in Nat \ {0}, i + (m + 1) >= needed  PROVE Good(i)
    OBVIOUS
  <2>1. CASE i >= needed
    BY <1>1, <2>1 DEF Turn
  <2>2. CASE ~(i >= needed)
    <3>1. 2 * i \in Nat \ {0} /\ 2 * i + m >= needed
      OBVIOUS
    <3>2. Good(2 * i)
      BY <1>3, <3>1
    <3>3. f[i] = f[2 * i]
      BY <1>1, <2>2 DEF Turn
    <3>4. QED
      BY <3>2, <3>3
  <2>3. QED
    BY <2>1, <2>2
<1>4. Bad = {}
  <2>1. ASSUME Bad /= {}  PROVE FALSE
    <3>1. PICK x \in Bad : \A y \in Bad : x <= y
      BY <2>1, LeastIn
    <3>2. x - 1 \in Nat /\ x - 1 \notin Bad
      BY <1>2, <3>1
    <3>3. (x - 1) + 1 \notin Bad
      BY <1>3, <3>2
    <3>4. QED
      BY <3>1, <3>3
  <2>2. QED
    BY <2>1
<1>5. Good(n)
  <2>1. needed \notin Bad
    BY <1>4
  <2>2. QED
    BY <2>1
<1>6. QED
  BY <1>5 DEF f

-----------------------------------------------------------------------------
(* What an append writes into.                                              *)

Bytes == Letters \cup {Nul}

\* A buffer that an append may be given: it keeps the text, and if memory never
\* lacked, the rest of it is zero.
Ready(b) ==
  /\ b.bytes \in Seq(Bytes) /\ b.size \in Nat /\ b.failed \in BOOLEAN
  /\ b.size >= 4
  /\ position <= Len(b.bytes) /\ Len(b.bytes) \in {0, b.size}
  /\ \A i \in 1 .. position : b.bytes[i] = bytes[i]
  /\ ~starved /\ ~b.failed =>
       /\ Len(b.bytes) = b.size
       /\ \A i \in position + 1 .. b.size : b.bytes[i] = Nul

\* A block of zeros has the length that was asked for.
LEMMA ZerosAre ==
  ASSUME NEW n \in Nat
  PROVE  /\ Zeros(n) \in Seq(Bytes) /\ Len(Zeros(n)) = n
         /\ \A i \in 1 .. n : Zeros(n)[i] = Nul
<1>1. Zeros(n) \in [1 .. n -> Bytes]
  BY DEF Zeros, Bytes
<1>2. QED
  BY <1>1 DEF Zeros

\* The text is what the buffer holds up to position.
LEMMA ContentIs ==
  ASSUME NEW b \in Seq(Bytes), NEW n \in Nat, n <= Len(b)
  PROVE  /\ SubSeq(b, 1, n) \in Seq(Bytes) /\ Len(SubSeq(b, 1, n)) = n
         /\ \A i \in 1 .. n : SubSeq(b, 1, n)[i] = b[i]
<1>1. \A i \in 1 .. n : b[i] \in Bytes
  OBVIOUS
<1>2. QED
  BY <1>1, SubSeqProperties

\* A text that goes on as another one did has it as a prefix.
LEMMA PrefixIs ==
  ASSUME NEW s \in Seq(Bytes), NEW t \in Seq(Bytes), Len(s) <= Len(t),
         \A i \in 1 .. Len(s) : t[i] = s[i]
  PROVE  IsPrefix(s, t)
<1>1. Len(s) \in Nat
  OBVIOUS
<1>2. /\ SubSeq(s, 1, Len(s)) \in Seq(Bytes) /\ Len(SubSeq(s, 1, Len(s))) = Len(s)
      /\ \A i \in 1 .. Len(s) : SubSeq(s, 1, Len(s))[i] = s[i]
  BY <1>1, ContentIs
<1>3. /\ SubSeq(t, 1, Len(s)) \in Seq(Bytes) /\ Len(SubSeq(t, 1, Len(s))) = Len(s)
      /\ \A i \in 1 .. Len(s) : SubSeq(t, 1, Len(s))[i] = t[i]
  BY <1>1, ContentIs
<1>4. SubSeq(s, 1, Len(s)) = SubSeq(t, 1, Len(s))
  BY <1>2, <1>3, SeqEqual
<1>5. QED
  BY <1>4 DEF IsPrefix

\* The buffer as it is.
LEMMA AsIsReady ==
  ASSUME StringInv, live, ~undefined, NEW b \in AsIs
  PROVE  Ready(b)
<1>1. b.bytes = bytes /\ b.size = size /\ b.failed = FALSE
  BY DEF AsIs
<1>2. /\ bytes \in Seq(Bytes) /\ size \in Nat /\ position \in Nat
      /\ size >= 4 /\ position <= Len(bytes) /\ Len(bytes) \in {0, size}
  BY DEF StringInv, TypeOK, BufferFits, Bytes
<1>3. ~starved => Len(bytes) = size /\ \A i \in position + 1 .. size : bytes[i] = Nul
  BY DEF StringInv, Terminated
<1>4. QED
  BY <1>1, <1>2, <1>3 DEF Ready

\* string_buffer_resize() keeps the text and clears the rest, or fails.
LEMMA ResizedReady ==
  ASSUME StringInv, live, ~undefined, NEW new \in Nat, new >= size, NEW b \in Resized(new)
  PROVE  Ready(b)
<1>1. /\ bytes \in Seq(Bytes) /\ size \in Nat /\ position \in Nat /\ size >= 4
      /\ position <= Len(bytes) /\ position <= new
  BY DEF StringInv, TypeOK, BufferFits, Bytes
<1>2. CASE b = [bytes |-> bytes, size |-> size, failed |-> TRUE]
  BY <1>1, <1>2 DEF StringInv, BufferFits, Ready
<1>3. CASE b = [bytes |-> Content \o Zeros(new - position), size |-> new, failed |-> FALSE]
  <2> DEFINE rest == Zeros(new - position)
  <2>1. /\ Content \in Seq(Bytes) /\ Len(Content) = position
        /\ \A i \in 1 .. position : Content[i] = bytes[i]
    BY <1>1, ContentIs DEF Content
  <2>2. new - position \in Nat
    BY <1>1
  <2>3. /\ rest \in Seq(Bytes) /\ Len(rest) = new - position
        /\ \A i \in 1 .. (new - position) : rest[i] = Nul
    BY <2>2, ZerosAre
  <2> HIDE DEF rest
  <2>c. /\ Content \o rest \in Seq(Bytes)
        /\ Len(Content \o rest) = position + (new - position)
        /\ \A i \in 1 .. position + (new - position) :
             (Content \o rest)[i] = IF i <= position THEN Content[i] ELSE rest[i - position]
    BY <2>1, <2>3, ConcatProperties
  <2>n. position + (new - position) = new
    BY <1>1
  <2>4. Content \o rest \in Seq(Bytes) /\ Len(Content \o rest) = new
    BY <2>c, <2>n
  <2>5. \A i \in 1 .. position : (Content \o rest)[i] = bytes[i]
    <3>1. ASSUME NEW i \in 1 .. position  PROVE (Content \o rest)[i] = bytes[i]
      <4>1. i \in 1 .. position + (new - position) /\ i <= position
        BY <1>1
      <4>2. QED
        BY <2>1, <2>c, <4>1
    <3>2. QED
      BY <3>1
  <2>6. \A i \in position + 1 .. new : (Content \o rest)[i] = Nul
    <3>1. ASSUME NEW i \in position + 1 .. new  PROVE (Content \o rest)[i] = Nul
      <4>1. i - position \in 1 .. (new - position) /\ i \in 1 .. new
        BY <1>1
      <4>2. (Content \o rest)[i] = rest[i - position]
        BY <1>1, <2>c, <2>n, <4>1
      <4>3. QED
        BY <2>3, <4>1, <4>2
    <3>2. QED
      BY <3>1
  <2>7. b.bytes = Content \o rest /\ b.size = new /\ b.failed = FALSE
    BY <1>3 DEF rest
  <2>8. new \in Nat /\ new >= 4
    BY <1>1
  <2> HIDE DEF Resized
  <2>9. QED
    BY <1>1, <2>4, <2>5, <2>6, <2>7, <2>8 DEF Ready
<1>4. QED
  BY <1>2, <1>3 DEF Resized

\* A write to a buffer with room, unless memory lacked, keeps the invariant
\* and what was written before.
LEMMA WriteKeeps ==
  ASSUME StringInv, live, ~undefined, NEW b, Ready(b), NEW text \in Seq(Letters),
         ~starved /\ ~b.failed => position + Len(text) < b.size,
         Write(text, b)
  PROVE  StringInv' /\ (undefined' \/ IsPrefix(Content, Content'))
<1> DEFINE end == position + Len(text)
<1>1. /\ bytes \in Seq(Bytes) /\ size \in Nat /\ position \in Nat /\ Len(text) \in Nat
      /\ starved \in BOOLEAN /\ undefined \in BOOLEAN /\ end \in Nat
      /\ position <= Len(bytes) /\ AllInside
  BY DEF StringInv, TypeOK, BufferFits, Bytes
<1>2. /\ size' = b.size /\ starved' = (starved \/ b.failed) /\ position' = end /\ live' = live
  BY DEF Write
<1>3. size' \in Nat /\ size' >= 4 /\ starved' \in BOOLEAN /\ position' \in Nat
  BY <1>1, <1>2 DEF Ready
<1>4. CASE end <= Len(b.bytes)
  <2>1. /\ bytes' = [i \in DOMAIN b.bytes |->
                       IF i \in position + 1 .. end THEN text[i - position] ELSE b.bytes[i]]
        /\ undefined' = FALSE
    BY <1>4 DEF Write
  <2>2. b.bytes \in Seq(Bytes) /\ Len(b.bytes) \in Nat /\ DOMAIN b.bytes = 1 .. Len(b.bytes)
    BY DEF Ready
  <2>3. \A i \in 1 .. Len(b.bytes) :
          /\ i \in position + 1 .. end => bytes'[i] = text[i - position] /\ bytes'[i] \in Letters
          /\ i \notin position + 1 .. end => bytes'[i] = b.bytes[i]
    <3>1. ASSUME NEW i \in position + 1 .. end  PROVE text[i - position] \in Letters
      <4>1. i - position \in 1 .. Len(text)
        BY <1>1
      <4>2. QED
        BY <4>1
    <3>2. QED
      BY <2>1, <2>2, <3>1
  <2>4. bytes' \in [1 .. Len(b.bytes) -> Bytes]
    <3>1. \A i \in 1 .. Len(b.bytes) : bytes'[i] \in Bytes
      BY <2>2, <2>3 DEF Bytes
    <3>2. bytes' = [i \in 1 .. Len(b.bytes) |-> bytes'[i]]
      BY <2>1, <2>2
    <3>3. QED
      BY <3>1, <3>2
  <2>5. bytes' \in Seq(Bytes) /\ Len(bytes') = Len(b.bytes)
    BY <2>2, <2>4
  <2>6. TypeOK'
    BY <1>1, <1>2, <1>3, <2>1, <2>5 DEF TypeOK, Bytes, StringInv
  <2>7. BufferFits'
    BY <1>2, <1>3, <1>4, <2>5 DEF BufferFits, Ready
  <2>8. Terminated'
    <3> SUFFICES ASSUME ~starved, ~b.failed
                 PROVE  /\ Len(bytes') = size' /\ position' < size'
                        /\ \A i \in position' + 1 .. size' : bytes'[i] = Nul
                        /\ \A i \in 1 .. position' : bytes'[i] /= Nul
      BY <1>2 DEF Terminated
    <3>1. Len(bytes') = b.size /\ end < b.size
      BY <2>5 DEF Ready
    <3>2. \A i \in end + 1 .. b.size : bytes'[i] = Nul
      <4>1. ASSUME NEW i \in end + 1 .. b.size  PROVE bytes'[i] = Nul
        <5>1. i \in 1 .. Len(b.bytes) /\ i \notin position + 1 .. end /\ i \in position + 1 .. b.size
          BY <1>1, <1>3, <1>2, <2>5, <3>1
        <5>2. QED
          BY <2>3, <5>1 DEF Ready
      <4>2. QED
        BY <4>1
    <3>3. \A i \in 1 .. end : bytes'[i] /= Nul
      <4>1. ASSUME NEW i \in 1 .. end  PROVE bytes'[i] /= Nul
        <5>1. i \in 1 .. Len(b.bytes)
          BY <1>1, <1>4, <2>2
        <5>2. CASE i \in position + 1 .. end
          BY <2>3, <5>1, <5>2, LettersAssumption
        <5>3. CASE i \notin position + 1 .. end
          <6>1. i \in 1 .. position
            BY <1>1, <5>3
          <6>2. bytes'[i] = bytes[i]
            BY <2>3, <5>1, <5>3, <6>1 DEF Ready
          <6>3. bytes[i] /= Nul
            BY <6>1 DEF StringInv, Terminated
          <6>4. QED
            BY <6>2, <6>3
        <5>4. QED
          BY <5>2, <5>3
      <4>2. QED
        BY <4>1
    <3>4. QED
      BY <1>2, <3>1, <3>2, <3>3
  <2>9. AllInside'
    BY <2>1 DEF AllInside
  <2>10. IsPrefix(Content, Content')
    <3>1. /\ Content \in Seq(Bytes) /\ Len(Content) = position
          /\ \A i \in 1 .. position : Content[i] = bytes[i]
      BY <1>1, ContentIs DEF Content
    <3>2. /\ Content' \in Seq(Bytes) /\ Len(Content') = end
          /\ \A i \in 1 .. end : Content'[i] = bytes'[i]
      BY <1>1, <1>2, <1>4, <2>5, ContentIs DEF Content
    <3>3. \A i \in 1 .. position : Content'[i] = Content[i]
      <4>1. ASSUME NEW i \in 1 .. position  PROVE Content'[i] = Content[i]
        <5>1. i \in 1 .. Len(b.bytes) /\ i \in 1 .. end /\ i \notin position + 1 .. end
          BY <1>1, <1>4, <2>2
        <5>2. bytes'[i] = bytes[i]
          BY <2>3, <5>1 DEF Ready
        <5>3. QED
          BY <3>1, <3>2, <5>1, <5>2
      <4>2. QED
        BY <4>1
    <3>4. QED
      BY <1>1, <3>1, <3>2, <3>3, PrefixIs
  <2>11. QED
    BY <1>2, <2>1, <2>6, <2>7, <2>8, <2>9, <2>10 DEF StringInv, DeadIsDefined
<1>5. CASE ~(end <= Len(b.bytes))
  <2>1. undefined' = TRUE /\ bytes' = bytes
    BY <1>5 DEF Write
  <2>2. starved'
    <3>1. ASSUME ~starved, ~b.failed  PROVE FALSE
      BY <1>1, <1>5, <3>1 DEF Ready
    <3>2. QED
      BY <1>2, <3>1 DEF Ready
  <2>3. QED
    BY <1>1, <1>2, <1>3, <2>1, <2>2 DEF StringInv, TypeOK, Bytes, BufferFits, Terminated, AllInside, DeadIsDefined
<1>6. QED
  BY <1>4, <1>5

-----------------------------------------------------------------------------
(* The invariant, and what a step keeps of the text.                        *)

\* What OnlyAppends says of a step.
Appends == undefined' \/ position' = 0 \/ IsPrefix(Content, Content')

\* An empty string whose block is zero, or is not there, is a right one.
LEMMA EmptyString ==
  ASSUME live' \in BOOLEAN, size' \in Nat, live' => size' >= 4, position' = 0, starved' \in BOOLEAN,
         undefined' = FALSE,
         \/ \E n \in {0, size'} : bytes' = Zeros(n) /\ (live' /\ ~starved' => n = size')
         \/ bytes' = NoBuffer /\ (live' => starved')
  PROVE  StringInv'
<1>1. TypeOK' /\ BufferFits' /\ Terminated'
  <2>1. ASSUME NEW n \in {0, size'}, bytes' = Zeros(n), live' /\ ~starved' => n = size'
        PROVE  TypeOK' /\ BufferFits' /\ Terminated'
    <3>1. n \in Nat
      OBVIOUS
    <3>2. bytes' \in Seq(Bytes) /\ Len(bytes') = n /\ \A i \in 1 .. n : bytes'[i] = Nul
      BY <2>1, <3>1, ZerosAre
    <3>3. TypeOK'
      BY <3>2 DEF TypeOK, Bytes
    <3>4. BufferFits'
      BY <3>1, <3>2 DEF BufferFits
    <3>5. Terminated'
      BY <2>1, <3>1, <3>2 DEF Terminated
    <3>6. QED
      BY <3>3, <3>4, <3>5
  <2>2. ASSUME bytes' = NoBuffer, live' => starved'
        PROVE  TypeOK' /\ BufferFits' /\ Terminated'
    <3>1. bytes' \in Seq(Bytes) /\ Len(bytes') = 0
      BY <2>2 DEF NoBuffer
    <3>2. TypeOK'
      BY <3>1 DEF TypeOK, Bytes
    <3>3. BufferFits'
      BY <3>1 DEF BufferFits
    <3>4. Terminated'
      BY <2>2 DEF Terminated
    <3>5. QED
      BY <3>2, <3>3, <3>4
  <2>3. QED
    BY <2>1, <2>2
<1>2. QED
  BY <1>1 DEF StringInv, DeadIsDefined, AllInside

LEMMA StringInit == Init => StringInv
<1> SUFFICES ASSUME Init  PROVE StringInv
  OBVIOUS
<1>1. bytes \in Seq(Bytes) /\ Len(bytes) = 0
  BY DEF Init, NoBuffer
<1>2. TypeOK
  BY <1>1 DEF Init, TypeOK, Bytes
<1>3. BufferFits
  BY <1>1 DEF Init, BufferFits
<1>4. Terminated /\ AllInside /\ DeadIsDefined
  BY DEF Init, Terminated, AllInside, DeadIsDefined
<1>5. QED
  BY <1>2, <1>3, <1>4 DEF StringInv

\* A string that is made, reset or deleted is empty.
LEMMA EmptyStep ==
  ASSUME StringInv, \/ \E n \in Sizes : New(n)
                    \/ Reset \/ Delete
  PROVE  StringInv' /\ position' = 0
<1>1. /\ undefined \in BOOLEAN /\ starved \in BOOLEAN /\ size \in Nat /\ live \in BOOLEAN
      /\ live => size >= 4
      /\ ~undefined => Len(bytes) \in {0, size}
      /\ live /\ ~starved => Len(bytes) = size
      /\ undefined => live
  BY DEF StringInv, TypeOK, BufferFits, Terminated, DeadIsDefined
<1>2. ASSUME NEW n \in Sizes, New(n)  PROVE StringInv' /\ position' = 0
  <2>1. /\ size' \in Nat /\ size' >= 4 /\ position' = 0 /\ live' = TRUE /\ undefined' = FALSE
        /\ \/ bytes' = Zeros(size') /\ starved' = FALSE
           \/ bytes' = NoBuffer /\ starved' = TRUE
    BY <1>1, <1>2, SizesAssumption DEF New
  <2>2. QED
    BY <2>1, EmptyString
<1>3. CASE Reset
  BY <1>1, <1>3, EmptyString DEF Reset
<1>4. CASE Delete
  BY <1>1, <1>4, EmptyString DEF Delete
<1>5. QED
  BY <1>2, <1>3, <1>4

\* pi_string_append_char(): position is the last byte or there is one more.
LEMMA AppendCharStep ==
  ASSUME StringInv, NEW c \in Letters, AppendChar(c)
  PROVE  StringInv' /\ Appends
<1>1. live /\ ~undefined /\ size \in Nat /\ size >= 4 /\ position \in Nat
  BY DEF AppendChar, StringInv, TypeOK, BufferFits
<1>2. <<c>> \in Seq(Letters) /\ Len(<<c>>) = 1
  OBVIOUS
<1>3. PICK b \in IF position = size - 1 THEN Resized(size * 2) ELSE AsIs : Write(<<c>>, b)
  BY DEF AppendChar
<1>4. CASE position = size - 1
  <2>1. b \in Resized(size * 2) /\ size * 2 \in Nat /\ size * 2 >= size
    BY <1>1, <1>3, <1>4
  <2>2. Ready(b)
    BY <1>1, <2>1, ResizedReady
  <2>3. ~b.failed => position + 1 < b.size
    BY <1>1, <1>4, <2>1 DEF Resized
  <2>4. QED
    BY <1>1, <1>2, <1>3, <2>2, <2>3, WriteKeeps DEF Appends
<1>5. CASE position /= size - 1
  <2>1. b \in AsIs /\ Ready(b)
    BY <1>1, <1>3, <1>5, AsIsReady
  <2>2. ~starved => position + 1 < b.size
    BY <1>1, <1>5, <2>1 DEF AsIs, StringInv, Terminated
  <2>3. QED
    BY <1>1, <1>2, <1>3, <2>1, <2>2, WriteKeeps DEF Appends
<1>6. QED
  BY <1>4, <1>5

\* The room that is counted is never more than there is while position lies
\* before the last byte.
LEMMA RemainingIs ==
  ASSUME size \in Nat, position \in Nat
  PROVE  /\ Remaining \in Nat
         /\ position < size => Remaining <= size - position - 1
<1>1. ASSUME NEW a \in Int, NEW b \in Nat \ {0}
      PROVE  a % b \in Nat /\ (a >= 0 => a % b <= a)
  BY <1>1, SMT
<1>2. size - position - 1 \in Int
  OBVIOUS
<1>3. QED
  BY <1>1, <1>2, RangeAssumption DEF Remaining

\* pi_string_append_str_length(): there is room, or as much as the loop makes.
LEMMA AppendStrStep ==
  ASSUME StringInv, NEW text \in Strings, AppendStr(text)
  PROVE  StringInv' /\ Appends
<1> DEFINE needed == size + Len(text) - Remaining
<1>1. /\ live /\ ~undefined /\ size \in Nat /\ size >= 4 /\ position \in Nat
      /\ text \in Seq(Letters) /\ Len(text) \in Nat
  BY StringsAssumption DEF AppendStr, StringInv, TypeOK, BufferFits
<1>2. Remaining \in Nat /\ (position < size => Remaining <= size - position - 1)
  BY <1>1, RemainingIs
<1>3. ~starved => position < size
  BY <1>1 DEF StringInv, Terminated
<1>4. PICK b \in IF Remaining < Len(text) THEN Resized(Doubled(needed)) ELSE AsIs : Write(text, b)
  BY DEF AppendStr
<1>5. CASE Remaining < Len(text)
  <2>1. needed \in Nat /\ 2 * size \in Nat \ {0}
    BY <1>1, <1>2, <1>5
  <2>2. Doubled(needed) \in Nat /\ Doubled(needed) >= needed /\ Doubled(needed) >= 2 * size
    BY <2>1, DoublingEnough DEF Doubled
  <2>3. b \in Resized(Doubled(needed)) /\ Doubled(needed) >= size
    BY <1>1, <1>4, <1>5, <2>2
  <2>4. Ready(b)
    BY <1>1, <2>2, <2>3, ResizedReady
  <2>5. ~b.failed => b.size = Doubled(needed)
    BY <2>3 DEF Resized
  <2>6. ~starved /\ ~b.failed => position + Len(text) < b.size
    BY <1>1, <1>2, <1>3, <2>2, <2>5
  <2>7. QED
    BY <1>1, <1>4, <2>4, <2>6, WriteKeeps DEF Appends
<1>6. CASE ~(Remaining < Len(text))
  <2>1. b \in AsIs /\ Ready(b)
    BY <1>1, <1>4, <1>6, AsIsReady
  <2>2. ~starved => position + Len(text) < b.size
    BY <1>1, <1>2, <1>3, <1>6, <2>1 DEF AsIs
  <2>3. QED
    BY <1>1, <1>4, <2>1, <2>2, WriteKeeps DEF Appends
<1>7. QED
  BY <1>5, <1>6

\* vasprintf() fails: the string stays as it is.
LEMMA SameString ==
  ASSUME StringInv, live, ~undefined, UNCHANGED <<live, bytes, size, position>>,
         starved' = TRUE, undefined' \in BOOLEAN
  PROVE  StringInv' /\ Appends
<1>1. StringInv'
  BY DEF StringInv, TypeOK, BufferFits, Terminated, AllInside, DeadIsDefined
<1>2. Content' = Content
  BY DEF Content
<1>3. bytes \in Seq(Bytes) /\ position \in Nat /\ position <= Len(bytes)
  BY DEF StringInv, TypeOK, BufferFits, Bytes
<1>4. Content \in Seq(Bytes)
  BY <1>3, ContentIs DEF Content
<1>5. IsPrefix(Content, Content)
  <2>1. Len(Content) <= Len(Content) /\ \A i \in 1 .. Len(Content) : Content[i] = Content[i]
    BY <1>4
  <2>2. QED
    BY <1>4, <2>1, PrefixIs
<1>6. QED
  BY <1>1, <1>2, <1>5 DEF Appends

LEMMA StringStep == StringInv /\ [Next]_stringVars => StringInv' /\ (Appends \/ UNCHANGED stringVars)
<1> SUFFICES ASSUME StringInv, [Next]_stringVars
             PROVE  StringInv' /\ (Appends \/ UNCHANGED stringVars)
  OBVIOUS
<1>1. CASE (\E n \in Sizes : New(n)) \/ Reset \/ Delete
  BY <1>1, EmptyStep DEF Appends
<1>2. CASE \E c \in Letters : AppendChar(c)
  BY <1>2, AppendCharStep
<1>3. CASE \E text \in Strings : AppendStr(text)
  BY <1>3, AppendStrStep
<1>4. CASE \E text \in Strings : Sprintf(text) /\ ~AppendStr(text)
  BY <1>4, SameString DEF Sprintf
<1>5. CASE UNCHANGED stringVars
  BY <1>5 DEF stringVars, StringInv, TypeOK, BufferFits, Terminated, AllInside, DeadIsDefined
<1>6. QED
  BY <1>1, <1>2, <1>3, <1>4, <1>5 DEF Next

LEMMA StringInvHolds == Spec => []StringInv
<1>1. QED
  BY StringInit, StringStep, PTL DEF Spec

\* The fields of a pi_string_t keep their types, whichever allocations fail.
THEOREM StringTypesHold == Spec => []TypeOK
<1>1. StringInv => TypeOK
  BY DEF StringInv
<1>2. QED
  BY <1>1, StringInvHolds, PTL

\* A string that never lacked memory ends with a zero, where position says:
\* what pi_string_append_char() and pi_string_append_str_length() count as room
\* agrees.
THEOREM TerminatedHolds == Spec => []Terminated
<1>1. StringInv => Terminated
  BY DEF StringInv
<1>2. QED
  BY <1>1, StringInvHolds, PTL

\* No append writes outside the allocation unless one failed before.
THEOREM AllInsideHolds == Spec => []AllInside
<1>1. StringInv => AllInside
  BY DEF StringInv
<1>2. QED
  BY <1>1, StringInvHolds, PTL

\* What was appended stays as it is while the buffer grows, moves or cannot grow.
THEOREM OnlyAppendsHolds == Spec => OnlyAppends
<1>1. StringInv /\ [Next]_stringVars => [Appends]_stringVars
  BY StringStep
<1>2. QED
  BY <1>1, StringInvHolds, PTL DEF Spec, OnlyAppends, Appends
=============================================================================

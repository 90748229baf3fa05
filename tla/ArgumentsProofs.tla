--------------------------- MODULE ArgumentsProofs --------------------------
(***************************************************************************)
(* Proofs about the command line, for every machine (the widths of its     *)
(* integers), every choice of arguments and any number of them.            *)
(***************************************************************************)
EXTENDS Arguments, Minima, TLAPS

\* What strtok() leaves of a string.
Cut(bytes) == [i \in 1 .. Len(bytes) |->
                 IF i \in {Words(bytes).stop, Words(bytes).last} THEN Nul ELSE bytes[i]]

\* The text of the one up_time so far, cut up, and the window it gave.
GaveWindow(bytes) == /\ HasTwoWords(bytes) /\ upText = Cut(bytes)
                     /\ set.start = Start(bytes) /\ set.end = Close(bytes)

UpTextInv ==
  /\ \A i, j \in Those("up_time") : i = j
  /\ \A i \in Those("up_time") : argv[i].value \in Seq(Int) /\ GaveWindow(argv[i].value)
  /\ Those("up_time") = {} => upText = Absent /\ set.start = Default.start /\ set.end = Default.end

\* The parser goes on as long as nothing has ended it.
NoneEnded == status = "parsing" => \A i \in Taken : ~Ends(i)

ArgInv == TypeOK /\ LastOptionWins /\ UpTextInv /\ NoneEnded /\ OutcomeByFirstEnd

-----------------------------------------------------------------------------
(* Numbers.                                                                 *)

LEMMA Modulo == ASSUME NEW a \in Int, NEW b \in Nat \ {0}
                PROVE  /\ a % b \in 0 .. (b - 1)
                       /\ a \in 0 .. (b - 1) => a % b = a
OBVIOUS

\* atol() gives a long.
LEMMA AtolRange == ASSUME NEW text \in Seq(Int)
                   PROVE  Atol(text) \in (-LongMax - 1) .. LongMax
<1>1. \A t \in Seq(Int) : Number(t) \in Nat
  BY DEF Number
<1>2. CASE text /= <<>> /\ text[1] = Dash
  <2>1. Number(Tail(text)) \in Nat
    <3>1. Tail(text) \in Seq(Int)
      BY <1>2
    <3>2. QED
      BY <1>1, <3>1
  <2>2. Atol(text) = IF Number(Tail(text)) > LongMax THEN -LongMax - 1 ELSE -Number(Tail(text))
    BY <1>2, Zenon DEF Atol
  <2> HIDE DEF Number
  <2>3. QED
    BY <2>1, <2>2, ArgumentsAssumption
<1>3. CASE ~(text /= <<>> /\ text[1] = Dash)
  <2>1. Atol(text) = IF Number(text) > LongMax THEN LongMax ELSE Number(text)
    BY <1>3, Zenon DEF Atol
  <2>2. QED
    BY <1>1, <2>1, ArgumentsAssumption
<1>4. QED
  BY <1>2, <1>3

\* A pause option is the minutes asked for, converted to unsigned int.
LEMMA MinutesRange ==
  ASSUME NEW text \in Seq(Int)
  PROVE  /\ AtLeastOne(Atol(text)) \in Nat \ {0}
         /\ Minutes(text) = AtLeastOne(Atol(text)) % UIntRange
         /\ Minutes(text) \in UInt
<1>1. AtLeastOne(Atol(text)) \in Nat \ {0}
  <2>1. Atol(text) \in Int
    BY AtolRange, ArgumentsAssumption
  <2>2. QED
    BY <2>1 DEF AtLeastOne
<1>2. Minutes(text) = AtLeastOne(Atol(text)) % UIntRange
  BY DEF Minutes, AtLeastOne
<1> DEFINE m == AtLeastOne(Atol(text))
<1>3. m \in Int /\ UIntRange \in Nat \ {0}
  BY <1>1, ArgumentsAssumption
<1>4. m % UIntRange \in 0 .. (UIntRange - 1)
  <2> HIDE DEF m
  <2> QED  BY <1>3, Modulo
<1>5. QED
  BY <1>1, <1>2, <1>4 DEF UInt

\* A pause whose seconds are an unsigned int is not changed by the conversion of
\* its minutes, nor by the product.
LEMMA SecondsKept ==
  ASSUME NEW m \in Nat, m * MinuteSeconds < UIntRange
  PROVE  m < UIntRange /\ m % UIntRange = m /\ Seconds(m) = m * MinuteSeconds
<1> DEFINE s == m * MinuteSeconds
<1>1. UIntRange \in Nat \ {0} /\ MinuteSeconds \in Nat \ {0}
  BY ArgumentsAssumption
<1>2. s \in Nat /\ m <= s
  BY <1>1
<1>3. Seconds(m) = s % UIntRange /\ s < UIntRange
  BY DEF Seconds
<1> HIDE DEF s
<1>4. s \in 0 .. (UIntRange - 1) /\ m \in 0 .. (UIntRange - 1)
  BY <1>1, <1>2, <1>3
<1>5. s % UIntRange = s /\ m % UIntRange = m
  BY <1>1, <1>4, Modulo
<1>6. QED
  BY <1>1, <1>3, <1>4, <1>5 DEF s

-----------------------------------------------------------------------------
(* Words.                                                                   *)

\* First() is the position it is meant to be.
IsFirst(bytes, i, end, these, j) == /\ j \in i .. end
                                    /\ j < end => bytes[j] \in these
                                    /\ \A k \in i .. (j - 1) : bytes[k] \notin these

LEMMA FirstIs ==
  ASSUME NEW bytes, NEW these, NEW i \in Nat, NEW end \in Nat, i <= end
  PROVE  IsFirst(bytes, i, end, these, First(bytes, i, end, these))
<1> DEFINE S == {j \in i .. (end - 1) : bytes[j] \in these}
<1>1. CASE S = {}
  <2>1. First(bytes, i, end, these) = end
    BY <1>1 DEF First
  <2>2. QED
    BY <1>1, <2>1 DEF IsFirst
<1>2. CASE S /= {}
  <2>1. S \in SUBSET Nat
    OBVIOUS
  <2>2. PICK j \in S : \A k \in S : j <= k
    <3> HIDE DEF S
    <3> QED  BY <1>2, <2>1, LeastIn
  <2>3. \A k \in i .. (j - 1) : bytes[k] \notin these
    BY <2>2
  <2>4. \E x \in i .. (end - 1) : bytes[x] \in these /\ \A k \in i .. (x - 1) : bytes[k] \notin these
    BY <2>2, <2>3
  <2>5. QED
    BY <2>4 DEF First, IsFirst
<1>3. QED
  BY <1>1, <1>2

LEMMA FirstUnique ==
  ASSUME NEW bytes, NEW these, NEW i \in Nat, NEW end \in Nat, i <= end,
         NEW j, IsFirst(bytes, i, end, these, j)
  PROVE  First(bytes, i, end, these) = j
<1> DEFINE f == First(bytes, i, end, these)
<1>1. IsFirst(bytes, i, end, these, f)
  BY FirstIs
<1> HIDE DEF f
<1>2. ~(f < j) /\ ~(j < f)
  BY <1>1 DEF IsFirst
<1>3. f = j
  BY <1>1, <1>2 DEF IsFirst
<1> QED
  BY <1>3 DEF f

\* Where strtok() finds its words.
WordsFound(bytes, w) ==
  /\ w.end \in 1 .. (Len(bytes) + 1) /\ w.first \in 1 .. w.end /\ w.stop \in w.first .. w.end
  /\ w.second \in w.stop .. w.end /\ w.last \in w.second .. w.end
  /\ \A k \in 1 .. (w.end - 1) : bytes[k] /= Nul
  /\ \A k \in w.first .. (w.stop - 1) : bytes[k] /= Dash
  /\ \A k \in 1 .. (w.first - 1) : bytes[k] = Dash
  /\ w.second < w.end => w.first < w.stop /\ w.stop < w.second

LEMMA WordsWhere == ASSUME NEW bytes \in Seq(Int)
                    PROVE  WordsFound(bytes, Words(bytes))
<1> DEFINE n      == Len(bytes) + 1
           end    == EndOf(bytes)
           first  == First(bytes, 1, end, NoDash)
           stop   == First(bytes, first, end, {Dash})
           second == IF stop = end THEN end ELSE First(bytes, stop + 1, end, NoDash)
           last   == First(bytes, second, end, {Dash})
<1>1. Words(bytes) = [first |-> first, stop |-> stop, second |-> second, last |-> last, end |-> end]
  BY Zenon DEF Words
<1>2. n \in Nat /\ 1 <= n
  OBVIOUS
<1>3. IsFirst(bytes, 1, n, {Nul}, end)
  BY <1>2, FirstIs DEF EndOf
<1>4. end \in Nat /\ 1 <= end /\ end <= n /\ \A k \in 1 .. (end - 1) : bytes[k] /= Nul
  BY <1>2, <1>3 DEF IsFirst
<1> HIDE DEF n, end
<1>5. IsFirst(bytes, 1, end, NoDash, first)
  BY <1>4, FirstIs
<1>6. first \in Nat /\ 1 <= first /\ first <= end
  BY <1>4, <1>5 DEF IsFirst
<1> HIDE DEF first
<1>7. IsFirst(bytes, first, end, {Dash}, stop)
  BY <1>4, <1>6, FirstIs
<1>8. stop \in Nat /\ first <= stop /\ stop <= end
  BY <1>4, <1>6, <1>7 DEF IsFirst
<1> HIDE DEF stop
<1>9. second \in Nat /\ stop <= second /\ second <= end /\ (second < end => stop < second)
  <2>1. CASE stop = end
    BY <2>1, <1>4
  <2>2. CASE stop /= end
    <3>1. stop + 1 \in Nat /\ stop + 1 <= end
      BY <2>2, <1>4, <1>8
    <3>2. IsFirst(bytes, stop + 1, end, NoDash, First(bytes, stop + 1, end, NoDash))
      BY <1>4, <3>1, FirstIs
    <3>3. First(bytes, stop + 1, end, NoDash) \in (stop + 1) .. end
      BY <3>2 DEF IsFirst
    <3>4. QED
      BY <2>2, <1>4, <1>8, <3>3
  <2>3. QED
    BY <2>1, <2>2
<1> HIDE DEF second
<1>10. IsFirst(bytes, second, end, {Dash}, last)
  BY <1>4, <1>9, FirstIs
<1>11. last \in second .. end
  BY <1>10 DEF IsFirst
<1> HIDE DEF last
<1>12. second < end => first < stop
  <2>1. CASE first < end
    <3>1. bytes[first] \in NoDash
      BY <1>5, <2>1 DEF IsFirst
    <3>2. stop < end => bytes[stop] = Dash
      BY <1>7 DEF IsFirst
    <3>3. stop /= first
      BY <2>1, <3>1, <3>2 DEF NoDash
    <3>4. QED
      BY <1>6, <1>8, <3>3
  <2>2. CASE ~(first < end)
    BY <2>2, <1>4, <1>6, <1>8, <1>9
  <2>3. QED
    BY <2>1, <2>2
<1>13. \A k \in first .. (stop - 1) : bytes[k] /= Dash
  BY <1>7 DEF IsFirst
<1>14. \A k \in 1 .. (first - 1) : bytes[k] = Dash
  <2>1. ASSUME NEW k \in 1 .. (first - 1)  PROVE bytes[k] = Dash
    <3>1. bytes[k] \in Int /\ bytes[k] \notin NoDash
      BY <1>2, <1>4, <1>5, <1>6 DEF IsFirst, n
    <3>2. QED
      BY <3>1 DEF NoDash
  <2>2. QED
    BY <2>1
<1>15. QED
  BY <1>1, <1>2, <1>4, <1>6, <1>8, <1>9, <1>11, <1>12, <1>13, <1>14 DEF WordsFound, n

\* A stretch of a string of integers, empty or inside it, is a string of integers.
LEMMA StretchTyped == ASSUME NEW s \in Seq(Int), NEW i \in Int, NEW j \in Int,
                             1 <= i, j <= Len(s)
                      PROVE  SubSeq(s, i, j) \in Seq(Int)
<1>1. CASE i <= j
  <2>1. \A k \in i .. j : s[k] \in Int
    BY <1>1
  <2>2. QED
    BY <1>1, <2>1
<1>2. CASE i > j
  BY <1>2
<1>3. QED
  BY <1>1, <1>2

\* The hours of a window are unsigned ints, whatever the words are.
LEMMA WindowTyped == ASSUME NEW bytes \in Seq(Int)
                     PROVE  Start(bytes) \in UInt /\ Close(bytes) \in UInt /\ Cut(bytes) \in Seq(Int)
<1> DEFINE w == Words(bytes)
           one == SubSeq(bytes, w.first, w.stop - 1)
           two == SubSeq(bytes, w.second, w.last - 1)
<1>1. WordsFound(bytes, w)
  BY WordsWhere
<1> HIDE DEF w
<1>2. one \in Seq(Int) /\ two \in Seq(Int)
  <2>1. /\ w.first \in Int /\ w.stop \in Int /\ 1 <= w.first /\ w.stop - 1 <= Len(bytes)
        /\ w.second \in Int /\ w.last \in Int /\ 1 <= w.second /\ w.last - 1 <= Len(bytes)
    BY <1>1 DEF WordsFound
  <2>2. one \in Seq(Int)
    BY <2>1, StretchTyped
  <2>3. two \in Seq(Int)
    BY <2>1, StretchTyped
  <2>4. QED
    BY <2>2, <2>3
<1> HIDE DEF one, two
<1>3. Atol(one) \in Int /\ Atol(two) \in Int
  BY <1>2, AtolRange, ArgumentsAssumption
<1>4. Atol(one) % UIntRange \in UInt /\ Atol(two) % UIntRange \in UInt
  BY <1>3, Modulo, ArgumentsAssumption DEF UInt
<1>5. Start(bytes) \in UInt /\ Close(bytes) \in UInt
  BY <1>4 DEF Start, Close, one, two, w
<1>6. Cut(bytes) \in Seq(Int)
  BY DEF Cut, Nul
<1>7. QED
  BY <1>5, <1>6

\* The cut string ends with its first word.
LEMMA CutEnds == ASSUME NEW bytes \in Seq(Int), HasTwoWords(bytes), NEW more \in Seq(Int)
                 PROVE  /\ EndOf(Cut(bytes) \o more) = Words(bytes).stop
                        /\ Words(bytes).stop \in 2 .. Len(bytes)
                        /\ Cut(bytes) \o more \in Seq(Int)
                        /\ \A k \in 1 .. (Words(bytes).stop - 1) : (Cut(bytes) \o more)[k] = bytes[k]
<1> DEFINE w == Words(bytes)
           c == Cut(bytes) \o more
<1>1. WordsFound(bytes, w) /\ w.second < w.end
  BY WordsWhere DEF HasTwoWords
<1>2. Cut(bytes) \in Seq(Int) /\ Len(Cut(bytes)) = Len(bytes)
  BY WindowTyped DEF Cut
<1>3. c \in Seq(Int) /\ Len(c) >= Len(bytes) /\ \A k \in 1 .. Len(bytes) : c[k] = Cut(bytes)[k]
  BY <1>2
<1>4. \A k \in 1 .. Len(bytes) : c[k] = IF k \in {w.stop, w.last} THEN Nul ELSE bytes[k]
  BY <1>3 DEF Cut
<1> HIDE DEF w, c
<1>5. w.stop \in 2 .. Len(bytes)
  BY SMTT(30), <1>1 DEF WordsFound
<1>6. ASSUME NEW k \in 1 .. (w.stop - 1)  PROVE c[k] = bytes[k] /\ c[k] /= Nul
  <2>1. w.last \in Int /\ w.stop < w.last /\ w.end \in Int /\ w.stop < w.end
    BY SMTT(30), <1>1 DEF WordsFound
  <2>2. k \in 1 .. Len(bytes) /\ k \in 1 .. (w.end - 1) /\ k /= w.stop /\ k /= w.last
    BY SMTT(30), <1>5, <2>1
  <2>3. bytes[k] /= Nul
    BY <1>1, <2>2 DEF WordsFound
  <2>4. QED
    BY <1>4, <2>2, <2>3
<1>7. IsFirst(c, 1, Len(c) + 1, {Nul}, w.stop)
  <2>1. Len(c) \in Nat /\ Len(bytes) \in Nat
    BY <1>3
  <2>2. w.stop \in 1 .. (Len(c) + 1)
    BY <1>3, <1>5, <2>1
  <2>3. c[w.stop] \in {Nul}
    BY <1>4, <1>5, <2>1
  <2>4. \A k \in 1 .. (w.stop - 1) : c[k] \notin {Nul}
    BY <1>6
  <2>5. QED
    BY <2>2, <2>3, <2>4 DEF IsFirst
<1>8. EndOf(c) = w.stop
  <2>1. Len(c) + 1 \in Nat /\ 1 <= Len(c) + 1
    BY <1>3
  <2>2. QED
    BY <2>1, <1>7, FirstUnique DEF EndOf
<1>9. QED
  BY <1>3, <1>5, <1>6, <1>8 DEF w, c

\* Nothing that is appended to a cut string gives it a second word again.
LEMMA CutHasOneWord == ASSUME NEW bytes \in Seq(Int), HasTwoWords(bytes), NEW more \in Seq(Int)
                       PROVE  ~HasTwoWords(Cut(bytes) \o more)
<1> DEFINE w == Words(bytes)
           c == Cut(bytes) \o more
           v == Words(c)
<1>1. WordsFound(bytes, w) /\ w.second < w.end
  BY WordsWhere DEF HasTwoWords
<1>2. EndOf(c) = w.stop /\ c \in Seq(Int) /\ \A k \in 1 .. (w.stop - 1) : c[k] = bytes[k]
  BY CutEnds
<1>3. WordsFound(c, v)
  BY <1>2, WordsWhere
<1>4. v.end = w.stop
  BY <1>2 DEF Words
<1>5. v.second < v.end => v.stop < v.end /\ c[v.stop] = Dash
  <2> DEFINE first == First(c, 1, EndOf(c), NoDash)
             stop  == First(c, first, EndOf(c), {Dash})
  <2>1. v.first = first /\ v.stop = stop
    BY DEF Words
  <2>2. IsFirst(c, first, EndOf(c), {Dash}, stop)
    BY <1>2, <1>3, <1>4, <2>1, FirstIs DEF WordsFound
  <2> HIDE DEF v, c
  <2>3. QED
    BY <1>2, <1>3, <1>4, <2>1, <2>2 DEF WordsFound, IsFirst
<1> HIDE DEF w, c, v
<1>6. ~(v.second < v.end)
  <2> SUFFICES ASSUME v.second < v.end PROVE FALSE
    OBVIOUS
  <2>1. w.stop \in Nat /\ w.first \in Nat /\ \A k \in w.first .. (w.stop - 1) : bytes[k] /= Dash
    BY <1>1 DEF WordsFound
  <2>2. /\ v.first \in Nat /\ v.stop \in Nat /\ 1 <= v.first /\ v.first < v.stop /\ v.stop < w.stop
        /\ c[v.stop] = Dash
        /\ \A k \in v.first .. (v.stop - 1) : c[k] /= Dash
    BY <1>3, <1>4, <1>5 DEF WordsFound
  <2>3. v.stop \in 1 .. (w.stop - 1) /\ v.first \in 1 .. (w.stop - 1)
    BY <2>1, <2>2
  <2>4. bytes[v.stop] = Dash /\ c[v.first] = bytes[v.first]
    BY <1>2, <2>2, <2>3
  <2>5. v.stop < w.first
    <3>1. v.stop \notin w.first .. (w.stop - 1)
      BY <2>1, <2>4, Zenon
    <3>2. QED
      BY <2>1, <2>2, <3>1
  <2>6. bytes[v.first] = Dash
    BY SMTT(30), <1>1, <2>1, <2>2, <2>5 DEF WordsFound
  <2>7. v.first \in v.first .. (v.stop - 1)
    BY <2>2
  <2>8. QED
    BY <2>2, <2>4, <2>6, <2>7, Zenon
<1>7. QED
  BY <1>6 DEF HasTwoWords, v, c

\* What is shown of a cut string is its first word and what comes before it.
LEMMA CutShown == ASSUME NEW bytes \in Seq(Int), HasTwoWords(bytes)
                  PROVE  CString(Cut(bytes)) = SubSeq(bytes, 1, Words(bytes).stop - 1)
<1>1. Cut(bytes) \in Seq(Int) /\ << >> \in Seq(Int) /\ Len(Cut(bytes)) = Len(bytes)
  BY WindowTyped DEF Cut
<1>2. Cut(bytes) \o << >> = Cut(bytes)
  BY <1>1
<1>3. /\ EndOf(Cut(bytes) \o << >>) = Words(bytes).stop
      /\ Words(bytes).stop \in 2 .. Len(bytes)
      /\ \A k \in 1 .. (Words(bytes).stop - 1) : (Cut(bytes) \o << >>)[k] = bytes[k]
  BY <1>1, CutEnds
<1>4. SubSeq(Cut(bytes), 1, Words(bytes).stop - 1) = SubSeq(bytes, 1, Words(bytes).stop - 1)
  BY <1>1, <1>2, <1>3
<1>5. EndOf(Cut(bytes)) = Words(bytes).stop
  BY <1>2, <1>3
<1>6. QED
  BY <1>4, <1>5 DEF CString

-----------------------------------------------------------------------------
(* Options.                                                                 *)

Entries == Numeric \cup Boolean

\* An argument is one of Items.
LEMMA ItemTyped == ASSUME TypeOK, NEW i \in 1 .. Len(argv)
                   PROVE  /\ argv[i] \in Items /\ argv[i].value \in Seq(Int)
                          /\ argv[i].opt \in Options /\ argv[i].short \in BOOLEAN
BY ArgumentsAssumption DEF TypeOK

\* An option that was given has a last place.
LEMMA LastTyped ==
  ASSUME TypeOK, NEW o, Those(o) /= {}
  PROVE  Last(o) \in 1 .. Len(argv) /\ argv[Last(o)].value \in Seq(Int)
<1> DEFINE S == Those(o)
           Bounds == {k \in Nat : \A j \in S : j <= k}
<1>1. S \subseteq 1 .. Len(argv) /\ Len(argv) \in Nat
  BY DEF Those, Taken, TypeOK
<1>2. Len(argv) \in Bounds
  BY <1>1
<1> HIDE DEF S
<1>3. PICK k \in Bounds : \A b \in Bounds : k <= b
  <2>1. Bounds \in SUBSET Nat /\ Bounds /= {}
    BY <1>2
  <2> HIDE DEF Bounds
  <2>2. QED
    BY <2>1, LeastIn
<1>4. k \in S
  <2> SUFFICES ASSUME k \notin S PROVE FALSE
    OBVIOUS
  <2>1. PICK j \in S : j <= k
    BY <1>3 DEF S
  <2>2. k - 1 \in Bounds
    BY <1>1, <1>3, <2>1
  <2>3. QED
    BY <1>3, <2>2
<1>5. \E i \in S : \A j \in S : j <= i
  BY <1>3, <1>4
<1>6. Last(o) \in S
  BY <1>5 DEF Last, S
<1>7. QED
  BY <1>1, <1>6, ItemTyped

\* What a value means is of the type of its setting.
LEMMA ReadsTyped ==
  ASSUME NEW value \in Seq(Int)
  PROVE  /\ \A e \in {"run", "sleep"} : Reads(e, value) = Minutes(value)
         /\ Reads("gpio", value) \in 0 .. (UCharRange - 1)
         /\ Reads("port", value) \in 0 .. (UShortRange - 1)
         /\ \A e \in Boolean : Reads(e, value) \in BOOLEAN
<1>1. Atol(value) \in Int
  BY AtolRange, ArgumentsAssumption
<1>2. Atol(value) % UCharRange \in 0 .. (UCharRange - 1) /\ Atol(value) % UShortRange \in 0 .. (UShortRange - 1)
  BY <1>1, Modulo, ArgumentsAssumption
<1>3. QED
  BY <1>2 DEF Reads, Boolean

LEMMA SettingTyped ==
  ASSUME set \in Settings, NEW e \in Entries, NEW value \in Seq(Int),
         set' = [set EXCEPT ![e] = Reads(e, value)]
  PROVE  set' \in Settings /\ set'.start = set.start /\ set'.end = set.end
<1>1. CASE e = "run"
  <2>1. set' = [set EXCEPT !.run = Minutes(value)]
    BY <1>1, ReadsTyped
  <2>2. QED
    BY <2>1, MinutesRange DEF Settings
<1>2. CASE e = "sleep"
  <2>1. set' = [set EXCEPT !.sleep = Minutes(value)]
    BY <1>2, ReadsTyped
  <2>2. QED
    BY <2>1, MinutesRange DEF Settings
<1>3. CASE e = "gpio"
  BY <1>3, ReadsTyped DEF Settings
<1>4. CASE e = "port"
  BY <1>4, ReadsTyped DEF Settings
<1>5. CASE e = "daemon"
  BY <1>5, ReadsTyped DEF Settings, Boolean
<1>6. CASE e = "random"
  BY <1>6, ReadsTyped DEF Settings, Boolean
<1>7. QED
  BY <1>1, <1>2, <1>3, <1>4, <1>5, <1>6 DEF Entries, Numeric, Boolean

\* Going on to the next argument takes this one.
LEMMA TakesOne ==
  ASSUME TypeOK, next <= Len(argv), GoOn, NEW o
  PROVE  /\ Taken' = Taken \cup {next} /\ next \notin Taken /\ argv' = argv
         /\ Item.opt = o  => Those(o)' = Those(o) \cup {next} /\ Last(o)' = next
         /\ Item.opt /= o => Those(o)' = Those(o) /\ Last(o)' = Last(o)
<1>1. /\ next \in 1 .. Len(argv) /\ next' = next + 1 /\ argv' = argv
      /\ Taken \in SUBSET Nat /\ \A i \in Taken : i < next
  BY DEF TypeOK, GoOn, Taken
<1>2. Taken' = Taken \cup {next} /\ next \notin Taken
  BY <1>1 DEF Taken
<1>3. ASSUME Item.opt /= o  PROVE Those(o)' = Those(o) /\ Last(o)' = Last(o)
  <2>1. Those(o)' = Those(o)
    BY <1>1, <1>2, <1>3 DEF Those, Item
  <2>2. QED
    BY <2>1 DEF Last
<1>4. ASSUME Item.opt = o  PROVE Those(o)' = Those(o) \cup {next} /\ Last(o)' = next
  <2>1. Those(o)' = Those(o) \cup {next}
    BY <1>1, <1>2, <1>4 DEF Those, Item
  <2>2. \A i \in Those(o) \cup {next} : i \in Nat /\ i <= next
    BY <1>1 DEF Those
  <2>3. next \in Those(o)' /\ \A i \in Those(o)' : (\A j \in Those(o)' : j <= i) <=> i = next
    BY <1>1, <2>1, <2>2
  <2>4. QED
    BY <2>1, <2>3 DEF Last
<1>5. QED
  BY <1>1, <1>2, <1>3, <1>4

\* No argument taken so far has ended the parsing, and this one does not.
LEMMA GoesOn ==
  ASSUME TypeOK, NoneEnded, status = "parsing", next <= Len(argv), GoOn, ~Ends(next)
  PROVE  NoneEnded' /\ OutcomeByFirstEnd'
<1>1. status' = "parsing" /\ argv' = argv
  BY DEF GoOn
<1>2. Taken' = Taken \cup {next}
  BY TakesOne
<1>3. \A i \in Taken' : ~Ends(i)'
  BY <1>1, <1>2 DEF NoneEnded, Ends, Refuses, Breaks, Lacks, Second
<1>4. QED
  BY <1>1, <1>3 DEF NoneEnded, OutcomeByFirstEnd

\* This one does.
LEMMA StopsHere ==
  ASSUME TypeOK, NoneEnded, status = "parsing", next <= Len(argv), Ends(next), NEW how,
         Stop(how), how /= "parsing",
         how = IF Refuses(next) THEN "usage" ELSE IF Breaks(next) THEN "crashed" ELSE "parsed"
  PROVE  OutcomeByFirstEnd'
<1> DEFINE ends == {i \in 1 .. Len(argv) : Ends(i)}
           i    == CHOOSE i \in ends : \A j \in ends : i <= j
<1>1. argv' = argv /\ status' = how
  BY DEF Stop
<1>2. next \in ends /\ \A j \in ends : j \in Nat /\ next <= j
  BY DEF TypeOK, NoneEnded, Taken
<1>3. \A k \in ends : (\A j \in ends : k <= j) <=> k = next
  BY <1>2
<1>4. i = next
  BY <1>2, <1>3
<1>5. ends /= {}
  BY <1>2
<1> HIDE DEF i
<1>6. status' = IF ends = {} THEN "parsed"
                ELSE IF Refuses(i) THEN "usage"
                ELSE IF Breaks(i) THEN "crashed" ELSE "parsed"
  BY <1>1, <1>4, <1>5
<1> USE DEF i
<1>7. \A k : (Ends(k)' <=> Ends(k)) /\ (Refuses(k)' <=> Refuses(k)) /\ (Breaks(k)' <=> Breaks(k))
  BY <1>1, Zenon DEF Ends, Refuses, Breaks, Lacks, Second
<1>8. {k \in 1 .. Len(argv) : Ends(k)}' = ends
  BY <1>1, <1>7
<1>9. OutcomeByFirstEnd'
  <2> SUFFICES ASSUME status' /= "parsing"
               PROVE  status' = IF ends = {} THEN "parsed"
                                ELSE IF Refuses(i)' THEN "usage"
                                ELSE IF Breaks(i)' THEN "crashed" ELSE "parsed"
    BY <1>8, Zenon DEF OutcomeByFirstEnd
  <2> QED
    BY <1>6, <1>7, <1>8, Zenon
<1>10. QED
  BY <1>9
-----------------------------------------------------------------------------
(* The steps of parse_arguments().                                          *)

\* All of the state but the status is as it was.
LEMMA Stops ==
  ASSUME ArgInv, next <= Len(argv), status = "parsing", Ends(next), NEW how, Stop(how),
         how \in {"parsed", "usage", "crashed"},
         how = IF Refuses(next) THEN "usage" ELSE IF Breaks(next) THEN "crashed" ELSE "parsed"
  PROVE  ArgInv'
<1>1. OutcomeByFirstEnd'
  BY StopsHere DEF ArgInv
<1>2. argv' = argv /\ next' = next /\ set' = set /\ upText' = upText /\ status' = how
  BY DEF Stop
<1>3. \A o : Those(o)' = Those(o) /\ Last(o)' = Last(o)
  BY <1>2 DEF Those, Taken, Last
<1>4. TypeOK'
  BY <1>2 DEF ArgInv, TypeOK
<1>5. LastOptionWins'
  BY <1>2, <1>3 DEF ArgInv, LastOptionWins
<1>6. UpTextInv'
  BY <1>2, <1>3 DEF ArgInv, UpTextInv, GaveWindow
<1>7. NoneEnded'
  BY <1>2 DEF NoneEnded
<1>8. QED
  BY <1>1, <1>4, <1>5, <1>6, <1>7 DEF ArgInv

\* An option with a value writes its own setting and no other.
LEMMA SettingStep ==
  ASSUME ArgInv, NEW e \in Entries, Given({e}), Setting(e, Reads(e, Item.value))
  PROVE  ArgInv'
<1>1. /\ TypeOK /\ LastOptionWins /\ UpTextInv /\ NoneEnded
      /\ status = "parsing" /\ next <= Len(argv) /\ next \in 1 .. Len(argv) /\ Item.opt = e /\ ~Lacks(Item)
      /\ GoOn /\ set' = [set EXCEPT ![e] = Reads(e, Item.value)] /\ upText' = upText
  BY DEF ArgInv, Given, Is, Setting, TypeOK
<1>2. Item.value \in Seq(Int)
  BY <1>1, ItemTyped DEF Item
<1>3. set' \in Settings /\ set'.start = set.start /\ set'.end = set.end
  BY <1>1, <1>2, SettingTyped DEF TypeOK
<1>4. TypeOK'
  BY <1>1, <1>3 DEF TypeOK, GoOn
<1>5. e /= "up_time" /\ e \notin Refused /\ e /= "--"
  BY DEF Entries, Numeric, Boolean, Refused
<1>6. LastOptionWins'
  <2> SUFFICES ASSUME NEW o \in Entries
               PROVE  (set[o] = IF Those(o) = {} THEN Default[o]
                                ELSE Reads(o, argv[Last(o)].value))'
    BY DEF LastOptionWins, Entries
  <2>1. CASE o = e
    <3>1. Those(o)' /= {} /\ Last(o)' = next /\ argv' = argv
      BY <1>1, <2>1, TakesOne
    <3>2. set'[e] = Reads(e, Item.value)
      BY <1>1 DEF TypeOK, Settings, Entries, Numeric, Boolean
    <3>3. QED
      BY <2>1, <3>1, <3>2 DEF Item, Reads, Minutes, Atol, Number
  <2>2. CASE o /= e
    <3>1. Those(o)' = Those(o) /\ Last(o)' = Last(o) /\ argv' = argv
      BY <1>1, <2>2, TakesOne
    <3>2. set'[o] = set[o]
      BY <1>1, <2>2 DEF TypeOK, Settings, Entries, Numeric, Boolean
    <3>3. QED
      BY <1>1, <3>1, <3>2 DEF LastOptionWins, Entries
  <2>3. QED
    BY <2>1, <2>2
<1>7. UpTextInv'
  <2>1. Those("up_time")' = Those("up_time") /\ argv' = argv
    BY <1>1, <1>5, TakesOne
  <2>2. QED
    BY <1>1, <1>3, <2>1 DEF UpTextInv, GaveWindow
<1>8. ~Ends(next)
  BY <1>1, <1>5 DEF Ends, Refuses, Breaks, Item
<1>9. QED
  BY <1>1, <1>3, <1>4, <1>6, <1>7, <1>8, GoesOn DEF ArgInv

\* A word that is no option changes nothing.
LEMMA WordStep == ASSUME ArgInv, Word PROVE ArgInv'
<1>1. /\ TypeOK /\ LastOptionWins /\ UpTextInv /\ NoneEnded
      /\ status = "parsing" /\ next <= Len(argv) /\ next \in 1 .. Len(argv)
      /\ Item.opt = "word" /\ GoOn /\ set' = set /\ upText' = upText
  BY DEF ArgInv, Word, Is, TypeOK
<1>2. TypeOK'
  BY <1>1 DEF TypeOK, GoOn
<1>3. \A o \in Entries \cup {"up_time"} : Those(o)' = Those(o) /\ Last(o)' = Last(o) /\ argv' = argv
  <2>1. ASSUME NEW o \in Entries \cup {"up_time"}
        PROVE  Those(o)' = Those(o) /\ Last(o)' = Last(o) /\ argv' = argv
    <3>1. o /= "word"
      BY DEF Entries, Numeric, Boolean
    <3>2. QED
      BY <1>1, <3>1, TakesOne
  <2>2. QED
    BY <2>1
<1>4. LastOptionWins' /\ UpTextInv'
  BY <1>1, <1>3 DEF LastOptionWins, UpTextInv, GaveWindow, Entries
<1>5. ~Ends(next)
  BY <1>1 DEF Ends, Refuses, Breaks, Lacks, Refused, Valued, Numeric, Boolean, Item
<1>6. QED
  BY <1>1, <1>2, <1>4, <1>5, GoesOn DEF ArgInv

\* After one up_time the text shown leaves no room for another.
LEMMA SecondBreaks ==
  ASSUME ArgInv, NEW value \in Seq(Int), Those("up_time") /= {}
  PROVE  ~HasTwoWords(Appended(value)) /\ upText /= Absent
<1>1. PICK i \in Those("up_time") : argv[i].value \in Seq(Int) /\ GaveWindow(argv[i].value)
  BY DEF ArgInv, UpTextInv
<1> DEFINE bytes == argv[i].value
<1>2. bytes \in Seq(Int) /\ HasTwoWords(bytes) /\ upText = Cut(bytes)
  BY <1>1 DEF GaveWindow
<1> HIDE DEF bytes
<1>3. ~HasTwoWords(Cut(bytes) \o value)
  BY <1>2, CutHasOneWord
<1>4. Cut(bytes) /= Absent
  <2>1. Words(bytes).stop \in 2 .. Len(bytes)
    BY <1>2, CutEnds
  <2>2. Len(bytes) >= 2 /\ Len(bytes) \in Nat
    BY <1>2, <2>1
  <2>3. Len(Cut(bytes)) = Len(bytes)
    BY <1>2 DEF Cut
  <2>4. Len(Absent) = 1
    BY DEF Absent
  <2>5. Len(Cut(bytes)) /= Len(Absent)
    BY <2>2, <2>3, <2>4
  <2>6. QED
    BY <2>5, Zenon
<1>5. QED
  BY <1>2, <1>3, <1>4 DEF Appended
\* The one up_time a command line may have.
LEMMA UpTimeStep == ASSUME ArgInv, UpTime PROVE ArgInv'
<1> DEFINE value == Item.value
<1>1. /\ TypeOK /\ LastOptionWins /\ UpTextInv /\ NoneEnded
      /\ status = "parsing" /\ next <= Len(argv) /\ next \in 1 .. Len(argv)
      /\ Item.opt = "up_time" /\ ~Lacks(Item) /\ GoOn
  BY DEF ArgInv, UpTime, Given, Is, TypeOK
<1>2. value \in Seq(Int)
  BY <1>1, ItemTyped DEF Item
<1>3. HasTwoWords(Appended(value))
  BY Zenon DEF UpTime
<1>4. Those("up_time") = {}
  BY <1>2, <1>3, SecondBreaks
<1>5. Appended(value) = value
  BY <1>1, <1>4 DEF UpTextInv, Appended
<1>6. /\ HasTwoWords(value)
      /\ set' = [set EXCEPT !.start = Start(value), !.end = Close(value)]
      /\ upText' = Cut(value)
  BY <1>5, Zenon DEF UpTime, Start, Close, Cut
<1>7. Start(value) \in UInt /\ Close(value) \in UInt /\ Cut(value) \in Seq(Int)
  BY <1>2, WindowTyped
<1> HIDE DEF value
<1>8. /\ set' \in Settings /\ set'.start = Start(value) /\ set'.end = Close(value)
      /\ \A o \in Entries : set'[o] = set[o]
  BY <1>1, <1>6, <1>7 DEF TypeOK, Settings, Entries, Numeric, Boolean
<1>9. TypeOK'
  BY <1>1, <1>6, <1>7, <1>8 DEF TypeOK, GoOn
<1>10. LastOptionWins'
  <2>1. ASSUME NEW o \in Entries  PROVE Those(o)' = Those(o) /\ Last(o)' = Last(o) /\ argv' = argv
    <3>1. o /= "up_time"
      BY DEF Entries, Numeric, Boolean
    <3>2. QED
      BY <1>1, <3>1, TakesOne
  <2>2. QED
    BY <1>1, <1>8, <2>1 DEF LastOptionWins, Entries
<1>11. UpTextInv'
  <2>1. Those("up_time")' = {next} /\ argv' = argv
    BY <1>1, <1>4, TakesOne
  <2>2. argv[next].value = value
    BY DEF value, Item
  <2>3. QED
    BY <1>2, <1>6, <1>8, <2>1, <2>2 DEF UpTextInv, GaveWindow
<1>12. ~Ends(next)
  <2>1. ~Second(next)
    BY <1>1, <1>4 DEF Second, Those, Taken, TypeOK
  <2>2. QED
    BY <1>1, <1>6, <2>1 DEF Ends, Refuses, Breaks, Refused, Item, value
<1>13. QED
  BY <1>1, <1>9, <1>10, <1>11, <1>12, GoesOn DEF ArgInv

\* The null pointers are those of a missing value or a broken up_time.
LEMMA CrashStep == ASSUME ArgInv, Crash PROVE ArgInv'
<1>1. /\ TypeOK /\ UpTextInv /\ status = "parsing" /\ next <= Len(argv) /\ next \in 1 .. Len(argv)
      /\ Item = argv[next] /\ Item.opt \in Valued /\ Stop("crashed")
  BY DEF ArgInv, Crash, Missing, Given, Is, TypeOK, Valued, Item
<1>2. Item.opt \notin Refused
  BY <1>1 DEF Refused, Valued, Numeric, Boolean
<1>3. CASE Missing(FALSE)
  <2>1. ~Refuses(next) /\ Breaks(next)
    BY <1>1, <1>2, <1>3 DEF Missing, Refuses, Breaks
  <2>2. QED
    BY <1>1, <2>1, Stops DEF Ends
<1>4. CASE Given({"up_time"}) /\ ~HasTwoWords(Appended(Item.value))
  <2>1. ~Refuses(next)
    BY <1>1, <1>2, <1>4 DEF Refuses, Given
  <2>2. Breaks(next)
    <3>1. CASE Those("up_time") = {}
      <4>1. Appended(Item.value) = Item.value
        BY <1>1, <3>1 DEF UpTextInv, Appended
      <4>2. QED
        BY <1>1, <1>4, <4>1 DEF Breaks, Given, Is
    <3>2. CASE Those("up_time") /= {}
      <4>1. Second(next)
        BY <1>1, <3>2 DEF Second, Those, Taken, TypeOK
      <4>2. QED
        BY <1>1, <1>4, <4>1 DEF Breaks, Given, Is
    <3>3. QED
      BY <3>1, <3>2
  <2>3. QED
    BY <1>1, <2>1, <2>2, Stops DEF Ends
<1>5. QED
  BY <1>3, <1>4 DEF Crash

LEMMA UsageStep == ASSUME ArgInv, Usage PROVE ArgInv'
<1>1. /\ status = "parsing" /\ next <= Len(argv) /\ Item = argv[next] /\ Stop("usage")
  BY DEF Usage, Missing, Is, Item
<1>2. Refuses(next)
  BY <1>1 DEF Usage, Missing, Is, Refuses
<1>3. QED
  BY <1>1, <1>2, Stops DEF Ends

LEMMA EndStep == ASSUME ArgInv, End PROVE ArgInv'
<1>1. status = "parsing" /\ Stop("parsed") /\ TypeOK /\ NoneEnded
  BY DEF End, ArgInv
<1>2. CASE next <= Len(argv)
  <2>1. Item = argv[next] /\ Item.opt = "--"
    BY <1>2 DEF End, Item
  <2>2. ~Refuses(next) /\ ~Breaks(next) /\ Ends(next)
    BY <2>1 DEF Refuses, Breaks, Ends, Lacks, Refused, Valued, Numeric, Boolean
  <2>3. QED
    BY <1>1, <1>2, <2>2, Stops
<1>3. CASE ~(next <= Len(argv))
  <2>1. argv' = argv /\ next' = next /\ set' = set /\ upText' = upText /\ status' = "parsed"
    BY <1>1 DEF Stop
  <2>2. {i \in 1 .. Len(argv) : Ends(i)}' = {}
    BY <1>1, <1>3, <2>1 DEF NoneEnded, Taken, TypeOK, Ends, Refuses, Breaks, Lacks, Second
  <2>3. OutcomeByFirstEnd'
    BY <2>1, <2>2, Zenon DEF OutcomeByFirstEnd
  <2>4. \A o : Those(o)' = Those(o) /\ Last(o)' = Last(o)
    BY <2>1 DEF Those, Taken, Last
  <2>5. TypeOK' /\ NoneEnded'
    BY <2>1 DEF ArgInv, TypeOK, NoneEnded
  <2>6. LastOptionWins' /\ UpTextInv'
    BY <2>1, <2>4 DEF ArgInv, LastOptionWins, UpTextInv, GaveWindow
  <2>7. QED
    BY <2>3, <2>5, <2>6 DEF ArgInv
<1>4. QED
  BY <1>2, <1>3

-----------------------------------------------------------------------------
LEMMA ArgInit == Init => ArgInv
<1> SUFFICES ASSUME Init PROVE ArgInv
  OBVIOUS
<1>1. argv \in Seq(Items) /\ Len(argv) \in Nat /\ next = 1 /\ status = "parsing" /\ set = Default /\ upText = Absent
  BY ArgumentsAssumption DEF Init
<1>2. Absent \in Seq(Int)
  BY DEF Absent
<1>3. TypeOK
  BY <1>1, <1>2, ArgumentsAssumption DEF TypeOK
<1>4. Taken = {}
  BY <1>1 DEF Taken
<1>5. LastOptionWins /\ UpTextInv /\ NoneEnded /\ OutcomeByFirstEnd
  BY <1>1, <1>4 DEF LastOptionWins, UpTextInv, NoneEnded, OutcomeByFirstEnd, Those
<1>6. QED
  BY <1>3, <1>5 DEF ArgInv

LEMMA ArgStep == ArgInv /\ [Next]_vars => ArgInv'
<1> SUFFICES ASSUME ArgInv, [Next]_vars PROVE ArgInv'
  OBVIOUS
<1>1. \A value : Reads("run", value) = Minutes(value) /\ Reads("sleep", value) = Minutes(value)
                /\ Reads("gpio", value) = Atol(value) % UCharRange
                /\ Reads("port", value) = Atol(value) % UShortRange
                /\ Reads("daemon", value) = (value = True)
                /\ Reads("random", value) = (value = True)
  BY DEF Reads, Boolean
<1>2. Entries = {"run", "sleep", "gpio", "port", "daemon", "random"}
  BY DEF Entries, Numeric, Boolean
<1>3. CASE Run
  BY <1>1, <1>2, <1>3, SettingStep DEF Run
<1>4. CASE Sleep
  BY <1>1, <1>2, <1>4, SettingStep DEF Sleep
<1>5. CASE Gpio
  BY <1>1, <1>2, <1>5, SettingStep DEF Gpio
<1>6. CASE Port
  BY <1>1, <1>2, <1>6, SettingStep DEF Port
<1>7. CASE Daemon
  BY <1>1, <1>2, <1>7, SettingStep DEF Daemon
<1>8. CASE Random
  BY <1>1, <1>2, <1>8, SettingStep DEF Random
<1>9. CASE UpTime
  BY <1>9, UpTimeStep
<1>10. CASE Crash
  BY <1>10, CrashStep
<1>11. CASE Usage
  BY <1>11, UsageStep
<1>12. CASE Word
  BY <1>12, WordStep
<1>13. CASE End
  BY <1>13, EndStep
<1>14. CASE UNCHANGED vars
  <2>1. argv' = argv /\ next' = next /\ set' = set /\ upText' = upText /\ status' = status
    BY <1>14 DEF vars
  <2>2. \A o : Those(o)' = Those(o) /\ Last(o)' = Last(o)
    BY <2>1 DEF Those, Taken, Last
  <2>3. TypeOK'
    BY <2>1 DEF ArgInv, TypeOK
  <2>4. LastOptionWins' /\ UpTextInv'
    BY <2>1, <2>2 DEF ArgInv, LastOptionWins, UpTextInv, GaveWindow
  <2>5. \A k : (Ends(k)' <=> Ends(k)) /\ (Refuses(k)' <=> Refuses(k)) /\ (Breaks(k)' <=> Breaks(k))
    BY <2>1, Zenon DEF Ends, Refuses, Breaks, Lacks, Second
  <2>6. NoneEnded'
    BY <2>1, <2>5 DEF ArgInv, NoneEnded, Taken
  <2>7. {k \in 1 .. Len(argv) : Ends(k)}' = {k \in 1 .. Len(argv) : Ends(k)}
    BY <2>1, <2>5
  <2>8. OutcomeByFirstEnd'
    BY <2>1, <2>5, <2>7, Zenon DEF ArgInv, OutcomeByFirstEnd
  <2>9. QED
    BY <2>3, <2>4, <2>6, <2>8 DEF ArgInv
<1>15. QED
  BY <1>3, <1>4, <1>5, <1>6, <1>7, <1>8, <1>9, <1>10, <1>11, <1>12, <1>13, <1>14 DEF Next

LEMMA ArgInvHolds == Spec => []ArgInv
BY ArgInit, ArgStep, PTL DEF Spec

-----------------------------------------------------------------------------
\* No argument makes a setting leave its type: every conversion of atol()'s
\* long is one to the width of its setting.
THEOREM TypesHold == Spec => []TypeOK
<1>1. ArgInv => TypeOK
  BY DEF ArgInv
<1>2. QED
  BY <1>1, ArgInvHolds, PTL

\* On every machine, a pause asked for by the command line lasts as long as was
\* asked, and at least a minute, unless so many seconds are more than an unsigned
\* int can hold.
THEOREM PausesLastHolds == Spec => []PausesLast
<1>1. ArgInv => PausesLast
  <2> SUFFICES ASSUME ArgInv PROVE PausesLast
    OBVIOUS
  <2>1. ASSUME NEW e \in {"run", "sleep"}
        PROVE  Asked(e) \in Nat \ {0} /\ set[e] = Asked(e) % UIntRange
    <3>1. CASE Those(e) = {}
      <4>1. set[e] = Default[e] /\ Asked(e) = Default[e]
        BY <2>1, <3>1 DEF ArgInv, LastOptionWins, Numeric, Asked
      <4>2. Default[e] \in UInt /\ Default[e] >= 1
        BY <2>1, ArgumentsAssumption DEF Settings
      <4> DEFINE d == Default[e]
      <4>3. d \in 0 .. (UIntRange - 1) /\ d \in Nat \ {0} /\ UIntRange \in Nat \ {0}
        BY <4>2, ArgumentsAssumption DEF UInt
      <4> HIDE DEF d
      <4>4. d % UIntRange = d
        BY <4>3, Modulo
      <4>5. QED
        BY <4>1, <4>3, <4>4 DEF d
    <3>2. CASE Those(e) /= {}
      <4> DEFINE value == argv[Last(e)].value
      <4>1. set[e] = Minutes(value) /\ Asked(e) = AtLeastOne(Atol(value))
        <5>1. set[e] = Reads(e, value)
          BY <2>1, <3>2, Zenon DEF ArgInv, LastOptionWins, Numeric
        <5>2. \A v : Reads(e, v) = Minutes(v)
          BY <2>1 DEF Reads, Boolean
        <5>3. QED
          BY <3>2, <5>1, <5>2, Zenon DEF Asked
      <4>2. value \in Seq(Int)
        BY <2>1, <3>2, LastTyped DEF ArgInv
      <4> HIDE DEF value
      <4>3. QED
        BY <4>1, <4>2, MinutesRange
    <3>3. QED
      BY <3>1, <3>2
  <2>2. Lasts(set.run, Asked("run"))
    BY <2>1, SecondsKept DEF Lasts
  <2>3. ASSUME NEW r \in 0 .. (RandomRange - 1), (r + Asked("sleep")) * MinuteSeconds < UIntRange
        PROVE  Seconds(RandomTime(r)) = (r + Asked("sleep")) * MinuteSeconds
    <3> DEFINE m == r + Asked("sleep")
    <3>1. m \in Nat /\ m >= Asked("sleep") /\ Asked("sleep") \in Nat \ {0}
      BY <2>1, <2>3, ArgumentsAssumption
    <3>2. m * MinuteSeconds < UIntRange
      BY <2>3
    <3>3. m < UIntRange /\ m % UIntRange = m /\ Seconds(m) = m * MinuteSeconds
      <4> HIDE DEF m
      <4> QED  BY <3>1, <3>2, SecondsKept
    <3> DEFINE a == Asked("sleep")
    <3>4. a \in 0 .. (UIntRange - 1) /\ UIntRange \in Nat \ {0} /\ set.sleep = a % UIntRange
      BY <2>1, <3>1, <3>3, ArgumentsAssumption
    <3>5. set.sleep = a
      <4>1. a \in Int
        BY <3>1
      <4> HIDE DEF a
      <4>2. a % UIntRange = a
        BY <3>4, <4>1, Modulo
      <4>3. QED
        BY <3>4, <4>2
    <3>6. RandomTime(r) = m
      BY <3>3, <3>5 DEF RandomTime
    <3>7. QED
      BY <3>3, <3>6
  <2>4. QED
    BY <2>1, <2>2, <2>3 DEF PausesLast, Lasts
<1>2. QED
  BY <1>1, ArgInvHolds, PTL

\* Each setting is what the last of its options asked for, in any order of any
\* number of options.
THEOREM LastOptionWinsHolds == Spec => []LastOptionWins
<1>1. ArgInv => LastOptionWins
  BY DEF ArgInv
<1>2. QED
  BY <1>1, ArgInvHolds, PTL

\* A command line with two up_times is never accepted, and what is shown of
\* one is its start.
THEOREM UpTimeOnceHolds == Spec => []UpTimeOnce
<1>1. ArgInv => UpTimeOnce
  <2> SUFFICES ASSUME ArgInv PROVE UpTimeOnce
    OBVIOUS
  <2>1. UpTextInv
    BY DEF ArgInv
  <2>2. ASSUME NEW i \in Those("up_time")
        PROVE  /\ set.start = Start(argv[i].value) /\ set.end = Close(argv[i].value)
               /\ CString(upText) = SubSeq(argv[i].value, 1, Words(argv[i].value).stop - 1)
    BY <2>1, CutShown DEF UpTextInv, GaveWindow
  <2>3. QED
    BY <2>1, <2>2 DEF UpTextInv, UpTimeOnce
<1>2. QED
  BY <1>1, ArgInvHolds, PTL

\* Whether a command line is accepted, refused or crashes the program is
\* settled by the first argument that ends the parsing.
THEOREM OutcomeByFirstEndHolds == Spec => []OutcomeByFirstEnd
<1>1. ArgInv => OutcomeByFirstEnd
  BY DEF ArgInv
<1>2. QED
  BY <1>1, ArgInvHolds, PTL
=============================================================================

------------------------------ MODULE HttpProofs ----------------------------
(***************************************************************************)
(* Proofs about the debug thread and its clients, for any number of        *)
(* clients, any texts, any backlog and any failures of accept().           *)
(***************************************************************************)
EXTENDS HttpServer, Minima, TLAPS

-----------------------------------------------------------------------------
(* Texts.                                                                   *)

\* Find() is the position it is meant to be.
LEMMA FindIs ==
  ASSUME NEW text \in Text, NEW C, NEW i \in 1 .. (Len(text) + 1)
  PROVE  /\ Find(text, i, C) \in i .. (Len(text) + 1)
         /\ IsFind(text, i, C, Find(text, i, C))
<1> DEFINE n == Len(text)
           S == {j \in i .. n : text[j] \in C}
<1>1. n \in Nat /\ i \in Nat /\ 1 <= i /\ i <= n + 1
  BY DEF Text
<1>2. \E j \in i .. (n + 1) : IsFind(text, i, C, j)
  <2>1. CASE S = {}
    <3>1. n + 1 \in i .. (n + 1) /\ IsFind(text, i, C, n + 1)
      BY <1>1, <2>1 DEF IsFind
    <3>2. QED
      BY <3>1
  <2>2. CASE S /= {}
    <3>1. S \in SUBSET Nat
      BY <1>1
    <3>2. PICK j \in S : \A k \in S : j <= k
      <4> HIDE DEF S
      <4> QED  BY <2>2, <3>1, LeastIn
    <3>3. j \in i .. (n + 1) /\ IsFind(text, i, C, j)
      BY <1>1, <3>2 DEF IsFind
    <3>4. QED
      BY <3>3
  <2>3. QED
    BY <2>1, <2>2
<1>3. QED
  BY <1>2 DEF Find

\* A part of a text is a text.
LEMMA PartText == ASSUME NEW text \in Text, NEW i \in 1 .. (Len(text) + 1), NEW j \in 0 .. Len(text)
                  PROVE  SubSeq(text, i, j) \in Text
BY DEF Text

\* clean_string() leaves a part of its text, without the line ends when there
\* was at most one line feed, at its end.
PlainLine(text) == \A i \in 1 .. Len(text) : text[i] \in LineEnds => i = Len(text) /\ text[i] = "LF"
Within(part, text) == \A i \in 1 .. Len(part) : \E j \in 1 .. Len(text) : part[i] = text[j]
Endless(text) == \A i \in 1 .. Len(text) : text[i] \notin LineEnds

LEMMA CutText ==
  ASSUME NEW text \in Text, NEW c
  PROVE  /\ CutAtLast(text, c) \in Text
         /\ Within(CutAtLast(text, c), text)
         /\ PlainLine(text) /\ c = "LF" => Endless(CutAtLast(text, c))
         /\ Endless(text) => Endless(CutAtLast(text, c))
<1> DEFINE at == {i \in 1 .. Len(text) : text[i] = c}
           m  == CHOOSE i \in at : \A j \in at : j <= i
<1>0. Len(text) \in Nat
  BY DEF Text
<1>1. CASE at = {}
  <2>1. CutAtLast(text, c) = text
    BY <1>1 DEF CutAtLast
  <2>2. QED
    BY <1>1, <2>1 DEF Within, PlainLine, Endless
<1>2. CASE at /= {}
  <2> DEFINE M == {Len(text) - i : i \in at}
  <2>1. M \in SUBSET Nat /\ M /= {}
    <3>1. \A i \in at : Len(text) - i \in Nat
      BY <1>0
    <3>2. QED
      BY <1>2, <3>1
  <2>2. PICK x \in M : \A y \in M : x <= y
    <3> HIDE DEF M
    <3> QED  BY <2>1, LeastIn
  <2>3. PICK k \in at : x = Len(text) - k
    BY <2>2
  <2>4. \A j \in at : j <= k
    <3>1. SUFFICES ASSUME NEW j \in at  PROVE j <= k
      OBVIOUS
    <3>2. Len(text) - j \in M
      OBVIOUS
    <3>3. j \in Nat /\ k \in Nat
      BY <1>0
    <3> HIDE DEF M, at
    <3>4. Len(text) - k <= Len(text) - j
      BY <2>2, <2>3, <3>2
    <3>5. QED
      BY <1>0, <3>3, <3>4
  <2>5. m \in at
    BY <2>4
  <2>6. CutAtLast(text, c) = SubSeq(text, 1, m - 1)
    BY <1>2, Zenon DEF CutAtLast
  <2>7. m \in 1 .. Len(text) /\ text[m] = c
    BY <2>5
  <2> HIDE DEF m
  <2>8. /\ SubSeq(text, 1, m - 1) \in Text /\ Len(SubSeq(text, 1, m - 1)) = m - 1
        /\ \A i \in 1 .. (m - 1) : SubSeq(text, 1, m - 1)[i] = text[i]
    BY <1>0, <2>7 DEF Text
  <2>9. Within(SubSeq(text, 1, m - 1), text)
    BY <1>0, <2>7, <2>8 DEF Within
  <2>10. PlainLine(text) /\ c = "LF" => Endless(SubSeq(text, 1, m - 1))
    BY <1>0, <2>7, <2>8 DEF PlainLine, Endless
  <2>11. Endless(text) => Endless(SubSeq(text, 1, m - 1))
    BY <1>0, <2>7, <2>8 DEF Endless
  <2>12. QED
    BY <2>6, <2>8, <2>9, <2>10, <2>11
<1>3. QED
  BY <1>1, <1>2

LEMMA CleanText ==
  ASSUME NEW text \in Text
  PROVE  /\ Clean(text) \in Text
         /\ Within(Clean(text), text)
         /\ PlainLine(text) => Endless(Clean(text))
<1> DEFINE one == CutAtLast(text, "LF")
           two == CutAtLast(one, "CR")
<1>1. one \in Text /\ Within(one, text) /\ (PlainLine(text) => Endless(one))
  BY CutText
<1> HIDE DEF one
<1>2. two \in Text /\ Within(two, one) /\ (Endless(one) => Endless(two))
  BY <1>1, CutText
<1>3. Within(two, text)
  BY <1>1, <1>2 DEF Within, Text
<1>4. Clean(text) = IF StartsWith(two, <<"SP">>) THEN Tail(two) ELSE two
  BY DEF Clean, one
<1> HIDE DEF two
<1>5. CASE StartsWith(two, <<"SP">>)
  <2>1. Len(two) >= 1 /\ two /= <<>>
    BY <1>2, <1>5 DEF StartsWith, Text
  <2>2. Tail(two) \in Text /\ Len(Tail(two)) = Len(two) - 1 /\ \A i \in 1 .. Len(Tail(two)) : Tail(two)[i] = two[i + 1]
    BY <1>2, <2>1 DEF Text
  <2>3. \A i \in 1 .. Len(Tail(two)) : i + 1 \in 1 .. Len(two)
    BY <1>2, <2>1, <2>2 DEF Text
  <2>4. Within(Tail(two), text)
    BY <1>3, <2>2, <2>3 DEF Within
  <2>5. Endless(two) => Endless(Tail(two))
    BY <2>2, <2>3 DEF Endless
  <2>6. QED
    BY <1>1, <1>2, <1>4, <1>5, <2>2, <2>4, <2>5
<1>6. CASE ~StartsWith(two, <<"SP">>)
  BY <1>1, <1>2, <1>3, <1>4, <1>6
<1>7. QED
  BY <1>5, <1>6

\* A header's key and value are texts; those of a plain line hold no line end,
\* and the key not the separator.
LEMMA HeaderParts ==
  ASSUME NEW text \in Text
  PROVE  /\ Key(text) \in Text /\ Value(text) \in Text
         /\ Within(Key(text), text)
         /\ PlainLine(text) => Endless(Key(text)) /\ Endless(Value(text))
         /\ \A i \in 1 .. Len(Key(text)) : Key(text)[i] /= ":"
<1> DEFINE n == Len(text)
           f == Find(text, 1, {":"})
           k == SubSeq(text, 1, f - 1)
           v == SubSeq(text, f + 1, n)
<1>1. n \in Nat /\ 1 \in 1 .. (n + 1)
  BY DEF Text
<1>2. f \in 1 .. (n + 1) /\ IsFind(text, 1, {":"}, f)
  BY <1>1, FindIs
<1> HIDE DEF f
<1>3. /\ k \in Text /\ Len(k) = f - 1 /\ \A i \in 1 .. Len(k) : k[i] = text[i] /\ i \in 1 .. n
      /\ \A i \in 1 .. Len(k) : k[i] /= ":"
  BY <1>1, <1>2 DEF Text, IsFind
<1>4. PlainLine(text) => PlainLine(k)
  BY <1>1, <1>2, <1>3 DEF PlainLine
<1>5. v \in Text /\ (PlainLine(text) => PlainLine(v))
  <2>1. CASE f >= n
    BY <1>1, <1>2, <2>1 DEF Text, PlainLine
  <2>2. CASE f < n
    <3>1. v \in Text /\ Len(v) = n - f /\ \A i \in 1 .. Len(v) : v[i] = text[f + i] /\ f + i \in 1 .. n
      BY <1>1, <1>2, <2>2 DEF Text
    <3>2. PlainLine(text) => PlainLine(v)
      BY <1>1, <1>2, <3>1 DEF PlainLine
    <3>3. QED
      BY <3>1, <3>2
  <2>3. QED
    BY <1>1, <1>2, <2>1, <2>2
<1>6. Key(text) = Clean(k) /\ Value(text) = Clean(v)
  BY DEF Key, Value, f
<1> HIDE DEF k, v
<1>7. /\ Clean(k) \in Text /\ Within(Clean(k), k) /\ (PlainLine(k) => Endless(Clean(k)))
      /\ Clean(v) \in Text /\ (PlainLine(v) => Endless(Clean(v)))
  BY <1>3, <1>5, CleanText
<1>8. \A i \in 1 .. Len(Clean(k)) : Clean(k)[i] /= ":"
  BY <1>3, <1>7 DEF Within
<1>9. Within(Clean(k), text)
  BY <1>3, <1>7 DEF Within
<1>10. QED
  BY <1>4, <1>5, <1>6, <1>7, <1>8, <1>9

\* An empty line has no key.
LEMMA EmptyLine == Key(<<"LF">>) = <<>>
<1>1. <<"LF">> \in Text /\ PlainLine(<<"LF">>)
  BY TokenAssumption DEF Text, PlainLine
<1>2. /\ Key(<<"LF">>) \in Text
      /\ Endless(Key(<<"LF">>)) /\ Within(Key(<<"LF">>), <<"LF">>)
  BY <1>1, HeaderParts
<1>3. Len(Key(<<"LF">>)) = 0
  <2> DEFINE key == Key(<<"LF">>)
  <2>1. ASSUME Len(key) /= 0  PROVE FALSE
    <3>1. 1 \in 1 .. Len(key)
      BY <1>2, <2>1 DEF Text
    <3>2. key[1] = "LF"
      BY <1>2, <3>1 DEF Within
    <3>3. QED
      BY <1>2, <3>1, <3>2 DEF Endless, LineEnds
  <2>2. QED
    BY <2>1
<1>4. QED
  BY <1>2, <1>3 DEF Text

-----------------------------------------------------------------------------
(* Types and blocks.                                                        *)

Turn    == {"recvHeader", "peekHeader", "send", "close", "ended"}
Headers == {"recvHeader", "peekHeader"}

BlocksInv == /\ \A b \in {"path", "response", "headers"} : held[b] = IF spc \in Turn THEN 1 ELSE 0
             /\ held["line"] = IF spc \in Headers THEN 1 ELSE 0

\* What reading a line does to the thread's variables.
LEMMA LineReadKeeps ==
  ASSUME TypeOK, BlocksInv, spc \in Reading, NEW text \in Text, LineRead(text)
  PROVE  /\ request' \in Text /\ line' = <<>> /\ line' \in Text
         /\ DOMAIN headers' \subseteq Text
         /\ \A key \in DOMAIN headers' : headers'[key] \in Text
         /\ held' \in [Blocks -> Nat]
         /\ spc' \in {"recvHeader", "send"}
         /\ BlocksInv'
<1>1. CASE spc \in {"recv", "peek"}
  <2>1. RequestRead(text) /\ line' = <<>>
    BY <1>1 DEF LineRead
  <2>2. request' = text /\ headers' = NoHeaders /\ spc' = "recvHeader"
    BY <2>1 DEF RequestRead
  <2>3. held' \in [Blocks -> Nat] /\ BlocksInv'
    BY <1>1, <2>1 DEF RequestRead, Allocate, TypeOK, Blocks, BlocksInv, Turn, Headers
  <2>4. QED
    BY <2>1, <2>2, <2>3 DEF NoHeaders, Text
<1>2. CASE spc \in Headers
  <2>1. HeaderRead(text) /\ line' = <<>>
    BY <1>2 DEF LineRead, Headers
  <2>2. request' = request /\ request' \in Text
    BY <2>1 DEF HeaderRead, TypeOK
  <2>3. Key(text) \in Text /\ Value(text) \in Text
    BY HeaderParts
  <2>4. /\ DOMAIN headers' \subseteq Text
        /\ \A key \in DOMAIN headers' : headers'[key] \in Text
    BY <2>1, <2>3 DEF HeaderRead, Put, TypeOK
  <2>5. held' \in [Blocks -> Nat] /\ spc' \in {"recvHeader", "send"} /\ BlocksInv'
    <3>1. CASE Key(text) = <<>>
      BY <1>2, <2>1, <3>1 DEF HeaderRead, Free, TypeOK, Blocks, BlocksInv, Turn, Headers
    <3>2. CASE Key(text) /= <<>>
      BY <1>2, <2>1, <3>2 DEF HeaderRead, TypeOK, Blocks, BlocksInv, Turn, Headers
    <3>3. QED
      BY <3>1, <3>2
  <2>6. QED
    BY <2>1, <2>2, <2>4, <2>5 DEF Text
<1>3. QED
  BY <1>1, <1>2 DEF Reading, Headers

\* A line grows by a token.
LEMMA Appended == ASSUME NEW text \in Text, NEW t \in Token
                  PROVE  /\ Append(text, t) \in Text /\ Len(Append(text, t)) = Len(text) + 1
                         /\ \A i \in 1 .. Len(text) : Append(text, t)[i] = text[i]
                         /\ Append(text, t)[Len(text) + 1] = t
BY DEF Text

\* What recv() takes is a token of the client's script.
LEMMA Taken ==
  ASSUME TypeOK, Readable, Consume
  PROVE  /\ sock \in Clients /\ script[sock] \in Text
         /\ got[sock] + 1 \in 1 .. Len(script[sock]) /\ Next1 \in Token
         /\ got' \in [Clients -> Nat] /\ got'[sock] = got[sock] + 1
         /\ \A c \in Clients : got'[c] <= arrived[c]
<1>1. sock \in Clients
  BY DEF TypeOK, Readable
<1>2. script[sock] \in Text
  BY <1>1, ServerAssumption DEF TypeOK
<1>3. got[sock] \in Nat /\ arrived[sock] \in Nat /\ got[sock] < arrived[sock] /\ arrived[sock] <= Len(script[sock])
  BY <1>1 DEF TypeOK, Readable
<1>4. got[sock] + 1 \in 1 .. Len(script[sock])
  BY <1>2, <1>3 DEF Text
<1>5. Next1 \in Token
  BY <1>2, <1>4 DEF Next1, Text
<1>6. got' \in [Clients -> Nat] /\ got'[sock] = got[sock] + 1 /\ \A c \in Clients : got'[c] <= arrived[c]
  BY <1>1, <1>3 DEF TypeOK, Consume
<1>7. QED
  BY <1>1, <1>2, <1>4, <1>5, <1>6

LEMMA ResponseIsAnswer == ASSUME NEW text  PROVE Response(text) \in Answers
BY DEF Response, PageOf, Answers

\* The types hold at first ...
LEMMA InitTyped == Init => TypeOK /\ BlocksInv
<1> SUFFICES ASSUME Init  PROVE TypeOK /\ BlocksInv
  OBVIOUS
<1>1. script \in [Clients -> Scripts] /\ \A c \in Clients : Len(script[c]) \in Nat
  BY ServerAssumption DEF Init, Text
<1>2. QED
  BY <1>1, ServerAssumption DEF Init, TypeOK, BlocksInv, Blocks, Points, Reading, Turn, Headers, NoHeaders, Text

\* ... and every step keeps them.
LEMMA StepTyped == TypeOK /\ BlocksInv /\ [Next]_vars => TypeOK' /\ BlocksInv'
<1> SUFFICES ASSUME TypeOK, BlocksInv, [Next]_vars  PROVE TypeOK' /\ BlocksInv'
  OBVIOUS
<1> USE DEF vars, clientVars, threadVars
<1>1. CASE Loop
  <2>1. CASE running
    BY <1>1, <2>1 DEF Loop, Allocate, TypeOK, BlocksInv, Blocks, Points, Reading, Turn, Headers
  <2>2. CASE ~running
    <3>1. held' \in [Blocks -> Nat] /\ \A b \in Blocks \ {"request"} : held'[b] = held[b]
      BY <1>1, <2>2 DEF Loop, Free, TypeOK, Blocks
    <3>2. QED
      BY <1>1, <2>2, <3>1 DEF Loop, TypeOK, BlocksInv, Blocks, Points, Reading, Turn, Headers
  <2>3. QED
    BY <2>1, <2>2 DEF TypeOK
<1>2. CASE Accept
  <2>1. waiting' \in Seq(Clients) /\ sock' \in Clients \cup {NoSocket}
    <3>1. ASSUME waiting /= <<>>  PROVE Head(waiting) \in Clients /\ Tail(waiting) \in Seq(Clients)
      BY <3>1 DEF TypeOK
    <3>2. QED
      BY <1>2, <3>1 DEF Accept, TypeOK
  <2>2. failures' \in 0 .. MaxFailures
    BY SMTT(30), <1>2, ServerAssumption DEF Accept, TypeOK
  <2>3. QED
    BY <1>2, <2>1, <2>2 DEF Accept, TypeOK, BlocksInv, Points, Reading, Turn, Headers
<1>3. CASE Recv
  <2>0. line \in Text /\ spc \in Reading /\ UNCHANGED <<clientVars, answer, waiting, sock, failures, running>>
    BY <1>3 DEF Recv, TypeOK, Reading
  <2>1. CASE Readable /\ Next1 \notin LineEnds /\ Consume /\ line' = Append(line, Next1) /\ UNCHANGED <<spc, request, headers, held>>
    <3>1. line' \in Text
      BY <2>0, <2>1, Taken, Appended
    <3>2. QED
      BY <2>0, <2>1, <3>1, Taken DEF TypeOK, BlocksInv
  <2>2. CASE Readable /\ Consume /\ spc' = (IF spc = "recv" THEN "peek" ELSE "peekHeader") /\ UNCHANGED <<request, line, headers, held>>
    BY <1>3, <2>0, <2>2, Taken DEF Recv, TypeOK, BlocksInv, Points, Reading, Turn, Headers
  <2>3. CASE Readable /\ Consume /\ LineRead(Append(line, "LF"))
    <3>1. Append(line, "LF") \in Text
      BY <2>0, TokenAssumption, Appended
    <3>2. /\ request' \in Text /\ line' \in Text
          /\ DOMAIN headers' \subseteq Text
          /\ \A key \in DOMAIN headers' : headers'[key] \in Text
          /\ held' \in [Blocks -> Nat] /\ spc' \in {"recvHeader", "send"} /\ BlocksInv'
      BY <2>0, <2>3, <3>1, LineReadKeeps
    <3>3. got' \in [Clients -> Nat] /\ \A c \in Clients : got'[c] <= arrived[c]
      BY <2>3, Taken
    <3>4. QED
      BY <2>0, <3>2, <3>3 DEF TypeOK, Points, Reading
  <2>4. CASE LineRead(line) /\ UNCHANGED got
    <3>1. /\ request' \in Text /\ line' \in Text
          /\ DOMAIN headers' \subseteq Text
          /\ \A key \in DOMAIN headers' : headers'[key] \in Text
          /\ held' \in [Blocks -> Nat] /\ spc' \in {"recvHeader", "send"} /\ BlocksInv'
      BY <2>0, <2>4, LineReadKeeps
    <3>2. QED
      BY <2>0, <2>4, <3>1 DEF TypeOK, Points, Reading
  <2>5. QED
    BY <1>3, <2>1, <2>2, <2>3, <2>4 DEF Recv
<1>4. CASE Peek
  <2>0. /\ line \in Text /\ spc \in Reading /\ UNCHANGED <<clientVars, answer, waiting, sock, failures, running>>
        /\ LineRead(Append(line, "LF"))
    BY <1>4 DEF Peek, TypeOK, Reading
  <2>1. Append(line, "LF") \in Text
    BY <2>0, TokenAssumption, Appended
  <2>2. got' \in [Clients -> Nat] /\ \A c \in Clients : got'[c] <= arrived[c]
    <3>1. CASE Readable /\ Consume
      BY <3>1, Taken
    <3>2. CASE UNCHANGED got
      BY <3>2 DEF TypeOK
    <3>3. QED
      BY <1>4, <3>1, <3>2 DEF Peek
  <2>3. /\ request' \in Text /\ line' \in Text
        /\ DOMAIN headers' \subseteq Text
        /\ \A key \in DOMAIN headers' : headers'[key] \in Text
        /\ held' \in [Blocks -> Nat] /\ spc' \in {"recvHeader", "send"} /\ BlocksInv'
    BY <2>0, <2>1, LineReadKeeps
  <2>4. QED
    BY <2>0, <2>2, <2>3 DEF TypeOK, Points, Reading
<1>5. CASE Send
  <2>1. answer' \in [Clients -> Answers \cup {"none"}]
    BY <1>5, ResponseIsAnswer DEF Send, TypeOK
  <2>2. QED
    BY <1>5, <2>1 DEF Send, TypeOK, BlocksInv, Points, Reading, Turn, Headers
<1>6. CASE Close
  <2>1. held' \in [Blocks -> Nat] /\ BlocksInv'
    BY <1>6 DEF Close, Free, TypeOK, BlocksInv, Blocks, Turn, Headers
  <2>2. QED
    BY <1>6, <2>1 DEF Close, TypeOK, Points, NoHeaders, Text
<1>7. CASE ServiceStop
  BY <1>7 DEF ServiceStop, TypeOK, BlocksInv
<1>8. ASSUME NEW c \in Clients, Call(c)  PROVE TypeOK' /\ BlocksInv'
  BY <1>8 DEF Call, Quiet, TypeOK, BlocksInv
<1>9. ASSUME NEW c \in Clients, Arrive(c)  PROVE TypeOK' /\ BlocksInv'
  <2>1. Len(script[c]) \in Nat
    BY ServerAssumption DEF TypeOK, Text
  <2>2. QED
    BY SMTT(30), <1>9, <2>1 DEF Arrive, Quiet, TypeOK, BlocksInv
<1>10. ASSUME NEW c \in Clients, HangUp(c)  PROVE TypeOK' /\ BlocksInv'
  BY <1>10 DEF HangUp, Quiet, TypeOK, BlocksInv
<1>11. CASE UNCHANGED vars
  BY <1>11 DEF TypeOK, BlocksInv
<1>12. QED
  BY <1>1, <1>2, <1>3, <1>4, <1>5, <1>6, <1>7, <1>8, <1>9, <1>10, <1>11 DEF Next, Server

\* Every variable keeps its type: no client is given what it did not send, no
\* block is freed that the thread does not hold.
THEOREM TypesHold == Spec => []TypeOK
<1>1. QED
  BY InitTyped, StepTyped, PTL DEF Spec

\* Between two turns the debug thread holds only request buffers, whatever the
\* clients send and wherever they stop.
THEOREM TurnsFreeTheirBlocksHolds == Spec => []TurnsFreeTheirBlocks
<1>1. TypeOK /\ BlocksInv => TurnsFreeTheirBlocks
  BY DEF TypeOK, BlocksInv, TurnsFreeTheirBlocks, Blocks, Turn, Headers
<1>2. QED
  BY <1>1, InitTyped, StepTyped, PTL DEF Spec

-----------------------------------------------------------------------------
(* The header map.                                                          *)

LineInv == Endless(line)

\* A line that was read is plain.
LEMMA PlainLines ==
  ASSUME NEW text \in Text, Endless(text)
  PROVE  /\ PlainLine(text)
         /\ Append(text, "LF") \in Text /\ PlainLine(Append(text, "LF"))
<1>1. "LF" \in Token
  BY TokenAssumption
<1>2. QED
  BY <1>1, Appended DEF Endless, PlainLine, Text

LEMMA HeaderReadKeeps ==
  ASSUME TypeOK, HeadersClean, NEW text \in Text, PlainLine(text), LineRead(text)
  PROVE  HeadersClean'
<1>1. CASE headers' = NoHeaders
  BY <1>1 DEF HeadersClean, NoHeaders
<1>2. CASE HeaderRead(text)
  <2>1. /\ Key(text) \in Text /\ Value(text) \in Text
        /\ Endless(Key(text)) /\ Endless(Value(text))
        /\ \A i \in 1 .. Len(Key(text)) : Key(text)[i] /= ":"
    BY HeaderParts
  <2>2. CASE UNCHANGED headers
    BY <2>2 DEF HeadersClean
  <2>3. CASE Key(text) /= <<>> /\ Value(text) /= <<>> /\ headers' = Put(Key(text), Value(text))
    BY <2>1, <2>3 DEF HeadersClean, Put, Endless
  <2>4. QED
    BY <1>2, <2>2, <2>3 DEF HeaderRead
<1>3. QED
  BY <1>1, <1>2 DEF LineRead, RequestRead

LEMMA HeadersStep == TypeOK /\ LineInv /\ HeadersClean /\ [Next]_vars => LineInv' /\ HeadersClean'
<1> SUFFICES ASSUME TypeOK, LineInv, HeadersClean, [Next]_vars  PROVE LineInv' /\ HeadersClean'
  OBVIOUS
<1>0. line \in Text
  BY DEF TypeOK
<1>1. ASSUME NEW text \in {line, Append(line, "LF")}, LineRead(text)  PROVE LineInv' /\ HeadersClean'
  <2>1. text \in Text /\ PlainLine(text)
    BY <1>0, PlainLines DEF LineInv
  <2>2. LineInv'
    BY <1>1 DEF LineRead, LineInv, Endless
  <2>3. QED
    BY <1>1, <2>1, <2>2, HeaderReadKeeps
<1>2. CASE UNCHANGED <<line, headers>>
  BY <1>2 DEF LineInv, Endless, HeadersClean
<1>3. CASE Recv
  <2>1. CASE Readable /\ Next1 \notin LineEnds /\ Consume /\ line' = Append(line, Next1) /\ UNCHANGED headers
    <3>1. LineInv'
      BY <1>0, <2>1, Taken, Appended DEF LineInv, Endless, Text
    <3>2. QED
      BY <2>1, <3>1 DEF HeadersClean
  <2>2. QED
    BY <1>1, <1>2, <1>3, <2>1 DEF Recv
<1>4. CASE Peek
  BY <1>1, <1>4 DEF Peek
<1>5. CASE Close
  BY <1>5 DEF Close, LineInv, Endless, HeadersClean, NoHeaders
<1>6. QED
  BY <1>2, <1>3, <1>4, <1>5 DEF Next, Server, Loop, Accept, Send, ServiceStop,
     Call, Arrive, HangUp, Quiet, vars, clientVars, threadVars

\* Whatever a client sends, a key of the header map is not empty and holds
\* neither the separator nor a line end, and a value holds no line end.
THEOREM HeadersCleanHolds == Spec => []HeadersClean
<1>1. Init => LineInv /\ HeadersClean
  BY DEF Init, LineInv, Endless, HeadersClean, NoHeaders
<1>2. QED
  BY <1>1, InitTyped, StepTyped, HeadersStep, PTL DEF Spec

-----------------------------------------------------------------------------
(* The clients in the queue, and the one that is served.                    *)

QueueInv ==
  /\ \A i \in 1 .. Len(waiting) : /\ peer[waiting[i]] /= "away" /\ waiting[i] /= sock
                                  /\ got[waiting[i]] = 0 /\ answer[waiting[i]] = "none"
  /\ \A i, j \in 1 .. Len(waiting) : waiting[i] = waiting[j] => i = j
  /\ \A c \in Clients : peer[c] = "away" => got[c] = 0 /\ answer[c] = "none"

SockInv ==
  /\ sock /= NoSocket => peer[sock] /= "away"
  /\ spc \in {"loop", "accept", "done"} => sock = NoSocket
  /\ spc \in Reading \cup {"send", "ended"} /\ sock /= NoSocket => answer[sock] = "none"
  /\ spc = "close" /\ sock /= NoSocket => answer[sock] /= "none"
  /\ spc \notin Reading => line = <<>>

\* The first of the queue, and the rest.
LEMMA QueueHead ==
  ASSUME TypeOK, QueueInv, waiting /= <<>>
  PROVE  /\ Head(waiting) \in Clients /\ got[Head(waiting)] = 0 /\ answer[Head(waiting)] = "none"
         /\ peer[Head(waiting)] /= "away" /\ Head(waiting) /= sock
         /\ Len(Tail(waiting)) = Len(waiting) - 1
         /\ \A i \in 1 .. Len(Tail(waiting)) : /\ i + 1 \in 1 .. Len(waiting)
                                               /\ Tail(waiting)[i] = waiting[i + 1]
                                               /\ Tail(waiting)[i] /= Head(waiting)
<1>1. Len(waiting) \in Nat /\ Len(waiting) >= 1 /\ Head(waiting) = waiting[1] /\ waiting \in Seq(Clients)
  BY DEF TypeOK
<1>2. 1 \in 1 .. Len(waiting) /\ waiting[1] \in Clients
  BY <1>1
<1>3. Len(Tail(waiting)) = Len(waiting) - 1
  BY <1>1
<1>4. \A i \in 1 .. Len(Tail(waiting)) : i + 1 \in 1 .. Len(waiting) /\ Tail(waiting)[i] = waiting[i + 1]
  BY <1>1, <1>3
<1>5. \A i \in 1 .. Len(Tail(waiting)) : i + 1 /= 1
  BY <1>1, <1>3
<1>6. QED
  BY <1>1, <1>2, <1>3, <1>4, <1>5 DEF QueueInv

LEMMA QueueStep == TypeOK /\ QueueInv /\ SockInv /\ [Next]_vars => QueueInv' /\ SockInv'
<1> SUFFICES ASSUME TypeOK, QueueInv, SockInv, [Next]_vars  PROVE QueueInv' /\ SockInv'
  OBVIOUS
<1> USE DEF vars, clientVars, threadVars
<1>0. /\ waiting \in Seq(Clients) /\ Len(waiting) \in Nat
      /\ \A i \in 1 .. Len(waiting) : waiting[i] \in Clients
  BY DEF TypeOK
<1>1. CASE Loop
  BY <1>1 DEF Loop, QueueInv, SockInv, Reading
<1>2. CASE Accept
  <2>1. sock = NoSocket /\ line = <<>> /\ spc' = "recv" /\ UNCHANGED <<peer, answer, got, line>>
    BY <1>2 DEF Accept, SockInv, Reading
  <2>2. CASE waiting /= <<>> /\ sock' = Head(waiting) /\ waiting' = Tail(waiting)
    <3>1. SockInv'
      BY <2>1, <2>2, QueueHead DEF SockInv, Reading
    <3>2. QueueInv'
      BY <2>1, <2>2, QueueHead DEF QueueInv
    <3>3. QED
      BY <3>1, <3>2
  <2>3. CASE sock' = NoSocket /\ UNCHANGED waiting
    BY <1>0, <2>1, <2>3, ServerAssumption DEF QueueInv, SockInv, Reading
  <2>4. QED
    BY <1>2, <2>2, <2>3 DEF Accept
<1>3. CASE Recv \/ Peek
  <2>1. UNCHANGED <<peer, answer, waiting, sock>> /\ spc \in Reading
    BY <1>3 DEF Recv, Peek, Reading
  <2>2. UNCHANGED got \/ (Readable /\ Consume)
    BY <1>3 DEF Recv, Peek
  <2>3. \A c \in Clients : c /= sock => got'[c] = got[c]
    BY <2>2 DEF Consume, TypeOK
  <2>4. QueueInv'
    <3>1. \A i \in 1 .. Len(waiting) : waiting[i] /= sock /\ got'[waiting[i]] = got[waiting[i]]
      BY <1>0, <2>3 DEF QueueInv
    <3>2. \A c \in Clients : peer[c] = "away" => c /= sock /\ got'[c] = got[c]
      BY <2>3, ServerAssumption DEF SockInv
    <3>3. QED
      BY <1>0, <2>1, <3>1, <3>2 DEF QueueInv
  <2>5. spc' \in Reading \/ (spc' = "send" /\ line' = <<>>)
    BY <1>3 DEF Recv, Peek, LineRead, RequestRead, HeaderRead, Reading
  <2>6. QED
    BY <2>1, <2>4, <2>5 DEF SockInv, Reading
<1>4. CASE Send
  <2>1. QueueInv'
    BY <1>0, <1>4 DEF Send, QueueInv, SockInv, TypeOK
  <2>2. SockInv'
    BY <1>4, ResponseIsAnswer DEF Send, SockInv, Reading, TypeOK, Answers
  <2>3. QED
    BY <2>1, <2>2
<1>5. CASE Close
  <2>1. QueueInv'
    BY SMTT(30), <1>0, <1>5, ServerAssumption DEF Close, QueueInv, SockInv, TypeOK
  <2>2. SockInv'
    BY <1>5 DEF Close, SockInv, Reading
  <2>3. QED
    BY <2>1, <2>2
<1>6. CASE ServiceStop
  BY <1>6 DEF ServiceStop, QueueInv, SockInv
<1>7. ASSUME NEW c \in Clients, Call(c)  PROVE QueueInv' /\ SockInv'
  <2>1. /\ peer[c] = "away" /\ peer' = [peer EXCEPT ![c] = "open"] /\ waiting' = Append(waiting, c)
        /\ UNCHANGED <<answer, spc, sock, got, line>>
    BY <1>7 DEF Call, Quiet
  <2>2. SockInv'
    BY <2>1 DEF SockInv, TypeOK
  <2>3. /\ Len(waiting') = Len(waiting) + 1 /\ waiting'[Len(waiting) + 1] = c
        /\ \A i \in 1 .. Len(waiting) : waiting'[i] = waiting[i] /\ waiting[i] /= c
    BY <1>0, <2>1 DEF QueueInv
  <2>4. c /= sock /\ got[c] = 0 /\ answer[c] = "none"
    BY <2>1, ServerAssumption DEF QueueInv, SockInv
  <2>5. \A i \in 1 .. Len(waiting') : i \in 1 .. Len(waiting) \/ i = Len(waiting) + 1
    BY <1>0, <2>3
  <2>6. QueueInv'
    <3>1. \A d \in Clients : peer'[d] = "away" => peer[d] = "away"
      BY <2>1 DEF TypeOK
    <3>2. \A i \in 1 .. Len(waiting') : /\ peer'[waiting'[i]] /= "away" /\ waiting'[i] /= sock
                                        /\ got[waiting'[i]] = 0 /\ answer[waiting'[i]] = "none"
      <4>1. peer'[c] = "open"
        BY <2>1 DEF TypeOK
      <4>2. \A i \in 1 .. Len(waiting) : peer'[waiting[i]] /= "away"
        BY <1>0, <2>1 DEF QueueInv, TypeOK
      <4>3. QED
        BY <2>3, <2>4, <2>5, <4>1, <4>2 DEF QueueInv
    <3>3. \A i, j \in 1 .. Len(waiting') : waiting'[i] = waiting'[j] => i = j
      BY <2>3, <2>5 DEF QueueInv
    <3>4. QED
      BY <2>1, <3>1, <3>2, <3>3 DEF QueueInv
  <2>7. QED
    BY <2>2, <2>6
<1>8. ASSUME NEW c \in Clients, Arrive(c)  PROVE QueueInv' /\ SockInv'
  BY <1>8 DEF Arrive, Quiet, QueueInv, SockInv
<1>9. ASSUME NEW c \in Clients, HangUp(c)  PROVE QueueInv' /\ SockInv'
  BY <1>0, <1>9 DEF HangUp, Quiet, QueueInv, SockInv, TypeOK
<1>10. CASE UNCHANGED vars
  BY <1>10 DEF QueueInv, SockInv
<1>11. QED
  BY <1>1, <1>2, <1>3, <1>4, <1>5, <1>6, <1>7, <1>8, <1>9, <1>10 DEF Next, Server

LEMMA InitQueue == Init => QueueInv /\ SockInv
BY DEF Init, QueueInv, SockInv, Reading

-----------------------------------------------------------------------------
(* How far the thread has read.                                             *)

\* No line end in the first n tokens; a whole request in the first n; a line
\* that began after a line end at e and goes on to m.
NoEnd(text, n) == \A i \in 1 .. n : text[i] \notin LineEnds

WholeAt(text, n) == \E i, j \in 1 .. n :
                      /\ i < j /\ text[i] \in LineEnds /\ (text[i] = "CR" => text[i + 1] /= "LF")
                      /\ text[j] = "LF"
                      /\ \A k \in (i + 1) .. (j - 1) : text[k] = "CR" /\ k = j - 1

LineFrom(text, e, m) == /\ text[e] \in LineEnds /\ line = SubSeq(text, e + 1, m)
                        /\ \A i \in (e + 1) .. m : text[i] \notin LineEnds

InRequest(text, n) ==
  /\ spc = "recv" => NoEnd(text, n) /\ line = SubSeq(text, 1, n)
  /\ spc = "peek" => n >= 1 /\ text[n] = "CR" /\ NoEnd(text, n - 1) /\ line = SubSeq(text, 1, n - 1)

InHeaders(text, n) ==
  /\ spc \in Headers => ~WholeAt(text, n)
  /\ spc = "recvHeader" => /\ \E e \in 1 .. n : LineFrom(text, e, n)
                           /\ text[n] = "CR" => n < Len(text) /\ text[n + 1] /= "LF"
  /\ spc = "peekHeader" => /\ text[n] = "CR"
                           /\ \E e \in 1 .. (n - 1) : LineFrom(text, e, n - 1)

\* A line may begin behind the first n tokens.
LineBegins(text, n) == /\ n >= 1 /\ text[n] \in LineEnds /\ ~WholeAt(text, n)
                       /\ text[n] = "CR" => n < Len(text) /\ text[n + 1] /= "LF"

\* The line that was read is the first one of the text, with a line feed or
\* without, and a text that has no line end is one whose client is gone.
FirstLine(text, read) ==
  \E m \in 0 .. Len(text) :
    /\ NoEnd(text, m)
    /\ read \in {SubSeq(text, 1, m), Append(SubSeq(text, 1, m), "LF")}
    /\ (m < Len(text) /\ text[m + 1] \in LineEnds) \/ peer[sock] = "closed"

RequestRight(text) == FirstLine(text, request)

ReadInv == sock /= NoSocket =>
             /\ InRequest(script[sock], got[sock])
             /\ ~Ended => InHeaders(script[sock], got[sock])
             /\ spc \in Headers \cup {"send"} => RequestRight(script[sock])

\* A part of a text with one token more.
LEMMA PartGrows ==
  ASSUME NEW text \in Text, NEW n \in Nat, n < Len(text), NEW i \in 1 .. (n + 1)
  PROVE  Append(SubSeq(text, i, n), text[n + 1]) = SubSeq(text, i, n + 1)
BY DEF Text

\* No request is whole before its first line end, nor by a token that is not a
\* line feed, nor by the line feed of a line that is not empty.
LEMMA NotWhole ==
  ASSUME NEW text \in Text, NEW n \in Nat, n < Len(text)
  PROVE  /\ NoEnd(text, n) => ~WholeAt(text, n + 1)
         /\ NoEnd(text, n) /\ text[n + 1] = "CR" /\ text[n + 2] = "LF" => ~WholeAt(text, n + 2)
         /\ ~WholeAt(text, n) /\ text[n + 1] /= "LF" => ~WholeAt(text, n + 1)
         /\ n >= 1 /\ ~WholeAt(text, n) /\ text[n] \notin LineEnds => ~WholeAt(text, n + 1)
         /\ n >= 2 /\ ~WholeAt(text, n) /\ text[n] = "CR" /\ text[n - 1] \notin LineEnds /\ text[n + 1] = "LF"
              => ~WholeAt(text, n + 1)
<1> USE DEF LineEnds
<1>0. Len(text) \in Nat
  BY DEF Text
<1>1. NoEnd(text, n) => ~WholeAt(text, n + 1)
  BY <1>0 DEF NoEnd, WholeAt
<1>2. NoEnd(text, n) /\ text[n + 1] = "CR" /\ text[n + 2] = "LF" => ~WholeAt(text, n + 2)
  BY <1>0 DEF NoEnd, WholeAt
<1>3. ~WholeAt(text, n) /\ text[n + 1] /= "LF" => ~WholeAt(text, n + 1)
  BY <1>0 DEF WholeAt
<1>4. n >= 1 /\ ~WholeAt(text, n) /\ text[n] \notin LineEnds => ~WholeAt(text, n + 1)
  BY <1>0 DEF WholeAt
<1>5. n >= 2 /\ ~WholeAt(text, n) /\ text[n] = "CR" /\ text[n - 1] \notin LineEnds /\ text[n + 1] = "LF"
        => ~WholeAt(text, n + 1)
  BY SMTT(30), <1>0 DEF WholeAt
<1>6. QED
  BY <1>1, <1>2, <1>3, <1>4, <1>5

\* Before the first line end no request is whole.
LEMMA NotWholeYet ==
  ASSUME NEW text \in Text, NEW n \in 0 .. Len(text), NoEnd(text, n) \/ (n >= 1 /\ NoEnd(text, n - 1))
  PROVE  ~WholeAt(text, n)
<1>0. Len(text) \in Nat
  BY DEF Text
<1>1. QED
  BY <1>0 DEF NoEnd, WholeAt, LineEnds

\* The part of a text that has arrived is whole where the text is.
LEMMA WholePart ==
  ASSUME NEW text \in Text, NEW n \in 0 .. Len(text), Whole(SubSeq(text, 1, n))
  PROVE  WholeAt(text, n)
<1> DEFINE part == SubSeq(text, 1, n)
<1>1. Len(text) \in Nat /\ Len(part) = n /\ \A i \in 1 .. n : part[i] = text[i]
  BY DEF Text
<1> HIDE DEF part
<1>2. PICK i, j \in 1 .. n : /\ i < j /\ EndsAt(part, i) /\ part[j] = "LF"
                             /\ \A k \in (i + 1) .. (j - 1) : part[k] = "CR" /\ k = j - 1
  BY <1>1 DEF Whole, part
<1>3. i < n /\ i + 1 \in 1 .. n /\ \A k \in (i + 1) .. (j - 1) : k \in 1 .. n
  BY <1>1, <1>2
<1>4. text[i] \in LineEnds /\ (text[i] = "CR" => text[i + 1] /= "LF")
  BY <1>1, <1>2, <1>3 DEF EndsAt, LineEnds
<1>5. QED
  BY <1>1, <1>2, <1>3, <1>4 DEF WholeAt

\* A line that is not empty did not just begin.
LEMMA LineGoesOn ==
  ASSUME NEW text \in Text, NEW m \in 0 .. Len(text), NEW e \in 1 .. m, LineFrom(text, e, m),
         Key(Append(line, "LF")) /= <<>>
  PROVE  e < m /\ text[m] \notin LineEnds
<1>0. Len(text) \in Nat
  BY DEF Text
<1>1. CASE e = m
  <2>1. line = <<>>
    BY <1>0, <1>1 DEF LineFrom, Text
  <2>2. Append(line, "LF") = <<"LF">>
    BY <2>1
  <2>3. QED
    BY <2>2, EmptyLine
<1>2. QED
  BY <1>0, <1>1 DEF LineFrom

\* A step that leaves the reading alone.
LEMMA ReadSame ==
  ASSUME ReadInv, UNCHANGED <<script, sock, got, request, line>>,
         sock /= NoSocket => /\ spc' = spc
                             /\ Ended => Ended'
                             /\ peer[sock] = "closed" => peer'[sock] = "closed"
  PROVE  ReadInv'
BY DEF ReadInv, InRequest, InHeaders, RequestRight, FirstLine, LineFrom, NoEnd, WholeAt, Headers, Next1

\* What is known of the client's text and of how much of it was read.
LEMMA ServedText ==
  ASSUME TypeOK, sock /= NoSocket
  PROVE  \E text \in Text : \E n \in 0 .. Len(text) :
           /\ text = script[sock] /\ n = got[sock]
           /\ Readable => n < Len(text) /\ Next1 = text[n + 1]
           /\ Readable /\ Consume => got'[sock] = n + 1
<1>1. sock \in Clients /\ script[sock] \in Text
  BY ServerAssumption DEF TypeOK
<1>2. got[sock] \in 0 .. Len(script[sock]) /\ (Readable => got[sock] < Len(script[sock]))
  BY <1>1 DEF TypeOK, Readable, Text
<1>3. Readable /\ Consume => got'[sock] = got[sock] + 1
  BY Taken
<1>4. QED
  BY <1>1, <1>2, <1>3 DEF Next1

\* The request line is read: the headers begin behind its end.
LEMMA RequestLineRead ==
  ASSUME NEW text \in Text, NEW m \in 0 .. Len(text), NEW read,
         spc \in {"recv", "peek"}, LineRead(read), sock /= NoSocket, UNCHANGED <<script, sock, peer>>,
         text = script[sock], m = got'[sock],
         Ended' \/ LineBegins(text, m),
         FirstLine(text, read)
  PROVE  ReadInv'
<1>0. Len(text) \in Nat
  BY DEF Text
<1>1. spc' = "recvHeader" /\ request' = read /\ line' = <<>>
  BY DEF LineRead, RequestRead
<1>2. RequestRight(text)'
  BY <1>1 DEF RequestRight, FirstLine
<1>3. InRequest(text, m)'
  BY <1>1 DEF InRequest
<1>4. ~Ended' => InHeaders(text, m)'
  <2>1. SUFFICES ASSUME ~Ended'  PROVE InHeaders(text, m)'
    OBVIOUS
  <2>2. m >= 1 /\ text[m] \in LineEnds
    BY <2>1 DEF LineBegins
  <2>3. SubSeq(text, m + 1, m) = <<>>
    BY <1>0, <2>2 DEF Text
  <2>4. LineFrom(text, m, m)'
    BY <1>0, <1>1, <2>2, <2>3 DEF LineFrom
  <2>5. QED
    BY <1>0, <1>1, <2>1, <2>2, <2>4 DEF LineBegins, InHeaders, Headers
<1>5. QED
  BY <1>2, <1>3, <1>4 DEF ReadInv

\* A header line is read: another one begins behind it, or the answer is due.
LEMMA HeaderLineRead ==
  ASSUME ReadInv, NEW text \in Text, NEW m \in 0 .. Len(text), NEW read,
         spc \in Headers, LineRead(read), sock /= NoSocket, UNCHANGED <<script, sock, peer>>,
         text = script[sock], m = got'[sock],
         Ended' \/ Key(read) = <<>> \/ LineBegins(text, m)
  PROVE  ReadInv'
<1>0. Len(text) \in Nat
  BY DEF Text
<1>1. spc' \in {"recvHeader", "send"} /\ line' = <<>> /\ request' = request /\ (Key(read) = <<>> => spc' = "send")
  BY DEF LineRead, HeaderRead, Headers
<1>2. RequestRight(text)'
  BY <1>1 DEF RequestRight, FirstLine, ReadInv, Headers
<1>3. InRequest(text, m)'
  BY <1>1 DEF InRequest
<1>4. ~Ended' => InHeaders(text, m)'
  <2>1. SUFFICES ASSUME ~Ended', spc' = "recvHeader"  PROVE InHeaders(text, m)'
    BY <1>1 DEF InHeaders, Headers
  <2>2. m >= 1 /\ text[m] \in LineEnds
    BY <1>1, <2>1 DEF LineBegins
  <2>3. SubSeq(text, m + 1, m) = <<>>
    BY <1>0, <2>2 DEF Text
  <2>4. LineFrom(text, m, m)'
    BY <1>0, <1>1, <2>2, <2>3 DEF LineFrom
  <2>5. QED
    BY <1>0, <1>1, <2>1, <2>2, <2>4 DEF LineBegins, InHeaders, Headers
<1>5. QED
  BY <1>2, <1>3, <1>4 DEF ReadInv

LEMMA RecvReads ==
  ASSUME TypeOK, ReadInv, Recv, sock /= NoSocket
  PROVE  ReadInv'
<1>0. /\ UNCHANGED <<clientVars, sock>> /\ UNCHANGED script /\ UNCHANGED peer /\ UNCHANGED arrived
      /\ spc \in {"recv", "recvHeader"}
  BY DEF Recv, clientVars
<1>a. PICK text \in Text : \E n \in 0 .. Len(text) :
        /\ text = script[sock] /\ n = got[sock]
        /\ Readable => n < Len(text) /\ Next1 = text[n + 1]
        /\ Readable /\ Consume => got'[sock] = n + 1
  BY ServedText
<1>1. PICK n \in 0 .. Len(text) :
        /\ text = script[sock] /\ n = got[sock]
        /\ Readable => n < Len(text) /\ Next1 = text[n + 1]
        /\ Readable /\ Consume => got'[sock] = n + 1
  BY <1>a
<1>2. Len(text) \in Nat /\ n \in Nat
  BY DEF Text
<1>3. /\ InRequest(text, n)
      /\ ~Ended => InHeaders(text, n)
      /\ spc \in Headers => RequestRight(text)
  BY <1>1 DEF ReadInv
<1>4. Readable => ~Ended
  <2>1. sock \in Clients
    BY DEF TypeOK
  <2>2. got[sock] \in Nat /\ arrived[sock] \in Nat
    BY <2>1 DEF TypeOK
  <2>3. QED
    BY <2>2 DEF Readable, Ended
<1>5. spc = "recvHeader" /\ Readable =>
        \E e \in 1 .. n : LineFrom(text, e, n) /\ ~WholeAt(text, n)
  BY <1>3, <1>4 DEF InHeaders, Headers
<1>6. CASE Readable /\ Next1 \notin LineEnds /\ Consume /\ line' = Append(line, Next1) /\ UNCHANGED <<spc, request>>
  <2>1. n < Len(text) /\ text[n + 1] \notin LineEnds /\ got'[sock'] = n + 1 /\ script'[sock'] = text
    BY <1>0, <1>1, <1>6
  <2>2. InRequest(text, n + 1)'
    BY <1>0, <1>1, <1>2, <1>3, <1>6, <2>1, PartGrows DEF InRequest, NoEnd
  <2>3. InHeaders(text, n + 1)'
    <3>1. SUFFICES ASSUME spc = "recvHeader"  PROVE InHeaders(text, n + 1)'
      BY <1>0, <1>6 DEF InHeaders, Headers
    <3>2. PICK e \in 1 .. n : LineFrom(text, e, n) /\ ~WholeAt(text, n)
      BY <1>5, <1>6, <3>1
    <3>3. line' = SubSeq(text, e + 1, n + 1)
      <4>1. e + 1 \in 1 .. (n + 1) /\ line = SubSeq(text, e + 1, n) /\ line' = Append(line, text[n + 1])
        BY <1>1, <1>2, <1>6, <2>1, <3>2 DEF LineFrom
      <4>2. QED
        BY <1>2, <2>1, <4>1, PartGrows
    <3>4. LineFrom(text, e, n + 1)'
      BY <1>2, <2>1, <3>2, <3>3 DEF LineFrom
    <3>5. ~WholeAt(text, n + 1)
      BY <1>2, <2>1, <3>2, NotWhole DEF LineEnds
    <3>6. QED
      BY <1>2, <1>6, <2>1, <3>1, <3>4, <3>5 DEF InHeaders, Headers, LineEnds
  <2>4. spc' \in Headers \cup {"send"} => RequestRight(text)'
    BY <1>0, <1>3, <1>6 DEF RequestRight, FirstLine, Headers
  <2>5. QED
    BY <2>1, <2>2, <2>3, <2>4 DEF ReadInv
<1>7. CASE /\ Readable /\ Next1 = "CR" /\ Consume
           /\ spc' = (IF spc = "recv" THEN "peek" ELSE "peekHeader") /\ UNCHANGED <<request, line>>
  <2>1. n < Len(text) /\ text[n + 1] = "CR" /\ got'[sock'] = n + 1 /\ script'[sock'] = text
    BY <1>0, <1>1, <1>7
  <2>2. InRequest(text, n + 1)'
    BY <1>0, <1>2, <1>3, <1>7, <2>1 DEF InRequest
  <2>3. InHeaders(text, n + 1)'
    <3>1. SUFFICES ASSUME spc = "recvHeader"  PROVE InHeaders(text, n + 1)'
      BY <1>0, <1>7 DEF InHeaders, Headers
    <3>2. PICK e \in 1 .. n : LineFrom(text, e, n) /\ ~WholeAt(text, n)
      BY <1>5, <1>7, <3>1
    <3>3. LineFrom(text, e, n)'
      BY <1>7, <3>2 DEF LineFrom
    <3>4. ~WholeAt(text, n + 1)
      BY <1>2, <2>1, <3>2, NotWhole
    <3>5. QED
      BY <1>2, <1>7, <2>1, <3>1, <3>3, <3>4 DEF InHeaders, Headers
  <2>4. spc' \in Headers \cup {"send"} => RequestRight(text)'
    BY <1>0, <1>3, <1>7 DEF RequestRight, FirstLine, Headers
  <2>5. QED
    BY <2>1, <2>2, <2>3, <2>4 DEF ReadInv
<1>8. CASE Readable /\ Next1 = "LF" /\ Consume /\ LineRead(Append(line, "LF"))
  <2>1. n < Len(text) /\ text[n + 1] = "LF" /\ got'[sock] = n + 1
    BY <1>1, <1>8
  <2>2. CASE spc = "recv"
    <3>1. NoEnd(text, n) /\ line = SubSeq(text, 1, n)
      BY <1>3, <2>2 DEF InRequest
    <3>2. ~WholeAt(text, n + 1)
      BY <1>2, <2>1, <3>1, NotWhole
    <3>3. n + 1 \in 0 .. Len(text) /\ text[n + 1] \in LineEnds /\ LineBegins(text, n + 1)
      BY <1>2, <2>1, <3>2 DEF LineEnds, LineBegins
    <3>4. FirstLine(text, Append(line, "LF"))
      BY <2>1, <3>1, <3>3 DEF FirstLine
    <3>5. QED
      BY <1>0, <1>1, <1>8, <2>1, <2>2, <3>3, <3>4, RequestLineRead
  <2>3. CASE spc = "recvHeader"
    <3>1. PICK e \in 1 .. n : LineFrom(text, e, n) /\ ~WholeAt(text, n)
      BY <1>5, <1>8, <2>3
    <3>2. Key(Append(line, "LF")) = <<>> \/ ~WholeAt(text, n + 1)
      BY <1>1, <1>2, <2>1, <3>1, LineGoesOn, NotWhole
    <3>3. n + 1 \in 0 .. Len(text) /\ (Key(Append(line, "LF")) = <<>> \/ LineBegins(text, n + 1))
      BY <1>2, <2>1, <3>2 DEF LineEnds, LineBegins
    <3>4. QED
      BY <1>0, <1>1, <1>8, <2>1, <2>3, <3>3, HeaderLineRead DEF Headers
  <2>4. QED
    BY <1>0, <2>2, <2>3
<1>9. CASE Ended /\ LineRead(line) /\ UNCHANGED got
  <2>1. Ended' /\ peer[sock] = "closed" /\ got'[sock] = n
    BY <1>0, <1>1, <1>9 DEF Ended
  <2>2. CASE spc = "recv"
    <3>1. NoEnd(text, n) /\ line = SubSeq(text, 1, n)
      BY <1>3, <2>2 DEF InRequest
    <3>2. FirstLine(text, line)
      BY <2>1, <3>1 DEF FirstLine
    <3>3. QED
      BY <1>0, <1>1, <1>9, <2>1, <2>2, <3>2, RequestLineRead
  <2>3. CASE spc = "recvHeader"
    BY <1>0, <1>1, <1>9, <2>1, <2>3, HeaderLineRead DEF Headers
  <2>4. QED
    BY <1>0, <2>2, <2>3
<1>10. QED
  BY <1>6, <1>7, <1>8, <1>9 DEF Recv

LEMMA PeekReads ==
  ASSUME TypeOK, ReadInv, Peek, sock /= NoSocket
  PROVE  ReadInv'
<1>0. /\ UNCHANGED <<clientVars, sock>> /\ UNCHANGED script /\ UNCHANGED peer /\ UNCHANGED arrived
      /\ spc \in {"peek", "peekHeader"} /\ LineRead(Append(line, "LF"))
  BY DEF Peek, clientVars
<1>a. PICK text \in Text : \E n \in 0 .. Len(text) :
        /\ text = script[sock] /\ n = got[sock]
        /\ Readable => n < Len(text) /\ Next1 = text[n + 1]
        /\ Readable /\ Consume => got'[sock] = n + 1
  BY ServedText
<1>1. PICK n \in 0 .. Len(text) :
        /\ text = script[sock] /\ n = got[sock]
        /\ Readable => n < Len(text) /\ Next1 = text[n + 1]
        /\ Readable /\ Consume => got'[sock] = n + 1
  BY <1>a
<1>2. Len(text) \in Nat /\ n \in Nat
  BY DEF Text
<1>3. InRequest(text, n) /\ (~Ended => InHeaders(text, n))
  BY <1>1 DEF ReadInv
\* The line feed after the carriage return, another token, or the end.
<1>4. \/ /\ n < Len(text) /\ got'[sock] = n + 1 /\ text[n + 1] = "LF"
      \/ /\ n < Len(text) /\ got'[sock] = n /\ text[n + 1] /= "LF"
      \/ Ended' /\ got'[sock] = n
  BY <1>0, <1>1 DEF Peek, Ended
<1>5. PICK m \in 0 .. Len(text) : m = got'[sock]
  BY <1>2, <1>4
<1>6. CASE spc = "peek"
  <2>1. n >= 1 /\ text[n] = "CR" /\ NoEnd(text, n - 1) /\ line = SubSeq(text, 1, n - 1)
    BY <1>3, <1>6 DEF InRequest
  <2>2. Ended' \/ LineBegins(text, m)
    <3>1. CASE n < Len(text) /\ m = n + 1 /\ text[n + 1] = "LF"
      <4>1. n - 1 \in Nat /\ n - 1 < Len(text) /\ text[(n - 1) + 1] = "CR" /\ text[(n - 1) + 2] = "LF" /\ (n - 1) + 2 = m
        BY <1>2, <2>1, <3>1
      <4>2. ~WholeAt(text, m)
        BY <2>1, <4>1, NotWhole
      <4>3. QED
        BY <1>2, <3>1, <4>2 DEF LineEnds, LineBegins
    <3>2. CASE n < Len(text) /\ m = n /\ text[n + 1] /= "LF"
      BY <2>1, <3>2, NotWholeYet DEF LineEnds, LineBegins
    <3>3. QED
      BY <1>4, <1>5, <3>1, <3>2
  <2>3. FirstLine(text, Append(line, "LF"))
    <3>1. n - 1 \in 0 .. Len(text) /\ n - 1 < Len(text) /\ text[(n - 1) + 1] \in LineEnds
      BY <1>2, <2>1 DEF LineEnds
    <3>2. QED
      BY <2>1, <3>1 DEF FirstLine
  <2>4. QED
    BY <1>0, <1>1, <1>5, <1>6, <2>2, <2>3, RequestLineRead
<1>7. CASE spc = "peekHeader"
  <2>1. ~Ended => /\ ~WholeAt(text, n) /\ text[n] = "CR"
                  /\ \E e \in 1 .. (n - 1) : LineFrom(text, e, n - 1)
    BY <1>3, <1>7 DEF InHeaders, Headers
  <2>2. Ended' \/ Key(Append(line, "LF")) = <<>> \/ LineBegins(text, m)
    <3>1. CASE Ended
      BY <1>0, <1>1, <1>4, <3>1, ServerAssumption DEF Ended, Readable, Peek, TypeOK
    <3>2. CASE ~Ended /\ Key(Append(line, "LF")) /= <<>>
      <4>1. PICK e \in 1 .. (n - 1) : LineFrom(text, e, n - 1)
        BY <2>1, <3>2
      <4>2. n - 1 \in 0 .. Len(text) /\ n >= 2
        BY <1>2, <4>1
      <4>3. text[n - 1] \notin LineEnds /\ text[n] = "CR" /\ ~WholeAt(text, n)
        BY <2>1, <3>2, <4>1, <4>2, LineGoesOn
      <4>4. CASE n < Len(text) /\ m = n + 1 /\ text[n + 1] = "LF"
        BY <1>2, <4>2, <4>3, <4>4, NotWhole DEF LineEnds, LineBegins
      <4>5. CASE n < Len(text) /\ m = n /\ text[n + 1] /= "LF"
        BY <4>2, <4>3, <4>5 DEF LineEnds, LineBegins
      <4>6. QED
        BY <1>4, <1>5, <4>4, <4>5
    <3>3. QED
      BY <3>1, <3>2
  <2>3. QED
    BY <1>0, <1>1, <1>5, <1>7, <2>2, HeaderLineRead DEF Headers
<1>8. QED
  BY <1>0, <1>6, <1>7

LEMMA ReadStep == TypeOK /\ QueueInv /\ SockInv /\ ReadInv /\ [Next]_vars => ReadInv'
<1> SUFFICES ASSUME TypeOK, QueueInv, SockInv, ReadInv, [Next]_vars  PROVE ReadInv'
  OBVIOUS
<1> USE DEF vars, clientVars, threadVars
<1>1. CASE Loop
  BY <1>1 DEF Loop, SockInv, ReadInv
<1>2. CASE Accept
  <2>1. CASE waiting /= <<>> /\ sock' = Head(waiting)
    <3>1. /\ Head(waiting) \in Clients /\ got[Head(waiting)] = 0
          /\ line = <<>> /\ spc' = "recv" /\ UNCHANGED <<script, got, line>>
      BY <1>2, <2>1, QueueHead DEF Accept, SockInv, Reading
    <3>2. script[Head(waiting)] \in Text
      BY <3>1, ServerAssumption DEF TypeOK
    <3>3. SubSeq(script[Head(waiting)], 1, 0) = <<>>
      BY <3>2 DEF Text
    <3>4. QED
      BY <2>1, <3>1, <3>3 DEF ReadInv, InRequest, InHeaders, NoEnd, Headers
  <2>2. CASE sock' = NoSocket
    BY <2>2 DEF ReadInv
  <2>3. QED
    BY <1>2, <2>1, <2>2 DEF Accept
<1>3. CASE (Recv \/ Peek) /\ sock /= NoSocket
  BY <1>3, RecvReads, PeekReads
<1>4. CASE (Recv \/ Peek) /\ sock = NoSocket
  BY <1>4 DEF Recv, Peek, ReadInv
<1>5. CASE Send
  BY <1>5 DEF Send, ReadInv, InRequest, InHeaders, Headers
<1>6. CASE Close
  BY <1>6 DEF Close, ReadInv
<1>7. CASE ServiceStop
  BY <1>7, ReadSame DEF ServiceStop, Ended
<1>8. ASSUME NEW c \in Clients, Call(c)  PROVE ReadInv'
  <2>1. sock /= NoSocket => c /= sock
    BY <1>8 DEF Call, SockInv
  <2>2. sock /= NoSocket => peer'[sock] = peer[sock]
    BY <1>8, <2>1 DEF Call, TypeOK
  <2>3. QED
    BY <1>8, <2>2, ReadSame DEF Call, Quiet, Ended
<1>9. ASSUME NEW c \in Clients, Arrive(c)  PROVE ReadInv'
  <2>1. sock /= NoSocket /\ peer[sock] = "closed" => arrived'[sock] = arrived[sock]
    BY <1>9 DEF Arrive, TypeOK
  <2>2. QED
    BY <1>9, <2>1, ReadSame DEF Arrive, Quiet, Ended
<1>10. ASSUME NEW c \in Clients, HangUp(c)  PROVE ReadInv'
  <2>1. sock /= NoSocket /\ peer[sock] = "closed" => peer'[sock] = "closed"
    BY <1>10 DEF HangUp, TypeOK
  <2>2. QED
    BY <1>10, <2>1, ReadSame DEF HangUp, Quiet, Ended
<1>11. CASE UNCHANGED vars
  BY <1>11, ReadSame DEF Ended
<1>12. QED
  BY <1>1, <1>2, <1>3, <1>4, <1>5, <1>6, <1>7, <1>8, <1>9, <1>10, <1>11 DEF Next, Server

HttpInv == TypeOK /\ BlocksInv /\ QueueInv /\ SockInv /\ ReadInv

LEMMA HttpInvHolds == Spec => []HttpInv
<1>1. Init => ReadInv
  BY DEF Init, ReadInv
<1>2. QED
  BY <1>1, InitTyped, StepTyped, InitQueue, QueueStep, ReadStep, PTL DEF Spec, HttpInv

\* However the request of a client is cut into pieces and whatever its headers
\* are, once all of it has arrived the thread does not wait for that client.
THEOREM NotHeldByWholeHolds == Spec => []NotHeldByWhole
<1>1. HttpInv => NotHeldByWhole
  <2>1. SUFFICES ASSUME HttpInv, Held, Whole(SubSeq(script[sock], 1, arrived[sock]))  PROVE FALSE
    BY DEF NotHeldByWhole
  <2>2. spc \in Reading /\ sock /= NoSocket /\ ~Ended /\ ~Readable
    BY <2>1 DEF Held, Ended
  <2>a. PICK text \in Text : \E n \in 0 .. Len(text) : text = script[sock] /\ n = got[sock]
    BY <2>1, <2>2, ServedText DEF HttpInv
  <2>3. PICK n \in 0 .. Len(text) : text = script[sock] /\ n = got[sock]
    BY <2>a
  <2>4. arrived[sock] = n
    <3>1. sock \in Clients
      BY <2>1, <2>2 DEF HttpInv, TypeOK
    <3>2. got[sock] \in Nat /\ arrived[sock] \in Nat /\ got[sock] <= arrived[sock]
      BY <2>1, <3>1 DEF HttpInv, TypeOK
    <3>3. QED
      BY <2>2, <2>3, <3>2 DEF Readable
  <2>5. WholeAt(text, n)
    BY <2>1, <2>3, <2>4, WholePart
  <2>6. InRequest(text, n) /\ InHeaders(text, n)
    BY <2>1, <2>2, <2>3 DEF HttpInv, ReadInv
  <2>7. QED
    BY <2>2, <2>5, <2>6, NotWholeYet DEF InRequest, InHeaders, Reading, Headers
<1>2. QED
  BY <1>1, HttpInvHolds, PTL

=============================================================================

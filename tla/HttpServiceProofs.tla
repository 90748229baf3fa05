-------------------------- MODULE HttpServiceProofs -------------------------
(***************************************************************************)
(* The debug thread implements HttpService, for any clients and texts: a   *)
(* step of the thread is a step of the service or is not seen by it.       *)
(***************************************************************************)
EXTENDS HttpProofs

-----------------------------------------------------------------------------
(* The answer to a line.                                                    *)

Least(a, b) == IF a <= b THEN a ELSE b

\* A position found in a line is found before the line feed too.
LEMMA FindBefore ==
  ASSUME NEW text \in Text, NEW long \in Text, long = text \/ long = Append(text, "LF"),
         NEW C, NEW i \in 1 .. (Len(long) + 1), NEW j \in i .. (Len(long) + 1), IsFind(long, i, C, j)
  PROVE  IsFind(text, Least(i, Len(text) + 1), C, Least(j, Len(text) + 1))
<1>1. Len(text) \in Nat /\ Len(long) \in Nat /\ Len(text) <= Len(long)
  BY DEF Text
<1>2. \A k \in 1 .. Len(text) : long[k] = text[k]
  BY DEF Text
<1>3. QED
  BY <1>1, <1>2 DEF IsFind, Least

\* A line feed at the end of a path changes no page.
LEMMA SamePage ==
  ASSUME NEW path \in Text
  PROVE  PageOf(Append(path, "LF")) = PageOf(path)
<1> DEFINE long == Append(path, "LF")
<1>1. /\ Len(path) \in Nat /\ Len(long) = Len(path) + 1 /\ long[Len(path) + 1] = "LF"
      /\ \A k \in 1 .. Len(path) : long[k] = path[k]
  BY DEF Text
<1> HIDE DEF long
<1>2. ASSUME NEW a, a /= "LF"  PROVE StartsWith(long, <<a>>) <=> StartsWith(path, <<a>>)
  BY <1>1, <1>2 DEF StartsWith
<1>3. ASSUME NEW a, NEW b, a /= "LF", b /= "LF"  PROVE StartsWith(long, <<a, b>>) <=> StartsWith(path, <<a, b>>)
  BY <1>1, <1>3 DEF StartsWith
<1>4. /\ StartsWith(long, <<"/">>) <=> StartsWith(path, <<"/">>)
      /\ StartsWith(long, <<"/", "health">>) <=> StartsWith(path, <<"/", "health">>)
      /\ StartsWith(long, <<"/", "buildInfo">>) <=> StartsWith(path, <<"/", "buildInfo">>)
  BY <1>2, <1>3
<1>5. QED
  BY <1>4 DEF PageOf, long

\* The service's definitions are the thread's.
LEMMA SameTexts == /\ \A t, p : Service!StartsWith(t, p) = StartsWith(t, p)
                   /\ \A t : Service!PageOf(t) = PageOf(t)
                   /\ \A t, i, C, j : Service!IsFind(t, i, C, j) = IsFind(t, i, C, j)
                   /\ Service!Blanks = Blanks /\ Service!PathEnds = PathEnds
                   /\ Service!LineEnds = LineEnds /\ Service!Answers = Answers
BY Zenon DEF Service!StartsWith, Service!PageOf, Service!IsFind, Service!Blanks, Service!PathEnds,
   Service!LineEnds, Service!Answers, StartsWith, PageOf, IsFind, Blanks, PathEnds, LineEnds, Answers

\* A part of a line that ends before the line feed, and one that ends with it.
LEMMA PartBefore ==
  ASSUME NEW text \in Text, NEW i \in 1 .. (Len(text) + 1), NEW j \in 0 .. Len(text)
  PROVE  /\ SubSeq(Append(text, "LF"), i, j) = SubSeq(text, i, j)
         /\ SubSeq(Append(text, "LF"), i, Len(text) + 1) = Append(SubSeq(text, i, Len(text)), "LF")
<1>1. Len(text) \in Nat /\ "LF" \in Token
  BY TokenAssumption DEF Text
<1>2. Append(text, "LF") \in Seq(Token) /\ Len(Append(text, "LF")) = Len(text) + 1
  BY <1>1 DEF Text
<1>3. CASE i <= j
  BY <1>1, <1>2, <1>3 DEF Text
<1>4. CASE i > j
  <2>1. SubSeq(Append(text, "LF"), i, j) = <<>> /\ SubSeq(text, i, j) = <<>>
    BY <1>1, <1>2, <1>4 DEF Text
  <2>2. SubSeq(Append(text, "LF"), i, Len(text) + 1) = Append(SubSeq(text, i, Len(text)), "LF")
    BY <1>1, <1>2 DEF Text
  <2>3. QED
    BY <2>1, <2>2
<1>5. QED
  BY <1>1, <1>3, <1>4

\* The answer the thread gives to a line, with its line feed or without, is one
\* the line deserves.
LEMMA ResponseDeserved ==
  ASSUME NEW text \in Text, NEW long \in Text, long = text \/ long = Append(text, "LF")
  PROVE  Service!Deserves(text, Response(long))
<1>1. /\ Len(text) \in Nat /\ Len(long) \in Nat /\ Len(text) <= Len(long) /\ Len(long) <= Len(text) + 1
      /\ \A k \in 1 .. Len(text) : long[k] = text[k]
      /\ Len(long) = Len(text) + 1 => long = Append(text, "LF") /\ long[Len(long)] = "LF"
      /\ Len(long) = Len(text) => long = text
  BY DEF Text
<1>2. StartsWith(long, <<"GET">>) <=> StartsWith(text, <<"GET">>)
  BY <1>1 DEF StartsWith
<1>3. CASE ~StartsWith(text, <<"GET">>)
  BY <1>2, <1>3, SameTexts DEF Response, Service!Deserves
<1>4. CASE StartsWith(text, <<"GET">>)
  <2> DEFINE end   == Len(text) + 1
             space == Find(long, 1, Blanks)
             from  == Find(long, space, Token \ Blanks)
             to    == Find(long, from, PathEnds)
  <2>1. space \in 1 .. (Len(long) + 1) /\ IsFind(long, 1, Blanks, space)
    BY <1>1, FindIs
  <2> HIDE DEF space
  <2>2. from \in space .. (Len(long) + 1) /\ IsFind(long, space, Token \ Blanks, from)
    BY <2>1, FindIs
  <2> HIDE DEF from
  <2>3. from \in 1 .. (Len(long) + 1)
    BY <1>1, <2>1, <2>2
  <2>4. to \in from .. (Len(long) + 1) /\ IsFind(long, from, PathEnds, to)
    BY <2>3, FindIs
  <2>5. Path(long) = SubSeq(long, from, to - 1)
    BY DEF Path, space, from
  <2> HIDE DEF to
  <2>6. /\ Least(space, end) \in 1 .. end /\ Least(from, end) \in 1 .. end /\ Least(to, end) \in 1 .. end
        /\ Least(space, end) <= Least(from, end) /\ Least(from, end) <= Least(to, end) /\ Least(1, end) = 1
    BY <1>1, <2>1, <2>2, <2>3, <2>4 DEF Least
  <2>7. /\ IsFind(text, 1, Blanks, Least(space, end))
        /\ IsFind(text, Least(space, end), Token \ Blanks, Least(from, end))
        /\ IsFind(text, Least(from, end), PathEnds, Least(to, end))
    <3>1. IsFind(text, Least(1, end), Blanks, Least(space, end))
      BY <1>1, <2>1, FindBefore
    <3>2. QED
      BY <2>1, <2>2, <2>3, <2>4, <2>6, <3>1, FindBefore
  <2>8. PageOf(SubSeq(long, from, to - 1)) = PageOf(SubSeq(text, Least(from, end), Least(to, end) - 1))
    <3>1. CASE to <= Len(text) \/ Len(long) = Len(text)
      <4>1. SubSeq(long, from, to - 1) = SubSeq(text, Least(from, end), Least(to, end) - 1)
        <5>1. CASE Len(long) = Len(text)
          <6>0. from <= to /\ to <= Len(text) + 1 /\ from \in Int /\ to \in Int
            <7>1. from \in 1 .. (Len(long) + 1) /\ to \in from .. (Len(long) + 1)
              BY <2>3, <2>4
            <7>2. Len(long) \in Nat
              BY <1>1
            <7>3. QED
              BY <5>1, <7>1, <7>2
          <6>1. Least(from, end) = from /\ Least(to, end) = to
            BY <1>1, <6>0 DEF Least
          <6>2. long = text
            BY <1>1, <5>1
          <6>3. QED
            BY <6>1, <6>2, Zenon
        <5>2. CASE to <= Len(text) /\ long = Append(text, "LF")
          <6>1. from \in 1 .. (Len(text) + 1) /\ to - 1 \in 0 .. Len(text)
            BY <1>1, <2>3, <2>4, <5>2
          <6>2. Least(from, end) = from /\ Least(to, end) = to
            BY <1>1, <2>3, <2>4, <5>2 DEF Least
          <6>3. SubSeq(Append(text, "LF"), from, to - 1) = SubSeq(text, from, to - 1)
            BY <6>1, PartBefore
          <6>4. QED
            BY <5>2, <6>2, <6>3, Zenon
        <5>3. QED
          BY <1>1, <3>1, <5>1, <5>2
      <4>2. QED
        BY <4>1
    <3>2. CASE to > Len(text) /\ Len(long) = Len(text) + 1
      <4>1. to = Len(long) + 1
        BY <1>1, <2>4, <3>2 DEF IsFind, PathEnds, Blanks
      <4>2. CASE from = Len(long) + 1
        <5>1. SubSeq(long, from, to - 1) = <<>> /\ SubSeq(text, Least(from, end), Least(to, end) - 1) = <<>>
          BY <1>1, <3>2, <4>1, <4>2 DEF Least, Text
        <5>2. QED
          BY <5>1
      <4>3. CASE from <= Len(long)
        <5>1. SubSeq(text, from, Len(text)) \in Text
          BY <1>1, <2>3, <3>2, <4>3, PartText
        <5>2. SubSeq(long, from, Len(long)) = Append(SubSeq(text, from, Len(text)), "LF")
          BY SMTT(30), <1>1, <2>3, <3>2, <4>3, PartBefore
        <5>3. Least(from, end) = from /\ Least(to, end) - 1 = Len(text) /\ to - 1 = Len(long)
          BY <1>1, <2>3, <3>2, <4>1, <4>3 DEF Least
        <5>4. QED
          BY <5>1, <5>2, <5>3, SamePage
      <4>4. QED
        BY <1>1, <2>3, <4>2, <4>3
    <3>3. QED
      BY <1>1, <2>3, <2>4, <3>1, <3>2
  <2>9. Response(long) = PageOf(SubSeq(text, Least(from, end), Least(to, end) - 1))
    BY <1>2, <1>4, <2>5, <2>8 DEF Response
  <2>10. QED
    BY <1>4, <2>6, <2>7, <2>9, SameTexts DEF Service!Deserves, Service!PathIs
<1>5. QED
  BY <1>3, <1>4

-----------------------------------------------------------------------------
(* The steps.                                                               *)

LEMMA ServesInit == Init => Service!Init
BY DEF Init, Service!Init

\* Sending the answer is the service's reply.
LEMMA Replies ==
  ASSUME HttpInv, Send, sock /= NoSocket, answer' = [answer EXCEPT ![sock] = Response(request)]
  PROVE  Service!Reply
<1>1. sock \in Clients /\ answer[sock] = "none" /\ spc = "send"
      /\ UNCHANGED <<script, waiting, peer, sock>>
  BY DEF HttpInv, TypeOK, SockInv, Send, clientVars
<1>2. PICK text \in Text : text = script[sock]
  BY <1>1, ServerAssumption DEF HttpInv, TypeOK
<1>3. Len(text) \in Nat
  BY DEF Text
<1>4. PICK m \in 0 .. Len(text) :
        /\ NoEnd(text, m)
        /\ request \in {SubSeq(text, 1, m), Append(SubSeq(text, 1, m), "LF")}
        /\ (m < Len(text) /\ text[m + 1] \in LineEnds) \/ peer[sock] = "closed"
  BY <1>1, <1>2 DEF HttpInv, ReadInv, RequestRight, FirstLine
<1>5. PICK n \in m .. Len(text) : \/ n = m /\ peer[sock] = "closed"
                                  \/ n = m + 1 /\ text[m + 1] \in LineEnds
  BY <1>3, <1>4
<1> DEFINE seen == SubSeq(text, 1, n)
<1>6. n \in 0 .. Len(text) /\ Len(seen) = n /\ \A i \in 1 .. n : seen[i] = text[i]
  BY <1>3, <1>5 DEF Text
<1>7. SubSeq(seen, 1, m) = SubSeq(text, 1, m)
  BY <1>3, <1>5 DEF Text
<1>8. SubSeq(text, 1, m) \in Text /\ request \in Text
  <2>1. 1 \in 1 .. (Len(text) + 1)
    BY <1>3
  <2>2. QED
    BY <2>1, PartText DEF HttpInv, TypeOK
<1>9. Service!Deserves(SubSeq(seen, 1, m), Response(request))
  BY <1>4, <1>7, <1>8, ResponseDeserved
<1> HIDE DEF seen
<1>10. Service!FirstLineEnds(seen, m)
  BY <1>3, <1>4, <1>5, <1>6, SameTexts DEF NoEnd, Service!FirstLineEnds
<1>11. Service!HasLine(seen) \/ peer[sock] = "closed"
  BY <1>3, <1>5, <1>6, SameTexts DEF Service!HasLine
<1>12. Response(request) \in Answers /\ m \in 0 .. n
  BY <1>5, ResponseIsAnswer
<1>13. \E k \in 0 .. Len(script[sock]), a \in Answers :
         /\ Service!HasLine(SubSeq(script[sock], 1, k)) \/ peer[sock] = "closed"
         /\ \E i \in 0 .. k :
              /\ Service!FirstLineEnds(SubSeq(script[sock], 1, k), i)
              /\ Service!Deserves(SubSeq(SubSeq(script[sock], 1, k), 1, i), a)
         /\ answer' = [answer EXCEPT ![sock] = a]
  BY <1>2, <1>6, <1>9, <1>10, <1>11, <1>12 DEF seen
<1>14. QED
  BY <1>1, <1>13, SameTexts DEF Service!Reply

LEMMA ServesStep == HttpInv /\ [Next]_vars => [Service!Next]_Service!vars
<1> SUFFICES ASSUME HttpInv, [Next]_vars  PROVE [Service!Next]_Service!vars
  OBVIOUS
<1> USE DEF vars, clientVars, threadVars
<1>0. TypeOK /\ SockInv /\ QueueInv
  BY DEF HttpInv
<1>1. ASSUME UNCHANGED <<script, waiting, peer, sock, answer>>  PROVE UNCHANGED Service!vars
  BY <1>1 DEF Service!vars
<1>2. CASE Loop
  <2>1. CASE running
    BY <1>1, <1>2, <2>1 DEF Loop
  <2>2. CASE ~running
    BY <1>0, <1>2, <2>2 DEF Loop, SockInv, Service!Close, Service!Next
  <2>3. QED
    BY <2>1, <2>2
<1>3. CASE Accept
  <2>1. sock = NoSocket /\ UNCHANGED <<script, peer, answer>>
    BY <1>0, <1>3 DEF Accept, SockInv
  <2>2. CASE waiting /= <<>> /\ sock' = Head(waiting) /\ waiting' = Tail(waiting)
    BY <2>1, <2>2 DEF Service!Take, Service!Next
  <2>3. CASE sock' = NoSocket /\ UNCHANGED waiting
    BY <1>1, <2>1, <2>3
  <2>4. QED
    BY <1>3, <2>2, <2>3 DEF Accept
<1>4. CASE Recv \/ Peek \/ ServiceStop
  BY <1>1, <1>4 DEF Recv, Peek, ServiceStop
<1>5. CASE Send
  <2>1. CASE sock /= NoSocket /\ answer' = [answer EXCEPT ![sock] = Response(request)]
    BY <1>5, <2>1, Replies DEF Service!Next
  <2>2. CASE UNCHANGED answer
    BY <1>1, <1>5, <2>2 DEF Send
  <2>3. QED
    BY <1>5, <2>1, <2>2 DEF Send
<1>6. CASE Close
  <2>1. sock' = NoSocket /\ UNCHANGED <<script, answer, waiting>>
    BY <1>6 DEF Close
  <2>2. CASE sock = NoSocket
    BY <1>1, <1>6, <2>1, <2>2 DEF Close
  <2>3. CASE sock /= NoSocket
    <3>1. sock \in Clients /\ answer[sock] /= "none" /\ peer[sock] /= "away"
          /\ peer' = [peer EXCEPT ![sock] = "closed"]
      BY <1>0, <1>6, <2>3 DEF Close, SockInv, TypeOK
    <3>2. {c \in Clients : peer'[c] = "closed"} = {c \in Clients : peer[c] = "closed"} \cup {sock}
      BY <1>0, <3>1 DEF TypeOK
    <3>3. {c \in Clients : peer'[c] /= "away"} = {c \in Clients : peer[c] /= "away"}
      BY <1>0, <3>1 DEF TypeOK
    <3>4. Service!Release
      BY <2>1, <2>3, <3>1, <3>2, <3>3 DEF Service!Release
    <3>5. QED
      BY <3>4 DEF Service!Next
  <2>4. QED
    BY <2>2, <2>3
<1>7. ASSUME NEW c \in Clients, Call(c)  PROVE Service!Next
  <2>1. peer[c] = "away" /\ peer' = [peer EXCEPT ![c] = "open"] /\ waiting' = Append(waiting, c)
        /\ UNCHANGED <<script, sock, answer>>
    BY <1>7 DEF Call, Quiet
  <2>2. {d \in Clients : peer'[d] /= "away"} = {d \in Clients : peer[d] /= "away"} \cup {c}
    BY <1>0, <2>1 DEF TypeOK
  <2>3. {d \in Clients : peer'[d] = "closed"} = {d \in Clients : peer[d] = "closed"}
    BY <1>0, <2>1 DEF TypeOK
  <2>4. Service!Call(c)
    BY <2>1, <2>2, <2>3 DEF Service!Call
  <2>5. QED
    BY <2>4 DEF Service!Next
<1>8. ASSUME NEW c \in Clients, Arrive(c)  PROVE UNCHANGED Service!vars
  BY <1>1, <1>8 DEF Arrive, Quiet
<1>9. ASSUME NEW c \in Clients, HangUp(c)  PROVE Service!Next
  <2>1. peer[c] = "open" /\ peer' = [peer EXCEPT ![c] = "closed"] /\ UNCHANGED <<script, waiting, sock, answer>>
    BY <1>9 DEF HangUp, Quiet
  <2>2. {d \in Clients : peer'[d] = "closed"} = {d \in Clients : peer[d] = "closed"} \cup {c}
    BY <1>0, <2>1 DEF TypeOK
  <2>3. {d \in Clients : peer'[d] /= "away"} = {d \in Clients : peer[d] /= "away"}
    BY <1>0, <2>1 DEF TypeOK
  <2>4. Service!HangUp(c)
    BY <2>1, <2>2, <2>3 DEF Service!HangUp
  <2>5. QED
    BY <2>4 DEF Service!Next
<1>10. CASE UNCHANGED vars
  BY <1>1, <1>10
<1>11. QED
  BY <1>2, <1>3, <1>4, <1>5, <1>6, <1>7, <1>8, <1>9, <1>10 DEF Next, Server

\* The debug thread implements the service: it takes its clients in the order of
\* their calls, one at a time, and sends each one, once, what its first line asks
\* for, whatever the network does to the bytes.
THEOREM ServiceImplemented == Spec => ImplementsService
<1>1. QED
  BY HttpInvHolds, ServesInit, ServesStep, PTL DEF Spec, ImplementsService, Service!Spec

=============================================================================

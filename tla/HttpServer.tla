----------------------------- MODULE HttpServer -----------------------------
(***************************************************************************)
(* The debug thread and its clients, byte by byte (pi_timer_server.c,      *)
(* debug_thread() and what it calls).  One thread serves one client after  *)
(* another; it reads a request one character at a time with a recv() that  *)
(* waits, and looks one further, with MSG_PEEK, after a carriage return.   *)
(* What the status page reads of the settings is in DebugServer.           *)
(*                                                                         *)
(* spc is where the thread stands:                                         *)
(*   loop         - the test of service_running                            *)
(*   accept       - waiting for a client                                   *)
(*   recv, peek   - in http_read_line(), for the request line              *)
(*   recvHeader, peekHeader - the same, for a line in parse_headers()      *)
(*   send, close  - the answer and the end of the turn                     *)
(*   done, ended  - the thread has returned; SIGPIPE has ended the process *)
(***************************************************************************)
EXTENDS HttpRequest

CONSTANTS
  Clients,
  Scripts,      \* the texts a client may mean to send
  NoSocket,     \* the -1 of a failed accept()
  Backlog,      \* the calls that the kernel lets wait
  MaxUnread,    \* bound: what may lie unread in a socket
  MaxFailures   \* bound: failures of accept()

ASSUME ServerAssumption ==
  /\ Scripts \subseteq Text
  /\ NoSocket \notin Clients
  /\ {Backlog, MaxUnread, MaxFailures} \subseteq Nat

VARIABLES
  script,    \* script[c]: what client c means to send
  arrived,   \* arrived[c]: how much of it has reached the server's socket
  peer,      \* peer[c]: "away" before the call, then "open" or "closed"
  answer,    \* answer[c]: what c was sent, or "none"
  waiting,   \* the calls nobody accepted yet, in order
  spc, sock, \* sock is client_socket
  got,       \* got[c]: how much of its script recv() has taken
  request,   \* request_buffer, once the request line is read
  line,      \* the line being read
  headers,   \* the header map
  held,      \* held[b]: blocks of kind b the thread has not freed
  failures, running

clientVars == <<script, arrived, peer>>
threadVars == <<spc, sock, got, request, line, headers, held>>
vars == <<clientVars, answer, waiting, threadVars, failures, running>>

Blocks  == {"request", "path", "response", "headers", "line"}
Reading == {"recv", "peek", "recvHeader", "peekHeader"}
Points  == Reading \cup {"loop", "accept", "send", "close", "done", "ended"}

NoHeaders == [key \in {} |-> <<>>]

TypeOK ==
  /\ script \in [Clients -> Scripts]
  /\ arrived \in [Clients -> Nat] /\ got \in [Clients -> Nat]
  /\ \A c \in Clients : got[c] <= arrived[c] /\ arrived[c] <= Len(script[c])
  /\ peer \in [Clients -> {"away", "open", "closed"}]
  /\ answer \in [Clients -> Answers \cup {"none"}]
  /\ waiting \in Seq(Clients)
  /\ spc \in Points
  /\ sock \in Clients \cup {NoSocket}
  /\ request \in Text /\ line \in Text
  /\ DOMAIN headers \subseteq Text /\ \A key \in DOMAIN headers : headers[key] \in Text
  /\ held \in [Blocks -> Nat]
  /\ failures \in 0 .. MaxFailures
  /\ running \in BOOLEAN

Init ==
  /\ script \in [Clients -> Scripts]
  /\ arrived = [c \in Clients |-> 0] /\ got = [c \in Clients |-> 0]
  /\ peer = [c \in Clients |-> "away"]
  /\ answer = [c \in Clients |-> "none"]
  /\ waiting = <<>>
  /\ spc = "loop" /\ sock = NoSocket
  /\ request = <<>> /\ line = <<>> /\ headers = NoHeaders
  /\ held = [b \in Blocks |-> 0]
  /\ failures = 0 /\ running = TRUE

-----------------------------------------------------------------------------
(***************************************************************************)
(* The clients and the network: bytes arrive in order and in any pieces; a *)
(* client may stop sending at any point, or neither send nor hang up.      *)
(***************************************************************************)
Quiet == UNCHANGED <<answer, threadVars, failures, running>>

Call(c) == /\ peer[c] = "away" /\ Len(waiting) < Backlog
           /\ spc \notin {"done", "ended"}
           /\ peer' = [peer EXCEPT ![c] = "open"]
           /\ waiting' = Append(waiting, c)
           /\ Quiet /\ UNCHANGED <<script, arrived>>

Arrive(c) == /\ peer[c] = "open"
             /\ arrived[c] < Len(script[c]) /\ arrived[c] - got[c] < MaxUnread
             /\ arrived' = [arrived EXCEPT ![c] = @ + 1]
             /\ Quiet /\ UNCHANGED <<script, peer, waiting>>

HangUp(c) == /\ peer[c] = "open"
             /\ peer' = [peer EXCEPT ![c] = "closed"]
             /\ Quiet /\ UNCHANGED <<script, arrived, waiting>>

\* service_stop(), in a signal handler.
ServiceStop == /\ running /\ running' = FALSE
               /\ UNCHANGED <<clientVars, answer, waiting, threadVars, failures>>

-----------------------------------------------------------------------------
(***************************************************************************)
(* recv(): the next character, the end of the stream or an error (which    *)
(* the code does not tell apart; -1 is no socket), or a wait.              *)
(***************************************************************************)
Readable == sock /= NoSocket /\ got[sock] < arrived[sock]
Ended    == sock /= NoSocket => peer[sock] = "closed" /\ got[sock] = arrived[sock]
Next1    == script[sock][got[sock] + 1]
Consume  == got' = [got EXCEPT ![sock] = @ + 1]

Allocate(blocks) == held' = [b \in Blocks |-> IF b \in blocks THEN held[b] + 1 ELSE held[b]]
Free(blocks)     == held' = [b \in Blocks |-> IF b \in blocks THEN held[b] - 1 ELSE held[b]]

\* The loop of debug_thread(): the last request_buffer is freed after it.
Loop == /\ spc = "loop"
        /\ IF running THEN spc' = "accept" /\ Allocate({"request"}) /\ UNCHANGED waiting
           ELSE /\ spc' = "done" /\ waiting' = <<>>
                /\ Free(IF held["request"] > 0 THEN {"request"} ELSE {})
        /\ UNCHANGED <<clientVars, answer, sock, got, request, line, headers, failures, running>>

Accept == /\ spc = "accept"
          /\ \/ /\ waiting /= <<>>
                /\ sock' = Head(waiting) /\ waiting' = Tail(waiting)
                /\ UNCHANGED failures
             \/ /\ failures < MaxFailures
                /\ failures' = failures + 1
                /\ sock' = NoSocket /\ UNCHANGED waiting
          /\ spc' = "recv"
          /\ UNCHANGED <<clientVars, answer, got, request, line, headers, held, running>>

-----------------------------------------------------------------------------
(***************************************************************************)
(* A line is read: the request line, or one in parse_headers(), which      *)
(* stops at the first line without a key, an empty one or the end.         *)
(***************************************************************************)
RequestRead(text) == /\ request' = text
                     /\ headers' = NoHeaders
                     /\ Allocate({"path", "response", "headers", "line"})
                     /\ spc' = "recvHeader"

Put(key, value) == [k \in DOMAIN headers \cup {key} |-> IF k = key THEN value ELSE headers[k]]

HeaderReadToEndMut(text) ==
  /\ UNCHANGED <<request, headers>>
  /\ IF text = <<>> THEN spc' = "send" /\ Free({"line"})
                    ELSE spc' = "recvHeader" /\ UNCHANGED held
HeaderRead(text) ==
  /\ headers' = IF Key(text) /= <<>> /\ Value(text) /= <<>> THEN Put(Key(text), Value(text))
                                                            ELSE headers
  /\ IF Key(text) = <<>> THEN spc' = "send" /\ Free({"line"})
                         ELSE spc' = "recvHeader" /\ UNCHANGED held
  /\ UNCHANGED request

LineReadUnendedMut(text) == /\ Len(text) > 0
                            /\ IF spc \in {"recv", "peek"} THEN RequestRead(text) ELSE HeaderRead(text)
                            /\ line' = <<>>
LineRead(text) == /\ IF spc \in {"recv", "peek"} THEN RequestRead(text) ELSE HeaderRead(text)
                  /\ line' = <<>>

Recv == /\ spc \in {"recv", "recvHeader"}
        /\ \/ /\ Readable /\ Next1 \notin LineEnds /\ Consume
              /\ line' = Append(line, Next1)
              /\ UNCHANGED <<spc, request, headers, held>>
           \/ /\ Readable /\ Next1 = "CR" /\ Consume
              /\ spc' = IF spc = "recv" THEN "peek" ELSE "peekHeader"
              /\ UNCHANGED <<request, line, headers, held>>
           \/ Readable /\ Next1 = "LF" /\ Consume /\ LineRead(Append(line, "LF"))
           \/ Ended /\ LineRead(line) /\ UNCHANGED got
        /\ UNCHANGED <<clientVars, answer, waiting, sock, failures, running>>

PeekConsumesMut == /\ spc \in {"peek", "peekHeader"}
                   /\ Readable \/ Ended
                   /\ Consume
                   /\ LineRead(Append(line, "LF"))
                   /\ UNCHANGED <<clientVars, answer, waiting, sock, failures, running>>
\* After a carriage return: a line feed that follows is taken too, and
\* anything else, even the end, leaves a line feed in its place.
Peek == /\ spc \in {"peek", "peekHeader"}
        /\ Readable \/ Ended
        /\ IF Readable /\ Next1 = "LF" THEN Consume ELSE UNCHANGED got
        /\ LineRead(Append(line, "LF"))
        /\ UNCHANGED <<clientVars, answer, waiting, sock, failures, running>>

-----------------------------------------------------------------------------
\* The answer is sent; to a client that is gone it may raise SIGPIPE, whose
\* handler ends the process.
Send == /\ spc = "send"
        /\ \/ /\ answer' = IF sock = NoSocket THEN answer
                           ELSE [answer EXCEPT ![sock] = Response(request)]
              /\ spc' = "close"
           \/ /\ sock /= NoSocket /\ peer[sock] = "closed"
              /\ spc' = "ended" /\ UNCHANGED answer
        /\ UNCHANGED <<clientVars, waiting, sock, got, request, line, headers, held, failures, running>>

CloseHeadersKeptMut ==
         /\ spc = "close" /\ spc' = "loop"
         /\ peer' = IF sock = NoSocket THEN peer ELSE [peer EXCEPT ![sock] = "closed"]
         /\ sock' = NoSocket
         /\ Free({"response", "path"})
         /\ request' = <<>> /\ headers' = NoHeaders
         /\ UNCHANGED <<script, arrived, answer, waiting, got, line, failures, running>>
Close == /\ spc = "close" /\ spc' = "loop"
         /\ peer' = IF sock = NoSocket THEN peer ELSE [peer EXCEPT ![sock] = "closed"]
         /\ sock' = NoSocket
         /\ Free({"response", "path", "headers"})
         /\ request' = <<>> /\ headers' = NoHeaders
         /\ UNCHANGED <<script, arrived, answer, waiting, got, line, failures, running>>

-----------------------------------------------------------------------------
Server == Loop \/ Accept \/ Recv \/ Peek \/ Send \/ Close

Next == \/ Server
        \/ ServiceStop
        \/ \E c \in Clients : Call(c) \/ Arrive(c) \/ HangUp(c)

Spec == Init /\ [][Next]_vars

\* The thread is scheduled; no client has to call, to send or to hang up.
FairSpec == Spec /\ WF_vars(Server)

-----------------------------------------------------------------------------
\* The thread waits for the client it serves, and everybody else with it.
Held == /\ spc \in Reading
        /\ ~Readable /\ ~Ended

\* A whole request: a first line, then an empty line, ended by a line feed.
EndsAt(text, i) == text[i] = "LF" \/ (text[i] = "CR" /\ (i < Len(text) => text[i + 1] /= "LF"))
Whole(text) == \E i, j \in 1 .. Len(text) :
                 /\ i < j /\ EndsAt(text, i) /\ text[j] = "LF"
                 /\ \A k \in (i + 1) .. (j - 1) : text[k] = "CR" /\ k = j - 1

\* A client whose whole request has arrived never makes the thread wait, wherever
\* the pieces were cut and whatever its headers are (http_read_line() looks one
\* character ahead, parse_headers() stops at the empty line).
NotHeldByWhole == Held => ~Whole(SubSeq(script[sock], 1, arrived[sock]))

\* Between two turns the thread holds nothing but request buffers, and within a
\* turn it holds no block twice: debug_thread() frees what a turn took whatever
\* the client did.  (The request buffers are freed only when the loop ends, and
\* then only the last one.)
TurnsFreeTheirBlocks ==
  /\ \A b \in Blocks \ {"request"} : held[b] <= 1
  /\ spc \in {"loop", "accept", "done"} => \A b \in Blocks \ {"request"} : held[b] = 0

\* What reaches the header map is fit for it: no key is empty, no key holds the
\* separator and neither keys nor values hold a line end.
HeadersClean ==
  \A key \in DOMAIN headers :
    /\ key /= <<>> /\ headers[key] /= <<>>
    /\ \A i \in 1 .. Len(key) : key[i] \notin LineEnds \cup {":"}
    /\ \A i \in 1 .. Len(headers[key]) : headers[key][i] \notin LineEnds

\* A client in the queue is answered, unless a client holds the thread for ever,
\* the service stops or the process ends.  It rests on MaxFailures: an accept()
\* that fails on every turn (EMFILE, say) would leave the queue waiting for ever.
AnsweredUnlessHeld ==
  []<>~Held => \A c \in Clients :
    ((\E i \in 1 .. Len(waiting) : waiting[i] = c) ~> (answer[c] /= "none" \/ ~running \/ spc = "ended"))

(***************************************************************************)
(* The thread implements the service: what it is in the middle of reading  *)
(* is not seen, and a turn on no socket serves nobody.                     *)
(***************************************************************************)
Service == INSTANCE HttpService WITH
  called  <- {c \in Clients : peer[c] /= "away"},
  gone    <- {c \in Clients : peer[c] = "closed"},
  serving <- sock,
  Nobody  <- NoSocket

ImplementsService == Service!Spec
=============================================================================

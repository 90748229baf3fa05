----------------------------- MODULE DebugServer ----------------------------
(***************************************************************************)
(* The debug thread (pi_timer_server.c, debug_thread): it opens its        *)
(* socket, then serves one client after another while the service runs.    *)
(* The status page reads the settings the main thread writes, with no      *)
(* lock, and works out the next trigger time inside localtime()'s shared   *)
(* buffer.                                                                 *)
(*                                                                         *)
(* srv is where the thread stands:                                         *)
(*   off                                    - not created                  *)
(*   hello, socket, socketLog, optionLog, bind, bindLog, listenLog,        *)
(*   failLog, stageLog                      - the set-up                   *)
(*   loop, accept                           - waiting for a client         *)
(*   elapsed, remaining, localtime, total, setMin, print                   *)
(*                                          - http_output_config()         *)
(*   send                                   - http_send_response()         *)
(*   done                                   - the thread has returned      *)
(***************************************************************************)
EXTENDS Platform

VARIABLES
  srv,
  elapsed,  \* minutes_so_far in get_minutes_remaining(), 0 when not in use
  unread,   \* the operands of total_minutes that are still to be read for it
  sum,      \* those that have been read
  page      \* what the page says: the minutes remaining and the next trigger

sumVars == <<unread, sum>>
srvVars == <<srv, elapsed, sumVars, page>>

AfterSrvLog == [hello |-> "socket", socketLog |-> "failLog", optionLog |-> "bind",
                bindLog |-> "listenLog", listenLog |-> "failLog",
                failLog |-> "done", stageLog |-> "loop"]

SrvPoints == DOMAIN AfterSrvLog
               \cup {"off", "socket", "bind", "loop", "accept", "elapsed", "remaining",
                     "localtime", "total", "setMin", "print", "send", "done"}

\* total_minutes adds up two fields of the buffer and get_minutes_remaining(),
\* which reads start_time and then duration_minutes.
Operands == {"hour", "min", "start", "length"}

NoSum  == [hour |-> 0, min |-> 0, left |-> 0]
NoPage == [remaining |-> 0, hour |-> 0, min |-> 0]

SrvTypeOK ==
  /\ srv \in SrvPoints
  /\ elapsed \in Nat
  /\ unread \subseteq Operands
  /\ sum \in [hour : Int, min : Int, left : Int]
  /\ page \in [remaining : Int, hour : Int, min : Int]

SrvFresh(s, e, u, t, p) == s = "off" /\ e = 0 /\ u = {} /\ t = NoSum /\ p = NoPage
SrvInit  == SrvFresh(srv, elapsed, unread, sum, page)
SrvReset == SrvFresh(srv', elapsed', unread', sum', page')

Goto(from, to) == srv = from /\ srv' = to

ReadsOnly == UNCHANGED <<settings, platform>>
-----------------------------------------------------------------------------
\* log_message() on this thread, entered and left.
SrvLogBegin == /\ srv \in DOMAIN AfterSrvLog
               /\ TakeLog("server")
               /\ UNCHANGED <<settings, pinVars, lag, srvVars>>

SrvLogEnd == /\ srv \in DOMAIN AfterSrvLog
             /\ DropLog("server")
             /\ srv' = AfterSrvLog[srv]
             /\ UNCHANGED <<settings, pinVars, lag, elapsed, sumVars, page>>

\* debug_startup_connection(): a failed setsockopt() is only logged.  (A failed
\* getaddrinfo() is a fault of the thread, in the composing module.)
Socket == /\ \E to \in {"bind", "socketLog", "optionLog"} : Goto("socket", to)
          /\ ReadsOnly /\ UNCHANGED <<elapsed, sumVars, page>>

\* After a failed bind() the code still calls listen(), on -1, which fails too.
Bind == /\ \E to \in {"stageLog", "bindLog", "listenLog"} : Goto("bind", to)
        /\ ReadsOnly /\ UNCHANGED <<elapsed, sumVars, page>>

-----------------------------------------------------------------------------
Loop == /\ Goto("loop", IF running THEN "accept" ELSE "done")
        /\ Waits("server")
        /\ UNCHANGED <<settings, pinVars, logger, elapsed, sumVars, page>>

\* A client connects and its request is read; "/" asks for the status page,
\* any other answer (or a failed accept()) touches nothing shared.
Accept == /\ \E to \in {"elapsed", "send"} : Goto("accept", to)
          /\ ReadsOnly /\ UNCHANGED <<elapsed, sumVars, page>>

\* get_minutes_remaining(): start_time and the clock first ...
ReadElapsed == /\ Goto("elapsed", "remaining")
               /\ elapsed' = ElapsedMinutes
               /\ ReadsOnly /\ UNCHANGED <<sumVars, page>>

\* ... then duration_minutes.
MinutesRemaining == duration - elapsed

PrintRemaining == /\ Goto("remaining", "localtime")
                  /\ page' = [page EXCEPT !.remaining = MinutesRemaining]
                  /\ elapsed' = 0
                  /\ ReadsOnly /\ UNCHANGED sumVars

PageTime == /\ Goto("localtime", "total")
            /\ Localtime
            /\ unread' = Operands
            /\ UNCHANGED <<now, hours, pauseVars, running, platform, elapsed, sum, page>>

-----------------------------------------------------------------------------
(***************************************************************************)
(* total_minutes: C does not say in which order the operands of a sum are  *)
(* read, and the main thread may call localtime() between any two of them. *)
(***************************************************************************)
Read(operand) == /\ srv = "total" /\ operand \in unread
                 /\ unread' = unread \ {operand}
                 /\ ReadsOnly /\ UNCHANGED <<srv, page>>

ReadHour == Read("hour") /\ sum' = [sum EXCEPT !.hour = tm.hour] /\ UNCHANGED elapsed

ReadMin == Read("min") /\ sum' = [sum EXCEPT !.min = tm.min] /\ UNCHANGED elapsed

ReadStart == Read("start") /\ elapsed' = ElapsedMinutes /\ UNCHANGED sum

ReadLength == /\ Read("length") /\ "start" \notin unread
              /\ sum' = [sum EXCEPT !.left = MinutesRemaining]
              /\ elapsed' = 0

\* C's division truncates towards zero, and its remainder follows the dividend.
CDiv(a, b) == IF a >= 0 THEN a \div b ELSE -((-a) \div b)
CMod(a, b) == a - b * CDiv(a, b)

TotalMinutes == sum.min + sum.hour * HourMinutes + sum.left

\* The hour and then the minute of the next trigger replace what is in the
\* buffer by now.
SetHour == /\ Goto("total", "setMin") /\ unread = {}
           /\ tm' = [tm EXCEPT !.hour = CDiv(TotalMinutes, HourMinutes)]
           /\ UNCHANGED <<now, hours, pauseVars, running, platform, elapsed, sumVars, page>>

SetMin == /\ Goto("setMin", "print")
          /\ tm' = [tm EXCEPT !.min = CMod(TotalMinutes, HourMinutes)]
          /\ sum' = NoSum
          /\ UNCHANGED <<now, hours, pauseVars, running, platform, elapsed, unread, page>>

PrintTrigger == /\ Goto("print", "send")
                /\ page' = [page EXCEPT !.hour = tm.hour, !.min = tm.min]
                /\ Waits("server")
                /\ UNCHANGED <<settings, pinVars, logger, elapsed, sumVars>>

Send == /\ Goto("send", "loop")
        /\ page' = NoPage
        /\ ReadsOnly /\ UNCHANGED <<elapsed, sumVars>>

SrvStep == \/ SrvLogBegin \/ SrvLogEnd
           \/ Socket \/ Bind \/ Loop
           \/ ReadElapsed \/ PrintRemaining \/ PageTime
           \/ ReadHour \/ ReadMin \/ ReadStart \/ ReadLength
           \/ SetHour \/ SetMin \/ PrintTrigger \/ Send
=============================================================================

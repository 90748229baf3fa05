# A TLA+ model of pi-timer

pi-timer (`src/`) switches a GPIO pin of a Raspberry Pi on and off: a fan runs
`run` minutes, rests `sleep` minutes (plus a random part), and starts only
while the hour lies in `up_time`.  A second thread serves a status page.  A
signal turns the pin off and ends the process.

This directory holds TLA+ modules of that program, the TLC runs that check
them on small instances, and TLAPS proofs that hold for every value of the
options.  `PROJECT.json` lists runs, mutants, hazards and the source lines of
every definition.

## 1. The system

| component | state | operations | hard because |
|---|---|---|---|
| command line (`main.c`, `pi_timer_settings.c`) | the settings, the text of `up_time` | `parse_arguments`, `set_up_time_string`, the setters | `atol()` of null pointers and of numbers too wide, `strtok` on a string that is kept |
| main loop (`main.c`) | where `main()` is in its loop, the sleep it is in | `fork_process`, set-up, `pi_timer_start/stop`, `pause_minutes`, the loop | interrupted anywhere by signals; shares settings with the server thread without a lock |
| signal handlers (`main.c`) | `service_running`, the pin | `signal_shutdown`, `signal_SIGPIPE`, `service_stop` | run on either thread, log (not async-signal-safe), never return |
| settings (`pi_timer_settings.c`) | window, pause length and start, options | `is_operation_enabled`, `check_hours`, `set_timer_start`, `get_minutes_remaining`, `random_time` | `localtime()`'s one static buffer, two-word pause read while written |
| GPIO (`pi_timer_gpio.c`) | level of the pin, which outlives the process | `setup_wring_pi`, `set_gpio` | a crash leaves the pin as it is |
| logging, clocks (`pi_utils.c`) | the lock inside `syslog()`/`malloc()` | `log_message`, `timer_start`, `timer_diff_minutes` | a handler can wait for the lock of the code it interrupted |
| debug server (`pi_timer_server.c`) | thread position, socket, request, headers, page | `debug_thread`, `http_read_line`, `http_parse_path`, `parse_headers`, `http_output_response`, `http_output_config` | one thread, `recv()` that waits, clients that stop or hang up; writes the *next trigger hour* into the shared `struct tm` |
| string map (`pi_strmap.c`) | buckets of key/value pairs | put, add, get, enum | allocation failures between steps |
| string buffer (`pi_string.c`) | size, position, bytes | new, append, resize, reset | growth arithmetic, terminator |
| init script (`pitimer.sh`) | the `ps` listing, the processes | start, stop | acts on a listing that may be stale; does not wait for what it kills |
| build files | - | - | not modelled: nothing happens at run time |

How they interact: the main thread creates the server thread
(`pi_timer_service_start`).  Both read and write `pi_timer_settings.c`'s
globals without a lock.  Handlers run on top of a thread and write the pin and
`service_running`.  Every log line takes the log lock.  Clients reach the
server thread only.  The command line is read before any of that; the init
script sees no more of a process than its name and its end.

What makes each part correct:

* main loop: the pin is high only in the run pause; a run lasts as asked; the
  fan starts only in `up_time`; it runs again and again.
* handlers: a handled signal ends the process and leaves the pin low.
* settings: what a page shows of a pause that is just changing is never more
  than what is left.
* command line: each setting is what was asked for last, a pause is as long as it
  was asked for, and whether the program runs, prints its usage or crashes follows from the words.
* debug server: clients are answered in turn, each with what its first line
  asks for; who has sent a whole request is not waited for; a turn frees what
  it took.
* init script: one timer at a time; after a stop none is left that was not told
  to end; the pin is low when the last is gone.
* string map: it is a map - one value per key, unchanged by a failed call.
* string buffer: always terminated inside its allocation.

## 2. Modules

```
Settings --- Platform --+-- MainThread ---+
                        +-- DebugServer --+-- PiTimer -- PiTimerProperties
PiTimerProperties -- PiTimerFan (INSTANCE FanTimer) --+-- PiTimerProofs
                                                      +-- MCPiTimer, for TLC
Texts --- StrMap (INSTANCE AbstractMap) --+-- StrMapProofs
                                          +-- MCStrMap, for TLC
PiString --+-- PiStringProofs
           +-- MCPiString, for TLC
HttpRequest --+-- HttpService
              +-- HttpServer (INSTANCE HttpService) --+-- HttpProofs -- HttpServiceProofs
                                                      +-- MCHttp, for TLC
Arguments --+-- ArgumentsProofs          InitScript --+-- InitScriptProofs
            +-- MCArguments, for TLC                  +-- MCInitScript, for TLC
Minima: the least element of a set of numbers, for StrMapProofs, PiStringProofs, ArgumentsProofs
        and HttpProofs
```

* **Settings** - the wall clock `now`, `tm` (the static buffer), the window
  (`startHour`, `endHour`), the pause (`duration`, and `age`, the ticks since
  `start_time`), `running`.  A tick is a second when `MinuteTicks` is 60; all
  units are constants, so that a small day can be checked.  `sleep(minutes *
  60)` is an unsigned product (`% UIntRange`), and the hour is compared as an
  unsigned number, as in C.
* **Platform** - `level`, `held` (ticks since it changed), `wired` (a write
  reaches the pin only after `wiringPiSetup`), `logger` (who is inside
  `log_message`), `lag`.  wiringPi and the kernel are external; this is the
  hardware build, not the emulator.
* **MainThread** - one program point per step that another thread or a handler
  can see: `localtime()` and the reading of the hour are two steps, as are the
  two assignments of `set_timer_start`.  A log line is entered and left.
* **DebugServer** - the thread's life from its socket to its end and the steps of
  `http_output_config` that touch shared state: each operand of `total_minutes`
  (in any order, as C leaves it), the write of the hour and the write of the
  minute are steps of their own, between which the main thread may call
  `localtime()`.  `time()` and the `localtime()` behind it are one step, on both
  threads: a tick between them makes the time in the buffer older, but no older
  than the lag of its thread, which is what the properties count.  A request for anything but the status page, and a failed `accept`,
  touch nothing shared and are one step here; how a request is read is in
  HttpServer.
* **PiTimer** - composes them: a thread runs unless a handler is on top of it;
  handlers step from their log line to `exit()`; the process may be started,
  signalled, killed; time passes.  `Die` forgets all but the pin and the clock.
  `Fault` is a signal the debug thread brings on itself: SIGPIPE at a `send()` to
  a client that is gone, SIGSEGV when `getaddrinfo()` failed (`AddressFails`) and
  its NULL result is dereferenced.
* **FanTimer** - the abstract promise: on for at least the run, off for at
  least the rest, off when closed; no threads, no locks.  **PiTimerFan** gives
  the refinement mapping and the invariant its proof needs.
* **PiTimerProperties** - the properties and the inductive invariants.
* **Texts**, **StrMap**, **AbstractMap** - strings as far as the map looks at
  them, the chained hash map with failing allocations, and the map its
  puts, adds and gets implement.
* **PiString** - the growing buffer, byte by byte.
* **HttpRequest** - what the server makes of a text: path, page, header key and
  value.  **HttpServer** - the debug thread and its clients, token by
  token.
  **HttpService** - what it promises them (section 7).
* **Arguments** - the command line and the settings it writes (section 8).
* **InitScript** - calls of the script and the processes they launch and kill
  (section 9).

HttpServer and DebugServer are two views of one thread: DebugServer's `Accept`
stands for a whole request as far as the rest of the program can see it, and
HttpServer leaves out what a page reads of the settings.

## 3. What the runs check

| run | what varies | properties |
|---|---|---|
| `signals` | signals and nested signals on the main thread, kills, restarts, random rests, no server | types, `HighOnlyInRun`, `HandledExitLow`, `RunTimeBounded`, `HighNearUpTime`, `DecidesByTheClock`, refinement of `FanTimer` |
| `pages` | status pages at any point, no signals, fair scheduling | `PageNeverOverstates`, `StartsNearUpTime`, `PinNearUpTime`, `FanRunsAgain` |
| `shutdown` | signals on either thread, clients that hang up, an address that is not found | `RunEnds`, `ShutdownCompletes` |
| `strmap` | any sequence of calls on a map, any allocation failing | `OnePairPerKey`, `ValueFits`, `CopyFits`, `NothingLost`, refinement of `AbstractMap` (section 5) |
| `pistring` | any sequence of appends to a buffer, any allocation failing | `Terminated`, `AllInside`, `OnlyAppends` (section 6) |
| `http` | two clients, five requests, any pieces, hang-ups, a failing `accept`, a shutdown | `NotHeldByWhole`, `TurnsFreeTheirBlocks`, `HeadersClean`, refinement of `HttpService`, `AnsweredUnlessHeld` (section 7) |
| `arguments` | every command line of up to three of nineteen arguments | `PausesLast`, `LastOptionWins`, `UpTimeOnce`, `OutcomeByFirstEnd` (section 8) |
| `script` | four calls of the script, overlapping or not, failures, a signal on a debug thread | `OneTimer`, `PinFollowsTimer`, `LowWithoutTimer`, `StopReachesAll`, `StartLeavesOne` (section 9) |

`PageNeverOverstates` depends on an order nobody documented: `set_timer_start`
writes the length and then the start, `get_minutes_remaining` reads the start
and then the length.  Swap either and a page can show too much (the mutant
does).  `StartsNearUpTime` and `FanRunsAgain` bound the damage of the shared
buffer.  Two things can go wrong with the hour the loop goes by.  The page may
have added up the minute of one time and the hour of the next (the loop called
`localtime()` between the two reads), which makes the sum up to an hour too
late, so that the fan starts up to an hour early.  And it may overwrite the
loop's fresh hour by one computed from an older read, so that the fan starts
after the window's end, but by no more than the lags of both threads, for after
the first pause at most a minute of the pause is left when the loop looks.
`PinNearUpTime` is what follows for the pin: up to an hour early and, past the
end, a run and three lags late.  That the fan runs again for all that
(`FanRunsAgain`) is checked with a window of two hours, which a pause and the
lags together do not skip.  `StartsNearUpTime`,
`PinNearUpTime`, `HighNearUpTime` and `RunTimeBounded` except a process with a
stuck handler (`~Wedged`): a handler that waits for the log lock of its own
thread keeps it from the other thread too, for as long as the process lives, and
no scheduling bound holds any more.

Runs that TLC must refute, each a statement of the repository:

| run | statement | what happens |
|---|---|---|
| `page_race` | pi_timer_settings.c:55 "getting the current hour" | a status page has just written its trigger hour into the buffer; before the first pause that is a huge negative number and the first run is missed |
| `broken_pipe` | a stopped service logs "Stop pi timer" and is low | SIGPIPE is handled on the server thread while the main thread writes the pin high before `exit()` |
| `wedge` | "Shutting down the service" | the signal interrupted the main thread inside `syslog()`; the handler waits for that lock for ever |
| `midnight` | README.md:89, "24 hour range" | a start of 0 is taken for unset and becomes 9: 0-8 turns into the empty window 9-8 |

Observations without a run of their own: `README.md:89` calls `up_time` the
range "where pin can be on", but the hour is looked at only before a run
(`main.c:259`), which may outlast the window by its length (`HighNearUpTime`
bounds it); `pi_strmap.h:186` says "true if enumeration completed, false
otherwise", and a stopped one returns true as well (section 5);
`--run=1073741824` passes the limits of the options, and `sleep(minutes * 60)`
(`main.c:178`) is then `sleep(0)`; the appends of
`pi_string.c` ignore a failed `realloc` and write over the terminator's byte or
beyond (`AllInside` excepts exactly that); `main.c:274` logs "Sleeping for 60
minutes" and sleeps `sleep` (55); the comment at `pi_timer_settings.c:58` says
5 pm, the default is 18; the page's "Next trigger time" is not reduced to a
day, so it shows hour 24 late in the evening, and both of its numbers are
large negatives before the first pause (`start_time` is then the epoch); a
window such as 22-6 never opens.

### Bounds of the timer's runs

* A day of 4 hours of 2 minutes of 2 or 3 ticks, a window of hours 1-3, runs of
  1 minute and rests of 2 or 3: every phase can meet every edge of the window,
  because every time of day is an initial state.  `pages` takes a day of 5 hours, so
  that with a window of two hours and an hour of grace before it there are hours
  that the bounds forbid.  `shutdown` needs no window edges and takes a two-tick
  day.
* `MaxAge` bounds `age` and `held`; it is larger than the longest pause plus
  its lags and larger than `RunTimeBounded`'s limit, so no comparison is cut
  off.  `shutdown` compares no ages and takes 1.  `EpochAge` is larger than a day, as the age of a zero `start_time` is,
  and larger than `MaxAge` (an assumption), so that a `start_time` never written
  is told from every one that was.
* `MaxSignals` = 2 lets a handler be interrupted once; a second nesting finds
  the same states, for the outer handler never resumes.
* `MaxLag` = 1 tick between two waits of a thread, less than half a minute (of 3
  ticks, in `pages`) as on any real system: that is what makes "at most a minute
  left" true.
* `UIntRange` is 1000, larger than any value a run computes except an hour made
  negative, which becomes a large one as it does with 2^32.

### Fairness

`FairSpec` is weakly fair to the main thread, to the server thread, to
handlers and to time: the kernel schedules runnable threads.  There is none on
starting, killing or signalling the process, nor on clients: `Accept` may wait
for ever.  `HttpServer`'s `FairSpec` is weakly fair to the server thread alone.
`Arguments` and `InitScript` state no liveness and assume no fairness.

## 4. What is proved about the timer

`PiTimerProofs`, for every value of the constants under `SettingsAssumption`
and `PiTimerAssumption` (units positive, options natural numbers):

* `TypesHold` - type correctness.
* `HighOnlyInRunHolds` - past the set-up the pin is high only in the run pause,
  on whichever thread handlers run.  `HighOnlyInRun` alone is not inductive: it
  needs that a process past `setup_wring_pi` is wired (a `pi_timer_stop` on an
  unwired pin does nothing), that the loop is in its run phase when it sets the
  pin, and that a dead process stands at its start.  That is `PinInv`.
* `HandledExitLowHolds` - with handlers on the main thread only
  (`HandlerOnMain`: no signal, hang-up or missing address on the debug thread), a handled exit leaves the pin low: while a handler runs
  there, the one thread that could set the pin is stopped (`ExitInv`).  Without
  the assumption it is false: run `broken_pipe`.
* `RunTimeBoundedHolds` - the pin stays high for at most `run` plus twice the
  scheduling bound.  The invariant `RunInv` adds the "run clock": before the
  sleep, the time high is at most the lag; asleep, time high plus time left is
  at most the sleep plus the lags.  `WedgedStays` (a handler that waits for its
  own thread's lock does so until the process ends) is what keeps the exception
  `~Wedged` from reopening the bound.  The wrap of `minutes * 60` can only
  shorten a run.
* `DecidesByTheClockHolds` and `HighNearUpTimeHolds` - without a debug thread
  (`~HasServer`), and with a window whose hours `check_hours` does not replace
  (`UpTimeKept`: neither is 0), the loop decides by an hour read at most `MaxLag`
  ticks ago, and the pin is high only in the window or, past its end, for `run`
  plus twice the scheduling bound.  The invariant `WindowInv` follows the moment
  that was found in the window (`WindowClock`): its age is at most the lag before
  the sleep, and the sleep so far plus the lags after it.  Ages on a clock that
  wraps at midnight need the lemmas on `%` (`ModShift`, `AgoNext`).  With a
  window of 0 the statement is false (run `midnight`), and with a debug thread
  `DecidesByTheClock` is (run `page_race`).
* `PageNeverOverstatesHolds` - on whichever threads handlers run, a page shows
  no more minutes than are left, rounded up, unless a pause is so long that
  `sleep()`'s product wraps (`PausesFit`).  The invariant `PageInv` says that what
  the *settings* leave of the pause (`duration - age`) is never more than what
  the *loop* has left of it (`TicksLeft`), which holds between the two writes of
  `set_timer_start` only in the order they have; and that a page which has read
  the start keeps the bound when the length changes under it, because a new
  length is written when the whole new pause is still to come (`PageInvIdle`).
* `StartsNearUpTimeHolds` - whatever the pages do, the fan starts no more than an
  hour before the window begins and no more than `2 * MaxLag` ticks after it ended.
  The hypotheses, `PagesInTime`, are what the code and its platform have: pauses
  of a minute or more, as `max(.., 1)` makes them, that do not wrap; a window
  within the day and without a 0; threads that get their turn within half a
  minute; and an epoch so long ago, but not 2^32 hours, that an hour computed
  from it lies in no window.  `StartInv` is the argument.  When the loop reads
  the hour, its pause is over but for the lags (`PauseAge`); a page that is about
  to compute the next trigger has not read the start of an older pause, for a
  whole pause lies between (`ElapsedRead`); so what it adds is 0 or 1 minutes, or
  the whole time since the epoch before the first pause (`LeftInTotal`); and it
  adds that to an hour the loop or itself has read since the client came, and to
  *any* minute, for the two may be of different times (`TimeRead`).  Division does
  the rest: a sum that looks open is in that hour or in the next one
  (`TriggerHour`), and so near the window (`TriggerNear`, `HourNear`).
* `PinNearUpTimeHolds` - from it, under the same hypotheses: the pin is high only
  from an hour before the window to, past its end, `run` plus three times the
  scheduling bound.  `RunNear` follows the run as `WindowClock` does.
* `FanImplemented` - every step is a step of `FanTimer` or a stutter: the fan gets
  its whole run, then its whole rest, and a closed service leaves it off.  It
  needs handlers on the main thread (`HandlerOnMain`, as `HandledExitLow`) and
  `PausesFit`: a rest that wraps is shorter than the sleep option says.
  `FanInv` is the lower bound to `RunInv`'s upper one: time high plus time left
  is at *least* the sleep, and likewise for rests.  Only the first run may come
  without a rest: `fresh`, the abstract "has not waited yet", is mapped to "up,
  low and `start_time` never written".

The invariants `RunInv`, `WindowInv`, `PageInv`, `FanInv` and `NearInv` were
checked by TLC on the instances of the runs before they were proved; they are in
PiTimerProperties and PiTimerFan.  What is only model-checked of the timer is
liveness (`RunEnds`, `FanRunsAgain`, `ShutdownCompletes`), which is out of the
prover's reach.

## 5. The string map

`StrMap` follows `pi_strmap.c`: an array of buckets, each a chain of pairs; a
pair's `room` is the size of the block its value lives in; `heap` counts the
blocks that are allocated.  The server thread makes a map per request and
deletes it, so calls do not overlap, but every allocation may fail, and a put
makes up to three of them: it is a step per allocation (`Lookup`, then `Grow`
and `Copy`, or `AllocateKey`, `AllocateValue` and `Link`).  `Add` ignores a
blank value, appends to a list, or puts a new value as it is: only an appended
one is trimmed.  `pi_strmap_new` may return NULL, which the server passes on.

Run `strmap` has three keys, two of which share a bucket, and values that are
blank, short and padded; `MaxText` = 4 bounds the list an add builds, enough
for a list to be made, replaced by a shorter value and to grow again.  The
properties:

* `OnePairPerKey` - whatever collides, what `get_pair` finds first is all there
  is to find.
* `ValueFits`, `CopyFits` - every value lies inside its block although a put
  compares *lengths* and never knows the size of the block.
* `NothingLost` - `heap` is what `pi_strmap_delete` would free plus what the
  call under way holds, whichever allocation failed: no leak and no double
  free.
* `ImplementsMap` - the refinement: `AbstractMap` answers a put or an add by
  changing one entry and returning true, or by changing nothing and returning
  false, and no other call changes the table.  The answer of an enumeration is
  not part of the claim: `pi_strmap_enum` returns true also when it was stopped,
  against `pi_strmap.h:186` (nothing in the program looks at it), and false only
  for a NULL map.

`StrMapProofs` proves all of these, and the types, for every set of keys, hash,
capacity and set of inputs (`CapacityAssumption`, `HashAssumption`,
`InputsAssumption`).  The inductive invariant `MapInv` adds `CallOK`: a put
that allocates a key still has no pair for it, and one that grows a pair still
has it, with a value shorter than the new one.  `OnePairPerKey` is what makes
the lemmas work: with one match, `get_pair`'s first match is the only one, so a
rewritten pair changes one entry of the table and a linked one adds one
(`RewrittenTable`, `LinkedTable`), even for another key in the same chain.
`MapImplemented` puts the steps together.

`pi_strmap_delete` frees two blocks for each pair and one for each chain.  The
model counts the pairs as the cardinality of their places (bucket and position),
so that no sum over buckets is needed: a put that links a pair adds one place,
and everything else moves none.  `HeapInv` adds that there are finitely many
places and that only a call under way has joined anything, and `NothingLost`
follows step by step.

## 6. The string buffer

`PiString` follows `pi_string.c`: `bytes` is what `c_string` points to, `size`
and `position` are the fields, and `starved` says that an allocation failed
since the string was made.  `Write` is the `memcpy` to `position`; when it does
not fit the allocation the state is `undefined` and nothing more is said.  The
room left is a `size_t` and wraps (`% SizeRange`).  After a failed `vasprintf`
`str` is NULL or was never set: either.

Run `pistring` appends chars and strings that fit, that need one doubling and
that need several, to buffers of two sizes, up to `MaxPosition` = 12:

* `Terminated` - with memory enough it is a C string: `position` is its length
  and the byte there is zero.  `size - 1` and `size - position - 1` must agree
  on what is full.
* `AllInside` - a write leaves the allocation only after one failed.
* `OnlyAppends` - what was appended is never lost or changed, grown or not.

When `realloc` fails both appends go on and write over the terminator's byte or
beyond the buffer.  Once undefined the model stops, so the run switches the
deadlock check off.

`PiStringProofs` proves all of them, and the types, for any strings, sizes and
width of a `size_t`.  The doubling loop is a recursive function (`Doubling`);
that it is defined from every value (`DoublingIs`) and ends with enough
(`DoublingEnough`) is shown by the least number of turns for which it would not.
The invariant `StringInv` adds `BufferFits`: while nothing is undefined the text
lies inside the allocation, which is `size` bytes or, after a failed `malloc`,
none.  From `position < size` the wrap of the room left never shows as long as
memory suffices; after a failure it may, and that is when `AllInside` lets a
write go outside.

## 7. The debug server and its clients

A text is a sequence of *tokens*: the characters the code looks for, and words
it compares as a whole (`GET`, the `health` of `/health`).  No token begins
another, so where a text is cut into tokens loses nothing the code can see.

Each token is a step.  A client may call, send, stop and hang up at any point;
`Recv` takes a token if one has arrived, ends the line if the client is gone,
and otherwise waits.  After a carriage return `Peek` looks at the token behind
it, and waits for it.  `recv()` of -1, when `accept()` failed, ends every line
at once.  `held` counts the blocks of a turn.  `Send` to a client that is gone
may raise SIGPIPE, whose handler ends the process (its steps are in PiTimer).

* `NotHeldByWhole` - a client whose whole request has arrived never makes the
  thread wait, however it was cut and whatever its headers.  `Whole` is strict:
  the empty line must end with a line feed, because behind a last bare carriage
  return the thread waits for one character more.  Who sends less than a whole
  request holds the server, and everybody else, for as long as it likes.
* `TurnsFreeTheirBlocks` - between two turns the thread holds request buffers
  only.  (It allocates one of 1 KB a turn at line 670 and frees the last one
  when the loop ends, line 707: a leak, which `held["request"]` counts.)
* `HeadersClean` - no empty key, no separator in a key, no line end anywhere in
  the header map.
* `ImplementsService` - the refinement: clients are taken in the order of their
  calls, one at a time, and each is sent one answer, one that the first line of
  what it sent asks for.
* `AnsweredUnlessHeld` - if no client holds the thread for ever, every client in
  the queue is answered, unless the service stops or SIGPIPE ends the process.
  It rests on `MaxFailures`: were every `accept()` to fail, as with no file
  descriptor left, the queue would wait for ever.

Run `http`: two clients, so that one waits while the other is served; five
texts, each there for a case (two blanks, no path, a header without a key, no
empty line, a bare carriage return at the end); `MaxUnread` = 2 tokens in flight,
as many as the code ever looks at; `Backlog` = 2; `MaxFailures` = 1 failed
`accept()`.  The run stops when nobody calls any more, so the deadlock check is
off.

`HttpProofs` and `HttpServiceProofs` prove all of this but the liveness, for any
clients, texts, backlog and failures.  `FindIs` says what a search for a
character returns (it needs the least element of a set: `Minima`), `CutText` to
`HeaderParts` what `clean_string` and the split at `:` leave.  `BlocksInv` gives
the blocks at each point of the turn; `LineInv`, that a line being read holds no
line end, gives `HeadersClean`.  `QueueInv` and `SockInv` say that nothing was
read of a client in the queue, that none is there twice, and that the one being
served has no answer yet.  `ReadInv` is the heart: where the current line began,
that it is the text from there on, that no empty line has gone by, and - while
the headers are read - that the request line is the text up to its first line
end.  It is conditional on the client being there, for the end of the stream
ends a line anywhere.  The refinement then needs one lemma on texts
(`ResponseDeserved`: a line feed at the end of the line changes no answer) and
one step per action.

Not in the model: the use of `Content-Length` (its result is dropped, the body
is never read), the value of headers for the answer (none), NUL bytes, failing
allocations of this thread (they dereference a null pointer), and the text of
pages.  `http_map_string_to_method` compares prefixes, so `GETx` is a GET.

## 8. The command line

`Arguments` takes `argv` as `getopt_long` hands it out, one argument a step, and
keeps `upText`, the string `strtok` cuts up in place.  Every integer has its
width: `LongMax`, `UIntRange`, `UCharRange`, `UShortRange`.

* `PausesLast` - a pause lasts the minutes that were asked for, at least one
  (`max(atol(..), 1)`), and a random rest at least as many, as long as the seconds
  `sleep(minutes * 60)` gets fit an `unsigned int`.  It is stated on that product,
  for every width.  Where the seconds do not fit they wrap: `--run=1073741824` is
  `sleep(0)`, a pause of no length, and where a long is wider than an int 2^32
  minutes are already 0 in the option.
* `LastOptionWins` - no option writes another one's setting, and the last wins.
* `UpTimeOnce` - a second `--up_time` is appended to a string that `strtok` has
  ended after the start hour: it finds no second word and `atol(NULL)` crashes.
  So the window is always that of a single option; and what the usage and the
  status page show of it is its start only.
* `OutcomeByFirstEnd` - run, usage or crash follows from the first argument that
  ends the parsing.  `--run` without a value is a null pointer (the long options
  have optional arguments), `-r` without one prints the usage.

Run `arguments` uses a machine of 4-bit integers and minutes of 2 seconds
(`MinuteSeconds`), so that products wrap, and all command lines of up to
`MaxItems` = 3 of the arguments in `MCItems`: three are enough for an option, a
second one and something between or behind.  `ArgumentsProofs` proves all five
for every machine and every command line.  The invariant adds `UpTextInv`:
after one `up_time` the string is cut at its first word, from which
`CutHasOneWord` concludes that no second one can be accepted.

Other observations: `--port=65536` is port 0, no server; `up_time` hours are
not checked, and one of 0 is replaced later by `check_hours`.

## 9. The init script

`InitScript` has any number of calls of `start` and `stop`, each of which takes
a listing (`List`) and acts on it later.  A process is launched, forks, leaves;
its child sets up its handlers and becomes the timer.  SIGTERM ends what has no
handler yet and sends a timer into `signal_shutdown`, on its main thread, where
Linux delivers it.  `Fail` is a failed `fork` or `setsid` or a crash.
`DebugFault` and `FaultExit` are a signal of the debug thread (the script
launches with `--port=8080`: SIGPIPE, or SIGSEGV): its handler turns the pin off,
and until it calls `exit()` the loop may turn the pin on again.  All timers share
one pin.

As long as calls do not overlap: `OneTimer`, `PinFollowsTimer`, and when a stop
returns every timer has been told to end (`StopReachesAll`), and when a start
returns a timer runs - unless the one it found listed was about to end
(`StartLeavesOne`: stop does not wait, so stop and start in a row can leave
none) or a signal of its debug thread ended a timer.  `LowWithoutTimer` holds
whatever overlaps, as long as every timer was ended through its main thread: after
`DebugFault`, `SwitchOn`, `FaultExit` the pin stays high with no timer left, which
is run `broken_pipe` seen from outside.  When two starts overlap
there are two timers on one pin; when a stop overlaps a start its kill can hit
the parent after the fork and miss the child.

Assumed: `ps` lists the processes at one moment and shows the script itself as
`bash`; process ids are not reused; the Debian wrapper sourced at lines 9-11
runs the body once, with its argument.  Run `script` has four calls and four
processes (two launches), all alike, hence the symmetry; one of them may be
ended by its debug thread (`MaxFaults` = 1); nothing happens after
the last call, so the deadlock check is off.  `InitScriptProofs` proves all six
for any number of calls and processes.  The invariant `ScriptInv` says, while
no calls have overlapped, what one call knows: that it is alone (`OneCall`),
that there is no process but those of one launch (`Alone`), that a parent is
waited for (`ParentAwaited`), and what its listing and its launch are still
true of (`ListKnown`, `LaunchKnown`).

## 10. Not modelled, and the plan

Every safety invariant, every action property and every refinement that a passing
run checks is also a theorem.  Left to TLC, because liveness under fairness is
out of the prover's reach: `FanRunsAgain`, `RunEnds`, `ShutdownCompletes` and
`AnsweredUnlessHeld`.  The four runs that must fail are counterexamples, not
statements to prove.

What would say more: the safety half of the leads-to steps behind those liveness
properties, and a refinement between HttpServer and DebugServer, two views of
one thread that are only related in words.

Not modelled, and why:

* Steps of the wall clock (NTP, DST).  `sleep()` does not follow them, so the
  pin's times stay as they are; pages state other remaining minutes and the
  window opens by the new time.  With such steps at any tick the state space of
  the timer's runs grows beyond what they can cover.
* The text and layout of pages, logs and the usage (`http_output_pins`,
  `create_output_header`): no state, no decision.
* The emulator build, macOS's clock, `memory_*` (thin wrappers), build and
  installation files.
* Failing allocations in the debug thread; in the map and the buffer it uses
  they are modelled.
* Locks other than `logger`: it stands for the locks of `syslog()` and of the
  allocator inside `log_message`; the allocator's lock outside log lines is not
  modelled, so the model wedges at fewer places than the program, and
  `InitScript`'s dying timers always end.

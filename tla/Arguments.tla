------------------------------ MODULE Arguments -----------------------------
(***************************************************************************)
(* The command line (main.c, parse_arguments()) and the settings it writes *)
(* (pi_timer_settings.c).  argv is a sequence of arguments as              *)
(* getopt_long() hands them out, one at a time:                            *)
(*   [opt |-> "run", short |-> FALSE, value |-> <<5>>]  is --run=5         *)
(*   [opt |-> "run", short |-> TRUE,  value |-> Absent] is -r, and no more *)
(* A value is a sequence of numbers and dashes; a word that is no number   *)
(* counts as 0, as atol() counts it.                                       *)
(***************************************************************************)
EXTENDS Integers, Sequences

CONSTANTS
  LongMax,      \* LONG_MAX: 2^31 - 1 on the Raspberry Pi, 2^63 - 1 elsewhere
  UIntRange,    \* 2^32
  UCharRange,   \* 2^8
  UShortRange,  \* 2^16
  RandomRange,  \* the 60 of rand() % 60
  MinuteSeconds, \* the 60 of pause_minutes()
  Default,      \* the initial settings
  Items,        \* the arguments that may be given
  MaxItems      \* bound: how many

Dash   == -1    \* the "-" that strtok() looks for
Nul    == -2    \* the terminator it puts there
Absent == <<-3>>
True   == <<-4>>  \* the word "true"

Numeric == {"run", "sleep", "gpio", "port"}
Boolean == {"daemon", "random"}
Valued  == Numeric \cup Boolean \cup {"up_time"}
\* operation is an option of its own that parse_arguments() does not know.
Refused == {"operation", "help", "unknown"}
Options == Valued \cup Refused \cup {"word", "--"}

UInt     == 0 .. (UIntRange - 1)
Settings == [run : UInt, sleep : UInt, gpio : 0 .. (UCharRange - 1), port : 0 .. (UShortRange - 1),
             daemon : BOOLEAN, random : BOOLEAN, start : UInt, end : UInt]

ASSUME ArgumentsAssumption ==
  /\ {LongMax, UIntRange, UCharRange, UShortRange, RandomRange, MinuteSeconds} \subseteq Nat \ {0}
  /\ Items \subseteq [opt : Options, short : BOOLEAN, value : Seq(Int)]
  /\ MaxItems \in Nat
  /\ Default \in Settings
  /\ Default.run >= 1 /\ Default.sleep >= 1

VARIABLES
  argv,
  next,     \* optind: the argument to look at
  status,   \* "parsing", "parsed", "usage", or "crashed" on a null pointer
  set,      \* the settings
  upText    \* current_up_time: its bytes, or Absent for NULL

vars == <<argv, next, status, set, upText>>

TypeOK ==
  /\ argv \in Seq(Items)
  /\ next \in 1 .. (Len(argv) + 1)
  /\ status \in {"parsing", "parsed", "usage", "crashed"}
  /\ set \in Settings
  /\ upText \in Seq(Int)

Init ==
  /\ \E n \in 0 .. MaxItems : argv \in [1 .. n -> Items]
  /\ next = 1 /\ status = "parsing"
  /\ set = Default /\ upText = Absent

-----------------------------------------------------------------------------
\* atol(): the number a text begins with, held between the limits of a long.
Number(text) == IF text /= <<>> /\ text[1] >= 0 THEN text[1] ELSE 0
Atol(text) == IF text /= <<>> /\ text[1] = Dash
              THEN (IF Number(Tail(text)) > LongMax THEN -LongMax - 1 ELSE -Number(Tail(text)))
              ELSE (IF Number(text) > LongMax THEN LongMax ELSE Number(text))

\* max(atol(optarg), 1), then the conversion to unsigned int.
MinutesAnyMut(value) == Atol(value) % UIntRange
Minutes(value) == (IF Atol(value) > 1 THEN Atol(value) ELSE 1) % UIntRange

\* What pause_minutes() gives to sleep(): an unsigned product.
Seconds(minutes) == (minutes * MinuteSeconds) % UIntRange

\* random_time(): r is rand() % 60, and 0 also stands for a rest without it.
RandomTime(r) == (r + set.sleep) % UIntRange

Item     == argv[next]
Is(opts) == status = "parsing" /\ next <= Len(argv) /\ Item.opt \in opts

\* A short option must have its value, or getopt_long() answers "?"; a long one
\* need not (optional_argument), and optarg is then NULL.
Lacks(item)   == item.opt \in Valued /\ item.value = Absent
Given(opts)   == Is(opts) /\ ~Lacks(Item)
Missing(kind) == Is(Valued) /\ Lacks(Item) /\ Item.short = kind

GoOn == next' = next + 1 /\ UNCHANGED <<argv, status>>

\* One option that takes its value; entry is the setting it writes.
Setting(entry, value) == set' = [set EXCEPT ![entry] = value] /\ UNCHANGED upText /\ GoOn

Run    == Given({"run"})    /\ Setting("run", Minutes(Item.value))
Sleep  == Given({"sleep"})  /\ Setting("sleep", Minutes(Item.value))
GpioWholeMut == Given({"gpio"}) /\ Setting("gpio", Atol(Item.value))
Gpio   == Given({"gpio"})   /\ Setting("gpio", Atol(Item.value) % UCharRange)
Port   == Given({"port"})   /\ Setting("port", Atol(Item.value) % UShortRange)
Daemon == Given({"daemon"}) /\ Setting("daemon", Item.value = True)
RandomAsDaemonMut == Given({"random"}) /\ Setting("daemon", Item.value = True)
Random == Given({"random"}) /\ Setting("random", Item.value = True)

-----------------------------------------------------------------------------
(***************************************************************************)
(* set_up_time_string() appends the value to what it has, and strtok()     *)
(* cuts the result up in place.                                            *)
(***************************************************************************)
First(bytes, i, end, these) == IF \E j \in i .. (end - 1) : bytes[j] \in these
                               THEN CHOOSE j \in i .. (end - 1) :
                                      bytes[j] \in these /\ \A k \in i .. (j - 1) : bytes[k] \notin these
                               ELSE end
NoDash == Int \ {Dash}

EndOf(bytes)   == First(bytes, 1, Len(bytes) + 1, {Nul})
CString(bytes) == SubSeq(bytes, 1, EndOf(bytes) - 1)

\* Where the two calls of strtok() find a word, and where each word ends; a
\* word that is not there begins at the end of the string.
Words(bytes) ==
  LET end    == EndOf(bytes)
      first  == First(bytes, 1, end, NoDash)
      stop   == First(bytes, first, end, {Dash})
      second == IF stop = end THEN end ELSE First(bytes, stop + 1, end, NoDash)
  IN  [first |-> first, stop |-> stop, second |-> second,
       last |-> First(bytes, second, end, {Dash}), end |-> end]

Appended(value) == IF upText = Absent THEN value ELSE upText \o value
HasOneWordMut(bytes) == Words(bytes).first < Words(bytes).end
HasTwoWords(bytes) == Words(bytes).second < Words(bytes).end

UpTime ==
  /\ Given({"up_time"})
  /\ LET bytes == Appended(Item.value)
         w     == Words(bytes)
     IN  /\ HasTwoWords(bytes)
         /\ set' = [set EXCEPT
                      !.start = Atol(SubSeq(bytes, w.first, w.stop - 1)) % UIntRange,
                      !.end = Atol(SubSeq(bytes, w.second, w.last - 1)) % UIntRange]
         /\ upText' = [i \in 1 .. Len(bytes) |->
                         IF i \in {w.stop, w.last} THEN Nul ELSE bytes[i]]
  /\ GoOn

-----------------------------------------------------------------------------
(***************************************************************************)
(* The other ways an argument can end.                                     *)
(***************************************************************************)
Stop(how) == status' = how /\ UNCHANGED <<argv, next, set, upText>>

\* atol(), strcmp() or strlen() of the null pointer: of a value that is not
\* there, or of a word strtok() did not find.
Crash == /\ \/ Missing(FALSE)
            \/ Given({"up_time"}) /\ ~HasTwoWords(Appended(Item.value))
         /\ Stop("crashed")

Usage == /\ Is(Refused) \/ Missing(TRUE)
         /\ Stop("usage")

\* getopt_long() passes over what is no option; "--" ends the options.
Word == Is({"word"}) /\ GoOn /\ UNCHANGED <<set, upText>>

End == /\ status = "parsing"
       /\ next <= Len(argv) => Item.opt = "--"
       /\ Stop("parsed")

Next == \/ Run \/ Sleep \/ Gpio \/ Port \/ Daemon \/ Random \/ UpTime
        \/ Crash \/ Usage \/ Word \/ End

Spec == Init /\ [][Next]_vars

-----------------------------------------------------------------------------
Taken == {i \in 1 .. Len(argv) : i < next}
Those(opt) == {i \in Taken : argv[i].opt = opt}
Last(opt)  == CHOOSE i \in Those(opt) : \A j \in Those(opt) : j <= i

\* The minutes the command line asks a pause to last; less than one counts as one.
AtLeastOne(n) == IF n > 1 THEN n ELSE 1
Asked(entry)  == IF Those(entry) = {} THEN Default[entry] ELSE AtLeastOne(Atol(argv[Last(entry)].value))

Lasts(pause, minutes) ==
  minutes * MinuteSeconds < UIntRange => Seconds(pause) = minutes * MinuteSeconds

\* Every pause of the loop is as long as was asked for, with the random part if
\* there is one, as long as that many seconds are an unsigned int: up to there the
\* conversion of atol()'s long, the sum in random_time() and the product in
\* pause_minutes() all keep the value, and no pause is empty.  Beyond it the
\* product wraps, and --run=1073741824 (2^30) gives sleep(0).
PausesLast ==
  /\ Asked("run") >= 1 /\ Asked("sleep") >= 1
  /\ Lasts(set.run, Asked("run"))
  /\ \A r \in 0 .. (RandomRange - 1) : Lasts(RandomTime(r), r + Asked("sleep"))

\* What a value means for a setting.
Reads(entry, value) == CASE entry \in {"run", "sleep"} -> Minutes(value)
                         [] entry = "gpio"             -> Atol(value) % UCharRange
                         [] entry = "port"             -> Atol(value) % UShortRange
                         [] entry \in Boolean          -> value = True

\* Each setting is what the last of its options asked for, whatever the others
\* are and in whatever order they come (parse_arguments()).
LastOptionWins ==
  \A entry \in Numeric \cup Boolean :
    set[entry] = IF Those(entry) = {} THEN Default[entry] ELSE Reads(entry, argv[Last(entry)].value)

\* The window a value of up_time means: its first two words.
Start(value) == LET w == Words(value)
                IN  Atol(SubSeq(value, w.first, w.stop - 1)) % UIntRange
Close(value) == LET w == Words(value)
                IN  Atol(SubSeq(value, w.second, w.last - 1)) % UIntRange

\* strtok() leaves its string cut up, and a second up_time is appended to that:
\* so no command line with two of them is ever accepted, the window is the one
\* up_time that was given, and the text shown for it ends with the start.
UpTimeOnce ==
  /\ \A i, j \in Those("up_time") : i = j
  /\ \A i \in Those("up_time") : /\ set.start = Start(argv[i].value)
                                 /\ set.end = Close(argv[i].value)
                                 /\ CString(upText) = SubSeq(argv[i].value, 1, Words(argv[i].value).stop - 1)
  /\ Those("up_time") = {} => set.start = Default.start /\ set.end = Default.end

\* What becomes of a command line, told from its words alone: the first argument
\* that is refused, lacks its value or is a second or a broken up_time.
Second(i)  == \E j \in 1 .. (i - 1) : argv[j].opt = "up_time"
Refuses(i) == argv[i].opt \in Refused \/ (Lacks(argv[i]) /\ argv[i].short)
Breaks(i)  == \/ Lacks(argv[i]) /\ ~argv[i].short
              \/ argv[i].opt = "up_time" /\ (Second(i) \/ ~HasTwoWords(argv[i].value))
Ends(i)    == Refuses(i) \/ Breaks(i) \/ argv[i].opt = "--"

OutcomeByFirstEnd ==
  LET ends == {i \in 1 .. Len(argv) : Ends(i)}
      i    == CHOOSE i \in ends : \A j \in ends : i <= j
      due  == IF ends = {} THEN "parsed"
              ELSE IF Refuses(i) THEN "usage"
              ELSE IF Breaks(i) THEN "crashed" ELSE "parsed"
  IN  status /= "parsing" => status = due
=============================================================================

------------------------------- MODULE Options -------------------------------
(***************************************************************************)
(* ParseOptions: the command line is handed word by word to getopt_long,   *)
(* and every option it recognises sets a member of capture_option or ends  *)
(* the process.  Words are strings, options without their dashes.          *)
(***************************************************************************)
EXTENDS Integers, Sequences

CONSTANTS
  Plain,  \* the words that begin with no dash
  stoi    \* std::stoi: the value of each numeral; it throws on any other word

ASSUME StoiAssumption == \A w \in DOMAIN stoi : stoi[w] \in Int

(* capture_option, without the members no option sets.  The three unsigned *)
(* members (total_bytes, poolSize, num_gpus) are kept as integers, since   *)
(* nothing in LiveParser looks at them: a negative number would wrap.      *)
capture_option ==
  [payload |-> 20, total_bytes |-> 128, num_packets |-> -1, flowTimeout |-> 20,
   include_ts |-> FALSE, include_pktlen |-> FALSE, include_5tpl |-> FALSE, verbose |-> FALSE,
   fill_bit |-> 0, stride |-> 8, workers |-> 1, wait1 |-> 3, wait2 |-> 10, device |-> "",
   filter |-> "", model_path |-> "", min_packets |-> 10, max_packets |-> 100,
   duration |-> -1, separator |-> ",", poolSize |-> 4, num_gpus |-> 4, brokers |-> "",
   topic |-> ""]

(* Long options and the code of each; those that take an argument first *)
longopts_required ==
  [device |-> "d", workers |-> "J", duration |-> "D", filter |-> "F", fill |-> "f",
   cuda |-> "c", num |-> "N", min |-> "L", max |-> "R", timeout |-> "E", sep |-> "m",
   brokers |-> "B", pool |-> "b", topic |-> "y", model |-> "M", wait1 |-> ".",
   wait2 |-> "/", index |-> "I", stride |-> "S", write |-> "W", payload |-> "p"]
longopts_none == [help |-> "h", timestamp |-> "T", caplen |-> "C", verbose |-> "V"]

(* Short options: no d, and I without an argument *)
shortopts_required ==
  {"c", "J", "P", "W", "F", "f", "N", "E", "D", "S", "L", "R", "p", "M", "m", "B", "b", "x",
   "y", "/", "."}
shortopts_none == {"C", "T", "V", "h", "I"}

-----------------------------------------------------------------------------
(* getopt_long *)

TakesArgument(w) == w \in DOMAIN longopts_required \cup shortopts_required
Code(w) ==
  CASE w \in DOMAIN longopts_required -> longopts_required[w]
    [] w \in DOMAIN longopts_none -> longopts_none[w]
    [] w \in shortopts_required \cup shortopts_none -> w
    [] OTHER -> "?"

(* The option at the head of argv, "?" for one that is unknown or lacks    *)
(* its argument, which is whatever word follows.                           *)
Option(argv) ==
  IF TakesArgument(Head(argv)) /\ Len(argv) = 1 THEN "?" ELSE Code(Head(argv))
Optarg(argv) == IF TakesArgument(Head(argv)) THEN argv[2] ELSE ""
Rest(argv) == IF TakesArgument(Head(argv)) /\ Len(argv) > 1 THEN Tail(Tail(argv)) ELSE Tail(argv)

Throws(w) == w \notin DOMAIN stoi

-----------------------------------------------------------------------------
(* The cases of the switch *)

NumberMember ==
  [D |-> "duration", c |-> "num_gpus", f |-> "fill_bit", N |-> "num_packets",
   L |-> "min_packets", R |-> "max_packets", E |-> "flowTimeout", b |-> "poolSize",
   J |-> "workers", S |-> "stride"]
WaitMember == [o \in {".", "/"} |-> IF o = "." THEN "wait1" ELSE "wait2"]
TextMember ==
  [d |-> "device", F |-> "filter", m |-> "separator", B |-> "brokers", y |-> "topic",
   M |-> "model_path"]
FlagMember ==
  [C |-> "include_pktlen", T |-> "include_ts", V |-> "verbose", I |-> "include_5tpl"]

(* stoi is called for the number x too, which nobody keeps. *)
TakesNumber(o) == o \in DOMAIN NumberMember \cup DOMAIN WaitMember \cup {"p", "x"}

(* stride & stride - 1, of the values that are not negative *)
PowerOfTwo(n) == \E k \in 0 .. 30 : n = 2 ^ k

NoWorkerNegative(n) == n < 0
NoWorker(n) == n < 1

(* -J and -S check their number, -h and a syntax error end the process,    *)
(* and so does the exception of stoi.                                      *)
Refuses(o, w) ==
  \/ o \in {"?", "h"}
  \/ TakesNumber(o) /\ Throws(w)
  \/ o = "J" /\ NoWorker(stoi[w])
  \/ o = "S" /\ ~PowerOfTwo(stoi[w])

(* -p sets payload and adds it to total_bytes, each time it is given. *)
Assign(opt, o, w) ==
  CASE o \in DOMAIN NumberMember -> [opt EXCEPT ![NumberMember[o]] = stoi[w]]
    [] o \in DOMAIN WaitMember -> [opt EXCEPT ![WaitMember[o]] = stoi[w]]
    [] o \in DOMAIN TextMember -> [opt EXCEPT ![TextMember[o]] = w]
    [] o \in DOMAIN FlagMember -> [opt EXCEPT ![FlagMember[o]] = TRUE]
    [] o = "p" -> [opt EXCEPT !.payload = stoi[w], !.total_bytes = @ + stoi[w]]
    [] OTHER -> opt

=============================================================================

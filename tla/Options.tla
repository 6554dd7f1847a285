------------------------------ MODULE Options ------------------------------
(***************************************************************************)
(* From a configuration file to settings: the command line that            *)
(* scripts/fatcontrollerd makes of the file, and what parseOptions and     *)
(* processOptions of dgetopts.c make of the command line.                  *)
(*                                                                         *)
(* The shell splits a variable that the script does not quote into words,  *)
(* and one that is not set or blank into none; such a variable is the      *)
(* sequence of its words here.  The numbers are not quoted, nor is the     *)
(* file name in ERR_LOG_FILE.  The other names and texts are: one word     *)
(* each, of which only the presence counts.                                *)
(***************************************************************************)
EXTENDS Integers, Sequences

Numbers == {"sleep", "sleep-on-error", "threads", "proc-run-time-warn",
            "proc-run-time-max", "proc-term-timeout", "fixed-interval-wait"}

Texts == {"pid-file", "working-directory", "log-file", "log-format", "path",
          "daemon-name", "command", "arguments", "err-log-file"}

Flags == {"help", "debug", "daemonise", "independent-threads",
          "fixed-interval-threads", "append-thread-id", "run-once", "test-fire"}

Default == [option \in Numbers |->
  CASE option = "sleep"               -> 30
    [] option = "sleep-on-error"      -> 300
    [] option = "threads"             -> 1
    [] option = "proc-run-time-warn"  -> 3600
    [] option = "proc-run-time-max"   -> 0
    [] option = "proc-term-timeout"   -> 30
    [] option = "fixed-interval-wait" -> -1]

NoOption == "none"
Unknown  == "?"
Known    == Numbers \union Texts \union Flags

\* A word of a command line: which option it is where no argument is awaited, and
\* what atoi makes of it.  A word with a dash that is no option written out in full,
\* such as a negative number, is unknown to the program.
AWord == [option : Known \union {NoOption, Unknown}, atoi : Int]

Option(name) == [option |-> name, atoi |-> 0]
Word(n)      == [option |-> IF n < 0 THEN Unknown ELSE NoOption, atoi |-> n]
Text         == Word(0)

-----------------------------------------------------------------------------
(* getopt_long, parseOptions, processOptions *)

\* Mutation: an option is declared to take no argument.
TakesArgumentIfText(option) == option \in (Numbers \union Texts) \ {"fixed-interval-wait"}

TakesArgument(option) == option \in Numbers \union Texts

\* The word after an option that takes an argument is its argument, even if it
\* is an option itself.  Other words that are no options are passed over.
ParseWord(parsed, word) ==
  CASE parsed.awaits # NoOption ->
         [parsed EXCEPT !.given = @ \union {parsed.awaits}, !.awaits = NoOption,
                        !.arguments = [@ EXCEPT ![parsed.awaits] = <<word>>]]
    [] parsed.awaits = NoOption /\ TakesArgument(word.option) ->
         [parsed EXCEPT !.awaits = word.option]
    [] OTHER -> [parsed EXCEPT !.given = @ \union ({word.option} \ {NoOption})]

\* What is parsed after words, having parsed what was before them.
ParsedFrom(parsed, words) ==
  LET after[n \in 0..Len(words)] ==
        IF n = 0 THEN parsed ELSE ParseWord(after[n - 1], words[n])
  IN after[Len(words)]

NoArguments == [option \in Numbers \union Texts |-> <<>>]

Parse(words) ==
  ParsedFrom([given |-> {}, arguments |-> NoArguments, awaits |-> NoOption], words)

\* processOptions returns 0.  A log format does for a log file (line 221).
Accepts(words) ==
  LET parsed == Parse(words)
      given  == parsed.given
  IN
  /\ words # <<>> /\ "help" \notin given
  /\ given \subseteq Known /\ parsed.awaits = NoOption
  /\ ~({"independent-threads", "fixed-interval-threads"} \subseteq given)
  /\ "command" \in given /\ given \intersect {"log-file", "log-format"} # {}
  /\ "daemonise" \in given => {"pid-file", "working-directory"} \subseteq given

Switches == {"debug", "daemonise", "append-thread-id", "run-once", "test-fire"}

\* The number that an option is set to, by the first of the words that stand for it.
Number(option, words) == IF words = <<>> THEN Default[option] ELSE words[1].atoi

SettingsOf(words) ==
  LET parsed == Parse(words)
      given  == parsed.given
  IN
  [threadModel |-> CASE "independent-threads" \in given    -> "INDEPENDENT"
                     [] "fixed-interval-threads" \in given -> "FIXED_INTERVAL"
                     [] OTHER                              -> "DEPENDENT",
   numbers     |-> [option \in Numbers |-> Number(option, parsed.arguments[option])],
   switches    |-> given \intersect Switches,
   errlogfile  |-> parsed.arguments["err-log-file"]]

-----------------------------------------------------------------------------
(* build_parameters, fatcontroller_start *)

Always(option, words) == <<Option(option)>> \o words
IfTrue(option, test)  == IF test THEN <<Option(option)>> ELSE <<>>

Unquoted == Numbers \union {"err-log-file"}

\* The words of what is not quoted, and which of it is set to blanks only; the names
\* that the file has for a thread model; and what it switches on.
ConfigFile == [words : [Unquoted -> Seq(AWord)], blank : SUBSET Unquoted,
               THREAD_MODEL : {"DEPENDENT", "INDEPENDENT", "FIXED"},
               APPEND_THREAD_ID : BOOLEAN, RUN_ONCE : BOOLEAN, TEST_FIRE : BOOLEAN]

\* test -n is true of blanks, of which the shell makes no word.
IsSet(cfg, option) == cfg.words[option] # <<>> \/ option \in cfg.blank

IfSet(cfg, option) ==
  IF IsSet(cfg, option) THEN Always(option, cfg.words[option]) ELSE <<>>

Parameters(cfg) ==
  IfTrue("independent-threads", cfg.THREAD_MODEL = "INDEPENDENT")
    \o IfTrue("fixed-interval-threads", cfg.THREAD_MODEL = "FIXED")
    \o IfSet(cfg, "proc-run-time-warn") \o IfSet(cfg, "proc-run-time-max")
    \o IfSet(cfg, "proc-term-timeout") \o IfSet(cfg, "fixed-interval-wait")
    \o IfTrue("append-thread-id", cfg.APPEND_THREAD_ID)
    \o IfSet(cfg, "err-log-file")
    \o IfTrue("run-once", cfg.RUN_ONCE) \o IfTrue("test-fire", cfg.TEST_FIRE)

CommandLine(cfg, debug) ==
  LET Quoted(option) == Always(option, <<Text>>)
      Plain(option)  == Always(option, cfg.words[option])
  IN
  Quoted("log-file") \o Quoted("log-format") \o Quoted("command") \o Quoted("arguments")
    \o Quoted("working-directory") \o Quoted("pid-file")
    \o Plain("sleep") \o Plain("sleep-on-error") \o Plain("threads")
    \o IfTrue("daemonise", TRUE) \o Quoted("daemon-name")
    \o IfTrue("debug", debug) \o Parameters(cfg)

-----------------------------------------------------------------------------
(* What the configuration file asks for (scripts/service.fat.example) *)

Configured(cfg, debug) ==
  [threadModel |-> IF cfg.THREAD_MODEL = "FIXED" THEN "FIXED_INTERVAL" ELSE cfg.THREAD_MODEL,
   numbers     |-> [option \in Numbers |-> Number(option, cfg.words[option])],
   switches    |-> {"daemonise"} \union (IF debug THEN {"debug"} ELSE {})
                     \union (IF cfg.APPEND_THREAD_ID THEN {"append-thread-id"} ELSE {})
                     \union (IF cfg.RUN_ONCE THEN {"run-once"} ELSE {})
                     \union (IF cfg.TEST_FIRE THEN {"test-fire"} ELSE {}),
   errlogfile  |-> cfg.words["err-log-file"]]

\* What the script relies on and does not look at: SLEEP, SLEEP_ON_ERROR and THREADS
\* are set, nothing is blank, the name in ERR_LOG_FILE has no space in it, and what
\* follows the first word of a number has no dash before it.  The example file is so.
Complete(cfg) ==
  /\ \A option \in {"sleep", "sleep-on-error", "threads"} : cfg.words[option] # <<>>
  /\ cfg.blank = {}
  /\ \A option \in Unquoted : \A i \in 2..Len(cfg.words[option]) :
       option # "err-log-file" /\ cfg.words[option][i].option = NoOption
=============================================================================

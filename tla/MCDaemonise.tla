---------------------------- MODULE MCDaemonise ----------------------------
(***************************************************************************)
(* Configuration files for TLC: complete ones with and without the         *)
(* optional settings, and some that the script makes something else of.    *)
(***************************************************************************)
EXTENDS Daemonise, TLC

\* A word with a dash that is no option.
Dash == [option |-> Unknown, atoi |-> 0]

Worded(always, optional) ==
  [option \in Unquoted |->
     CASE option \in {"sleep", "sleep-on-error", "threads"} -> always
       [] option = "err-log-file"                           -> <<>>
       [] OTHER                                             -> optional]

Config(words, model, switches) ==
  [words |-> words, blank |-> {}, THREAD_MODEL |-> model,
   APPEND_THREAD_ID |-> "append" \in switches, RUN_ONCE |-> "once" \in switches,
   TEST_FIRE |-> "test" \in switches]

Brief      == Worded(<<Word(7)>>, <<>>)
Full       == Worded(<<Word(7)>>, <<Word(5)>>)
Err(words) == [Full EXCEPT !["err-log-file"] = words]

AllConfigs ==
  [brief   |-> Config(Brief, "DEPENDENT", {}),
   full    |-> Config(Err(<<Text>>), "INDEPENDENT", {"append"}),
   once    |-> Config(Full, "FIXED", {"once"}),
   test    |-> Config(Brief, "FIXED", {"test"}),
   words   |-> Config([Full EXCEPT !["sleep"] = <<Word(7), Word(8)>>,
                                   !["fixed-interval-wait"] = <<Word(-1)>>], "FIXED", {}),
   threads |-> Config([Full EXCEPT !["threads"] = <<>>], "FIXED", {}),
   minus   |-> Config([Full EXCEPT !["sleep"] = <<Word(7), Word(-8)>>], "FIXED", {}),
   space   |-> Config(Err(<<Text, Text>>), "DEPENDENT", {}),
   dash    |-> Config(Err(<<Text, Dash>>), "DEPENDENT", {}),
   option  |-> Config(Err(<<Text, Option("test-fire")>>), "DEPENDENT", {}),
   blank   |-> [Config(Brief, "DEPENDENT", {"once"}) EXCEPT !.blank = {"err-log-file"}]]

\* No process id and no inode differs from another one.
Symmetry == Permutations(Pids) \union Permutations(Files)

OneConfig == [brief |-> Config(Brief, "DEPENDENT", {})]
=============================================================================

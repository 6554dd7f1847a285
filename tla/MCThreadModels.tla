--------------------------- MODULE MCThreadModels ---------------------------
(***************************************************************************)
(* Settings of the thread models for TLC: every model, sleeps of different *)
(* lengths, and in the fixed interval model every way to wait for a slot.  *)
(***************************************************************************)
EXTENDS ThreadModels

Setting(model, sleep, onError, runTimeMax, wait, horizon) ==
  [model |-> model, sleep |-> sleep, sleepOnError |-> onError, run_time_max |-> runTimeMax,
   termination_timeout |-> 1, fi_wait_time_max |-> wait, horizon |-> horizon]

NoWait == Setting("FIXED_INTERVAL", 1, 2, 0, 0, 3)
BackOff == Setting("DEPENDENT", 1, 2, 0, -1, 3)

AllModels ==
  {Setting("INDEPENDENT", 0, 2, 1, -1, 3),
   BackOff,
   NoWait,
   Setting("FIXED_INTERVAL", 1, 0, 0, 1, 2),
   Setting("FIXED_INTERVAL", 1, 1, 1, -1, 2)}

OnlyNoWait == {NoWait}
OnlyBackOff == {BackOff}
=============================================================================

---------------------------- MODULE MCDiskOutput ----------------------------
(***************************************************************************)
(* Two parts of the output in files that share nothing: the writer of one  *)
(* file, and the poller of all.  A behaviour is one of either.             *)
(***************************************************************************)
EXTENDS DiskOutput, OutputPoller

BothInit == Init /\ PollInit

BothNext ==
    \/ PollInit /\ Next /\ UNCHANGED pollVars
    \/ Init /\ PollNext /\ UNCHANGED vars

BothSpec == BothInit /\ [][BothNext]_<<vars, pollVars>> /\ Fairness /\ PollFairness
=============================================================================

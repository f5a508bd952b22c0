------------------------- MODULE OutputPollerProofs -------------------------
(* Theorems about OutputPoller, for any set of outputs and poll tasks.     *)
EXTENDS OutputPoller, TLAPS

-----------------------------------------------------------------------------
(* The inductive invariant.                                                *)

Running(p) == ~Done(p) /\ Runs(p)

(* A poll task that is cancelled is forgotten at the same time.            *)
KnownRuns == pollTask \notin cancelled

(* Of a stopped output that was reported since, the running poll task has  *)
(* nothing left on its list.                                               *)
ListsEnd ==
    \A p \in Pollers :
        /\ current[p] \cap round[p] = {}
        /\ Running(p) => \A t \in current[p] \cup round[p] : late[t] = 0

(* Calls are counted only after the output was stopped or cleared.         *)
CountsStopped == \A t \in active : late[t] = 0

IInv ==
    /\ PollTypeOK
    /\ OnePoller
    /\ SomebodyPolls
    /\ KnownRuns
    /\ ListsEnd
    /\ CountsStopped
    /\ FewLateReports

-----------------------------------------------------------------------------
(* The calls.                                                              *)

LEMMA InitInv == PollInit => IInv
  BY NoPollerAssumption
  DEF PollInit, IInv, PollTypeOK, OnePoller, SomebodyPolls, KnownRuns, ListsEnd,
      CountsStopped, FewLateReports, Done, PollStages

(* What start_polling does to the poll task: it stays, or is a new one.    *)
LEMMA StartPollingEffect ==
  ASSUME IInv, NEW t \in Tasks, StartPolling(t)
  PROVE  \E p \in Pollers :
            /\ pollTask' = p /\ p \notin cancelled /\ ~Done(p)'
            /\ \/ p = pollTask /\ stage' = stage
               \/ Done(p) /\ stage' = [stage EXCEPT ![p] = "created"]
            /\ \A q \in Pollers : q # p => Done(q) \/ q \in cancelled
  <1>1. CASE ~NeedsPoller
    <2>1. pollTask \in Pollers /\ ~Done(pollTask)
      BY <1>1 DEF NeedsPoller, IInv, PollTypeOK
    <2>2. pollTask' = pollTask /\ stage' = stage
      BY <1>1 DEF StartPolling
    <2> QED BY <2>1, <2>2 DEF IInv, KnownRuns, OnePoller, Done
  <1>2. CASE NeedsPoller
    <2>1. PICK p \in Pollers : /\ Done(p) /\ pollTask' = p
                               /\ stage' = [stage EXCEPT ![p] = "created"]
      BY <1>2 DEF StartPolling, CreatePoller
    <2>2. p \notin cancelled /\ ~Done(p)'
      BY <2>1 DEF IInv, PollTypeOK, Done
    <2>3. \A q \in Pollers : Done(q) \/ q \in cancelled
      BY <1>2, NoPollerAssumption DEF NeedsPoller, IInv, OnePoller
    <2> QED BY <2>1, <2>2, <2>3
  <1> QED BY <1>1, <1>2

LEMMA StartPollingInv ==
  ASSUME IInv, NEW t \in Tasks, StartPolling(t)
  PROVE  IInv'
  <1>1. PICK p \in Pollers :
            /\ pollTask' = p /\ p \notin cancelled /\ ~Done(p)'
            /\ \/ p = pollTask /\ stage' = stage
               \/ Done(p) /\ stage' = [stage EXCEPT ![p] = "created"]
            /\ \A q \in Pollers : q # p => Done(q) \/ q \in cancelled
    BY StartPollingEffect
  <1>2. /\ t \notin cleared /\ active' = active \cup {t}
        /\ late' = [late EXCEPT ![t] = 0]
        /\ UNCHANGED <<cleared, cancelled, round, current>>
    BY DEF StartPolling
  <1>3. PollTypeOK'
    BY <1>1, <1>2 DEF IInv, PollTypeOK, Done, PollStages
  <1>4. OnePoller'
    BY <1>1, <1>2 DEF IInv, PollTypeOK, OnePoller, Done
  <1>5. SomebodyPolls' /\ KnownRuns'
    BY <1>1, <1>2 DEF SomebodyPolls, KnownRuns, Done
  <1>6. ListsEnd'
    <2>1. \A q \in Pollers : Done(q) => current[q] = {} /\ round[q] = {}
      BY DEF IInv, PollTypeOK, Done
    <2> QED BY <1>1, <1>2, <2>1 DEF IInv, PollTypeOK, ListsEnd, Running, Runs, Done
  <1>7. CountsStopped' /\ FewLateReports'
    BY <1>2 DEF IInv, PollTypeOK, CountsStopped, FewLateReports
  <1> QED BY <1>3, <1>4, <1>5, <1>6, <1>7 DEF IInv

(* stop_polling, on its own or in clear().                                 *)
LEMMA StopInv ==
  ASSUME IInv, NEW t \in Tasks, Stop(t), UNCHANGED <<stage, round, current>>,
         \/ UNCHANGED <<cleared, late>>
         \/ cleared' = cleared \cup {t} /\ late' = [late EXCEPT ![t] = 0]
  PROVE  IInv'
  <1>1. active' = active \ {t}
    BY DEF Stop
  <1>2. \/ UNCHANGED <<pollTask, cancelled>>
        \/ /\ active' = {} /\ pollTask \in Pollers /\ pollTask' = NoPoller
           /\ Done(pollTask) /\ UNCHANGED cancelled
        \/ /\ active' = {} /\ pollTask \in Pollers /\ pollTask' = NoPoller
           /\ ~Done(pollTask) /\ cancelled' = cancelled \cup {pollTask}
    BY DEF Stop, IInv, PollTypeOK
  <1>3. active' # {} => UNCHANGED <<pollTask, cancelled>>
    BY DEF Stop
  <1>4. cancelled \subseteq cancelled'
    BY <1>2
  <1>5. PollTypeOK'
    BY <1>1, <1>2 DEF IInv, PollTypeOK, Done, PollStages
  <1>6. OnePoller'
    BY <1>2, NoPollerAssumption DEF IInv, OnePoller, Done
  <1>7. SomebodyPolls'
    BY <1>1, <1>3 DEF IInv, SomebodyPolls
  <1>8. KnownRuns'
    BY <1>2, NoPollerAssumption DEF IInv, PollTypeOK, KnownRuns
  <1>9. ListsEnd'
    BY <1>4 DEF IInv, PollTypeOK, ListsEnd, Running, Runs, Done
  <1>10. CountsStopped' /\ FewLateReports'
    BY <1>1 DEF IInv, PollTypeOK, CountsStopped, FewLateReports
  <1> QED BY <1>5, <1>6, <1>7, <1>8, <1>9, <1>10 DEF IInv

-----------------------------------------------------------------------------
(* The poll task.                                                          *)

(* One poll task goes on, while the counts, which may have changed for the *)
(* output it has just reported, are still zero for the rest of its list.   *)
LEMMA StageInv ==
  ASSUME IInv, NEW p \in Pollers, Running(p),
         UNCHANGED <<cleared, active, pollTask, cancelled>>,
         NEW st \in PollStages \ {"created"},
         NEW cur \in SUBSET Tasks, NEW rest \in SUBSET Tasks,
         stage' = [stage EXCEPT ![p] = st],
         current' = [current EXCEPT ![p] = cur],
         round' = [round EXCEPT ![p] = rest],
         st = "over" => active = {},
         IF st = "reading" THEN \E t \in Tasks : cur = {t} ELSE cur = {} /\ rest = {},
         cur \cap rest = {},
         late' \in [Tasks -> 0 .. 2],
         \A t \in cur \cup rest : late'[t] = 0,
         CountsStopped', FewLateReports'
  PROVE  IInv'
  <1>1. p \notin cancelled /\ ~Done(p)
    BY DEF Running, Runs
  <1>2. PollTypeOK'
    BY <1>1 DEF IInv, PollTypeOK, Done
  <1>3. OnePoller' /\ KnownRuns'
    BY <1>1 DEF IInv, PollTypeOK, OnePoller, KnownRuns, Done
  <1>4. SomebodyPolls'
    BY DEF IInv, PollTypeOK, SomebodyPolls
  <1>5. \A q \in Pollers : q # p => ~Running(q)'
    <2>1. p = pollTask
      BY <1>1 DEF IInv, OnePoller
    <2> QED BY <2>1 DEF IInv, PollTypeOK, OnePoller, Running, Runs, Done
  <1>6. ListsEnd'
    BY <1>5 DEF IInv, PollTypeOK, ListsEnd
  <1> QED BY <1>2, <1>3, <1>4, <1>6 DEF IInv

(* The for loop's next entry, or the next turn of the while loop.          *)
LEMMA AdvanceInv ==
  ASSUME IInv, NEW p \in Pollers, Running(p),
         UNCHANGED <<cleared, active, pollTask, cancelled>>,
         NEW rest \in SUBSET Tasks, Advance(p, rest),
         late' \in [Tasks -> 0 .. 2],
         \A t \in rest : late'[t] = 0,
         CountsStopped', FewLateReports'
  PROVE  IInv'
  <1>1. CASE LoopTop(p)
    <2> DEFINE st == IF active # {} THEN "sleeping" ELSE "over"
    <2>1. st \in PollStages \ {"created"} /\ st # "reading" /\ (st = "over" => active = {})
      BY DEF PollStages
    <2>2. /\ stage' = [stage EXCEPT ![p] = st]
          /\ current' = [current EXCEPT ![p] = {}] /\ round' = [round EXCEPT ![p] = {}]
      BY <1>1 DEF LoopTop
    <2> HIDE DEF st
    <2> QED BY <2>1, <2>2, StageInv
  <1>2. ASSUME NEW t \in rest \ cleared,
               stage' = [stage EXCEPT ![p] = "reading"],
               round' = [round EXCEPT ![p] = rest \ {t}],
               current' = [current EXCEPT ![p] = {t}]
        PROVE  IInv'
    <2>1. /\ {t} \in SUBSET Tasks /\ rest \ {t} \in SUBSET Tasks
          /\ "reading" \in PollStages \ {"created"}
          /\ \E u \in Tasks : {t} = {u}
          /\ {t} \cap (rest \ {t}) = {}
          /\ \A u \in {t} \cup (rest \ {t}) : late'[u] = 0
      BY DEF PollStages
    <2> QED BY <1>2, <2>1, StageInv
  <1> QED BY <1>1, <1>2 DEF Advance

LEMMA FirstStepInv ==
  ASSUME IInv, NEW p \in Pollers, FirstStep(p)
  PROVE  IInv'
  <1>1. Running(p) /\ late' = late
    BY DEF FirstStep, Running, Done
  <1>2. /\ {} \in SUBSET Tasks /\ Advance(p, {})
        /\ UNCHANGED <<cleared, active, pollTask, cancelled>>
    BY DEF FirstStep, Advance
  <1>3. late' \in [Tasks -> 0 .. 2] /\ CountsStopped' /\ FewLateReports'
    BY <1>1, <1>2 DEF IInv, PollTypeOK, CountsStopped, FewLateReports
  <1> QED BY <1>1, <1>2, <1>3, AdvanceInv

LEMMA WakesInv ==
  ASSUME IInv, NEW p \in Pollers, Wakes(p)
  PROVE  IInv'
  <1>1. Running(p) /\ Advance(p, active)
        /\ UNCHANGED <<cleared, active, pollTask, cancelled, late>>
    BY DEF Wakes, Running, Done
  <1>2. /\ active \in SUBSET Tasks /\ late' \in [Tasks -> 0 .. 2]
        /\ \A t \in active : late'[t] = 0
        /\ CountsStopped' /\ FewLateReports'
    BY <1>1 DEF IInv, PollTypeOK, CountsStopped, FewLateReports
  <1> QED BY <1>1, <1>2, AdvanceInv

(* The report is the first since the output was stopped: the poll task had *)
(* it on its list, whose outputs have no report counted.                   *)
LEMMA ReportsInv ==
  ASSUME IInv, NEW p \in Pollers, NEW t \in Tasks, Reports(p, t)
  PROVE  IInv'
  <1>1. /\ Running(p) /\ Advance(p, round[p]) /\ round[p] \in SUBSET Tasks
        /\ UNCHANGED <<cleared, active, pollTask, cancelled>>
    BY DEF Reports, Running, Done, IInv, PollTypeOK
  <1>2. current[p] = {t} /\ t \notin cleared
    BY DEF Reports
  <1>3. late[t] = 0 /\ t \notin round[p] /\ \A u \in round[p] : late[u] = 0
    BY <1>1, <1>2 DEF IInv, ListsEnd
  <1>4. late' = [late EXCEPT ![t] = IF t \notin active THEN 1 ELSE 0]
    BY <1>3 DEF Reports, Counted, IInv, PollTypeOK
  <1>5. late' \in [Tasks -> 0 .. 2] /\ \A u \in round[p] : late'[u] = 0
    BY <1>3, <1>4 DEF IInv, PollTypeOK
  <1>6. CountsStopped' /\ FewLateReports'
    BY <1>1, <1>2, <1>4 DEF IInv, PollTypeOK, CountsStopped, FewLateReports
  <1> QED BY <1>1, <1>5, <1>6, AdvanceInv

LEMMA SkipsInv ==
  ASSUME IInv, NEW p \in Pollers, Skips(p)
  PROVE  IInv'
  <1>1. /\ Running(p) /\ Advance(p, round[p]) /\ round[p] \in SUBSET Tasks
        /\ UNCHANGED <<cleared, active, pollTask, cancelled, late>>
    BY DEF Skips, Running, Done, IInv, PollTypeOK
  <1>2. /\ late' \in [Tasks -> 0 .. 2] /\ \A t \in round[p] : late'[t] = 0
        /\ CountsStopped' /\ FewLateReports'
    BY <1>1 DEF IInv, PollTypeOK, ListsEnd, CountsStopped, FewLateReports
  <1> QED BY <1>1, <1>2, AdvanceInv

LEMMA FailsInv ==
  ASSUME IInv, NEW p \in Pollers, Fails(p)
  PROVE  IInv'
  <1>1. /\ Running(p) /\ {} \in SUBSET Tasks /\ "failed" \in PollStages \ {"created"}
        /\ UNCHANGED <<cleared, active, pollTask, cancelled, late>>
    BY DEF Fails, Running, Done, PollStages
  <1>2. late' \in [Tasks -> 0 .. 2] /\ CountsStopped' /\ FewLateReports'
    BY <1>1 DEF IInv, PollTypeOK, CountsStopped, FewLateReports
  <1> QED BY <1>1, <1>2, StageInv DEF Fails

LEMMA CancelTakesInv ==
  ASSUME IInv, NEW p \in Pollers, CancelTakes(p)
  PROVE  IInv'
  <1>1. p # pollTask /\ p \in cancelled
    BY DEF CancelTakes, IInv, KnownRuns
  <1>2. PollTypeOK'
    BY DEF CancelTakes, IInv, PollTypeOK, Done, PollStages
  <1>3. OnePoller' /\ SomebodyPolls' /\ KnownRuns'
    BY <1>1 DEF CancelTakes, IInv, PollTypeOK, OnePoller, SomebodyPolls, KnownRuns, Done
  <1>4. ListsEnd'
    BY DEF CancelTakes, IInv, PollTypeOK, ListsEnd, Running, Runs, Done
  <1>5. CountsStopped' /\ FewLateReports'
    BY DEF CancelTakes, IInv, CountsStopped, FewLateReports
  <1> QED BY <1>2, <1>3, <1>4, <1>5 DEF IInv

-----------------------------------------------------------------------------
(* The theorems.                                                           *)

LEMMA StutterInv == IInv /\ UNCHANGED pollVars => IInv'
  BY DEF pollVars, pollerVars, IInv, PollTypeOK, OnePoller, SomebodyPolls, KnownRuns,
         ListsEnd, CountsStopped, FewLateReports, Running, Runs, Done

LEMMA NextInv == IInv /\ [PollNext]_pollVars => IInv'
  <1> SUFFICES ASSUME IInv, [PollNext]_pollVars PROVE IInv'
    OBVIOUS
  <1>1. ASSUME NEW t \in Tasks, StartPolling(t) PROVE IInv'
    BY <1>1, StartPollingInv
  <1>2. ASSUME NEW t \in Tasks, StopPolling(t) PROVE IInv'
    BY <1>2, StopInv DEF StopPolling
  <1>3. ASSUME NEW t \in Tasks, Clear(t) PROVE IInv'
    BY <1>3, StopInv DEF Clear
  <1>4. ASSUME NEW p \in Pollers, PollerStep(p) PROVE IInv'
    BY <1>4, FirstStepInv, WakesInv, ReportsInv, SkipsInv, FailsInv, CancelTakesInv
    DEF PollerStep
  <1>5. CASE UNCHANGED pollVars
    BY <1>5, StutterInv
  <1> QED BY <1>1, <1>2, <1>3, <1>4, <1>5 DEF PollNext

(* The inductive invariant holds throughout.                               *)
THEOREM Invariance == PollSpec => []IInv
  BY InitInv, NextInv, PTL DEF PollSpec

(* _active_polling holds no cleared output, and a poll task is cancelled   *)
(* only while it has not ended.                                            *)
THEOREM TypeCorrect == PollSpec => []PollTypeOK
  <1>1. IInv => PollTypeOK
    BY DEF IInv
  <1> QED BY Invariance, <1>1, PTL

(* However starts and stops of all commands alternate, one poll task at    *)
(* most goes on: others have ended or are about to.                        *)
THEOREM AtMostOnePolls == PollSpec => []OnePoller
  <1>1. IInv => OnePoller
    BY DEF IInv
  <1> QED BY Invariance, <1>1, PTL

(* While an output is active, the class knows a poll task that was not     *)
(* cancelled and has not run out of work.                                  *)
THEOREM ActiveIsPolled == PollSpec => []SomebodyPolls
  <1>1. IInv => SomebodyPolls
    BY DEF IInv
  <1> QED BY Invariance, <1>1, PTL

(* stop_polling is followed by one call of on_progress at most, clear() by *)
(* none.                                                                   *)
THEOREM ReportsStop == PollSpec => []FewLateReports
  <1>1. IInv => FewLateReports
    BY DEF IInv
  <1> QED BY Invariance, <1>1, PTL
=============================================================================

------------------------ MODULE PreviewManagerProofs ------------------------
(* Why the public route leads to a preview or nowhere (RouteOwned), never to *)
(* processes that were stopped (ServedWhileRouted), and why no process is    *)
(* forgotten (ProcessesOwned): three actors share the instance table, and    *)
(* only Start and Stop share a lock.                                         *)
EXTENDS PreviewManager, TLAPS

Ended == {"retire", "withdraw"}            \* stages of a job with a target
Past == {"replacing", "returning", "done"} \* of a start call whose instance was recorded
Up == {"running", "exited"}

\* The lock belongs to the one call that is inside Start or Stop.
LockHeld ==
  /\ \A s \in Starts : pc[s] \in Locked => lock = s
  /\ \A o \in Stops : job[o].stage \in Ended \cup {"locked"} => lock = o

\* A supervisor exists, and has a job at most once, after its Start has returned.
Supervised ==
  /\ \A s \in Starts : watching[s] \/ job[s] # Free => pc[s] = "done"
  /\ \A s \in Starts : watching[s] => job[s] = Free

\* The instance, what a job takes down and what a restart replaces were recorded.
Recorded ==
  /\ instance # NoStart => pc[instance] \in Past
  /\ \A k \in Takers : job[k].stage \in Ended => job[k].of \in Starts /\ pc[job[k].of] \in Past
  /\ \A s \in Starts : held[s] # NoStart => held[s] # s /\ pc[held[s]] \in Past

\* The route is the recording call's or older, and not that of a job that withdrew it.
Routed ==
  /\ route # NoStart => pc[route] \in {"recording"} \cup Past
  /\ \A s \in Starts : pc[s] \in {"recording", "replacing", "returning"} => route \in {s, NoStart}
  /\ \A k \in Takers : job[k].stage = "retire" => route # job[k].of

\* What a start call has launched; nobody else touches it before it is recorded.
Launched ==
  /\ \A s \in Starts, i \in 1 .. Services :
       /\ pc[s] \in {"new", "analyzing", "reusing"} => proc[s][i] = "none"
       /\ pc[s] = "launching" => (i <= started[s] => proc[s][i] \in Up)
       /\ pc[s] \in {"probing", "publishing"} => proc[s][i] \in Up
  /\ \A s \in Starts : pc[s] = "launching" => started[s] < Services

\* The references an error path has are those of all processes there are.
Counted ==
  \A s \in Starts, i \in 1 .. Services :
    /\ pc[s] \in {"new", "analyzing", "reusing"} => started[s] = 0
    /\ "reply" \notin faults /\ pc[s] \in Locked \ Past /\ proc[s][i] # "none" => i <= started[s]

\* ProcessesOwned, with an owner for those of a call that has recorded its instance.
OwnedBy(s) ==
  \/ pc[s] \in Locked \ Past \/ instance = s
  \/ \E k \in Takers : job[k].stage \in Ended /\ job[k].of = s
  \/ \E other \in Starts : pc[other] = "replacing" /\ held[other] = s

Clean == faults \cap {"reply", "retire"} = {}

Owned ==
  \A s \in Starts, i \in 1 .. Services :
    proc[s][i] = "running" /\ Clean => OwnedBy(s)

PInv ==
  /\ PTypeOK /\ LockHeld /\ Supervised /\ Recorded /\ Routed /\ Launched /\ Counted
  /\ RouteOwned /\ ServedWhileRouted /\ Owned

-----------------------------------------------------------------------------

Procs == [Starts -> [1 .. Services -> {"none", "running", "exited", "retired"}]]

\* Stop and Remove of the first n processes of s.
LEMMA RetireFacts ==
  ASSUME PTypeOK, NEW s \in Starts, NEW n \in 0 .. Services, Retire(s, n)
  PROVE  /\ proc' \in Procs /\ faults' \subseteq Faults /\ faults \subseteq faults'
         /\ "reply" \in faults' => "reply" \in faults
         /\ \A r \in Starts : r # s => proc'[r] = proc[r]
         /\ \A i \in 1 .. Services : proc'[s][i] \in {proc[s][i], "retired"}
         /\ "retire" \notin faults' => \A i \in 1 .. n : proc'[s][i] = "retired"
<1> DEFINE S == {"none", "running", "exited", "retired"}
<1>1. PICK kept \in SUBSET (1 .. n) :
        /\ kept = {} \/ Fault("retire")
        /\ kept = {} => UNCHANGED faults
        /\ proc' = [proc EXCEPT ![s] =
             [i \in 1 .. Services |-> IF i \in (1 .. n) \ kept THEN "retired" ELSE proc[s][i]]]
  BY DEF Retire
<1>2. proc \in Procs /\ faults \subseteq Faults
  BY DEF PTypeOK, Procs
<1>3. /\ faults' \subseteq Faults /\ faults \subseteq faults'
      /\ "reply" \in faults' => "reply" \in faults
      /\ "retire" \notin faults' => kept = {}
  BY <1>1, <1>2 DEF Fault
<1> DEFINE row == [i \in 1 .. Services |-> IF i \in (1 .. n) \ kept THEN "retired" ELSE proc[s][i]]
<1>4. row \in [1 .. Services -> S]
  BY <1>2 DEF Procs
<1>5. proc' = [proc EXCEPT ![s] = row] /\ proc' \in Procs /\ proc'[s] = row
  BY <1>1, <1>2, <1>4 DEF Procs
<1>6. \A i \in 1 .. Services : proc'[s][i] \in {proc[s][i], "retired"}
  BY <1>5
<1>7. n \in Nat /\ n <= Services /\ Services \in Nat
  BY PreviewAssumption
<1>8. kept = {} => \A i \in 1 .. n : proc'[s][i] = "retired"
  BY <1>5, <1>7
<1> QED
  BY <1>2, <1>3, <1>5, <1>6, <1>8

Jobs == [stage : {"free", "over", "locked", "withdraw", "retire"}, of : Starts \cup {NoStart}]

\* The stage of one taker changes.
LEMMA JobFacts ==
  ASSUME PTypeOK, NEW k \in Takers,
         NEW stage \in {"free", "over", "locked", "withdraw", "retire"},
         NEW s \in Starts \cup {NoStart},
         job' = [job EXCEPT ![k] = [stage |-> stage, of |-> s]]
  PROVE  /\ job' \in [Takers -> Jobs]
         /\ job'[k] = [stage |-> stage, of |-> s] /\ job'[k].stage = stage /\ job'[k].of = s
         /\ \A l \in Takers : l # k => job'[l] = job[l]
BY DEF PTypeOK, Jobs


-----------------------------------------------------------------------------
(* Every step keeps every conjunct, given all of them.                      *)

LEMMA PTypeOKKept == PInv /\ [Next]_vars => PTypeOK'
<1> USE PreviewAssumption DEF callVars, Goto, Unlock, Withdraw, Job, Free, Over, Locked, Takers
<1> SUFFICES ASSUME PInv, [Next]_vars PROVE PTypeOK'
  OBVIOUS
<1>0. PTypeOK /\ LockHeld /\ Supervised /\ Recorded /\ Routed /\ Launched /\ Counted
      /\ RouteOwned /\ ServedWhileRouted /\ Owned
  BY DEF PInv
<1>1. ASSUME NEW s \in Starts, Enter(s) PROVE PTypeOK'
  BY <1>0, <1>1 DEF PTypeOK, Procs, Enter, Locked
<1>2. ASSUME NEW s \in Starts, Analyze(s) PROVE PTypeOK'
  <2>1. CASE Unlock /\ Goto(s, "done") /\ UNCHANGED plan
    BY <1>0, <1>2, <2>1 DEF PTypeOK, Analyze
  <2>2. ASSUME NEW q \in Plans, plan' = [plan EXCEPT ![s] = q], UNCHANGED lock,
               Goto(s, "reusing") \/ Goto(s, "launching")
        PROVE  PTypeOK'
    BY <1>0, <1>2, <2>2 DEF PTypeOK, Analyze
  <2> QED
    BY <1>2, <2>1, <2>2 DEF Analyze
<1>3. ASSUME NEW s \in Starts, Reuse(s) PROVE PTypeOK'
  BY <1>0, <1>3 DEF PTypeOK, Procs, Reuse
<1>4. ASSUME NEW s \in Starts, Launch(s) PROVE PTypeOK'
  <2>1. pc[s] = "launching" /\ started[s] + 1 \in 1 .. Services
    BY <1>0, <1>4 DEF PTypeOK, Launched, Launch
  <2>2. [proc EXCEPT ![s][started[s] + 1] = "running"] \in Procs
    BY <1>0, <2>1 DEF PTypeOK, Procs
  <2>3. proc' \in Procs
    BY <1>0, <1>4, <2>2 DEF PTypeOK, Procs, Launch
  <2>4. started' \in [Starts -> 0 .. Services]
    BY <1>0, <1>4, <2>1 DEF PTypeOK, Launch
  <2>5. pc' \in [Starts -> {"new", "done"} \cup Locked] /\ faults' \subseteq Faults
    BY <1>0, <1>4 DEF PTypeOK, Launch, Fault
  <2> QED
    BY <1>0, <1>4, <2>3, <2>4, <2>5 DEF PTypeOK, Procs, Launch
<1>5. ASSUME NEW s \in Starts, Probe(s) PROVE PTypeOK'
  BY <1>0, <1>5 DEF PTypeOK, Procs, Probe
<1>6. ASSUME NEW s \in Starts, Publish(s) PROVE PTypeOK'
  BY <1>0, <1>6 DEF PTypeOK, Procs, Publish, Fault
<1>7. ASSUME NEW s \in Starts, Record(s) PROVE PTypeOK'
  BY <1>0, <1>7 DEF PTypeOK, Procs, Record, Fault
<1>8. ASSUME NEW s \in Starts, RetirePrevious(s) PROVE PTypeOK'
  BY <1>0, <1>8, RetireFacts DEF PTypeOK, Procs, RetirePrevious
<1>9. ASSUME NEW s \in Starts, Return(s) PROVE PTypeOK'
  BY <1>0, <1>9 DEF PTypeOK, Procs, Return
<1>10. ASSUME NEW s \in Starts, Undo(s) PROVE PTypeOK'
  BY <1>0, <1>10, RetireFacts DEF PTypeOK, Procs, Undo, Undone
<1>11. ASSUME NEW o \in Stops, StopEnter(o) PROVE PTypeOK'
  BY <1>0, <1>11 DEF PTypeOK, Procs, StopEnter
<1>12. ASSUME NEW o \in Stops, StopTake(o) PROVE PTypeOK'
  <2>1. instance \in Starts \cup {NoStart} /\ o \in Takers
    BY <1>0 DEF PTypeOK
  <2>2. CASE job' = [job EXCEPT ![o] = Job("withdraw", instance)]
    <3>1. job' \in [Takers -> Jobs]
      BY <1>0, <2>1, <2>2, JobFacts
    <3> QED
      BY <1>0, <1>12, <3>1 DEF PTypeOK, Jobs, StopTake, Take
  <2>3. CASE job' = [job EXCEPT ![o] = Over]
    <3>1. job' \in [Takers -> Jobs]
      BY <1>0, <2>1, <2>3, JobFacts
    <3> QED
      BY <1>0, <1>12, <3>1 DEF PTypeOK, Jobs, StopTake, Take
  <2> QED
    BY <1>12, <2>2, <2>3 DEF StopTake, Take
<1>13. CASE Access
  BY <1>0, <1>13 DEF PTypeOK, Procs, Access
<1>14. CASE GrowIdle
  BY <1>0, <1>14 DEF PTypeOK, Procs, GrowIdle
<1>15. CASE Reap
  BY <1>0, <1>15 DEF PTypeOK, Procs, Reap, Take
<1>16. CASE CloseAll
  <2>1. instance \in Starts \cup {NoStart} /\ Reaper \in Takers
    BY <1>0 DEF PTypeOK
  <2>2. CASE job' = [job EXCEPT ![Reaper] = Job("withdraw", instance)]
    <3>1. job' \in [Takers -> Jobs]
      BY <1>0, <2>1, <2>2, JobFacts
    <3> QED
      BY <1>0, <1>16, <3>1 DEF PTypeOK, Jobs, CloseAll, Take
  <2>3. CASE UNCHANGED job
    BY <1>0, <1>16, <2>3 DEF PTypeOK, CloseAll, Take
  <2> QED
    BY <1>16, <2>2, <2>3 DEF CloseAll, Take
<1>17. ASSUME NEW s \in Starts, MarkExited(s) PROVE PTypeOK'
  <2>1. instance \in Starts \cup {NoStart} /\ s \in Takers
    BY <1>0 DEF PTypeOK
  <2>2. CASE job' = [job EXCEPT ![s] = Job("withdraw", instance)]
    <3>1. job' \in [Takers -> Jobs]
      BY <1>0, <2>1, <2>2, JobFacts
    <3> QED
      BY <1>0, <1>17, <3>1 DEF PTypeOK, Jobs, MarkExited
  <2>3. CASE UNCHANGED job
    BY <1>0, <1>17, <2>3 DEF PTypeOK, MarkExited
  <2> QED
    BY <1>17, <2>2, <2>3 DEF MarkExited
<1>18. ASSUME NEW s \in Starts, LoseWatch(s) PROVE PTypeOK'
  BY <1>0, <1>18 DEF PTypeOK, Procs, LoseWatch, Fault
<1>19. ASSUME NEW k \in Takers, WithdrawJob(k) PROVE PTypeOK'
  BY <1>0, <1>19 DEF PTypeOK, Procs, WithdrawJob
<1>20. ASSUME NEW k \in Takers, RetireJob(k) PROVE PTypeOK'
  <2>1. job[k].stage = "retire" /\ job[k].of \in Starts /\ Retire(job[k].of, Services)
    BY <1>0, <1>20 DEF RetireJob, Recorded, Ended
  <2>2. Services \in 0 .. Services
    OBVIOUS
  <2>3. proc' \in Procs /\ faults' \subseteq Faults
    BY <1>0, <2>1, <2>2, RetireFacts
  <2>4. CASE k = Reaper
    <3>1. job' \in [Takers -> Jobs]
      BY <1>0, <1>20, <2>4, JobFacts DEF RetireJob
    <3> QED
      BY <1>0, <1>20, <2>3, <3>1 DEF PTypeOK, Procs, Jobs, RetireJob
  <2>5. CASE k # Reaper
    <3>1. job' \in [Takers -> Jobs]
      BY <1>0, <1>20, <2>5, JobFacts DEF RetireJob
    <3> QED
      BY <1>0, <1>20, <2>3, <3>1 DEF PTypeOK, Procs, Jobs, RetireJob
  <2> QED
    BY <2>4, <2>5
<1>21. ASSUME NEW s \in Starts, NEW i \in 1 .. Services, Exit(s, i) PROVE PTypeOK'
  BY <1>0, <1>21 DEF PTypeOK, Procs, Exit
<1>22. CASE UNCHANGED vars
  BY <1>0, <1>22 DEF PTypeOK, Procs, vars
<1> QED
  BY <1>1, <1>2, <1>3, <1>4, <1>5, <1>6, <1>7, <1>8, <1>9, <1>10, <1>11, <1>12, <1>13, <1>14, <1>15, <1>16, <1>17, <1>18, <1>19, <1>20, <1>21, <1>22
  DEF Next, StartStep, StopStep, JobStep

LEMMA LockHeldKept == PInv /\ [Next]_vars => LockHeld'
<1> USE PreviewAssumption DEF callVars, Goto, Unlock, Withdraw, Job, Free, Over, Locked, Takers
<1> SUFFICES ASSUME PInv, [Next]_vars PROVE LockHeld'
  OBVIOUS
<1>0. PTypeOK /\ LockHeld /\ Supervised /\ Recorded /\ Routed /\ Launched /\ Counted
      /\ RouteOwned /\ ServedWhileRouted /\ Owned
  BY DEF PInv
<1>1. ASSUME NEW s \in Starts, Enter(s) PROVE LockHeld'
  BY <1>0, <1>1 DEF LockHeld, PTypeOK, Ended, Enter, Locked
<1>2. ASSUME NEW s \in Starts, Analyze(s) PROVE LockHeld'
  BY <1>0, <1>2 DEF LockHeld, PTypeOK, Ended, Analyze
<1>3. ASSUME NEW s \in Starts, Reuse(s) PROVE LockHeld'
  BY <1>0, <1>3 DEF LockHeld, PTypeOK, Ended, Reuse
<1>4. ASSUME NEW s \in Starts, Launch(s) PROVE LockHeld'
  BY <1>0, <1>4 DEF LockHeld, PTypeOK, Ended, Launch, Last, Fault
<1>5. ASSUME NEW s \in Starts, Probe(s) PROVE LockHeld'
  BY <1>0, <1>5 DEF LockHeld, PTypeOK, Ended, Probe
<1>6. ASSUME NEW s \in Starts, Publish(s) PROVE LockHeld'
  BY <1>0, <1>6 DEF LockHeld, PTypeOK, Ended, Publish, Fault
<1>7. ASSUME NEW s \in Starts, Record(s) PROVE LockHeld'
  BY <1>0, <1>7 DEF LockHeld, PTypeOK, Ended, Record, Fault
<1>8. ASSUME NEW s \in Starts, RetirePrevious(s) PROVE LockHeld'
  BY <1>0, <1>8, RetireFacts DEF LockHeld, PTypeOK, Ended, RetirePrevious
<1>9. ASSUME NEW s \in Starts, Return(s) PROVE LockHeld'
  BY <1>0, <1>9 DEF LockHeld, PTypeOK, Ended, Return
<1>10. ASSUME NEW s \in Starts, Undo(s) PROVE LockHeld'
  BY <1>0, <1>10, RetireFacts DEF LockHeld, PTypeOK, Ended, Undo, Undone
<1>11. ASSUME NEW o \in Stops, StopEnter(o) PROVE LockHeld'
  BY <1>0, <1>11 DEF LockHeld, PTypeOK, Ended, StopEnter
<1>12. ASSUME NEW o \in Stops, StopTake(o) PROVE LockHeld'
  <2>1. instance \in Starts \cup {NoStart} /\ o \in Takers
    BY <1>0 DEF PTypeOK
  <2>2. CASE instance # NoStart
    <3>1. job' = [job EXCEPT ![o] = Job("withdraw", instance)] /\ instance' = NoStart /\ UNCHANGED lock
      BY <1>12, <2>2 DEF StopTake, Take
    <3>2. /\ job'[o].stage = "withdraw" /\ job'[o].of = instance
          /\ \A l \in Takers : l # o => job'[l] = job[l]
      BY <1>0, <2>1, <3>1, JobFacts
    <3> QED
      BY <1>0, <1>12, <2>2, <3>1, <3>2 DEF LockHeld, PTypeOK, Ended, StopTake
  <2>3. CASE instance = NoStart
    <3>1. job' = [job EXCEPT ![o] = Job("over", NoStart)] /\ instance' = NoStart /\ lock' = NoCall
      BY <1>12, <2>3 DEF StopTake, Take
    <3>2. /\ job'[o].stage = "over"
          /\ \A l \in Takers : l # o => job'[l] = job[l]
      BY <1>0, <2>1, <3>1, JobFacts
    <3>3. job[o].stage = "locked" /\ lock = o /\ pc' = pc
      BY <1>0, <1>12 DEF StopTake, LockHeld
    <3>4. \A s \in Starts : pc[s] \notin Locked
      BY <1>0, <3>3 DEF LockHeld
    <3>5. \A l \in Stops : l # o => job[l].stage \notin Ended \cup {"locked"}
      BY <1>0, <3>3 DEF LockHeld
    <3> QED
      BY <2>1, <3>1, <3>2, <3>3, <3>4, <3>5 DEF LockHeld, PTypeOK, Ended, StopTake
  <2> QED
    BY <2>2, <2>3
<1>13. CASE Access
  BY <1>0, <1>13 DEF LockHeld, PTypeOK, Ended, Access
<1>14. CASE GrowIdle
  BY <1>0, <1>14 DEF LockHeld, PTypeOK, Ended, GrowIdle
<1>15. CASE Reap
  BY <1>0, <1>15 DEF LockHeld, PTypeOK, Ended, Reap, Take
<1>16. CASE CloseAll
  BY <1>0, <1>16 DEF LockHeld, PTypeOK, Ended, CloseAll, Take
<1>17. ASSUME NEW s \in Starts, MarkExited(s) PROVE LockHeld'
  BY <1>0, <1>17 DEF LockHeld, PTypeOK, Ended, MarkExited, Current
<1>18. ASSUME NEW s \in Starts, LoseWatch(s) PROVE LockHeld'
  BY <1>0, <1>18 DEF LockHeld, PTypeOK, Ended, LoseWatch, Fault
<1>19. ASSUME NEW k \in Takers, WithdrawJob(k) PROVE LockHeld'
  BY <1>0, <1>19 DEF LockHeld, PTypeOK, Ended, WithdrawJob
<1>20. ASSUME NEW k \in Takers, RetireJob(k) PROVE LockHeld'
  BY <1>0, <1>20, RetireFacts DEF LockHeld, PTypeOK, Ended, RetireJob
<1>21. ASSUME NEW s \in Starts, NEW i \in 1 .. Services, Exit(s, i) PROVE LockHeld'
  BY <1>0, <1>21 DEF LockHeld, PTypeOK, Ended, Exit
<1>22. CASE UNCHANGED vars
  BY <1>0, <1>22 DEF LockHeld, Ended, vars
<1> QED
  BY <1>1, <1>2, <1>3, <1>4, <1>5, <1>6, <1>7, <1>8, <1>9, <1>10, <1>11, <1>12, <1>13, <1>14, <1>15, <1>16, <1>17, <1>18, <1>19, <1>20, <1>21, <1>22
  DEF Next, StartStep, StopStep, JobStep

LEMMA SupervisedKept == PInv /\ [Next]_vars => Supervised'
<1> USE PreviewAssumption DEF callVars, Goto, Unlock, Withdraw, Job, Free, Over, Locked, Takers
<1> SUFFICES ASSUME PInv, [Next]_vars PROVE Supervised'
  OBVIOUS
<1>0. PTypeOK /\ LockHeld /\ Supervised /\ Recorded /\ Routed /\ Launched /\ Counted
      /\ RouteOwned /\ ServedWhileRouted /\ Owned
  BY DEF PInv
<1>1. ASSUME NEW s \in Starts, Enter(s) PROVE Supervised'
  BY <1>0, <1>1 DEF Supervised, PTypeOK, Enter, Locked
<1>2. ASSUME NEW s \in Starts, Analyze(s) PROVE Supervised'
  BY <1>0, <1>2 DEF Supervised, PTypeOK, Analyze
<1>3. ASSUME NEW s \in Starts, Reuse(s) PROVE Supervised'
  BY <1>0, <1>3 DEF Supervised, PTypeOK, Reuse
<1>4. ASSUME NEW s \in Starts, Launch(s) PROVE Supervised'
  BY <1>0, <1>4 DEF Supervised, PTypeOK, Launch, Last, Fault
<1>5. ASSUME NEW s \in Starts, Probe(s) PROVE Supervised'
  BY <1>0, <1>5 DEF Supervised, PTypeOK, Probe
<1>6. ASSUME NEW s \in Starts, Publish(s) PROVE Supervised'
  BY <1>0, <1>6 DEF Supervised, PTypeOK, Publish, Fault
<1>7. ASSUME NEW s \in Starts, Record(s) PROVE Supervised'
  BY <1>0, <1>7 DEF Supervised, PTypeOK, Record, Fault
<1>8. ASSUME NEW s \in Starts, RetirePrevious(s) PROVE Supervised'
  BY <1>0, <1>8, RetireFacts DEF Supervised, PTypeOK, RetirePrevious
<1>9. ASSUME NEW s \in Starts, Return(s) PROVE Supervised'
  BY <1>0, <1>9 DEF Supervised, PTypeOK, Return
<1>10. ASSUME NEW s \in Starts, Undo(s) PROVE Supervised'
  BY <1>0, <1>10, RetireFacts DEF Supervised, PTypeOK, Undo, Undone
<1>11. ASSUME NEW o \in Stops, StopEnter(o) PROVE Supervised'
  BY <1>0, <1>11 DEF Supervised, PTypeOK, StopEnter
<1>12. ASSUME NEW o \in Stops, StopTake(o) PROVE Supervised'
  BY <1>0, <1>12 DEF Supervised, PTypeOK, StopTake, Take
<1>13. CASE Access
  BY <1>0, <1>13 DEF Supervised, PTypeOK, Access
<1>14. CASE GrowIdle
  BY <1>0, <1>14 DEF Supervised, PTypeOK, GrowIdle
<1>15. CASE Reap
  BY <1>0, <1>15 DEF Supervised, PTypeOK, Reap, Take
<1>16. CASE CloseAll
  BY <1>0, <1>16 DEF Supervised, PTypeOK, CloseAll, Take
<1>17. ASSUME NEW s \in Starts, MarkExited(s) PROVE Supervised'
  BY <1>0, <1>17 DEF Supervised, PTypeOK, MarkExited, Current
<1>18. ASSUME NEW s \in Starts, LoseWatch(s) PROVE Supervised'
  BY <1>0, <1>18 DEF Supervised, PTypeOK, LoseWatch, Fault
<1>19. ASSUME NEW k \in Takers, WithdrawJob(k) PROVE Supervised'
  BY <1>0, <1>19 DEF Supervised, PTypeOK, WithdrawJob
<1>20. ASSUME NEW k \in Takers, RetireJob(k) PROVE Supervised'
  BY <1>0, <1>20, RetireFacts DEF Supervised, PTypeOK, RetireJob
<1>21. ASSUME NEW s \in Starts, NEW i \in 1 .. Services, Exit(s, i) PROVE Supervised'
  BY <1>0, <1>21 DEF Supervised, PTypeOK, Exit
<1>22. CASE UNCHANGED vars
  BY <1>0, <1>22 DEF Supervised, vars
<1> QED
  BY <1>1, <1>2, <1>3, <1>4, <1>5, <1>6, <1>7, <1>8, <1>9, <1>10, <1>11, <1>12, <1>13, <1>14, <1>15, <1>16, <1>17, <1>18, <1>19, <1>20, <1>21, <1>22
  DEF Next, StartStep, StopStep, JobStep

LEMMA RecordedKept == PInv /\ [Next]_vars => Recorded'
<1> USE PreviewAssumption DEF callVars, Goto, Unlock, Withdraw, Job, Free, Over, Locked, Takers
<1> SUFFICES ASSUME PInv, [Next]_vars PROVE Recorded'
  OBVIOUS
<1>0. PTypeOK /\ LockHeld /\ Supervised /\ Recorded /\ Routed /\ Launched /\ Counted
      /\ RouteOwned /\ ServedWhileRouted /\ Owned
  BY DEF PInv
<1>1. ASSUME NEW s \in Starts, Enter(s) PROVE Recorded'
  BY <1>0, <1>1 DEF Recorded, PTypeOK, Ended, Past, Enter, Locked
<1>2. ASSUME NEW s \in Starts, Analyze(s) PROVE Recorded'
  BY <1>0, <1>2 DEF Recorded, PTypeOK, Ended, Past, Analyze
<1>3. ASSUME NEW s \in Starts, Reuse(s) PROVE Recorded'
  BY <1>0, <1>3 DEF Recorded, PTypeOK, Ended, Past, Reuse
<1>4. ASSUME NEW s \in Starts, Launch(s) PROVE Recorded'
  BY <1>0, <1>4 DEF Recorded, PTypeOK, Ended, Past, Launch, Last, Fault
<1>5. ASSUME NEW s \in Starts, Probe(s) PROVE Recorded'
  BY <1>0, <1>5 DEF Recorded, PTypeOK, Ended, Past, Probe
<1>6. ASSUME NEW s \in Starts, Publish(s) PROVE Recorded'
  BY <1>0, <1>6 DEF Recorded, PTypeOK, Ended, Past, Publish, Fault
<1>7. ASSUME NEW s \in Starts, Record(s) PROVE Recorded'
  <2>1. pc[s] = "recording" /\ instance # s
    BY <1>0, <1>7 DEF Record, Recorded, Past, PTypeOK
  <2>2. CASE held' = [held EXCEPT ![s] = instance] /\ instance' = s /\ Goto(s, "replacing")
    BY <1>0, <1>7, <2>1, <2>2 DEF Recorded, PTypeOK, Ended, Past, Record
  <2>3. CASE Goto(s, "undoing") /\ UNCHANGED <<instance, held>>
    BY <1>0, <1>7, <2>1, <2>3 DEF Recorded, PTypeOK, Ended, Past, Record
  <2> QED
    BY <1>7, <2>2, <2>3 DEF Record
<1>8. ASSUME NEW s \in Starts, RetirePrevious(s) PROVE Recorded'
  BY <1>0, <1>8, RetireFacts DEF Recorded, PTypeOK, Ended, Past, RetirePrevious
<1>9. ASSUME NEW s \in Starts, Return(s) PROVE Recorded'
  BY <1>0, <1>9 DEF Recorded, PTypeOK, Ended, Past, Return
<1>10. ASSUME NEW s \in Starts, Undo(s) PROVE Recorded'
  BY <1>0, <1>10, RetireFacts DEF Recorded, PTypeOK, Ended, Past, Undo, Undone
<1>11. ASSUME NEW o \in Stops, StopEnter(o) PROVE Recorded'
  BY <1>0, <1>11 DEF Recorded, PTypeOK, Ended, Past, StopEnter
<1>12. ASSUME NEW o \in Stops, StopTake(o) PROVE Recorded'
  <2>1. instance \in Starts \cup {NoStart} /\ o \in Takers
    BY <1>0 DEF PTypeOK
  <2>2. CASE instance # NoStart
    <3>1. job' = [job EXCEPT ![o] = Job("withdraw", instance)] /\ instance' = NoStart /\ UNCHANGED lock
      BY <1>12, <2>2 DEF StopTake, Take
    <3>2. /\ job'[o].stage = "withdraw" /\ job'[o].of = instance
          /\ \A l \in Takers : l # o => job'[l] = job[l]
      BY <1>0, <2>1, <3>1, JobFacts
    <3> QED
      BY <1>0, <1>12, <2>2, <3>1, <3>2 DEF Recorded, PTypeOK, Ended, Past, StopTake
  <2>3. CASE instance = NoStart
    <3>1. job' = [job EXCEPT ![o] = Job("over", NoStart)] /\ instance' = NoStart /\ lock' = NoCall
      BY <1>12, <2>3 DEF StopTake, Take
    <3>2. /\ job'[o].stage = "over"
          /\ \A l \in Takers : l # o => job'[l] = job[l]
      BY <1>0, <2>1, <3>1, JobFacts
    <3> QED
      BY <1>0, <1>12, <2>3, <3>1, <3>2 DEF Recorded, PTypeOK, Ended, Past, StopTake
  <2> QED
    BY <2>2, <2>3
<1>13. CASE Access
  BY <1>0, <1>13 DEF Recorded, PTypeOK, Ended, Past, Access
<1>14. CASE GrowIdle
  BY <1>0, <1>14 DEF Recorded, PTypeOK, Ended, Past, GrowIdle
<1>15. CASE Reap
  BY <1>0, <1>15 DEF Recorded, PTypeOK, Ended, Past, Reap, Take
<1>16. CASE CloseAll
  BY <1>0, <1>16 DEF Recorded, PTypeOK, Ended, Past, CloseAll, Take
<1>17. ASSUME NEW s \in Starts, MarkExited(s) PROVE Recorded'
  <2>1. s \in Takers /\ instance \in Starts \cup {NoStart}
    BY <1>0 DEF PTypeOK
  <2>2. CASE instance # s
    BY <1>0, <1>17, <2>2 DEF MarkExited, Current, Recorded, PTypeOK, Ended, Past
  <2>3. CASE instance = s
    <3>1. job' = [job EXCEPT ![s] = Job("withdraw", s)]
      BY <1>17, <2>3 DEF MarkExited, Current
    <3>2. /\ job'[s].stage = "withdraw" /\ job'[s].of = s /\ job'[s] = Job("withdraw", s)
          /\ \A l \in Takers : l # s => job'[l] = job[l]
      BY <1>0, <2>1, <3>1, JobFacts
    <3> QED
      BY <1>0, <1>17, <2>3, <3>2 DEF MarkExited, Recorded, PTypeOK, Ended, Past
  <2> QED
    BY <2>2, <2>3
<1>18. ASSUME NEW s \in Starts, LoseWatch(s) PROVE Recorded'
  BY <1>0, <1>18 DEF Recorded, PTypeOK, Ended, Past, LoseWatch, Fault
<1>19. ASSUME NEW k \in Takers, WithdrawJob(k) PROVE Recorded'
  BY <1>0, <1>19 DEF Recorded, PTypeOK, Ended, Past, WithdrawJob
<1>20. ASSUME NEW k \in Takers, RetireJob(k) PROVE Recorded'
  BY <1>0, <1>20, RetireFacts DEF Recorded, PTypeOK, Ended, Past, RetireJob
<1>21. ASSUME NEW s \in Starts, NEW i \in 1 .. Services, Exit(s, i) PROVE Recorded'
  BY <1>0, <1>21 DEF Recorded, PTypeOK, Ended, Past, Exit
<1>22. CASE UNCHANGED vars
  BY <1>0, <1>22 DEF Recorded, Ended, Past, vars
<1> QED
  BY <1>1, <1>2, <1>3, <1>4, <1>5, <1>6, <1>7, <1>8, <1>9, <1>10, <1>11, <1>12, <1>13, <1>14, <1>15, <1>16, <1>17, <1>18, <1>19, <1>20, <1>21, <1>22
  DEF Next, StartStep, StopStep, JobStep

LEMMA RoutedKept == PInv /\ [Next]_vars => Routed'
<1> USE PreviewAssumption DEF callVars, Goto, Unlock, Withdraw, Job, Free, Over, Locked, Takers
<1> SUFFICES ASSUME PInv, [Next]_vars PROVE Routed'
  OBVIOUS
<1>0. PTypeOK /\ LockHeld /\ Supervised /\ Recorded /\ Routed /\ Launched /\ Counted
      /\ RouteOwned /\ ServedWhileRouted /\ Owned
  BY DEF PInv
<1>1. ASSUME NEW s \in Starts, Enter(s) PROVE Routed'
  BY <1>0, <1>1 DEF Routed, PTypeOK, Past, Enter, Locked
<1>2. ASSUME NEW s \in Starts, Analyze(s) PROVE Routed'
  BY <1>0, <1>2 DEF Routed, PTypeOK, Past, Analyze
<1>3. ASSUME NEW s \in Starts, Reuse(s) PROVE Routed'
  BY <1>0, <1>3 DEF Routed, PTypeOK, Past, Reuse
<1>4. ASSUME NEW s \in Starts, Launch(s) PROVE Routed'
  BY <1>0, <1>4 DEF Routed, PTypeOK, Past, Launch, Last, Fault
<1>5. ASSUME NEW s \in Starts, Probe(s) PROVE Routed'
  BY <1>0, <1>5 DEF Routed, PTypeOK, Past, Probe
<1>6. ASSUME NEW s \in Starts, Publish(s) PROVE Routed'
  <2>1. pc[s] = "publishing" /\ lock = s
    BY <1>0, <1>6 DEF Publish, LockHeld
  <2>2. \A r \in Starts : r # s => pc[r] \notin Locked
    BY <1>0, <2>1 DEF LockHeld, PTypeOK
  <2>3. \A k \in Takers : job[k].stage = "retire" => job[k].of # s
    BY <1>0, <2>1 DEF Recorded, Ended, Past
  <2>4. CASE route' = s /\ Goto(s, "recording")
    BY <1>0, <1>6, <2>2, <2>3, <2>4 DEF Routed, PTypeOK, Past, Publish
  <2>5. CASE Goto(s, "undoing") /\ UNCHANGED route
    BY <1>0, <1>6, <2>1, <2>5 DEF Routed, PTypeOK, Past, Publish
  <2> QED
    BY <1>6, <2>4, <2>5 DEF Publish
<1>7. ASSUME NEW s \in Starts, Record(s) PROVE Routed'
  <2>1. pc[s] = "recording"
    BY <1>7 DEF Record
  <2>2. CASE Goto(s, "replacing") /\ UNCHANGED route
    BY <1>0, <1>7, <2>1, <2>2 DEF Routed, PTypeOK, Past, Record
  <2>3. CASE Goto(s, "undoing") /\ route' = NoStart
    <3>1. \A k \in Takers : job[k].stage = "retire" => job[k].of # NoStart
      BY <1>0 DEF Recorded, Ended
    <3> QED
      BY <1>0, <1>7, <2>1, <2>3, <3>1 DEF Routed, PTypeOK, Past, Record
  <2> QED
    BY <1>7, <2>2, <2>3 DEF Record
<1>8. ASSUME NEW s \in Starts, RetirePrevious(s) PROVE Routed'
  BY <1>0, <1>8, RetireFacts DEF Routed, PTypeOK, Past, RetirePrevious
<1>9. ASSUME NEW s \in Starts, Return(s) PROVE Routed'
  BY <1>0, <1>9 DEF Routed, PTypeOK, Past, Return
<1>10. ASSUME NEW s \in Starts, Undo(s) PROVE Routed'
  BY <1>0, <1>10, RetireFacts DEF Routed, PTypeOK, Past, Undo, Undone
<1>11. ASSUME NEW o \in Stops, StopEnter(o) PROVE Routed'
  BY <1>0, <1>11 DEF Routed, PTypeOK, Past, StopEnter
<1>12. ASSUME NEW o \in Stops, StopTake(o) PROVE Routed'
  <2>1. instance \in Starts \cup {NoStart} /\ o \in Takers
    BY <1>0 DEF PTypeOK
  <2>2. CASE instance # NoStart
    <3>1. job' = [job EXCEPT ![o] = Job("withdraw", instance)] /\ instance' = NoStart /\ UNCHANGED lock
      BY <1>12, <2>2 DEF StopTake, Take
    <3>2. /\ job'[o].stage = "withdraw" /\ job'[o].of = instance
          /\ \A l \in Takers : l # o => job'[l] = job[l]
      BY <1>0, <2>1, <3>1, JobFacts
    <3> QED
      BY <1>0, <1>12, <2>2, <3>1, <3>2 DEF Routed, Past, StopTake
  <2>3. CASE instance = NoStart
    <3>1. job' = [job EXCEPT ![o] = Job("over", NoStart)] /\ instance' = NoStart /\ lock' = NoCall
      BY <1>12, <2>3 DEF StopTake, Take
    <3>2. /\ job'[o].stage = "over"
          /\ \A l \in Takers : l # o => job'[l] = job[l]
      BY <1>0, <2>1, <3>1, JobFacts
    <3> QED
      BY <1>0, <1>12, <2>3, <3>1, <3>2 DEF Routed, Past, StopTake
  <2> QED
    BY <2>2, <2>3
<1>13. CASE Access
  BY <1>0, <1>13 DEF Routed, PTypeOK, Past, Access
<1>14. CASE GrowIdle
  BY <1>0, <1>14 DEF Routed, PTypeOK, Past, GrowIdle
<1>15. CASE Reap
  BY <1>0, <1>15 DEF Routed, PTypeOK, Past, Reap, Take
<1>16. CASE CloseAll
  BY <1>0, <1>16 DEF Routed, PTypeOK, Past, CloseAll, Take
<1>17. ASSUME NEW s \in Starts, MarkExited(s) PROVE Routed'
  BY <1>0, <1>17 DEF Routed, PTypeOK, Past, MarkExited, Current
<1>18. ASSUME NEW s \in Starts, LoseWatch(s) PROVE Routed'
  BY <1>0, <1>18 DEF Routed, PTypeOK, Past, LoseWatch, Fault
<1>19. ASSUME NEW k \in Takers, WithdrawJob(k) PROVE Routed'
  <2>1. \A l \in Takers : job'[l].stage = "retire" => job'[l].of \in Starts
    BY <1>0, <1>19 DEF Recorded, Ended, PTypeOK, WithdrawJob
  <2>2. route' = NoStart /\ pc' = pc
    BY <1>19 DEF WithdrawJob
  <2> QED
    BY <2>1, <2>2 DEF Routed
<1>20. ASSUME NEW k \in Takers, RetireJob(k) PROVE Routed'
  BY <1>0, <1>20, RetireFacts DEF Routed, PTypeOK, Past, RetireJob
<1>21. ASSUME NEW s \in Starts, NEW i \in 1 .. Services, Exit(s, i) PROVE Routed'
  BY <1>0, <1>21 DEF Routed, PTypeOK, Past, Exit
<1>22. CASE UNCHANGED vars
  BY <1>0, <1>22 DEF Routed, Past, vars
<1> QED
  BY <1>1, <1>2, <1>3, <1>4, <1>5, <1>6, <1>7, <1>8, <1>9, <1>10, <1>11, <1>12, <1>13, <1>14, <1>15, <1>16, <1>17, <1>18, <1>19, <1>20, <1>21, <1>22
  DEF Next, StartStep, StopStep, JobStep

LEMMA LaunchedKept == PInv /\ [Next]_vars => Launched'
<1> USE PreviewAssumption DEF callVars, Goto, Unlock, Withdraw, Job, Free, Over, Locked, Takers
<1> SUFFICES ASSUME PInv, [Next]_vars PROVE Launched'
  OBVIOUS
<1>0. PTypeOK /\ LockHeld /\ Supervised /\ Recorded /\ Routed /\ Launched /\ Counted
      /\ RouteOwned /\ ServedWhileRouted /\ Owned
  BY DEF PInv
<1>1. ASSUME NEW s \in Starts, Enter(s) PROVE Launched'
  BY <1>0, <1>1 DEF Launched, PTypeOK, Up, Enter, Locked
<1>2. ASSUME NEW s \in Starts, Analyze(s) PROVE Launched'
  <2>1. pc[s] = "analyzing" /\ UNCHANGED <<proc, started>>
    BY <1>2 DEF Analyze
  <2>2. started[s] = 0
    BY <1>0, <2>1 DEF Counted
  <2>3. \A r \in Starts : pc'[r] = IF r = s THEN pc'[s] ELSE pc[r]
    BY <1>0, <1>2 DEF PTypeOK, Analyze
  <2>4. pc'[s] \in {"done", "reusing", "launching"}
    BY <1>0, <1>2 DEF PTypeOK, Analyze
  <2> QED
    BY <1>0, <2>1, <2>2, <2>3, <2>4 DEF Launched
<1>3. ASSUME NEW s \in Starts, Reuse(s) PROVE Launched'
  BY <1>0, <1>3 DEF Launched, PTypeOK, Up, Reuse
<1>4. ASSUME NEW s \in Starts, Launch(s) PROVE Launched'
  <2> DEFINE n == started[s] + 1
  <2>1. pc[s] = "launching" /\ n \in 1 .. Services /\ started[s] \in Nat
    BY <1>0, <1>4 DEF PTypeOK, Launched, Launch
  <2>2. \A r \in Starts : r # s => pc'[r] = pc[r] /\ proc'[r] = proc[r] /\ started'[r] = started[r]
    BY <1>0, <1>4 DEF PTypeOK, Launch
  <2>3. CASE pc'[s] = "undoing"
    BY <1>0, <2>2, <2>3 DEF Launched
  <2>4. CASE pc'[s] # "undoing"
    <3>1. proc' = [proc EXCEPT ![s][n] = "running"] /\ started' = [started EXCEPT ![s] = n]
      BY <1>0, <1>4, <2>4 DEF PTypeOK, Launch
    <3>2. /\ started'[s] = n
          /\ \A i \in 1 .. Services : proc'[s][i] = IF i = n THEN "running" ELSE proc[s][i]
      BY <1>0, <2>1, <3>1 DEF PTypeOK
    <3>3. \A i \in 1 .. Services : i <= n => proc'[s][i] \in Up
      BY <1>0, <2>1, <3>2 DEF Launched, Up
    <3>4. (pc'[s] = "probing" /\ n = Services) \/ (pc'[s] = "launching" /\ n # Services)
      <4>1. \/ pc' = [pc EXCEPT ![s] = "probing"] /\ n = Services
            \/ pc' = pc /\ n # Services
        <5>1. ~Goto(s, "undoing")
          BY <1>0, <2>4 DEF PTypeOK
        <5> QED
          BY <1>4, <5>1 DEF Launch, Last
      <4> QED
        BY <1>0, <2>1, <4>1 DEF PTypeOK
    <3> QED
      BY <1>0, <2>1, <2>2, <3>2, <3>3, <3>4 DEF Launched
  <2> QED
    BY <2>3, <2>4
<1>5. ASSUME NEW s \in Starts, Probe(s) PROVE Launched'
  BY <1>0, <1>5 DEF Launched, PTypeOK, Up, Probe
<1>6. ASSUME NEW s \in Starts, Publish(s) PROVE Launched'
  BY <1>0, <1>6 DEF Launched, PTypeOK, Up, Publish, Fault
<1>7. ASSUME NEW s \in Starts, Record(s) PROVE Launched'
  BY <1>0, <1>7 DEF Launched, PTypeOK, Up, Record, Fault
<1>8. ASSUME NEW s \in Starts, RetirePrevious(s) PROVE Launched'
  <2>1. pc[s] = "replacing" /\ Goto(s, "returning") /\ UNCHANGED started
    BY <1>8 DEF RetirePrevious
  <2>2. \A r \in Starts : pc'[r] = IF r = s THEN "returning" ELSE pc[r]
    BY <1>0, <2>1 DEF PTypeOK
  <2>3. CASE held[s] = NoStart
    BY <1>0, <1>8, <2>1, <2>2, <2>3 DEF RetirePrevious, Launched, Past
  <2>4. CASE held[s] # NoStart
    <3>1. held[s] \in Starts /\ pc[held[s]] \in Past /\ Retire(held[s], Services)
      BY <1>0, <1>8, <2>4 DEF RetirePrevious, Recorded, PTypeOK
    <3>2. Services \in 0 .. Services
      OBVIOUS
    <3>3. /\ "reply" \in faults' => "reply" \in faults
          /\ faults \subseteq faults'
          /\ \A r \in Starts : r # held[s] => proc'[r] = proc[r]
          /\ \A i \in 1 .. Services : proc'[held[s]][i] \in {proc[held[s]][i], "retired"}
          /\ "retire" \notin faults' => \A i \in 1 .. Services : proc'[held[s]][i] = "retired"
      BY <1>0, <3>1, <3>2, RetireFacts
    <3> QED
      BY <1>0, <1>8, <2>1, <2>2, <2>4, <3>1, <3>3 DEF RetirePrevious, Launched, Past
  <2> QED
    BY <2>3, <2>4
<1>9. ASSUME NEW s \in Starts, Return(s) PROVE Launched'
  BY <1>0, <1>9 DEF Launched, PTypeOK, Up, Return
<1>10. ASSUME NEW s \in Starts, Undo(s) PROVE Launched'
  BY <1>0, <1>10, RetireFacts DEF Launched, PTypeOK, Up, Undo, Undone
<1>11. ASSUME NEW o \in Stops, StopEnter(o) PROVE Launched'
  BY <1>0, <1>11 DEF Launched, PTypeOK, Up, StopEnter
<1>12. ASSUME NEW o \in Stops, StopTake(o) PROVE Launched'
  BY <1>0, <1>12 DEF Launched, PTypeOK, Up, StopTake, Take
<1>13. CASE Access
  BY <1>0, <1>13 DEF Launched, PTypeOK, Up, Access
<1>14. CASE GrowIdle
  BY <1>0, <1>14 DEF Launched, PTypeOK, Up, GrowIdle
<1>15. CASE Reap
  BY <1>0, <1>15 DEF Launched, PTypeOK, Up, Reap, Take
<1>16. CASE CloseAll
  BY <1>0, <1>16 DEF Launched, PTypeOK, Up, CloseAll, Take
<1>17. ASSUME NEW s \in Starts, MarkExited(s) PROVE Launched'
  BY <1>0, <1>17 DEF Launched, PTypeOK, Up, MarkExited, Current
<1>18. ASSUME NEW s \in Starts, LoseWatch(s) PROVE Launched'
  BY <1>0, <1>18 DEF Launched, PTypeOK, Up, LoseWatch, Fault
<1>19. ASSUME NEW k \in Takers, WithdrawJob(k) PROVE Launched'
  BY <1>0, <1>19 DEF Launched, PTypeOK, Up, WithdrawJob
<1>20. ASSUME NEW k \in Takers, RetireJob(k) PROVE Launched'
  <2>1. job[k].stage = "retire" /\ job[k].of \in Starts /\ Retire(job[k].of, Services)
    BY <1>0, <1>20 DEF RetireJob, Recorded, Ended
  <2>2. Services \in 0 .. Services
    OBVIOUS
  <2>3. pc[job[k].of] \in Past /\ UNCHANGED <<pc, started, instance, held, route>>
    BY <1>0, <1>20, <2>1 DEF RetireJob, Recorded, Ended, callVars
  <2>4. /\ "reply" \in faults' => "reply" \in faults
        /\ faults \subseteq faults'
        /\ \A r \in Starts : r # job[k].of => proc'[r] = proc[r]
        /\ \A i \in 1 .. Services : proc'[job[k].of][i] \in {proc[job[k].of][i], "retired"}
        /\ "retire" \notin faults' => \A i \in 1 .. Services : proc'[job[k].of][i] = "retired"
    BY <1>0, <2>1, <2>2, RetireFacts
  <2> QED
    BY <1>0, <2>1, <2>3, <2>4 DEF Launched, Past
<1>21. ASSUME NEW s \in Starts, NEW i \in 1 .. Services, Exit(s, i) PROVE Launched'
  BY <1>0, <1>21 DEF Launched, PTypeOK, Up, Exit
<1>22. CASE UNCHANGED vars
  BY <1>0, <1>22 DEF Launched, Up, vars
<1> QED
  BY <1>1, <1>2, <1>3, <1>4, <1>5, <1>6, <1>7, <1>8, <1>9, <1>10, <1>11, <1>12, <1>13, <1>14, <1>15, <1>16, <1>17, <1>18, <1>19, <1>20, <1>21, <1>22
  DEF Next, StartStep, StopStep, JobStep

LEMMA CountedKept == PInv /\ [Next]_vars => Counted'
<1> USE PreviewAssumption DEF callVars, Goto, Unlock, Withdraw, Job, Free, Over, Locked, Takers
<1> SUFFICES ASSUME PInv, [Next]_vars PROVE Counted'
  OBVIOUS
<1>0. PTypeOK /\ LockHeld /\ Supervised /\ Recorded /\ Routed /\ Launched /\ Counted
      /\ RouteOwned /\ ServedWhileRouted /\ Owned
  BY DEF PInv
<1>1. ASSUME NEW s \in Starts, Enter(s) PROVE Counted'
  <2>1. \A i \in 1 .. Services : proc[s][i] = "none"
    BY <1>0, <1>1 DEF Launched, Enter
  <2> QED
    BY <1>0, <1>1, <2>1 DEF Counted, PTypeOK, Past, Enter
<1>2. ASSUME NEW s \in Starts, Analyze(s) PROVE Counted'
  BY <1>0, <1>2 DEF Counted, PTypeOK, Past, Analyze
<1>3. ASSUME NEW s \in Starts, Reuse(s) PROVE Counted'
  BY <1>0, <1>3 DEF Counted, PTypeOK, Past, Reuse
<1>4. ASSUME NEW s \in Starts, Launch(s) PROVE Counted'
  BY <1>0, <1>4 DEF Counted, PTypeOK, Past, Launch, Last, Fault
<1>5. ASSUME NEW s \in Starts, Probe(s) PROVE Counted'
  BY <1>0, <1>5 DEF Counted, PTypeOK, Past, Probe
<1>6. ASSUME NEW s \in Starts, Publish(s) PROVE Counted'
  BY <1>0, <1>6 DEF Counted, PTypeOK, Past, Publish, Fault
<1>7. ASSUME NEW s \in Starts, Record(s) PROVE Counted'
  BY <1>0, <1>7 DEF Counted, PTypeOK, Past, Record, Fault
<1>8. ASSUME NEW s \in Starts, RetirePrevious(s) PROVE Counted'
  <2>1. pc[s] = "replacing" /\ Goto(s, "returning") /\ UNCHANGED started
    BY <1>8 DEF RetirePrevious
  <2>2. \A r \in Starts : pc'[r] = IF r = s THEN "returning" ELSE pc[r]
    BY <1>0, <2>1 DEF PTypeOK
  <2>3. CASE held[s] = NoStart
    BY <1>0, <1>8, <2>1, <2>2, <2>3 DEF RetirePrevious, Counted, Past
  <2>4. CASE held[s] # NoStart
    <3>1. held[s] \in Starts /\ pc[held[s]] \in Past /\ Retire(held[s], Services)
      BY <1>0, <1>8, <2>4 DEF RetirePrevious, Recorded, PTypeOK
    <3>2. Services \in 0 .. Services
      OBVIOUS
    <3>3. /\ "reply" \in faults' => "reply" \in faults
          /\ faults \subseteq faults'
          /\ \A r \in Starts : r # held[s] => proc'[r] = proc[r]
          /\ \A i \in 1 .. Services : proc'[held[s]][i] \in {proc[held[s]][i], "retired"}
          /\ "retire" \notin faults' => \A i \in 1 .. Services : proc'[held[s]][i] = "retired"
      BY <1>0, <3>1, <3>2, RetireFacts
    <3> QED
      BY <1>0, <1>8, <2>1, <2>2, <2>4, <3>1, <3>3 DEF RetirePrevious, Counted, Past
  <2> QED
    BY <2>3, <2>4
<1>9. ASSUME NEW s \in Starts, Return(s) PROVE Counted'
  BY <1>0, <1>9 DEF Counted, PTypeOK, Past, Return
<1>10. ASSUME NEW s \in Starts, Undo(s) PROVE Counted'
  BY <1>0, <1>10, RetireFacts DEF Counted, PTypeOK, Past, Undo, Undone
<1>11. ASSUME NEW o \in Stops, StopEnter(o) PROVE Counted'
  BY <1>0, <1>11 DEF Counted, PTypeOK, Past, StopEnter
<1>12. ASSUME NEW o \in Stops, StopTake(o) PROVE Counted'
  BY <1>0, <1>12 DEF Counted, PTypeOK, Past, StopTake, Take
<1>13. CASE Access
  BY <1>0, <1>13 DEF Counted, PTypeOK, Past, Access
<1>14. CASE GrowIdle
  BY <1>0, <1>14 DEF Counted, PTypeOK, Past, GrowIdle
<1>15. CASE Reap
  BY <1>0, <1>15 DEF Counted, PTypeOK, Past, Reap, Take
<1>16. CASE CloseAll
  BY <1>0, <1>16 DEF Counted, PTypeOK, Past, CloseAll, Take
<1>17. ASSUME NEW s \in Starts, MarkExited(s) PROVE Counted'
  BY <1>0, <1>17 DEF Counted, PTypeOK, Past, MarkExited, Current
<1>18. ASSUME NEW s \in Starts, LoseWatch(s) PROVE Counted'
  BY <1>0, <1>18 DEF Counted, PTypeOK, Past, LoseWatch, Fault
<1>19. ASSUME NEW k \in Takers, WithdrawJob(k) PROVE Counted'
  BY <1>0, <1>19 DEF Counted, PTypeOK, Past, WithdrawJob
<1>20. ASSUME NEW k \in Takers, RetireJob(k) PROVE Counted'
  <2>1. job[k].stage = "retire" /\ job[k].of \in Starts /\ Retire(job[k].of, Services)
    BY <1>0, <1>20 DEF RetireJob, Recorded, Ended
  <2>2. Services \in 0 .. Services
    OBVIOUS
  <2>3. pc[job[k].of] \in Past /\ UNCHANGED <<pc, started, instance, held, route>>
    BY <1>0, <1>20, <2>1 DEF RetireJob, Recorded, Ended, callVars
  <2>4. /\ "reply" \in faults' => "reply" \in faults
        /\ faults \subseteq faults'
        /\ \A r \in Starts : r # job[k].of => proc'[r] = proc[r]
        /\ \A i \in 1 .. Services : proc'[job[k].of][i] \in {proc[job[k].of][i], "retired"}
        /\ "retire" \notin faults' => \A i \in 1 .. Services : proc'[job[k].of][i] = "retired"
    BY <1>0, <2>1, <2>2, RetireFacts
  <2> QED
    BY <1>0, <2>1, <2>3, <2>4 DEF Counted, Past
<1>21. ASSUME NEW s \in Starts, NEW i \in 1 .. Services, Exit(s, i) PROVE Counted'
  BY <1>0, <1>21 DEF Counted, PTypeOK, Past, Exit
<1>22. CASE UNCHANGED vars
  BY <1>0, <1>22 DEF Counted, Past, vars
<1> QED
  BY <1>1, <1>2, <1>3, <1>4, <1>5, <1>6, <1>7, <1>8, <1>9, <1>10, <1>11, <1>12, <1>13, <1>14, <1>15, <1>16, <1>17, <1>18, <1>19, <1>20, <1>21, <1>22
  DEF Next, StartStep, StopStep, JobStep

LEMMA RouteOwnedKept == PInv /\ [Next]_vars => RouteOwned'
<1> USE PreviewAssumption DEF callVars, Goto, Unlock, Withdraw, Job, Free, Over, Locked, Takers
<1> SUFFICES ASSUME PInv, [Next]_vars PROVE RouteOwned'
  OBVIOUS
<1>0. PTypeOK /\ LockHeld /\ Supervised /\ Recorded /\ Routed /\ Launched /\ Counted
      /\ RouteOwned /\ ServedWhileRouted /\ Owned
  BY DEF PInv
<1>1. ASSUME NEW s \in Starts, Enter(s) PROVE RouteOwned'
  BY <1>0, <1>1 DEF RouteOwned, PTypeOK, Enter, Locked
<1>2. ASSUME NEW s \in Starts, Analyze(s) PROVE RouteOwned'
  BY <1>0, <1>2 DEF RouteOwned, PTypeOK, Analyze
<1>3. ASSUME NEW s \in Starts, Reuse(s) PROVE RouteOwned'
  BY <1>0, <1>3 DEF RouteOwned, PTypeOK, Reuse
<1>4. ASSUME NEW s \in Starts, Launch(s) PROVE RouteOwned'
  BY <1>0, <1>4 DEF RouteOwned, PTypeOK, Launch, Last, Fault
<1>5. ASSUME NEW s \in Starts, Probe(s) PROVE RouteOwned'
  BY <1>0, <1>5 DEF RouteOwned, PTypeOK, Probe
<1>6. ASSUME NEW s \in Starts, Publish(s) PROVE RouteOwned'
  BY <1>0, <1>6 DEF RouteOwned, PTypeOK, Publish, Fault
<1>7. ASSUME NEW s \in Starts, Record(s) PROVE RouteOwned'
  <2>1. route \in {s, NoStart} /\ pc[s] = "recording"
    BY <1>0, <1>7 DEF Record, Routed
  <2>2. CASE instance' = s /\ status' = "ready" /\ route' = route
    BY <2>1, <2>2 DEF RouteOwned
  <2>3. CASE route' = NoStart
    BY <2>3 DEF RouteOwned
  <2> QED
    BY <1>7, <2>2, <2>3 DEF Record
<1>8. ASSUME NEW s \in Starts, RetirePrevious(s) PROVE RouteOwned'
  BY <1>0, <1>8, RetireFacts DEF RouteOwned, PTypeOK, RetirePrevious
<1>9. ASSUME NEW s \in Starts, Return(s) PROVE RouteOwned'
  BY <1>0, <1>9 DEF RouteOwned, PTypeOK, Return
<1>10. ASSUME NEW s \in Starts, Undo(s) PROVE RouteOwned'
  BY <1>0, <1>10, RetireFacts DEF RouteOwned, PTypeOK, Undo, Undone
<1>11. ASSUME NEW o \in Stops, StopEnter(o) PROVE RouteOwned'
  BY <1>0, <1>11 DEF RouteOwned, PTypeOK, StopEnter
<1>12. ASSUME NEW o \in Stops, StopTake(o) PROVE RouteOwned'
  BY <1>0, <1>12 DEF RouteOwned, PTypeOK, StopTake, Take
<1>13. CASE Access
  BY <1>0, <1>13 DEF RouteOwned, PTypeOK, Access
<1>14. CASE GrowIdle
  BY <1>0, <1>14 DEF RouteOwned, PTypeOK, GrowIdle
<1>15. CASE Reap
  BY <1>0, <1>15 DEF RouteOwned, PTypeOK, Reap, Take
<1>16. CASE CloseAll
  BY <1>0, <1>16 DEF RouteOwned, PTypeOK, CloseAll, Take
<1>17. ASSUME NEW s \in Starts, MarkExited(s) PROVE RouteOwned'
  <2>1. s \in Takers /\ instance \in Starts \cup {NoStart}
    BY <1>0 DEF PTypeOK
  <2>2. CASE instance # s
    BY <1>0, <1>17, <2>2 DEF MarkExited, Current, RouteOwned, Supervised, PTypeOK
  <2>3. CASE instance = s
    <3>1. job' = [job EXCEPT ![s] = Job("withdraw", s)]
      BY <1>17, <2>3 DEF MarkExited, Current
    <3>2. /\ job'[s].stage = "withdraw" /\ job'[s].of = s /\ job'[s] = Job("withdraw", s)
          /\ \A l \in Takers : l # s => job'[l] = job[l]
      BY <1>0, <2>1, <3>1, JobFacts
    <3> QED
      BY <1>0, <1>17, <2>3, <3>2 DEF MarkExited, RouteOwned, Supervised, PTypeOK
  <2> QED
    BY <2>2, <2>3
<1>18. ASSUME NEW s \in Starts, LoseWatch(s) PROVE RouteOwned'
  BY <1>0, <1>18 DEF RouteOwned, PTypeOK, LoseWatch, Fault
<1>19. ASSUME NEW k \in Takers, WithdrawJob(k) PROVE RouteOwned'
  BY <1>0, <1>19 DEF RouteOwned, PTypeOK, WithdrawJob
<1>20. ASSUME NEW k \in Takers, RetireJob(k) PROVE RouteOwned'
  BY <1>0, <1>20, RetireFacts DEF RouteOwned, PTypeOK, RetireJob
<1>21. ASSUME NEW s \in Starts, NEW i \in 1 .. Services, Exit(s, i) PROVE RouteOwned'
  BY <1>0, <1>21 DEF RouteOwned, PTypeOK, Exit
<1>22. CASE UNCHANGED vars
  BY <1>0, <1>22 DEF RouteOwned, vars
<1> QED
  BY <1>1, <1>2, <1>3, <1>4, <1>5, <1>6, <1>7, <1>8, <1>9, <1>10, <1>11, <1>12, <1>13, <1>14, <1>15, <1>16, <1>17, <1>18, <1>19, <1>20, <1>21, <1>22
  DEF Next, StartStep, StopStep, JobStep

LEMMA ServedWhileRoutedKept == PInv /\ [Next]_vars => ServedWhileRouted'
<1> USE PreviewAssumption DEF callVars, Goto, Unlock, Withdraw, Job, Free, Over, Locked, Takers
<1> SUFFICES ASSUME PInv, [Next]_vars PROVE ServedWhileRouted'
  OBVIOUS
<1>0. PTypeOK /\ LockHeld /\ Supervised /\ Recorded /\ Routed /\ Launched /\ Counted
      /\ RouteOwned /\ ServedWhileRouted /\ Owned
  BY DEF PInv
<1>1. ASSUME NEW s \in Starts, Enter(s) PROVE ServedWhileRouted'
  BY <1>0, <1>1 DEF ServedWhileRouted, PTypeOK, Up, Past, Enter, Locked
<1>2. ASSUME NEW s \in Starts, Analyze(s) PROVE ServedWhileRouted'
  BY <1>0, <1>2 DEF ServedWhileRouted, PTypeOK, Up, Past, Analyze
<1>3. ASSUME NEW s \in Starts, Reuse(s) PROVE ServedWhileRouted'
  BY <1>0, <1>3 DEF ServedWhileRouted, PTypeOK, Up, Past, Reuse
<1>4. ASSUME NEW s \in Starts, Launch(s) PROVE ServedWhileRouted'
  <2>1. pc[s] = "launching" /\ route' = route
    BY <1>4 DEF Launch
  <2>2. route # s /\ route \in Starts \cup {NoStart}
    BY <1>0, <2>1 DEF Routed, Past, PTypeOK
  <2>3. \A r \in Starts : r # s => proc'[r] = proc[r]
    BY <1>0, <1>4 DEF PTypeOK, Launch
  <2> QED
    BY <1>0, <2>1, <2>2, <2>3 DEF ServedWhileRouted
<1>5. ASSUME NEW s \in Starts, Probe(s) PROVE ServedWhileRouted'
  BY <1>0, <1>5 DEF ServedWhileRouted, PTypeOK, Up, Past, Probe
<1>6. ASSUME NEW s \in Starts, Publish(s) PROVE ServedWhileRouted'
  <2>1. \A i \in 1 .. Services : proc[s][i] \in Up
    BY <1>0, <1>6 DEF Launched, Publish
  <2> QED
    BY <1>0, <1>6, <2>1 DEF ServedWhileRouted, Up, Publish
<1>7. ASSUME NEW s \in Starts, Record(s) PROVE ServedWhileRouted'
  BY <1>0, <1>7 DEF ServedWhileRouted, PTypeOK, Up, Past, Record, Fault
<1>8. ASSUME NEW s \in Starts, RetirePrevious(s) PROVE ServedWhileRouted'
  <2>1. route \in {s, NoStart} /\ route' = route
    BY <1>0, <1>8 DEF RetirePrevious, Routed
  <2>2. CASE held[s] = NoStart
    BY <1>0, <1>8, <2>1, <2>2 DEF RetirePrevious, ServedWhileRouted
  <2>3. CASE held[s] # NoStart
    <3>1. held[s] \in Starts /\ held[s] # s /\ Retire(held[s], Services)
      BY <1>0, <1>8, <2>3 DEF RetirePrevious, Recorded, PTypeOK
    <3>2. Services \in 0 .. Services
      OBVIOUS
    <3>3. \A r \in Starts : r # held[s] => proc'[r] = proc[r]
      BY <1>0, <3>1, <3>2, RetireFacts
    <3> QED
      BY <1>0, <2>1, <3>1, <3>3 DEF ServedWhileRouted
  <2> QED
    BY <2>2, <2>3
<1>9. ASSUME NEW s \in Starts, Return(s) PROVE ServedWhileRouted'
  BY <1>0, <1>9 DEF ServedWhileRouted, PTypeOK, Up, Past, Return
<1>10. ASSUME NEW s \in Starts, Undo(s) PROVE ServedWhileRouted'
  <2>1. pc[s] = "undoing" /\ route' = route /\ Retire(s, started[s]) /\ started[s] \in 0 .. Services
    BY <1>0, <1>10 DEF Undo, Undone, PTypeOK
  <2>2. route # s /\ route \in Starts \cup {NoStart}
    BY <1>0, <2>1 DEF Routed, Past, PTypeOK
  <2>3. \A r \in Starts : r # s => proc'[r] = proc[r]
    BY <1>0, <2>1, RetireFacts
  <2> QED
    BY <1>0, <2>1, <2>2, <2>3 DEF ServedWhileRouted
<1>11. ASSUME NEW o \in Stops, StopEnter(o) PROVE ServedWhileRouted'
  BY <1>0, <1>11 DEF ServedWhileRouted, PTypeOK, Up, Past, StopEnter
<1>12. ASSUME NEW o \in Stops, StopTake(o) PROVE ServedWhileRouted'
  BY <1>0, <1>12 DEF ServedWhileRouted, PTypeOK, Up, Past, StopTake, Take
<1>13. CASE Access
  BY <1>0, <1>13 DEF ServedWhileRouted, PTypeOK, Up, Past, Access
<1>14. CASE GrowIdle
  BY <1>0, <1>14 DEF ServedWhileRouted, PTypeOK, Up, Past, GrowIdle
<1>15. CASE Reap
  BY <1>0, <1>15 DEF ServedWhileRouted, PTypeOK, Up, Past, Reap, Take
<1>16. CASE CloseAll
  BY <1>0, <1>16 DEF ServedWhileRouted, PTypeOK, Up, Past, CloseAll, Take
<1>17. ASSUME NEW s \in Starts, MarkExited(s) PROVE ServedWhileRouted'
  BY <1>0, <1>17 DEF ServedWhileRouted, PTypeOK, Up, Past, MarkExited, Current
<1>18. ASSUME NEW s \in Starts, LoseWatch(s) PROVE ServedWhileRouted'
  BY <1>0, <1>18 DEF ServedWhileRouted, PTypeOK, Up, Past, LoseWatch, Fault
<1>19. ASSUME NEW k \in Takers, WithdrawJob(k) PROVE ServedWhileRouted'
  BY <1>0, <1>19 DEF ServedWhileRouted, PTypeOK, Up, Past, WithdrawJob
<1>20. ASSUME NEW k \in Takers, RetireJob(k) PROVE ServedWhileRouted'
  <2>1. job[k].stage = "retire" /\ job[k].of \in Starts /\ Retire(job[k].of, Services)
    BY <1>0, <1>20 DEF RetireJob, Recorded, Ended
  <2>2. Services \in 0 .. Services
    OBVIOUS
  <2>3. pc[job[k].of] \in Past /\ UNCHANGED <<pc, started, instance, held, route>>
    BY <1>0, <1>20, <2>1 DEF RetireJob, Recorded, Ended, callVars
  <2>4. /\ "reply" \in faults' => "reply" \in faults
        /\ faults \subseteq faults'
        /\ \A r \in Starts : r # job[k].of => proc'[r] = proc[r]
        /\ \A i \in 1 .. Services : proc'[job[k].of][i] \in {proc[job[k].of][i], "retired"}
        /\ "retire" \notin faults' => \A i \in 1 .. Services : proc'[job[k].of][i] = "retired"
    BY <1>0, <2>1, <2>2, RetireFacts
  <2>5. route # job[k].of /\ route \in Starts \cup {NoStart}
    BY <1>0, <2>1 DEF Routed, PTypeOK
  <2> QED
    BY <1>0, <2>3, <2>4, <2>5 DEF ServedWhileRouted
<1>21. ASSUME NEW s \in Starts, NEW i \in 1 .. Services, Exit(s, i) PROVE ServedWhileRouted'
  BY <1>0, <1>21 DEF ServedWhileRouted, PTypeOK, Up, Past, Exit
<1>22. CASE UNCHANGED vars
  BY <1>0, <1>22 DEF ServedWhileRouted, Up, Past, vars
<1> QED
  BY <1>1, <1>2, <1>3, <1>4, <1>5, <1>6, <1>7, <1>8, <1>9, <1>10, <1>11, <1>12, <1>13, <1>14, <1>15, <1>16, <1>17, <1>18, <1>19, <1>20, <1>21, <1>22
  DEF Next, StartStep, StopStep, JobStep

LEMMA OwnedKept == PInv /\ [Next]_vars => Owned'
<1> USE PreviewAssumption DEF callVars, Goto, Unlock, Withdraw, Job, Free, Over, Locked, Takers
<1> SUFFICES ASSUME PInv, [Next]_vars PROVE Owned'
  OBVIOUS
<1>0. PTypeOK /\ LockHeld /\ Supervised /\ Recorded /\ Routed /\ Launched /\ Counted
      /\ RouteOwned /\ ServedWhileRouted /\ Owned
  BY DEF PInv
<1>1. ASSUME NEW s \in Starts, Enter(s) PROVE Owned'
  <2> SUFFICES ASSUME NEW r \in Starts, NEW n \in 1 .. Services, proc'[r][n] = "running", Clean'
               PROVE  OwnedBy(r)'
    BY DEF Owned
  <2>1. /\ \A q \in Starts : q # s => pc'[q] = pc[q] /\ proc'[q] = proc[q]
        /\ Clean /\ UNCHANGED <<instance, job, held>>
    BY <1>0, <1>1 DEF PTypeOK, Clean, Enter, callVars
  <2>2. CASE r = s
    <3>1. pc'[s] \in {"analyzing"}
      BY <1>0, <1>1 DEF PTypeOK, Enter
    <3> QED
      BY <2>2, <3>1 DEF OwnedBy, Past
  <2>3. CASE r # s
    <3>1. OwnedBy(r) /\ pc'[r] = pc[r] /\ pc[s] # "replacing"
      BY <1>0, <1>1, <2>1, <2>3 DEF Owned, Enter
    <3> QED
      BY <2>1, <3>1 DEF OwnedBy
  <2> QED
    BY <2>2, <2>3
<1>2. ASSUME NEW s \in Starts, Analyze(s) PROVE Owned'
  <2> SUFFICES ASSUME NEW r \in Starts, NEW n \in 1 .. Services, proc'[r][n] = "running", Clean'
               PROVE  OwnedBy(r)'
    BY DEF Owned
  <2>1. /\ \A q \in Starts : q # s => pc'[q] = pc[q] /\ proc'[q] = proc[q]
        /\ Clean /\ UNCHANGED <<instance, job, held>>
    BY <1>0, <1>2 DEF PTypeOK, Clean, Analyze, callVars
  <2>2. CASE r = s
    <3>1. proc'[s][n] = "none"
      BY <1>0, <1>2 DEF Launched, Analyze
    <3> QED
      BY <2>2, <3>1
  <2>3. CASE r # s
    <3>1. OwnedBy(r) /\ pc'[r] = pc[r] /\ pc[s] # "replacing"
      BY <1>0, <1>2, <2>1, <2>3 DEF Owned, Analyze
    <3> QED
      BY <2>1, <3>1 DEF OwnedBy
  <2> QED
    BY <2>2, <2>3
<1>3. ASSUME NEW s \in Starts, Reuse(s) PROVE Owned'
  <2> SUFFICES ASSUME NEW r \in Starts, NEW n \in 1 .. Services, proc'[r][n] = "running", Clean'
               PROVE  OwnedBy(r)'
    BY DEF Owned
  <2>1. /\ \A q \in Starts : q # s => pc'[q] = pc[q] /\ proc'[q] = proc[q]
        /\ Clean /\ UNCHANGED <<instance, job, held>>
    BY <1>0, <1>3 DEF PTypeOK, Clean, Reuse, callVars
  <2>2. CASE r = s
    <3>1. proc'[s][n] = "none"
      BY <1>0, <1>3 DEF Launched, Reuse
    <3> QED
      BY <2>2, <3>1
  <2>3. CASE r # s
    <3>1. OwnedBy(r) /\ pc'[r] = pc[r] /\ pc[s] # "replacing"
      BY <1>0, <1>3, <2>1, <2>3 DEF Owned, Reuse
    <3> QED
      BY <2>1, <3>1 DEF OwnedBy
  <2> QED
    BY <2>2, <2>3
<1>4. ASSUME NEW s \in Starts, Launch(s) PROVE Owned'
  <2> SUFFICES ASSUME NEW r \in Starts, NEW n \in 1 .. Services, proc'[r][n] = "running", Clean'
               PROVE  OwnedBy(r)'
    BY DEF Owned
  <2>1. /\ \A q \in Starts : q # s => pc'[q] = pc[q] /\ proc'[q] = proc[q]
        /\ Clean /\ UNCHANGED <<instance, job, held>>
    BY <1>0, <1>4 DEF PTypeOK, Clean, Launch, callVars, Last, Fault
  <2>2. CASE r = s
    <3>1. pc'[s] \in {"launching", "probing", "undoing"}
      BY <1>0, <1>4 DEF PTypeOK, Launch, Last
    <3> QED
      BY <2>2, <3>1 DEF OwnedBy, Past
  <2>3. CASE r # s
    <3>1. OwnedBy(r) /\ pc'[r] = pc[r] /\ pc[s] # "replacing"
      BY <1>0, <1>4, <2>1, <2>3 DEF Owned, Launch
    <3> QED
      BY <2>1, <3>1 DEF OwnedBy
  <2> QED
    BY <2>2, <2>3
<1>5. ASSUME NEW s \in Starts, Probe(s) PROVE Owned'
  <2> SUFFICES ASSUME NEW r \in Starts, NEW n \in 1 .. Services, proc'[r][n] = "running", Clean'
               PROVE  OwnedBy(r)'
    BY DEF Owned
  <2>1. /\ \A q \in Starts : q # s => pc'[q] = pc[q] /\ proc'[q] = proc[q]
        /\ Clean /\ UNCHANGED <<instance, job, held>>
    BY <1>0, <1>5 DEF PTypeOK, Clean, Probe, callVars
  <2>2. CASE r = s
    <3>1. pc'[s] \in {"publishing", "undoing"}
      BY <1>0, <1>5 DEF PTypeOK, Probe
    <3> QED
      BY <2>2, <3>1 DEF OwnedBy, Past
  <2>3. CASE r # s
    <3>1. OwnedBy(r) /\ pc'[r] = pc[r] /\ pc[s] # "replacing"
      BY <1>0, <1>5, <2>1, <2>3 DEF Owned, Probe
    <3> QED
      BY <2>1, <3>1 DEF OwnedBy
  <2> QED
    BY <2>2, <2>3
<1>6. ASSUME NEW s \in Starts, Publish(s) PROVE Owned'
  <2> SUFFICES ASSUME NEW r \in Starts, NEW n \in 1 .. Services, proc'[r][n] = "running", Clean'
               PROVE  OwnedBy(r)'
    BY DEF Owned
  <2>1. /\ \A q \in Starts : q # s => pc'[q] = pc[q] /\ proc'[q] = proc[q]
        /\ Clean /\ UNCHANGED <<instance, job, held>>
    BY <1>0, <1>6 DEF PTypeOK, Clean, Publish, callVars, Fault
  <2>2. CASE r = s
    <3>1. pc'[s] \in {"recording", "undoing"}
      BY <1>0, <1>6 DEF PTypeOK, Publish
    <3> QED
      BY <2>2, <3>1 DEF OwnedBy, Past
  <2>3. CASE r # s
    <3>1. OwnedBy(r) /\ pc'[r] = pc[r] /\ pc[s] # "replacing"
      BY <1>0, <1>6, <2>1, <2>3 DEF Owned, Publish
    <3> QED
      BY <2>1, <3>1 DEF OwnedBy
  <2> QED
    BY <2>2, <2>3
<1>7. ASSUME NEW s \in Starts, Record(s) PROVE Owned'
  <2> SUFFICES ASSUME NEW r \in Starts, NEW n \in 1 .. Services, proc'[r][n] = "running", Clean'
               PROVE  OwnedBy(r)'
    BY DEF Owned
  <2>1. /\ pc[s] = "recording" /\ \A q \in Starts : q # s => pc'[q] = pc[q] /\ held'[q] = held[q]
        /\ Clean /\ proc' = proc /\ job' = job
    BY <1>0, <1>7 DEF PTypeOK, Clean, Record, Fault
  <2>2. OwnedBy(r)
    BY <1>0, <2>1 DEF Owned
  <2>3. CASE instance' = s /\ pc'[s] = "replacing" /\ held'[s] = instance
    BY <2>1, <2>2, <2>3 DEF OwnedBy
  <2>4. CASE instance' = instance /\ pc'[s] = "undoing" /\ held' = held
    BY <2>1, <2>2, <2>4 DEF OwnedBy, Past
  <2> QED
    BY <1>0, <1>7, <2>3, <2>4 DEF PTypeOK, Record
<1>8. ASSUME NEW s \in Starts, RetirePrevious(s) PROVE Owned'
  <2> SUFFICES ASSUME NEW r \in Starts, NEW n \in 1 .. Services, proc'[r][n] = "running", Clean'
               PROVE  OwnedBy(r)'
    BY DEF Owned
  <2>1. /\ pc[s] = "replacing" /\ \A q \in Starts : pc'[q] = IF q = s THEN "returning" ELSE pc[q]
        /\ UNCHANGED <<instance, job, held>>
    BY <1>0, <1>8 DEF PTypeOK, RetirePrevious
  <2>2. Clean /\ proc[r][n] = "running" /\ r # held[s]
    <3>1. CASE held[s] = NoStart
      BY <1>0, <1>8, <3>1 DEF RetirePrevious, Clean
    <3>2. CASE held[s] # NoStart
      <4>1. held[s] \in Starts /\ Retire(held[s], Services) /\ Services \in 0 .. Services
        BY <1>0, <1>8, <3>2 DEF RetirePrevious, PTypeOK
      <4>2. /\ faults \subseteq faults' /\ \A q \in Starts : q # held[s] => proc'[q] = proc[q]
            /\ "retire" \notin faults' => \A i \in 1 .. Services : proc'[held[s]][i] = "retired"
        BY <1>0, <4>1, RetireFacts
      <4>3. Clean /\ r # held[s]
        BY <4>2 DEF Clean
      <4> QED
        BY <4>2, <4>3
    <3> QED
      BY <3>1, <3>2
  <2>3. OwnedBy(r)
    BY <1>0, <2>2 DEF Owned
  <2> QED
    BY <2>1, <2>2, <2>3 DEF OwnedBy, Past
<1>9. ASSUME NEW s \in Starts, Return(s) PROVE Owned'
  <2> SUFFICES ASSUME NEW r \in Starts, NEW n \in 1 .. Services, proc'[r][n] = "running", Clean'
               PROVE  OwnedBy(r)'
    BY DEF Owned
  <2>1. /\ \A q \in Starts : q # s => pc'[q] = pc[q] /\ proc'[q] = proc[q]
        /\ Clean /\ UNCHANGED <<instance, job, held>>
    BY <1>0, <1>9 DEF PTypeOK, Clean, Return, callVars
  <2>2. CASE r = s
    <3>1. OwnedBy(s) /\ pc[s] = "returning"
      BY <1>0, <1>9, <2>1, <2>2 DEF Owned, Return
    <3> QED
      BY <2>1, <2>2, <3>1 DEF OwnedBy, Past
  <2>3. CASE r # s
    <3>1. OwnedBy(r) /\ pc'[r] = pc[r] /\ pc[s] # "replacing"
      BY <1>0, <1>9, <2>1, <2>3 DEF Owned, Return
    <3> QED
      BY <2>1, <3>1 DEF OwnedBy
  <2> QED
    BY <2>2, <2>3
<1>10. ASSUME NEW s \in Starts, Undo(s) PROVE Owned'
  <2> SUFFICES ASSUME NEW r \in Starts, NEW n \in 1 .. Services, proc'[r][n] = "running", Clean'
               PROVE  OwnedBy(r)'
    BY DEF Owned
  <2>1. /\ pc[s] = "undoing" /\ \A q \in Starts : q # s => pc'[q] = pc[q]
        /\ UNCHANGED <<instance, job, held>> /\ Retire(s, started[s]) /\ started[s] \in 0 .. Services
    BY <1>0, <1>10 DEF PTypeOK, Undo, Undone
  <2>2. /\ faults \subseteq faults' /\ \A q \in Starts : q # s => proc'[q] = proc[q]
        /\ \A i \in 1 .. Services : proc'[s][i] \in {proc[s][i], "retired"}
        /\ "retire" \notin faults' => \A i \in 1 .. started[s] : proc'[s][i] = "retired"
    BY <1>0, <2>1, RetireFacts
  <2>3. Clean /\ "reply" \notin faults /\ "retire" \notin faults'
    BY <2>2 DEF Clean
  <2>4. r # s
    <3>1. SUFFICES ASSUME r = s PROVE FALSE
      OBVIOUS
    <3>2. proc[s][n] # "none"
      BY <2>2, <3>1
    <3>3. n <= started[s] /\ started[s] \in Nat
      BY <1>0, <2>1, <2>3, <3>2 DEF Counted, Past
    <3> QED
      BY <2>2, <2>3, <3>1, <3>3
  <2>5. OwnedBy(r)
    BY <1>0, <2>2, <2>3, <2>4 DEF Owned
  <2> QED
    BY <2>1, <2>4, <2>5 DEF OwnedBy
<1>11. ASSUME NEW o \in Stops, StopEnter(o) PROVE Owned'
  <2> SUFFICES ASSUME NEW r \in Starts, NEW n \in 1 .. Services, proc'[r][n] = "running", Clean'
               PROVE  OwnedBy(r)'
    BY DEF Owned
  <2>1. Clean /\ proc' = proc /\ UNCHANGED <<pc, held>>
    BY <1>11 DEF Clean, callVars, StopEnter
  <2>2. OwnedBy(r)
    BY <1>0, <2>1 DEF Owned
  <2>3. instance' = instance /\ \A k \in Takers : job[k].stage \in Ended => job'[k] = job[k]
    BY <1>0, <1>11 DEF PTypeOK, StopEnter, Ended
  <2> QED
    BY <2>1, <2>2, <2>3 DEF OwnedBy
<1>12. ASSUME NEW o \in Stops, StopTake(o) PROVE Owned'
  <2> SUFFICES ASSUME NEW r \in Starts, NEW n \in 1 .. Services, proc'[r][n] = "running", Clean'
               PROVE  OwnedBy(r)'
    BY DEF Owned
  <2>1. Clean /\ proc' = proc /\ UNCHANGED <<pc, held>>
    BY <1>12 DEF Clean, callVars, StopTake
  <2>2. OwnedBy(r)
    BY <1>0, <2>1 DEF Owned
  <2>3. o \in Takers /\ instance \in Starts \cup {NoStart} /\ job[o].stage \notin Ended
    BY <1>0, <1>12 DEF PTypeOK, StopTake, Ended
  <2>4. CASE instance # NoStart
    <3>1. job' = [job EXCEPT ![o] = Job("withdraw", instance)]
      BY <1>12, <2>4 DEF StopTake, Take
    <3>2. job'[o].stage \in Ended /\ job'[o].of = instance /\ \A k \in Takers : k # o => job'[k] = job[k]
      BY <1>0, <2>3, <3>1, JobFacts DEF Ended
    <3> QED
      BY <2>1, <2>2, <2>3, <3>2 DEF OwnedBy
  <2>5. CASE instance = NoStart
    <3>1. job' = [job EXCEPT ![o] = Job("over", NoStart)]
      BY <1>12, <2>5 DEF StopTake
    <3>2. \A k \in Takers : k # o => job'[k] = job[k]
      BY <1>0, <2>3, <3>1, JobFacts
    <3> QED
      BY <2>1, <2>2, <2>3, <2>5, <3>2 DEF OwnedBy
  <2> QED
    BY <2>4, <2>5
<1>13. CASE Access
  BY <1>0, <1>13 DEF Owned, OwnedBy, Clean, Access, callVars
<1>14. CASE GrowIdle
  BY <1>0, <1>14 DEF Owned, OwnedBy, Clean, GrowIdle, callVars
<1>15. CASE Reap
  <2> SUFFICES ASSUME NEW r \in Starts, NEW n \in 1 .. Services, proc'[r][n] = "running", Clean'
               PROVE  OwnedBy(r)'
    BY DEF Owned
  <2>1. Clean /\ proc' = proc /\ UNCHANGED <<pc, held>>
    BY <1>15 DEF Clean, callVars, Reap
  <2>2. OwnedBy(r)
    BY <1>0, <2>1 DEF Owned
  <2>3. Reaper \in Takers /\ instance \in Starts \cup {NoStart} /\ job[Reaper].stage \notin Ended
    BY <1>0, <1>15 DEF PTypeOK, Reap, Ended
  <2>4. CASE TRUE
    <3>1. job' = [job EXCEPT ![Reaper] = Job("withdraw", instance)]
      BY <1>15, <2>4 DEF Reap, Take
    <3>2. job'[Reaper].stage \in Ended /\ job'[Reaper].of = instance /\ \A k \in Takers : k # Reaper => job'[k] = job[k]
      BY <1>0, <2>3, <3>1, JobFacts DEF Ended
    <3> QED
      BY <2>1, <2>2, <2>3, <3>2 DEF OwnedBy
  <2> QED
    BY <2>4
<1>16. CASE CloseAll
  <2> SUFFICES ASSUME NEW r \in Starts, NEW n \in 1 .. Services, proc'[r][n] = "running", Clean'
               PROVE  OwnedBy(r)'
    BY DEF Owned
  <2>1. Clean /\ proc' = proc /\ UNCHANGED <<pc, held>>
    BY <1>16 DEF Clean, callVars, CloseAll
  <2>2. OwnedBy(r)
    BY <1>0, <2>1 DEF Owned
  <2>3. Reaper \in Takers /\ instance \in Starts \cup {NoStart} /\ job[Reaper].stage \notin Ended
    BY <1>0, <1>16 DEF PTypeOK, CloseAll, Ended
  <2>4. CASE instance # NoStart
    <3>1. job' = [job EXCEPT ![Reaper] = Job("withdraw", instance)]
      BY <1>16, <2>4 DEF CloseAll, Take
    <3>2. job'[Reaper].stage \in Ended /\ job'[Reaper].of = instance /\ \A k \in Takers : k # Reaper => job'[k] = job[k]
      BY <1>0, <2>3, <3>1, JobFacts DEF Ended
    <3> QED
      BY <2>1, <2>2, <2>3, <3>2 DEF OwnedBy
  <2>5. CASE instance = NoStart
    BY <1>16, <2>1, <2>2, <2>5 DEF OwnedBy, CloseAll
  <2> QED
    BY <2>4, <2>5
<1>17. ASSUME NEW s \in Starts, MarkExited(s) PROVE Owned'
  <2> SUFFICES ASSUME NEW r \in Starts, NEW n \in 1 .. Services, proc'[r][n] = "running", Clean'
               PROVE  OwnedBy(r)'
    BY DEF Owned
  <2>1. Clean /\ proc' = proc /\ UNCHANGED <<pc, held>>
    BY <1>17 DEF Clean, callVars, MarkExited
  <2>2. OwnedBy(r)
    BY <1>0, <2>1 DEF Owned
  <2>3. instance' = instance /\ \A k \in Takers : job[k].stage \in Ended => job'[k] = job[k]
    BY <1>0, <1>17 DEF PTypeOK, MarkExited, Supervised, Ended
  <2> QED
    BY <2>1, <2>2, <2>3 DEF OwnedBy
<1>18. ASSUME NEW s \in Starts, LoseWatch(s) PROVE Owned'
  <2> SUFFICES ASSUME NEW r \in Starts, NEW n \in 1 .. Services, proc'[r][n] = "running", Clean'
               PROVE  OwnedBy(r)'
    BY DEF Owned
  <2>1. Clean /\ proc' = proc /\ UNCHANGED <<pc, held>>
    BY <1>18 DEF Clean, callVars, LoseWatch, Fault
  <2>2. OwnedBy(r)
    BY <1>0, <2>1 DEF Owned
  <2> QED
    BY <1>18, <2>1, <2>2 DEF OwnedBy, LoseWatch
<1>19. ASSUME NEW k \in Takers, WithdrawJob(k) PROVE Owned'
  <2> SUFFICES ASSUME NEW r \in Starts, NEW n \in 1 .. Services, proc'[r][n] = "running", Clean'
               PROVE  OwnedBy(r)'
    BY DEF Owned
  <2>1. Clean /\ proc' = proc /\ UNCHANGED <<pc, held>>
    BY <1>19 DEF Clean, callVars, WithdrawJob
  <2>2. OwnedBy(r)
    BY <1>0, <2>1 DEF Owned
  <2>3. /\ instance' = instance /\ job'[k].stage = "retire" /\ job'[k].of = job[k].of
        /\ \A l \in Takers : l # k => job'[l] = job[l]
    BY <1>0, <1>19 DEF PTypeOK, WithdrawJob
  <2> QED
    BY <2>1, <2>2, <2>3 DEF OwnedBy, Ended
<1>20. ASSUME NEW k \in Takers, RetireJob(k) PROVE Owned'
  <2> SUFFICES ASSUME NEW r \in Starts, NEW n \in 1 .. Services, proc'[r][n] = "running", Clean'
               PROVE  OwnedBy(r)'
    BY DEF Owned
  <2>1. job[k].stage = "retire" /\ job[k].of \in Starts /\ Retire(job[k].of, Services)
    BY <1>0, <1>20 DEF RetireJob, Recorded, Ended
  <2>2. Services \in 0 .. Services
    OBVIOUS
  <2>3. pc[job[k].of] \in Past /\ UNCHANGED <<pc, started, instance, held, route>>
    BY <1>0, <1>20, <2>1 DEF RetireJob, Recorded, Ended, callVars
  <2>4. /\ "reply" \in faults' => "reply" \in faults
        /\ faults \subseteq faults'
        /\ \A q \in Starts : q # job[k].of => proc'[q] = proc[q]
        /\ \A i \in 1 .. Services : proc'[job[k].of][i] \in {proc[job[k].of][i], "retired"}
        /\ "retire" \notin faults' => \A i \in 1 .. Services : proc'[job[k].of][i] = "retired"
    BY <1>0, <2>1, <2>2, RetireFacts
  <2>5. Clean /\ r # job[k].of /\ proc[r][n] = "running"
    BY <2>4 DEF Clean
  <2>6. OwnedBy(r)
    BY <1>0, <2>5 DEF Owned
  <2>7. \A l \in Takers : l # k => job'[l] = job[l]
    BY <1>0, <1>20 DEF PTypeOK, RetireJob
  <2> QED
    BY <2>3, <2>5, <2>6, <2>7 DEF OwnedBy
<1>21. ASSUME NEW s \in Starts, NEW i \in 1 .. Services, Exit(s, i) PROVE Owned'
  <2> SUFFICES ASSUME NEW r \in Starts, NEW n \in 1 .. Services, proc'[r][n] = "running", Clean'
               PROVE  OwnedBy(r)'
    BY DEF Owned
  <2>1. proc[r][n] = "running" /\ Clean
    BY <1>0, <1>21 DEF PTypeOK, Clean, Exit
  <2>2. OwnedBy(r)
    BY <1>0, <2>1 DEF Owned
  <2> QED
    BY <1>21, <2>2 DEF OwnedBy, Exit, callVars
<1>22. CASE UNCHANGED vars
  BY <1>0, <1>22 DEF Owned, OwnedBy, Clean, vars
<1> QED
  BY <1>1, <1>2, <1>3, <1>4, <1>5, <1>6, <1>7, <1>8, <1>9, <1>10, <1>11, <1>12, <1>13, <1>14, <1>15, <1>16, <1>17, <1>18, <1>19, <1>20, <1>21, <1>22
  DEF Next, StartStep, StopStep, JobStep

-----------------------------------------------------------------------------

LEMMA InductiveInit == Init => PInv
<1> SUFFICES ASSUME Init PROVE PInv
  OBVIOUS
<1> USE PreviewAssumption DEF Init, Takers, Free
<1>1. PTypeOK
  <2>1. started \in [Starts -> 0 .. Services] /\ held \in [Starts -> Starts \cup {NoStart}]
    OBVIOUS
  <2>2. job \in [Takers -> [stage : {"free", "over", "locked", "withdraw", "retire"},
                            of : Starts \cup {NoStart}]]
    OBVIOUS
  <2>3. proc \in [Starts -> [1 .. Services -> {"none", "running", "exited", "retired"}]]
    OBVIOUS
  <2> QED
    BY <2>1, <2>2, <2>3 DEF PTypeOK, Locked
<1>4. LockHeld /\ Supervised
  BY DEF LockHeld, Supervised, Locked, Ended
<1>2. Recorded /\ Routed /\ Launched /\ Counted
  BY DEF Recorded, Routed, Launched, Counted, Ended, Locked, Past
<1>3. RouteOwned /\ ServedWhileRouted /\ Owned
  BY DEF RouteOwned, ServedWhileRouted, Owned
<1> QED
  BY <1>1, <1>2, <1>3, <1>4 DEF PInv

LEMMA Inductive == Spec => []PInv
<1>1. PInv /\ [Next]_vars => PInv'
  BY PTypeOKKept, LockHeldKept, SupervisedKept, RecordedKept, RoutedKept, LaunchedKept,
     CountedKept, RouteOwnedKept, ServedWhileRoutedKept, OwnedKept DEF PInv
<1> QED
  BY <1>1, InductiveInit, PTL DEF Spec

\* All state keeps its type: every call of Start, Stop and the reaper finds what it needs.
THEOREM PreviewTypes == Spec => []PTypeOK
<1>1. PInv => PTypeOK
  BY DEF PInv
<1> QED
  BY <1>1, Inductive, PTL

\* The public URL leads to the ready instance, to one that a Start is about to record,
\* or to one that its taker is about to withdraw, for any number of calls and failures.
THEOREM RouteNeverOutlives == Spec => []RouteOwned
<1>1. PInv => RouteOwned
  BY DEF PInv
<1> QED
  BY <1>1, Inductive, PTL

\* Nobody stops a process that the public URL still leads to.
THEOREM RouteServed == Spec => []ServedWhileRouted
<1>1. PInv => ServedWhileRouted
  BY DEF PInv
<1> QED
  BY <1>1, Inductive, PTL

\* While no call to the executor fails, every running process has somebody who retires it.
THEOREM NoProcessForgotten == Spec => []ProcessesOwned
<1>1. PInv => ProcessesOwned
  <2> SUFFICES ASSUME PInv, NEW s \in Starts, NEW i \in 1 .. Services,
                      proc[s][i] = "running", faults \cap {"reply", "retire"} = {}
               PROVE  \/ pc[s] \in Locked \/ instance = s
                      \/ \E k \in Takers : job[k] \in {Job("withdraw", s), Job("retire", s)}
                      \/ \E other \in Starts : pc[other] = "replacing" /\ held[other] = s
    BY DEF ProcessesOwned
  <2>1. OwnedBy(s) /\ PTypeOK
    BY DEF PInv, Owned, Clean
  <2>2. \A k \in Takers : job[k].stage \in Ended /\ job[k].of = s =>
          job[k] \in {Job("withdraw", s), Job("retire", s)}
    BY <2>1 DEF PTypeOK, Ended, Job
  <2> QED
    BY <2>1, <2>2 DEF OwnedBy
<1> QED
  BY <1>1, Inductive, PTL
=============================================================================

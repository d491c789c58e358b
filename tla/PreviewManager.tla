--------------------------- MODULE PreviewManager ---------------------------
(***************************************************************************)
(* The preview of one workspace (internal/application/preview.go) and its  *)
(* public route (internal/adapter/preview/publisher.go).                   *)
(*                                                                         *)
(* Start and Stop hold the workspace's lock.  The supervisor of an         *)
(* instance and the idle reaper do not: they take or mark the instance     *)
(* under the manager's mutex and withdraw the route and retire the         *)
(* processes afterwards.  The publisher knows a workspace's route only by  *)
(* its owner, the workspace.  A start call names what it creates: its      *)
(* processes, its route and its instance.                                  *)
(***************************************************************************)
EXTENDS Integers, FiniteSets

CONSTANTS Starts, Stops,   \* calls of Start and Stop, each made once
          Reaper,          \* the goroutine of StartReaper
          NoCall, NoStart,
          Services,        \* services in dependency order, the primary last
          Plans,           \* fingerprints
          MaxFaults,       \* bound: kinds of failure in one behaviour
          Faults           \* kinds of failure that happen, see FaultKinds

FaultKinds == {"reply",      \* a process starts but Start answers with an error
               "retire",     \* stopping or removing a process fails
               "identify",   \* no route token or preview id can be made
               "watch"}      \* the supervisor cannot watch, or is dropped as too slow

Takers == Starts \cup Stops \cup {Reaper}   \* a start stands for its supervisor

ASSUME PreviewAssumption ==
  /\ Services \in Nat \ {0} /\ MaxFaults \in Nat /\ Faults \subseteq FaultKinds
  /\ NoStart \notin Starts /\ NoCall \notin Starts \cup Stops
  /\ Starts \cap Stops = {} /\ Reaper \notin Starts \cup Stops

VARIABLES
  lock,      \* holder of the workspace's lock
  instance,  \* instances[key]
  status,    \* its Status
  idle,      \* its lastAccess is IdleTimeout ago
  route,     \* publisher: where byOwner[key] leads
  pc,        \* start calls
  plan,      \* the fingerprint a start call saw
  started,   \* how many process references it holds
  held,      \* previous
  proc,      \* the processes of a start call
  watching,  \* supervise waits for the exit of the primary process
  job,       \* an instance taken out by Stop, the reaper or a supervisor
  reaping,   \* the reaper's loop runs
  faults     \* the kinds of failure that have happened

callVars == <<pc, plan, started, held>>
vars == <<lock, instance, status, idle, route, pc, plan, started, held, proc,
          watching, job, reaping, faults>>

Free == [stage |-> "free", of |-> NoStart]
Over == [stage |-> "over", of |-> NoStart]
Job(stage, s) == [stage |-> stage, of |-> s]

Init ==
  /\ lock = NoCall /\ instance = NoStart /\ status = "ready" /\ idle = FALSE
  /\ route = NoStart
  /\ pc = [s \in Starts |-> "new"] /\ plan \in [Starts -> Plans]
  /\ started = [s \in Starts |-> 0] /\ held = [s \in Starts |-> NoStart]
  /\ proc = [s \in Starts |-> [i \in 1 .. Services |-> "none"]]
  /\ watching = [s \in Starts |-> FALSE]
  /\ job = [k \in Takers |-> Free] /\ reaping = TRUE /\ faults = {}

Goto(s, label) == pc' = [pc EXCEPT ![s] = label]

Fault(kind) == /\ kind \in Faults /\ Cardinality(faults \cup {kind}) <= MaxFaults
               /\ faults' = faults \cup {kind}

\* Stop and Remove of the first n processes of s; their errors are ignored.
Retire(s, n) ==
  \E kept \in SUBSET (1 .. n) :
    /\ IF kept = {} THEN UNCHANGED faults ELSE Fault("retire")
    /\ proc' = [proc EXCEPT ![s] =
                  [i \in 1 .. Services |-> IF i \in (1 .. n) \ kept THEN "retired" ELSE @[i]]]

\* Unpublish.
WithdrawNever == UNCHANGED route   \* mutant: the route stays
Withdraw == route' = NoStart

UnlockForgotten == UNCHANGED lock   \* mutant: an error path keeps the lock
Unlock == lock' = NoCall

-----------------------------------------------------------------------------
(* Start *)

Enter(s) ==
  /\ pc[s] = "new" /\ lock = NoCall /\ lock' = s /\ Goto(s, "analyzing")
  /\ UNCHANGED <<instance, status, idle, route, plan, started, held, proc, watching, job,
                 reaping, faults>>

Reusable(p) == instance # NoStart /\ status = "ready" /\ plan[instance] = p

\* The plan is analysed again by every call; force is one of its arguments.
Analyze(s) ==
  /\ pc[s] = "analyzing"
  /\ \/ Unlock /\ Goto(s, "done") /\ UNCHANGED plan
     \/ \E p \in Plans, force \in BOOLEAN :
          /\ plan' = [plan EXCEPT ![s] = p] /\ UNCHANGED lock
          /\ IF Reusable(p) /\ ~force THEN Goto(s, "reusing") ELSE Goto(s, "launching")
  /\ UNCHANGED <<instance, status, idle, route, started, held, proc, watching, job, reaping,
                 faults>>

Reuse(s) ==
  /\ pc[s] = "reusing" /\ Goto(s, "done") /\ Unlock
  /\ idle' = (idle /\ instance = NoStart)
  /\ UNCHANGED <<instance, status, route, plan, started, held, proc, watching, job, reaping,
                 faults>>

LastLate(i) == i > Services   \* mutant: one more than there are
Last(i) == i = Services

\* prepare, AllocatePreviewPort, Start and waitPort of the next service.
Launch(s) ==
  /\ pc[s] = "launching"
  /\ LET i == started[s] + 1
         Run == proc' = [proc EXCEPT ![s][i] = "running"]
         Keep == started' = [started EXCEPT ![s] = i]
     IN  \/ Run /\ Keep /\ UNCHANGED faults
            /\ IF Last(i) THEN Goto(s, "probing") ELSE UNCHANGED pc
         \/ Run /\ Keep /\ Goto(s, "undoing") /\ UNCHANGED faults
         \/ Goto(s, "undoing") /\ UNCHANGED <<proc, started, faults>>
         \/ Fault("reply") /\ Run /\ Goto(s, "undoing") /\ UNCHANGED started
  /\ UNCHANGED <<lock, instance, status, idle, route, plan, held, watching, job, reaping>>

\* waitHTTP answers, or times out.
Probe(s) ==
  /\ pc[s] = "probing"
  /\ \/ proc[s][Services] = "running" /\ Goto(s, "publishing")
     \/ Goto(s, "undoing")
  /\ UNCHANGED <<lock, instance, status, idle, route, plan, started, held, proc, watching,
                 job, reaping, faults>>

\* The new route replaces that of the same owner.
Publish(s) ==
  /\ pc[s] = "publishing"
  /\ \/ route' = s /\ Goto(s, "recording") /\ UNCHANGED faults
     \/ Fault("identify") /\ Goto(s, "undoing") /\ UNCHANGED route
  /\ UNCHANGED <<lock, instance, status, idle, plan, started, held, proc, watching, job,
                 reaping>>

Record(s) ==
  /\ pc[s] = "recording"
  /\ \/ /\ held' = [held EXCEPT ![s] = instance]
        /\ instance' = s /\ status' = "ready" /\ idle' = FALSE
        /\ Goto(s, "replacing") /\ UNCHANGED <<route, faults>>
     \/ /\ Fault("identify") /\ Withdraw /\ Goto(s, "undoing")
        /\ UNCHANGED <<instance, status, idle, held>>
  /\ UNCHANGED <<lock, plan, started, proc, watching, job, reaping>>

RetirePrevious(s) ==
  /\ pc[s] = "replacing" /\ Goto(s, "returning")
  /\ \/ held[s] = NoStart /\ UNCHANGED <<proc, faults>>
     \/ held[s] # NoStart /\ Retire(held[s], Services)
  /\ UNCHANGED <<lock, instance, status, idle, route, plan, started, held, watching, job,
                 reaping>>

Return(s) ==
  /\ pc[s] = "returning" /\ Goto(s, "done") /\ Unlock
  /\ watching' = [watching EXCEPT ![s] = TRUE]
  /\ UNCHANGED <<instance, status, idle, route, plan, started, held, proc, job, reaping,
                 faults>>

UndoneLess(s) == started[s] - 1   \* mutant: the process that failed is not in the list
Undone(s) == started[s]

Undo(s) ==
  /\ pc[s] = "undoing" /\ Goto(s, "done") /\ Unlock
  /\ Retire(s, Undone(s))
  /\ UNCHANGED <<instance, status, idle, route, plan, started, held, watching, job, reaping>>

-----------------------------------------------------------------------------
(* Stop, the reaper and the supervisor *)

Take(k) == job' = [job EXCEPT ![k] = Job("withdraw", instance)] /\ instance' = NoStart

StopEnter(o) ==
  /\ job[o] = Free /\ lock = NoCall /\ lock' = o
  /\ job' = [job EXCEPT ![o] = Job("locked", NoStart)]
  /\ UNCHANGED <<instance, status, idle, route, callVars, proc, watching, reaping, faults>>

StopTake(o) ==
  /\ job[o] = Job("locked", NoStart)
  /\ \/ instance # NoStart /\ Take(o) /\ UNCHANGED lock
     \/ /\ instance = NoStart /\ job' = [job EXCEPT ![o] = Over]
        /\ Unlock /\ UNCHANGED instance
  /\ UNCHANGED <<status, idle, route, callVars, proc, watching, reaping, faults>>

\* Another Get or Watch, and the passing of time.
Access == /\ instance # NoStart /\ idle /\ idle' = FALSE
          /\ UNCHANGED <<lock, instance, status, route, callVars, proc, watching, job,
                         reaping, faults>>
GrowIdle == /\ instance # NoStart /\ ~idle /\ idle' = TRUE
            /\ UNCHANGED <<lock, instance, status, route, callVars, proc, watching, job,
                           reaping, faults>>

Reap == /\ reaping /\ job[Reaper] = Free /\ instance # NoStart /\ idle
        /\ Take(Reaper)
        /\ UNCHANGED <<lock, status, idle, route, callVars, proc, watching, reaping, faults>>

CloseAll == /\ reaping /\ job[Reaper] = Free /\ reaping' = FALSE
            /\ IF instance # NoStart THEN Take(Reaper) ELSE UNCHANGED <<job, instance>>
            /\ UNCHANGED <<lock, status, idle, route, callVars, proc, watching, faults>>

Current(s) == instance = s

\* markExited, on the last chunk of the primary process.
MarkExited(s) ==
  /\ watching[s] /\ proc[s][Services] \in {"exited", "retired"}
  /\ watching' = [watching EXCEPT ![s] = FALSE]
  /\ \/ /\ Current(s) /\ status' = "failed"
        /\ job' = [job EXCEPT ![s] = Job("withdraw", instance)]
     \/ ~Current(s) /\ UNCHANGED <<status, job>>
  /\ UNCHANGED <<lock, instance, idle, route, callVars, proc, reaping, faults>>

\* supervise returns without a word.
LoseWatch(s) ==
  /\ watching[s] /\ Fault("watch")
  /\ watching' = [watching EXCEPT ![s] = FALSE]
  /\ UNCHANGED <<lock, instance, status, idle, route, callVars, proc, job, reaping>>

WithdrawJob(k) ==
  /\ job[k].stage = "withdraw" /\ Withdraw
  /\ job' = [job EXCEPT ![k].stage = "retire"]
  /\ UNCHANGED <<lock, instance, status, idle, callVars, proc, watching, reaping, faults>>

RetireJob(k) ==
  /\ job[k].stage = "retire" /\ Retire(job[k].of, Services)
  /\ job' = [job EXCEPT ![k] = IF k = Reaper THEN Free ELSE Over]
  /\ IF k \in Stops THEN Unlock ELSE UNCHANGED lock
  /\ UNCHANGED <<instance, status, idle, route, callVars, watching, reaping>>

\* A process ends by itself.
Exit(s, i) ==
  /\ proc[s][i] = "running" /\ proc' = [proc EXCEPT ![s][i] = "exited"]
  /\ UNCHANGED <<lock, instance, status, idle, route, callVars, watching, job, reaping,
                 faults>>

StartStep(s) == \/ Enter(s) \/ Analyze(s) \/ Reuse(s) \/ Launch(s) \/ Probe(s) \/ Publish(s)
                \/ Record(s) \/ RetirePrevious(s) \/ Return(s) \/ Undo(s)
StopStep(o) == StopEnter(o) \/ StopTake(o)
JobStep(k) == WithdrawJob(k) \/ RetireJob(k)

Next == \/ \E s \in Starts : \/ StartStep(s) \/ MarkExited(s) \/ LoseWatch(s)
                             \/ \E i \in 1 .. Services : Exit(s, i)
        \/ \E o \in Stops : StopStep(o)
        \/ \E k \in Takers : JobStep(k)
        \/ Access \/ GrowIdle \/ Reap \/ CloseAll

Spec == Init /\ [][Next]_vars

(* Calls and goroutines that were started go on: every call they make has a *)
(* timeout or returns, see README.                                          *)
FairSpec == /\ Spec
            /\ \A s \in Starts : WF_vars(StartStep(s)) /\ WF_vars(MarkExited(s))
            /\ \A o \in Stops : WF_vars(StopStep(o))
            /\ \A k \in Takers : WF_vars(JobStep(k))

-----------------------------------------------------------------------------
(* Properties *)

Locked == {"analyzing", "reusing", "launching", "probing", "publishing", "recording",
           "replacing", "returning", "undoing"}

\* Types of all state.
PTypeOK ==
  /\ lock \in Starts \cup Stops \cup {NoCall} /\ instance \in Starts \cup {NoStart}
  /\ status \in {"ready", "failed"} /\ idle \in BOOLEAN /\ route \in Starts \cup {NoStart}
  /\ pc \in [Starts -> {"new", "done"} \cup Locked] /\ plan \in [Starts -> Plans]
  /\ started \in [Starts -> 0 .. Services] /\ held \in [Starts -> Starts \cup {NoStart}]
  /\ proc \in [Starts -> [1 .. Services -> {"none", "running", "exited", "retired"}]]
  /\ watching \in [Starts -> BOOLEAN]
  /\ job \in [Takers -> [stage : {"free", "over", "locked", "withdraw", "retire"},
                         of : Starts \cup {NoStart}]]
  /\ reaping \in BOOLEAN /\ faults \subseteq Faults

\* A public URL never outlives its preview: the route leads to the instance
\* that is ready, to the one a Start is about to record, or to one that whoever
\* took it is about to withdraw.
RouteOwned ==
  route # NoStart =>
    \/ pc[route] = "recording"
    \/ instance = route /\ status = "ready"
    \/ \E k \in Takers : job[k] = Job("withdraw", route)

\* Nobody stops processes that the public route still leads to, so a visitor
\* meets a preview that crashed by itself at worst: on a restart the route has
\* moved to the replacement before the previous instance is retired.
ServedWhileRouted ==
  route # NoStart => \A i \in 1 .. Services : proc[route][i] \in {"running", "exited"}

\* Unless a call to the executor fails, no process is forgotten: a running one
\* belongs to a start call under way, to the instance, or to somebody who is
\* about to retire it.
ProcessesOwned ==
  \A s \in Starts, i \in 1 .. Services :
    proc[s][i] = "running" /\ faults \cap {"reply", "retire"} = {} =>
      \/ pc[s] \in Locked \/ instance = s
      \/ \E k \in Takers : job[k] \in {Job("withdraw", s), Job("retire", s)}
      \/ \E other \in Starts : pc[other] = "replacing" /\ held[other] = s

\* While no call is under way, and before shutdown, the instance that Get and
\* Start report as ready can be reached by its public URL.
ReadyReachable ==
  instance # NoStart /\ status = "ready" /\ lock = NoCall /\ reaping => route = instance

\* A crash closes the public route, whenever it comes, unless the supervisor
\* has lost sight of the process.
CrashClosesRoute ==
  \A s \in Starts : proc[s][Services] = "exited" ~> route # s \/ "watch" \in faults

\* The workspace's lock is released on every path, so the next call gets it.
LockReleased == lock # NoCall ~> lock = NoCall
=============================================================================

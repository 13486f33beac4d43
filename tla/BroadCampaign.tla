---------------------------- MODULE BroadCampaign ----------------------------
(***************************************************************************)
(* The resource aware broad campaign                                       *)
(* (orchestration/resource_aware_broad_campaign_impl.py): one pool of      *)
(* worker threads takes the model-game tasks in order; each task waits for *)
(* a lease, runs a child process in a session of its own, and leaves a     *)
(* FINAL.json.  The process may be killed and the campaign resumed, on     *)
(* another revision of the source and with or without a GPU.               *)
(*                                                                         *)
(* GPU leases are those of SlotAdmission, which ResourceScheduler          *)
(* implements, on one device.  A child is its root process and at most one *)
(* helper it started, in its process group, which may hold its pipes open. *)
(***************************************************************************)
EXTENDS Integers, FiniteSets

CONSTANTS
  Count,         \* tasks; a task is its ordinal
  ResourceClass, \* resource class of a task
  Workers,       \* outer_worker_cap
  Lanes,         \* max_parallel_cpu_models
  GpuSlots,      \* max_parallel_gpu_models, when there is a GPU
  MaxSessions,   \* bound on the campaign processes
  MaxHead,       \* bound on the revisions of the source
  None

Matrix == 1..Count   \* of models and games

\* The statuses the rows tell apart: a blocked task, one whose scheduling or
\* reading raised, a timeout, and whatever else came of a child.
Statuses == {"BLOCKED_GPU_RESOURCE", "SCHEDULER_ERROR", "TIMEOUT", "COMPLETED"}
Results == [status : Statuses \union {None}, source : Nat \union {None}]

ASSUME CampaignAssumption ==
  /\ Count \in Nat /\ ResourceClass \in [Matrix -> {"CPU", "GPU", "EXCLUSIVE_GPU"}]
  /\ Workers \in Nat \ {0} /\ Lanes \in Nat \ {0} /\ GpuSlots \in Nat \ {0}
  /\ MaxSessions \in Nat /\ MaxHead \in Nat
  /\ None \notin Results

VARIABLES
  main,          \* "down", "plan", "pool" or "summarised"
  session,       \* how many campaign processes there were
  gpu,           \* whether the plan of this one has GPU slots
  head,          \* the revision checked out
  since,         \* the revision this process started at
  at,            \* where the thread of each task is
  lanesFree, holding,
  fingerprint,   \* the revision a task read when it began
  status,        \* the status a task is about to report
  root,          \* whether the root process of a task's child lives
  helper,        \* "none", or a helper that is "quiet" or holds the "pipes"
  givenUp,       \* tasks whose root outlived SIGKILL and the wait for it
  final,         \* FINAL.json of each task
  row,           \* the result each task returned
  summary        \* SUMMARY.json: matrix_complete

control == <<main, session, gpu, head, since>>
lanes == <<lanesFree, holding>>
child == <<root, helper, givenUp>>
books == <<final, row, summary>>
campaignVars == <<control, at, lanes, fingerprint, status, child, books>>

Leases == INSTANCE SlotAdmission
  WITH Tasks <- Matrix, Devices <- {0}, Slots <- [d \in {0} |-> GpuSlots],
       Exclusive <- {t \in Matrix : ResourceClass[t] = "EXCLUSIVE_GPU"},
       Demand <- [t \in Matrix |-> 1]

Busy == {"waiting", "running", "terminating", "killing", "draining", "release", "write"}
NoRoot == [t \in Matrix |-> FALSE]
NoHelper == [t \in Matrix |-> "none"]
Living == {t \in Matrix : root[t] \/ helper[t] # "none"}
Blank == [t \in Matrix |-> None]
Go(t, step) == at' = [at EXCEPT ![t] = step]

CampaignInit ==
  /\ main = "down" /\ session = 0 /\ gpu = FALSE /\ head = 0 /\ since = 0
  /\ at = [t \in Matrix |-> "idle"]
  /\ lanesFree = Lanes /\ Leases!Init
  /\ fingerprint = Blank /\ status = Blank
  /\ root = NoRoot /\ helper = NoHelper /\ givenUp = {}
  /\ final = Blank /\ row = Blank /\ summary = None

(* ------------------------------ the process ----------------------------- *)

\* Children are in sessions of their own and may outlive the process.  From
\* then on neither the code nor this model looks for them: what it says of
\* children it says of those of the present process.
Leave == root' = NoRoot /\ helper' = NoHelper /\ givenUp' = {}

\* A process after the first resumes in the same output directory.
Start ==
  /\ main \in {"down", "summarised"} /\ session < MaxSessions
  /\ session' = session + 1 /\ gpu' \in BOOLEAN /\ since' = head
  /\ main' = "plan"
  /\ at' = [t \in Matrix |-> "planned"]
  /\ row' = Blank /\ fingerprint' = Blank /\ status' = Blank
  /\ Leave
  /\ UNCHANGED <<head, lanes, final, summary>>

\* Mutant of BlockedFinal.
BlockedInMemory(t) == final

BlockedFinal(t) == [final EXCEPT ![t] = [status |-> "BLOCKED_GPU_RESOURCE",
                                         source |-> None]]

\* Without GPU slots the tasks for one are settled before the pool opens, over
\* whatever FINAL.json an earlier process left.
Block(t) ==
  /\ main = "plan" /\ ~gpu /\ at[t] = "planned" /\ ResourceClass[t] # "CPU"
  /\ \A u \in 1..t - 1 : at[u] # "planned" \/ ResourceClass[u] = "CPU"
  /\ final' = BlockedFinal(t)
  /\ row' = [row EXCEPT ![t] = [status |-> "BLOCKED_GPU_RESOURCE", source |-> None]]
  /\ Go(t, "idle")
  /\ UNCHANGED <<control, lanes, fingerprint, status, child, summary>>

OpenPool ==
  /\ main = "plan"
  /\ \A t \in Matrix : at[t] = "planned" => gpu \/ ResourceClass[t] = "CPU"
  /\ main' = "pool"
  /\ at' = [t \in Matrix |-> IF at[t] = "planned" THEN "queued" ELSE at[t]]
  /\ UNCHANGED <<session, gpu, head, since, lanes, fingerprint, status, child, books>>

Summarise ==
  /\ main = "pool" /\ \A t \in Matrix : at[t] = "idle"
  /\ main' = "summarised"
  /\ summary' = (\A t \in Matrix : row[t] # None)
  /\ UNCHANGED <<session, gpu, head, since, at, lanes, fingerprint, status, child, final, row>>

\* The threads and the scheduler die with the process.
Killed ==
  /\ main \in {"plan", "pool"}
  /\ main' = "down"
  /\ at' = [t \in Matrix |-> "idle"]
  /\ lanesFree' = Lanes /\ holding' = [t \in Matrix |-> Leases!NoSlots]
  /\ Leave
  /\ UNCHANGED <<session, gpu, head, since, fingerprint, status, books>>

Commit ==
  /\ head < MaxHead
  /\ head' = head + 1
  /\ UNCHANGED <<main, session, gpu, since, at, lanes, fingerprint, status, child, books>>

(* ------------------------------- _run_task ------------------------------ *)

\* Mutant of Reusable.
AnyFinal(t) == final[t] # None

Reusable(t) == final[t] # None /\ final[t].source = head

\* A worker takes the next task; a FINAL.json of this revision is its result,
\* any other is archived.
Pick(t) ==
  /\ main = "pool" /\ at[t] = "queued"
  /\ \A u \in 1..t - 1 : at[u] # "queued"
  /\ Cardinality({u \in Matrix : at[u] \in Busy}) < Workers
  /\ fingerprint' = [fingerprint EXCEPT ![t] = head]
  /\ IF session > 1 /\ Reusable(t)
     THEN row' = [row EXCEPT ![t] = final[t]] /\ Go(t, "idle") /\ UNCHANGED final
     ELSE final' = [final EXCEPT ![t] = None] /\ Go(t, "waiting") /\ UNCHANGED row
  /\ UNCHANGED <<control, lanes, status, child, summary>>

TakeLane(t) ==
  /\ ResourceClass[t] = "CPU" /\ lanesFree > 0
  /\ lanesFree' = lanesFree - 1 /\ UNCHANGED holding
TakeSlots(t) ==
  /\ ResourceClass[t] # "CPU"
  /\ Leases!GrantShared(t, 0) \/ Leases!GrantExclusive(t)
  /\ UNCHANGED lanesFree

Lease(t) ==
  /\ at[t] = "waiting"
  /\ TakeLane(t) \/ TakeSlots(t)
  /\ root' = [root EXCEPT ![t] = TRUE]
  /\ Go(t, "running")
  /\ UNCHANGED <<control, fingerprint, status, helper, givenUp, books>>

SchedulerError(t) ==
  row' = [row EXCEPT ![t] = [status |-> "SCHEDULER_ERROR", source |-> None]]

Contended(t) ==
  IF ResourceClass[t] = "CPU" THEN lanesFree = 0
  ELSE \E u \in Matrix \ {t} : ResourceClass[u] # "CPU" /\ at[u] \in Busy

LeaseTimesOut(t) ==
  /\ at[t] = "waiting" /\ Contended(t)
  /\ SchedulerError(t)
  /\ Go(t, "idle")
  /\ UNCHANGED <<control, lanes, fingerprint, status, child, final, summary>>

\* communicate() returns when the root is gone and nobody holds its pipes.
Drained(t) == ~root[t] /\ helper[t] # "pipes"

Settle(t, s) ==
  /\ status' = [status EXCEPT ![t] = s]
  /\ Go(t, "release")

\* Whatever the outcome read from the child's files; reading them may raise.
Returned(t) ==
  /\ at[t] = "running" /\ Drained(t)
  /\ \E s \in {"COMPLETED", "SCHEDULER_ERROR"} : Settle(t, s)
  /\ UNCHANGED <<control, lanes, fingerprint, child, books>>

\* Mutant of Terminating.
LeaveIt(t) == "release"

\* Whoever outlived its root is not looked for.
Terminating(t) == IF root[t] THEN "terminating" ELSE "draining"

TimesOut(t) ==
  /\ at[t] = "running" /\ ~Drained(t)
  /\ status' = [status EXCEPT ![t] = "TIMEOUT"]
  /\ Go(t, Terminating(t))
  /\ UNCHANGED <<control, lanes, fingerprint, child, books>>

Terminated(t) ==
  /\ at[t] \in {"terminating", "killing"} /\ ~root[t]
  /\ Go(t, "draining")
  /\ UNCHANGED <<control, lanes, fingerprint, status, child, books>>

\* The grace period is over and the root still there: SIGKILL to the group,
\* which ends who is not held up in the kernel.
KillTree(t) ==
  /\ at[t] = "terminating" /\ root[t]
  /\ root' \in {root, [root EXCEPT ![t] = FALSE]}
  /\ helper' \in {helper, [helper EXCEPT ![t] = "none"]}
  /\ Go(t, "killing")
  /\ UNCHANGED <<control, lanes, fingerprint, status, givenUp, books>>

\* Mutant of KillWaitFails.
WaitsForEver(t) == FALSE

\* The second grace period is over too: TimeoutExpired leaves _run_process, and
\* the finally of _run_task releases the lease over a living root.
KillWaitFails(t) ==
  /\ at[t] = "killing" /\ root[t]
  /\ root' = [root EXCEPT ![t] = FALSE] /\ givenUp' = givenUp \union {t}
  /\ Settle(t, "SCHEDULER_ERROR")
  /\ UNCHANGED <<control, lanes, fingerprint, helper, books>>

\* The second communicate() has no timeout; writing down what it read may raise.
DrainedAtLast(t) ==
  /\ at[t] = "draining" /\ Drained(t)
  /\ \E s \in {"TIMEOUT", "SCHEDULER_ERROR"} : Settle(t, s)
  /\ UNCHANGED <<control, lanes, fingerprint, child, books>>

Release(t) ==
  /\ at[t] = "release"
  /\ IF ResourceClass[t] = "CPU" THEN lanesFree' = lanesFree + 1 /\ UNCHANGED holding
     ELSE Leases!Release(t) /\ UNCHANGED lanesFree
  /\ IF status[t] = "SCHEDULER_ERROR"
     THEN SchedulerError(t) /\ Go(t, "idle")
     ELSE Go(t, "write") /\ UNCHANGED row
  /\ UNCHANGED <<control, fingerprint, status, child, final, summary>>

Result(t) == [status |-> status[t], source |-> fingerprint[t]]

WriteFinal(t) ==
  /\ at[t] = "write"
  /\ final' = [final EXCEPT ![t] = Result(t)]
  /\ row' = [row EXCEPT ![t] = Result(t)]
  /\ Go(t, "idle")
  /\ UNCHANGED <<control, lanes, fingerprint, status, child, summary>>

(* ------------------------------- children ------------------------------- *)

StartHelper(t) ==
  /\ root[t] /\ helper[t] = "none" /\ at[t] # "killing"
  /\ \E h \in {"quiet", "pipes"} : helper' = [helper EXCEPT ![t] = h]
  /\ UNCHANGED <<control, at, lanes, fingerprint, status, root, givenUp, books>>

\* By itself, or because of a signal.
RootEnds(t) ==
  /\ root[t]
  /\ root' = [root EXCEPT ![t] = FALSE]
  /\ UNCHANGED <<control, at, lanes, fingerprint, status, helper, givenUp, books>>
HelperEnds(t) ==
  /\ helper[t] # "none"
  /\ helper' = [helper EXCEPT ![t] = "none"]
  /\ UNCHANGED <<control, at, lanes, fingerprint, status, root, givenUp, books>>
LeftEnds(t) ==
  /\ t \in givenUp
  /\ givenUp' = givenUp \ {t}
  /\ UNCHANGED <<control, at, lanes, fingerprint, status, root, helper, books>>

(* ---------------------------- specification ----------------------------- *)

Main == OpenPool \/ Summarise \/ \E t \in Matrix : Block(t)
\* KillTree and KillWaitFails are the ends of grace periods, TimesOut that of the
\* wall-clock limit, LeaseTimesOut that of the wait for a lease: they all come.
Thread(t) ==
  \/ Pick(t) \/ Lease(t) \/ LeaseTimesOut(t) \/ Returned(t) \/ TimesOut(t)
  \/ Terminated(t) \/ KillTree(t) \/ KillWaitFails(t) \/ DrainedAtLast(t)
  \/ Release(t) \/ WriteFinal(t)
Children(t) == StartHelper(t) \/ RootEnds(t) \/ HelperEnds(t) \/ LeftEnds(t)

CampaignNext ==
  \/ Start \/ Main \/ Killed \/ Commit
  \/ \E t \in Matrix : Thread(t) \/ Children(t)

CampaignFairness == WF_campaignVars(Main) /\ \A t \in Matrix : WF_campaignVars(Thread(t))

CampaignSpec == CampaignInit /\ [][CampaignNext]_campaignVars /\ CampaignFairness

(* ------------------------------ properties ------------------------------ *)

\* Until its root process is gone a child of this campaign has its lease: the
\* CPU children fit the lanes, and an exclusive child is the only one on the
\* GPU, through time outs and kills.  The one way out of it is a root that is
\* there after SIGKILL and a second grace period, and such a task is never
\* shown as anything but a SCHEDULER_ERROR: a TIMEOUT, whose reason says that
\* the cleanup came before the release of the lease, has no living root.
RootsUnderLeases ==
  /\ Cardinality({t \in Matrix : root[t] /\ ResourceClass[t] = "CPU"}) <= Lanes - lanesFree
  /\ \A t \in Matrix :
       root[t] /\ ResourceClass[t] # "CPU" =>
         /\ holding[t] # Leases!NoSlots
         /\ ResourceClass[t] = "EXCLUSIVE_GPU" =>
              \A u \in Matrix : root[u] /\ ResourceClass[u] # "CPU" => u = t
  /\ \A t \in givenUp :
       /\ at[t] \in {"release", "idle"} /\ status[t] = "SCHEDULER_ERROR"
       /\ at[t] = "idle" => row[t].status = "SCHEDULER_ERROR"

\* docs/runtime_audit/RESOURCE_AWARE_RUNTIME_AUDIT.md: leases "prevent ordinary
\* GPU jobs from overlapping an `EXCLUSIVE_GPU` task", whose process may be one
\* that SIGKILL did not end in time.
ExclusiveIsAlone ==
  \A t, u \in {s \in Matrix : root[s] \/ s \in givenUp} :
    ResourceClass[t] = "EXCLUSIVE_GPU" /\ ResourceClass[u] # "CPU" => t = u

\* A campaign that is over has one row for every task, and the FINAL.json of a
\* task that ran, was blocked or was resumed is its row.
SummaryIsTrue ==
  main = "summarised" =>
    /\ summary
    /\ \A t \in Matrix : row[t].status # "SCHEDULER_ERROR" => final[t] = row[t]

\* A resumed campaign never reports a result of a revision that was gone when
\* it started.
ReportsThisSource ==
  \A t \in Matrix :
    row[t] # None /\ row[t].source # None => row[t].source \in since..head

\* The pool ends whatever the children do, save for one thing: a helper that
\* outlives its root and keeps the pipes open holds its worker and its lease.
PoolEnds ==
  main = "pool" ~>
    main # "pool" \/ \E t \in Matrix : at[t] = "draining" /\ helper[t] = "pipes"

\* docs/runtime_audit/RESOURCE_AWARE_RUNTIME_AUDIT.md: "The runner creates
\* separate CPU and GPU executors", so tasks for the GPU cannot keep one for
\* the CPU from a worker.
CpuNotBehindGpu ==
  \A t \in Matrix :
    main = "pool" /\ at[t] = "queued" /\ ResourceClass[t] = "CPU" =>
      \/ \E u \in Matrix : at[u] \in Busy /\ ResourceClass[u] = "CPU"
      \/ Cardinality({u \in Matrix : at[u] \in Busy}) < Workers

\* resource_aware_broad_campaign_impl.py: "Terminate the process group/tree
\* before the caller releases its lease."
TreeGoneAtRelease ==
  \A t \in Matrix :
    at[t] = "write" /\ status[t] = "TIMEOUT" => t \notin Living
=============================================================================

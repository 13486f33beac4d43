------------------------------ MODULE GridSearch ------------------------------
(***************************************************************************)
(* The grid search of loto_forecast_engine (orchestration/grid_runner.py): *)
(* grid-create replaces the task rows of a grid, grid-run reads the list   *)
(* of pending rows once and then works through it, one database            *)
(* transaction at a time (infra/meta_store.py).  Nothing keeps two runs of *)
(* a grid apart, nor a creation from a run.  Any database call may raise:  *)
(* inside the try of run_grid that makes the task a failed one, outside of *)
(* it run_grid raises.                                                     *)
(*                                                                         *)
(* A grid is one grid_id.  A task_id is a creation of the grid and the     *)
(* task_order: the ids are serial, no creation gets those of another.  A   *)
(* run_id is the task_order and the second the task was started in.        *)
(***************************************************************************)
EXTENDS Integers, FiniteSetsExt

CONSTANTS Runners,
          Tasks,             \* combinations in the grid
          MaxCreations, MaxSecond,
          None

ASSUME GridAssumption ==
  /\ Tasks \in Nat \ {0} /\ MaxCreations \in Nat /\ MaxSecond \in Nat

Orders == 1..Tasks
RunIds == Orders \X (0..MaxSecond)

VARIABLES
  now,         \* the second
  creation,    \* whose task rows are in grid_search_task, 0 for none
  rows,        \* status and run_id of the rows of that creation
  runs,        \* status in model_run, by run_id
  log,         \* execution_event_log: task and event
  pc,          \* the step each run_grid is at
  listed,      \* creation and orders of its list of pending tasks
  todo,        \* the orders of the list it is not done with
  run,         \* run_id of the task at hand
  tally,       \* the orders it counted as success and as failed
  stopOnError, \* its argument
  starts,      \* history variable: task, run and runner of every start
  completed    \* history variable: tasks whose adapter returned

local == <<pc, listed, todo, run, tally, stopOnError>>
history == <<starts, completed>>
vars == <<now, creation, rows, runs, log, local, history>>

Fresh == [status |-> "pending", run |-> None]

Init ==
  /\ now = 0 /\ creation = 0
  /\ rows = [o \in Orders |-> Fresh]
  /\ runs = [i \in RunIds |-> "none"] /\ log = {}
  /\ pc = [r \in Runners |-> "called"]
  /\ listed = [r \in Runners |-> [of |-> 0, orders |-> {}]]
  /\ todo = [r \in Runners |-> {}] /\ run = [r \in Runners |-> None]
  /\ tally = [r \in Runners |-> [success |-> {}, failed |-> {}]]
  /\ stopOnError \in [Runners -> BOOLEAN]
  /\ starts = {} /\ completed = {}

Goto(r, step) == pc' = [pc EXCEPT ![r] = step]

Tick ==
  /\ now < MaxSecond
  /\ now' = now + 1
  /\ UNCHANGED <<creation, rows, runs, log, local, history>>

\* grid-create on a new or an existing grid_id: the old rows go.
CreateGrid ==
  /\ creation < MaxCreations
  /\ creation' = creation + 1
  /\ rows' = [o \in Orders |-> Fresh]
  /\ UNCHANGED <<now, runs, log, local, history>>

Pending == {o \in Orders : rows[o].status = "pending"}

\* The only read of the task rows, ORDER BY task_order.
ListPending(r) ==
  /\ pc[r] = "called" /\ creation > 0
  /\ listed' = [listed EXCEPT ![r] = [of |-> creation, orders |-> Pending]]
  /\ todo' = [todo EXCEPT ![r] = Pending]
  /\ Goto(r, "next")
  /\ UNCHANGED <<now, creation, rows, runs, log, run, tally, stopOnError, history>>

Order(r) == Min(todo[r])
Task(r) == <<listed[r].of, Order(r)>>

\* UPDATE ... WHERE task_id: no row of a later creation has it.
UpdatesRow(r) == listed[r].of = creation

SetRow(r, row) ==
  rows' = IF UpdatesRow(r) THEN [rows EXCEPT ![Order(r)] = row] ELSE rows
SetStatus(r, status) == SetRow(r, [rows[Order(r)] EXCEPT !.status = status])
SetRun(r, status) == runs' = [runs EXCEPT ![run[r]] = status]
LogEvent(r, event) == log' = log \union {<<Task(r), event>>}

StartTask(r) ==
  /\ pc[r] = "next" /\ todo[r] # {}
  /\ LET id == <<Order(r), now>>
     IN  /\ run' = [run EXCEPT ![r] = id]
         /\ SetRow(r, [status |-> "running", run |-> id])
         /\ starts' = starts \union {[task |-> Task(r), run |-> id, by |-> r]}
  /\ Goto(r, "register")
  /\ UNCHANGED <<now, creation, runs, log, listed, todo, tally, stopOnError,
                 completed>>

RegisterRun(r) ==
  /\ pc[r] = "register"
  /\ SetRun(r, "running")
  /\ Goto(r, "announce")
  /\ UNCHANGED <<now, creation, rows, log, listed, todo, run, tally, stopOnError,
                 history>>

LogStart(r) ==
  /\ pc[r] = "announce"
  /\ LogEvent(r, "start")
  /\ Goto(r, "validate")
  /\ UNCHANGED <<now, creation, rows, runs, listed, todo, run, tally, stopOnError,
                 history>>

(* ------------------------------ adapter.run ----------------------------- *)

\* train registers the run again.
BeginTraining(r) ==
  /\ pc[r] = "validate"
  /\ SetRun(r, "running")
  /\ Goto(r, "train")
  /\ UNCHANGED <<now, creation, rows, log, listed, todo, run, tally, stopOnError,
                 history>>

EndTraining(r) ==
  /\ pc[r] = "train"
  /\ \/ SetRun(r, "success") /\ Goto(r, "evaluate")
     \/ SetRun(r, "failed") /\ Goto(r, "mark")
  /\ UNCHANGED <<now, creation, rows, log, listed, todo, run, tally, stopOnError,
                 history>>

Evaluated(r) ==
  /\ pc[r] = "evaluate"
  /\ completed' = completed \union {Task(r)}
  /\ Goto(r, "finish")
  /\ UNCHANGED <<now, creation, rows, runs, log, listed, todo, run, tally,
                 stopOnError, starts>>

(* -------------------------- the end of a task --------------------------- *)

FinishSuccess(r) ==
  /\ pc[r] = "finish"
  /\ SetStatus(r, "success")
  /\ Goto(r, "note")
  /\ UNCHANGED <<now, creation, runs, log, listed, todo, run, tally, stopOnError,
                 history>>

Done(r) == todo' = [todo EXCEPT ![r] = @ \ {Order(r)}]

LogSuccess(r) ==
  /\ pc[r] = "note"
  /\ LogEvent(r, "success")
  /\ tally' = [tally EXCEPT ![r].success = @ \union {Order(r)}]
  /\ Done(r) /\ Goto(r, "next")
  /\ UNCHANGED <<now, creation, rows, runs, listed, run, stopOnError, history>>

\* Inside the try.
Guarded == {"validate", "train", "evaluate", "finish", "note"}

\* Mutant of AfterError.
EvaluationIsOptional(r) ==
  IF pc[r] = "evaluate" THEN "finish"
  ELSE IF pc[r] \in Guarded THEN "mark" ELSE "raised"

\* Where an exception leads: to the except of the try, or out of run_grid.
AfterError(r) == IF pc[r] \in Guarded THEN "mark" ELSE "raised"

\* A database call, the validation, a forecast or an evaluation raises.
Raise(r) ==
  /\ \/ pc[r] = "next" /\ todo[r] # {}
     \/ pc[r] \in Guarded \union {"register", "announce", "mark", "fail", "complain"}
  /\ Goto(r, AfterError(r))
  /\ UNCHANGED <<now, creation, rows, runs, log, listed, todo, run, tally,
                 stopOnError, history>>

\* Mutant of RunStatusAfterError.
AsTrained(r) == runs[run[r]]

RunStatusAfterError(r) == "failed"

MarkRunFailed(r) ==
  /\ pc[r] = "mark"
  /\ SetRun(r, RunStatusAfterError(r))
  /\ Goto(r, "fail")
  /\ UNCHANGED <<now, creation, rows, log, listed, todo, run, tally, stopOnError,
                 history>>

FinishFailed(r) ==
  /\ pc[r] = "fail"
  /\ SetStatus(r, "failed")
  /\ Goto(r, "complain")
  /\ UNCHANGED <<now, creation, runs, log, listed, todo, run, tally, stopOnError,
                 history>>

StopsHere(r) == stopOnError[r]

LogFailure(r) ==
  /\ pc[r] = "complain"
  /\ LogEvent(r, "failed")
  /\ tally' = [tally EXCEPT ![r].failed = @ \union {Order(r)}]
  /\ Done(r)
  /\ Goto(r, IF StopsHere(r) THEN "returned" ELSE "next")
  /\ UNCHANGED <<now, creation, rows, runs, listed, run, stopOnError, history>>

Return(r) ==
  /\ pc[r] = "next" /\ todo[r] = {}
  /\ Goto(r, "returned")
  /\ UNCHANGED <<now, creation, rows, runs, log, listed, todo, run, tally,
                 stopOnError, history>>

Crash(r) ==
  /\ pc[r] \notin {"called", "returned", "raised", "dead"}
  /\ Goto(r, "dead")
  /\ UNCHANGED <<now, creation, rows, runs, log, listed, todo, run, tally,
                 stopOnError, history>>

(* ---------------------------- specification ----------------------------- *)

RunGrid(r) ==
  \/ ListPending(r) \/ StartTask(r) \/ RegisterRun(r) \/ LogStart(r)
  \/ BeginTraining(r) \/ EndTraining(r) \/ Evaluated(r) \/ FinishSuccess(r)
  \/ LogSuccess(r) \/ Raise(r) \/ MarkRunFailed(r) \/ FinishFailed(r)
  \/ LogFailure(r) \/ Return(r) \/ Crash(r)

Next == Tick \/ CreateGrid \/ \E r \in Runners : RunGrid(r)

Spec == Init /\ [][Next]_vars

(* ------------------------------ properties ------------------------------ *)

\* A run that outlives a new creation of its grid leaves the new rows alone:
\* whatever is no longer pending was started from a list of these very rows.
NewRowsAreUntouched ==
  \A o \in Orders :
    rows[o].status # "pending" =>
      \E s \in starts : s.task = <<creation, o>> /\ s.run = rows[o].run

\* However runs of a grid interleave and whatever raises, a row that says
\* success is one of a task whose adapter returned.
SuccessIsEarned ==
  \A o \in Orders : rows[o].status = "success" => <<creation, o>> \in completed

\* A task nobody else started, under a run_id of its own.
Undisturbed(r, o) ==
  \A s, t \in starts :
    s.task = <<listed[r].of, o>> /\ (t.task = s.task \/ t.run = s.run) =>
      t = s /\ s.by = r

\* What run_grid returns is so: of the tasks it had to itself, those counted as
\* success or as failed have that status in the task table and in model_run, and
\* the event log tells the same; and only --stop-on-error leaves some of them
\* pending (docs/07: one task that fails keeps no other from being run).
SummaryIsTrue ==
  \A r \in Runners :
    pc[r] = "returned" /\ listed[r].of = creation =>
      \A o \in listed[r].orders :
        Undisturbed(r, o) =>
          IF o \in tally[r].success \union tally[r].failed
          THEN LET told == IF o \in tally[r].success THEN "success" ELSE "failed"
               IN  /\ rows[o].status = told /\ runs[rows[o].run] = told
                   /\ <<<<creation, o>>, told>> \in log
          ELSE rows[o].status = "pending" /\ stopOnError[r]

\* docs/09_detailed_table_design.md: the status of a task row goes
\* "pending -> running -> success|failed".
StatusOrder ==
  [][\A o \in Orders :
       creation' = creation /\ rows'[o].status # rows[o].status =>
         <<rows[o].status, rows'[o].status>> \in
           {<<"pending", "running">>, <<"running", "success">>,
            <<"running", "failed">>}]_vars
===============================================================================

--------------------------- MODULE GridSearchProofs ---------------------------
(***************************************************************************)
(* For any number of runs, tasks, creations and seconds: a run leaves the  *)
(* rows of a later creation alone, a row says success only of a task whose *)
(* adapter returned, and what a run returns is so.                         *)
(*                                                                         *)
(* The argument follows the task id: the list of a run is never of a       *)
(* creation yet to come, and a run at work on a task of the present        *)
(* creation has taken its row out of "pending".                            *)
(***************************************************************************)
EXTENDS GridSearch, WellFoundedInduction, TLAPS

AtTask == Guarded \union {"register", "announce", "mark", "fail", "complain"}

TypeInv ==
  /\ creation \in Nat
  /\ pc = [r \in Runners |-> pc[r]] /\ todo = [r \in Runners |-> todo[r]]
  /\ listed \in [Runners -> [of : Nat, orders : SUBSET Orders]]
  /\ \A r \in Runners : listed[r].of <= creation
  /\ rows = [o \in Orders |-> [status |-> rows[o].status, run |-> rows[o].run]]

RowsTaken ==
  \A r \in Runners :
    pc[r] \in AtTask /\ listed[r].of = creation /\ Order(r) \in Orders =>
      rows[Order(r)].status # "pending"

FinishedIsCompleted ==
  \A r \in Runners : pc[r] \in {"finish", "note"} => Task(r) \in completed

Inv == TypeInv /\ RowsTaken /\ NewRowsAreUntouched
           /\ FinishedIsCompleted /\ SuccessIsEarned

\* What a step of a run does to the rows, whatever the step: it leaves them
\* alone, or starts the task at hand, or sets the status of its row.
Starts(r) ==
  /\ pc[r] = "next" /\ pc' = [pc EXCEPT ![r] = "register"]
  /\ \E id : /\ SetRow(r, [status |-> "running", run |-> id])
             /\ starts' = starts \union {[task |-> Task(r), run |-> id, by |-> r]}
  /\ UNCHANGED <<creation, listed, todo, completed>>
Ends(r, at, status, then) ==
  /\ pc[r] = at /\ pc' = [pc EXCEPT ![r] = then]
  /\ SetStatus(r, status)
  /\ UNCHANGED <<creation, listed, todo, history>>
Moves(r, step) ==
  /\ step # "finish" /\ step # "note"
  /\ step \in AtTask => pc[r] \in AtTask /\ todo' = todo
  /\ pc' = [pc EXCEPT ![r] = step]
  /\ todo' = [q \in Runners |-> IF q = r THEN todo'[r] ELSE todo[q]]
  /\ UNCHANGED <<creation, rows, starts, listed, completed>>
Completes(r) ==
  /\ pc[r] \in AtTask /\ pc' = [pc EXCEPT ![r] = "finish"]
  /\ completed' = completed \union {Task(r)}
  /\ UNCHANGED <<creation, rows, starts, listed, todo>>
Lists(r) ==
  /\ pc' = [pc EXCEPT ![r] = "next"]
  /\ \E orders \in SUBSET Orders :
       listed' = [listed EXCEPT ![r] = [of |-> creation, orders |-> orders]]
  /\ todo' = [q \in Runners |-> IF q = r THEN todo'[r] ELSE todo[q]]
  /\ UNCHANGED <<creation, rows, starts, completed>>
LeavesRows(r) == (\E step : Moves(r, step)) \/ Completes(r) \/ Lists(r)

\* Every step of a run is of one of these kinds.
LEMMA Kinds ==
  ASSUME NEW r \in Runners, RunGrid(r), TypeInv
  PROVE  \/ Starts(r) \/ LeavesRows(r)
         \/ Ends(r, "finish", "success", "note")
         \/ Ends(r, "fail", "failed", "complain")
<1> USE DEF AtTask, Guarded, Goto, local, history
<1>1. CASE ListPending(r)
  <2>1. Pending \in SUBSET Orders
    BY DEF Pending
  <2>2. todo' = [q \in Runners |-> IF q = r THEN todo'[r] ELSE todo[q]]
    <3>1. PICK list : todo' = [todo EXCEPT ![r] = list]
      BY <1>1, Zenon DEF ListPending
    <3> QED
      BY <3>1 DEF TypeInv
  <2>3. /\ listed' = [listed EXCEPT ![r] = [of |-> creation, orders |-> Pending]]
        /\ pc' = [pc EXCEPT ![r] = "next"]
        /\ UNCHANGED <<creation, rows, starts, completed>>
    BY <1>1, Zenon DEF ListPending
  <2> QED
    BY <2>1, <2>2, <2>3 DEF LeavesRows, Lists
<1>2. CASE StartTask(r)
  BY <1>2 DEF StartTask, Starts
<1>3. CASE RegisterRun(r)
  <2> Moves(r, "announce")
    BY <1>3 DEF RegisterRun, Moves, TypeInv
  <2> QED
    BY DEF LeavesRows
<1>4. CASE LogStart(r)
  <2> Moves(r, "validate")
    BY <1>4 DEF LogStart, Moves, TypeInv
  <2> QED
    BY DEF LeavesRows
<1>5. CASE BeginTraining(r)
  <2> Moves(r, "train")
    BY <1>5 DEF BeginTraining, Moves, TypeInv
  <2> QED
    BY DEF LeavesRows
<1>6. CASE EndTraining(r)
  <2> Moves(r, "evaluate") \/ Moves(r, "mark")
    BY <1>6 DEF EndTraining, Moves, TypeInv
  <2> QED
    BY DEF LeavesRows
<1>7. CASE Evaluated(r)
  BY <1>7 DEF Evaluated, LeavesRows, Completes
<1>8. CASE FinishSuccess(r)
  BY <1>8 DEF FinishSuccess, Ends
<1>9. CASE LogSuccess(r) \/ LogFailure(r)
  <2> Moves(r, "next") \/ Moves(r, "returned")
    BY <1>9 DEF LogSuccess, LogFailure, Moves, Done, TypeInv
  <2> QED
    BY DEF LeavesRows
<1>10. CASE Raise(r)
  <2> Moves(r, "mark") \/ Moves(r, "raised")
    BY <1>10 DEF Raise, AfterError, Moves, TypeInv
  <2> QED
    BY DEF LeavesRows
<1>11. CASE MarkRunFailed(r)
  <2> Moves(r, "fail")
    BY <1>11 DEF MarkRunFailed, Moves, TypeInv
  <2> QED
    BY DEF LeavesRows
<1>12. CASE FinishFailed(r)
  BY <1>12 DEF FinishFailed, Ends
<1>13. CASE Return(r) \/ Crash(r)
  <2> Moves(r, "returned") \/ Moves(r, "dead")
    BY <1>13 DEF Return, Crash, Moves, TypeInv
  <2> QED
    BY DEF LeavesRows
<1> QED
  BY <1>1, <1>2, <1>3, <1>4, <1>5, <1>6, <1>7, <1>8, <1>9, <1>10, <1>11, <1>12,
    <1>13 DEF RunGrid

\* The invariant of the rows at the start, ...
LEMMA InitInv == Init => Inv
BY GridAssumption DEF Init, Inv, TypeInv, RowsTaken, NewRowsAreUntouched,
  FinishedIsCompleted, SuccessIsEarned, Fresh, AtTask, Guarded, Orders

\* ... through a start: the row taken has its start on record;
LEMMA StartInv ==
  ASSUME NEW r \in Runners, Starts(r), Inv
  PROVE  Inv'
<1> USE DEF Inv
<1>1. PICK id : /\ SetRow(r, [status |-> "running", run |-> id])
                /\ starts' = starts \union {[task |-> Task(r), run |-> id, by |-> r]}
  BY DEF Starts
<1>2. TypeInv'
  BY <1>1 DEF TypeInv, Starts, SetRow
<1>3. RowsTaken'
  BY <1>1 DEF TypeInv, RowsTaken, Starts, SetRow, UpdatesRow, Order, AtTask
<1>4. NewRowsAreUntouched'
  <2> SUFFICES ASSUME NEW o \in Orders, rows'[o].status # "pending"
               PROVE  \E s \in starts' : s.task = <<creation, o>> /\ s.run = rows'[o].run
    BY DEF NewRowsAreUntouched, Starts
  <2>1. CASE rows'[o] = rows[o]
    BY <1>1, <2>1 DEF NewRowsAreUntouched
  <2>2. CASE rows'[o] # rows[o]
    <3>1. o = Order(r) /\ listed[r].of = creation /\ rows'[o].run = id
      BY <1>1, <2>2 DEF TypeInv, SetRow, UpdatesRow
    <3>2. [task |-> Task(r), run |-> id, by |-> r] \in starts'
      BY <1>1
    <3> QED
      BY <3>1, <3>2 DEF Task
  <2> QED
    BY <2>1, <2>2
<1>5. FinishedIsCompleted'
  BY DEF TypeInv, FinishedIsCompleted, Starts, Task, Order
<1>6. SuccessIsEarned'
  BY <1>1 DEF TypeInv, SuccessIsEarned, Starts, SetRow
<1> QED
  BY <1>2, <1>3, <1>4, <1>5, <1>6

\* ... through the end of a task: only a completed one ends in success;
LEMMA EndInv ==
  ASSUME NEW r \in Runners, NEW at, NEW status, NEW then,
         \/ at = "finish" /\ status = "success" /\ then = "note"
         \/ at = "fail" /\ status = "failed" /\ then = "complain",
         Ends(r, at, status, then), Inv
  PROVE  Inv'
<1> USE DEF Inv, history
<1>1. /\ at \in AtTask /\ then \in AtTask
      /\ status # "pending"
      /\ status = "success" => at = "finish"
      /\ then = "note" => at = "finish"
      /\ then # "finish"
  BY DEF AtTask, Guarded
<1>2. TypeInv'
  <2> DEFINE row == [rows[Order(r)] EXCEPT !.status = status]
  <2>1. rows' = IF UpdatesRow(r) THEN [rows EXCEPT ![Order(r)] = row] ELSE rows
    BY DEF Ends, SetStatus, SetRow
  <2>2. rows' = [o \in Orders |-> [status |-> rows'[o].status, run |-> rows'[o].run]]
    <3>1. Order(r) \in Orders => row = [status |-> row.status, run |-> row.run]
      BY DEF TypeInv
    <3> HIDE DEF row
    <3> QED
      BY <2>1, <3>1 DEF TypeInv
  <2> QED
    BY <2>2 DEF TypeInv, Ends
<1>3. RowsTaken'
  BY <1>1 DEF TypeInv, RowsTaken, Ends, SetStatus, SetRow, Order
<1>4. NewRowsAreUntouched'
  <2> SUFFICES ASSUME NEW o \in Orders, rows'[o].status # "pending"
               PROVE  \E s \in starts : s.task = <<creation, o>> /\ s.run = rows'[o].run
    BY DEF NewRowsAreUntouched, Ends
  <2>1. rows'[o].run = rows[o].run
    BY DEF TypeInv, Ends, SetStatus, SetRow
  <2>2. rows[o].status # "pending"
    BY <1>1 DEF TypeInv, RowsTaken, Ends, SetStatus, SetRow, UpdatesRow
  <2> QED
    BY <2>1, <2>2 DEF NewRowsAreUntouched
<1>5. FinishedIsCompleted'
  BY <1>1 DEF TypeInv, FinishedIsCompleted, Ends, Task, Order
<1>6. SuccessIsEarned'
  BY <1>1 DEF TypeInv, FinishedIsCompleted, SuccessIsEarned, Ends, SetStatus,
    SetRow, UpdatesRow, Task
<1> QED
  BY <1>2, <1>3, <1>4, <1>5, <1>6

\* ... through steps that leave rows and list alone,
LEMMA MoveInv ==
  ASSUME NEW r \in Runners, NEW step, Moves(r, step), Inv
  PROVE  Inv'
<1> USE DEF Inv
<1>1. TypeInv'
  BY DEF TypeInv, Moves
<1>2. RowsTaken'
  BY DEF TypeInv, RowsTaken, Moves, Order
<1>3. NewRowsAreUntouched' /\ SuccessIsEarned'
  BY DEF NewRowsAreUntouched, SuccessIsEarned, Moves
<1>4. FinishedIsCompleted'
  BY DEF TypeInv, FinishedIsCompleted, Moves, Task, Order
<1> QED
  BY <1>1, <1>2, <1>3, <1>4

\* ... the return of the adapter,
LEMMA CompleteInv ==
  ASSUME NEW r \in Runners, Completes(r), Inv
  PROVE  Inv'
<1> USE DEF Inv
<1>1. TypeInv'
  BY DEF TypeInv, Completes
<1>2. RowsTaken'
  BY DEF TypeInv, RowsTaken, Completes, Order, AtTask, Guarded
<1>3. NewRowsAreUntouched' /\ SuccessIsEarned'
  BY DEF NewRowsAreUntouched, SuccessIsEarned, Completes
<1>4. FinishedIsCompleted'
  BY DEF TypeInv, FinishedIsCompleted, Completes, Task, Order
<1> QED
  BY <1>1, <1>2, <1>3, <1>4

\* ... and the list, which is of the present creation.
LEMMA ListInv ==
  ASSUME NEW r \in Runners, Lists(r), Inv
  PROVE  Inv'
<1> USE DEF Inv
<1>1. TypeInv'
  <2>1. PICK orders \in SUBSET Orders :
          listed' = [listed EXCEPT ![r] = [of |-> creation, orders |-> orders]]
    BY DEF Lists
  <2>2. /\ listed' \in [Runners -> [of : Nat, orders : SUBSET Orders]]
        /\ \A q \in Runners : listed'[q].of <= creation
    BY <2>1 DEF TypeInv
  <2>3. pc' = [q \in Runners |-> pc'[q]] /\ todo' = [q \in Runners |-> todo'[q]]
    BY DEF TypeInv, Lists
  <2> QED
    BY <2>2, <2>3 DEF TypeInv, Lists
<1>2. RowsTaken'
  BY DEF TypeInv, RowsTaken, Lists, Order, AtTask, Guarded
<1>3. NewRowsAreUntouched' /\ SuccessIsEarned'
  BY DEF NewRowsAreUntouched, SuccessIsEarned, Lists
<1>4. FinishedIsCompleted'
  BY DEF TypeInv, FinishedIsCompleted, Lists, Task, Order
<1> QED
  BY <1>1, <1>2, <1>3, <1>4

\* Every step, a new creation included, keeps it.
LEMMA NextInv == Inv /\ [Next]_vars => Inv'
<1> SUFFICES ASSUME Inv, [Next]_vars PROVE Inv'
  OBVIOUS
<1>1. CASE Tick \/ UNCHANGED vars
  BY <1>1 DEF Inv, Tick, TypeInv, RowsTaken, NewRowsAreUntouched,
    FinishedIsCompleted, SuccessIsEarned, Order, Task, vars, local, history
<1>2. CASE CreateGrid
  BY <1>2 DEF Inv, CreateGrid, TypeInv, RowsTaken, NewRowsAreUntouched,
    FinishedIsCompleted, SuccessIsEarned, Order, Task, Fresh, local, history
<1>3. CASE \E r \in Runners : RunGrid(r)
  <2>1. PICK r \in Runners : RunGrid(r)
    BY <1>3
  <2>2. Starts(r) => Inv'
    BY StartInv
  <2>3. LeavesRows(r) => Inv'
    BY MoveInv, CompleteInv, ListInv DEF LeavesRows
  <2>4. Ends(r, "finish", "success", "note") => Inv'
    BY EndInv
  <2>5. Ends(r, "fail", "failed", "complain") => Inv'
    BY EndInv
  <2> QED
    BY <2>1, <2>2, <2>3, <2>4, <2>5, Kinds DEF Inv
<1> QED
  BY <1>1, <1>2, <1>3 DEF Next

\* It always holds.
LEMMA Invariance == Spec => []Inv
BY InitInv, NextInv, PTL DEF Spec

\* A run of grid-run that outlives a new grid-create touches none of the new
\* rows (replace_grid_tasks and the WHERE task_id of its updates).
THEOREM RowsUntouched == Spec => []NewRowsAreUntouched
<1>1. Inv => NewRowsAreUntouched
  BY DEF Inv
<1> QED
  BY <1>1, Invariance, PTL

\* A row says success only of a task whose adapter returned, for any number of
\* runs and whatever database call of theirs raises.
THEOREM SuccessEarned == Spec => []SuccessIsEarned
<1>1. Inv => SuccessIsEarned
  BY DEF Inv
<1> QED
  BY <1>1, Invariance, PTL

-----------------------------------------------------------------------------
(* What a run returns.  Every run at a task is on record with its start, so*)
(* a task nobody but r started, under a run_id nobody else used, has its   *)
(* row and its run touched by r alone, and by r only while it is at hand.  *)

Places == AtTask \union {"called", "next", "returned", "raised", "dead"}
Counted(r) == tally[r].success \union tally[r].failed

\* The arguments of a run: what it has counted is what it is done with, the
\* task at hand was started by it, and nothing else of what is left was.
WorkInv ==
  /\ now \in 0..MaxSecond /\ stopOnError \in [Runners -> BOOLEAN]
  /\ tally \in [Runners -> [success : SUBSET Orders, failed : SUBSET Orders]]
  /\ run = [r \in Runners |-> run[r]]
  /\ DOMAIN runs = RunIds
  /\ starts \subseteq [task : Nat \X Orders, run : RunIds, by : Runners]
  /\ \A r \in Runners :
       /\ pc[r] \in Places
       /\ pc[r] = "called" => todo[r] = {} /\ Counted(r) = {}
       /\ todo[r] \subseteq listed[r].orders
       /\ Counted(r) = listed[r].orders \ todo[r]
       /\ tally[r].success \intersect tally[r].failed = {}
       /\ pc[r] \in AtTask =>
            todo[r] # {} /\ [task |-> Task(r), run |-> run[r], by |-> r] \in starts
       /\ pc[r] = "returned" => todo[r] = {} \/ stopOnError[r]

StartsInv ==
  \A s \in starts :
    /\ pc[s.by] # "called" /\ s.task[1] = listed[s.by].of
    /\ \/ s.task[2] \notin todo[s.by]
       \/ s.task[2] = Order(s.by) /\ pc[s.by] \in AtTask \union {"raised", "dead"}

\* What the tables say of the task at hand, step by step.
AtHand(r, o) ==
  /\ rows[o].run = run[r]
  /\ pc[r] \in {"evaluate", "finish", "note"} => runs[run[r]] = "success"
  /\ pc[r] \in {"fail", "complain"} => runs[run[r]] = "failed"
  /\ pc[r] = "note" => rows[o].status = "success"
  /\ pc[r] = "complain" => rows[o].status = "failed"
AtHandInv ==
  \A r \in Runners :
    pc[r] \in AtTask /\ listed[r].of = creation /\ Undisturbed(r, Order(r)) =>
      AtHand(r, Order(r))

\* What they say of a task that was counted.
Told(o, told) ==
  /\ rows[o].status = told /\ runs[rows[o].run] = told
  /\ <<<<creation, o>>, told>> \in log
CountedInv ==
  \A r \in Runners, o \in Orders :
    o \in Counted(r) /\ listed[r].of = creation /\ Undisturbed(r, o) =>
      Told(o, IF o \in tally[r].success THEN "success" ELSE "failed")

AllInv == Inv /\ WorkInv /\ StartsInv /\ AtHandInv /\ CountedInv

\* The next order to work on is one that is left.
LEMMA LeastOrder ==
  ASSUME NEW M \in SUBSET Orders, M # {}
  PROVE  Min(M) \in M
<1>1. M \subseteq Nat
  BY GridAssumption DEF Orders
<1> DEFINE R == OpToRel(<, Nat)
<1>2. \A n, m \in Nat : n < m => <<n, m>> \in R
  BY DEF OpToRel
<1>3. IsWellFoundedOn(R, Nat)
  BY NatLessThanWellFounded
<1> HIDE DEF R
<1>4. PICK m \in M : \A n \in M : ~(<<n, m>> \in R)
  BY <1>1, <1>3, WFMin
<1>5. \A n \in M : m <= n
  <2> SUFFICES ASSUME NEW n \in M
               PROVE  m <= n
    OBVIOUS
  <2>1. n \in Nat /\ m \in Nat
    BY <1>1
  <2>2. ~(n < m)
    BY <1>2, <1>4, <2>1, Zenon
  <2> QED
    BY <2>1, <2>2
<1> QED
  BY <1>5 DEF Min

\* The task at hand is one of the list, and its start is on record.
LEMMA Mine ==
  ASSUME Inv, WorkInv, NEW r \in Runners, pc[r] \in AtTask
  PROVE  /\ Order(r) \in todo[r] /\ Order(r) \in Orders /\ run[r] \in RunIds
         /\ [task |-> Task(r), run |-> run[r], by |-> r] \in starts
<1>1. todo[r] \in SUBSET Orders /\ todo[r] # {}
  BY DEF Inv, TypeInv, WorkInv
<1>2. Order(r) \in todo[r]
  BY <1>1, LeastOrder DEF Order
<1>3. [task |-> Task(r), run |-> run[r], by |-> r] \in starts
  BY DEF WorkInv
<1>4. [task |-> Task(r), run |-> run[r], by |-> r] \in [task : Nat \X Orders, run : RunIds, by : Runners]
  BY <1>3 DEF WorkInv
<1>5. run[r] \in RunIds
  BY <1>4
<1> QED
  BY <1>1, <1>2, <1>3, <1>5

\* What a step of a run at a task does to the tables: it touches the row and
\* the run of that task.
Touches(q) ==
  /\ \A o \in Orders : o # Order(q) \/ listed[q].of # creation => rows'[o] = rows[o]
  /\ \A o \in Orders : rows'[o].run = rows[o].run
  /\ \A i \in RunIds : i # run[q] => runs'[i] = runs[i]
  /\ DOMAIN runs' = RunIds
  /\ log \subseteq log'
  /\ UNCHANGED <<now, creation, listed, run, stopOnError, starts>>

\* Another task of an undisturbed run is not touched.
LEMMA Apart ==
  ASSUME AllInv, NEW q \in Runners, pc[q] \in AtTask, Touches(q),
         NEW r \in Runners, NEW o \in Orders, r # q \/ o # Order(q),
         listed[r].of = creation, Undisturbed(r, o), rows[o].status # "pending"
  PROVE  /\ rows'[o] = rows[o] /\ rows[o].run \in RunIds
         /\ runs'[rows[o].run] = runs[rows[o].run]
<1> DEFINE mine == [task |-> Task(q), run |-> run[q], by |-> q]
<1>1. mine \in starts
  BY Mine DEF AllInv
<1>2. PICK s \in starts : s.task = <<creation, o>> /\ s.run = rows[o].run
  BY DEF AllInv, Inv, NewRowsAreUntouched
<1>3. \A t \in starts : t.task = s.task \/ t.run = s.run => t = s /\ s.by = r
  BY <1>2 DEF Undisturbed
<1>4. mine # s
  <2>1. mine.by = q /\ mine.task = Task(q) /\ s.by = r
    BY <1>2, <1>3
  <2> HIDE DEF mine
  <2>2. mine = s => r = q /\ Task(q) = <<creation, o>>
    BY <1>2, <2>1
  <2> QED
    BY <2>2 DEF Task
<1>5. mine.task # s.task /\ mine.run # s.run
  BY <1>1, <1>3, <1>4
<1>6. Task(q) # <<creation, o>> /\ run[q] # rows[o].run
  BY <1>2, <1>5
<1>7. s.run \in RunIds
  BY DEF AllInv, WorkInv
<1> QED
  BY <1>2, <1>6, <1>7 DEF Touches, Task

\* A run goes on with the task at hand.
Works(q, then) ==
  /\ pc[q] \in AtTask /\ then \in AtTask \union {"raised", "dead"}
  /\ pc' = [pc EXCEPT ![q] = then] /\ UNCHANGED <<todo, tally>>
  /\ Touches(q)
  /\ then = "evaluate" => runs'[run[q]] = "success"
  /\ then = "finish" => pc[q] = "evaluate" /\ runs' = runs
  /\ then = "fail" => runs'[run[q]] = "failed"
  /\ then = "note" =>
       /\ pc[q] = "finish" /\ runs' = runs
       /\ listed[q].of = creation => rows'[Order(q)].status = "success"
  /\ then = "complain" =>
       /\ pc[q] = "fail" /\ runs' = runs
       /\ listed[q].of = creation => rows'[Order(q)].status = "failed"

\* It is done with it.
Closes(q, told, then) ==
  /\ \/ told = "success" /\ pc[q] = "note" /\ then = "next"
     \/ /\ told = "failed" /\ pc[q] = "complain"
        /\ then = "next" \/ (then = "returned" /\ stopOnError[q])
  /\ pc' = [pc EXCEPT ![q] = then]
  /\ tally' = [tally EXCEPT ![q] = IF told = "success"
                 THEN [tally[q] EXCEPT !.success = @ \union {Order(q)}]
                 ELSE [tally[q] EXCEPT !.failed = @ \union {Order(q)}]]
  /\ todo' = [todo EXCEPT ![q] = @ \ {Order(q)}]
  /\ <<Task(q), told>> \in log'
  /\ Touches(q) /\ UNCHANGED <<rows, runs>>

\* It stops between two tasks.
Rests(q, then) ==
  /\ pc[q] = "next" /\ then \in {"raised", "dead", "returned"}
  /\ then = "returned" => todo[q] = {}
  /\ pc' = [pc EXCEPT ![q] = then]
  /\ UNCHANGED <<now, creation, rows, runs, log, listed, todo, run, tally,
                 stopOnError, starts>>

\* Work on one task touches no other task of an undisturbed run.
LEMMA WorksInv ==
  ASSUME AllInv, NEW q \in Runners, NEW then, Works(q, then)
  PROVE  WorkInv' /\ StartsInv' /\ AtHandInv' /\ CountedInv'
<1>1. /\ \A r \in Runners : r # q => pc'[r] = pc[r]
      /\ pc'[q] = then
      /\ "called" \notin AtTask /\ "returned" \notin AtTask /\ "raised" \notin AtTask
      /\ "dead" \notin AtTask
      /\ \A r \in Runners : Order(r)' = Order(r) /\ Task(r)' = Task(r)
      /\ \A r \in Runners : Counted(r)' = Counted(r)
      /\ \A r \in Runners, o \in Orders : Undisturbed(r, o)' <=> Undisturbed(r, o)
  BY DEF AllInv, Inv, TypeInv, Works, Touches, AtTask, Guarded, Order, Task, Counted,
    Undisturbed
<1>2. WorkInv'
  <2>1. \A r \in Runners :
          /\ pc'[r] = "called" => todo[r] = {} /\ Counted(r) = {}
          /\ pc'[r] \in AtTask =>
               todo[r] # {} /\ [task |-> Task(r), run |-> run[r], by |-> r] \in starts
          /\ pc'[r] = "returned" => todo[r] = {} \/ stopOnError[r]
    BY <1>1 DEF AllInv, WorkInv, Works
  <2> QED
    BY <1>1, <2>1 DEF AllInv, WorkInv, Works, Touches, Places
<1>3. StartsInv'
  <2> SUFFICES ASSUME NEW s \in starts
               PROVE  /\ pc'[s.by] # "called" /\ s.task[1] = listed[s.by].of
                      /\ \/ s.task[2] \notin todo[s.by]
                         \/ /\ s.task[2] = Order(s.by)
                            /\ pc'[s.by] \in AtTask \union {"raised", "dead"}
    BY <1>1 DEF AllInv, WorkInv, StartsInv, Works, Touches
  <2>1. s.by \in Runners
    BY DEF AllInv, WorkInv
  <2> QED
    BY <1>1, <2>1 DEF AllInv, StartsInv, Works
<1>4. ASSUME NEW r \in Runners, pc'[r] \in AtTask, listed[r].of = creation,
             Undisturbed(r, Order(r))
      PROVE  AtHand(r, Order(r))'
  <2>1. pc[r] \in AtTask
    BY <1>1, <1>4 DEF Works
  <2>2. AtHand(r, Order(r)) /\ Order(r) \in Orders /\ rows[Order(r)].status # "pending"
    BY <1>4, <2>1, Mine DEF AllInv, AtHandInv, Inv, RowsTaken
  <2>3. CASE r # q
    <3>1. /\ rows'[Order(r)] = rows[Order(r)]
          /\ runs'[rows[Order(r)].run] = runs[rows[Order(r)].run]
      BY <1>4, <2>2, <2>3, Apart DEF Works
    <3> QED
      BY <1>1, <2>2, <2>3, <3>1 DEF AtHand, Works, Touches
  <2>4. CASE r = q
    BY <1>1, <1>4, <2>2, <2>4 DEF AtHand, Works, Touches
  <2> QED
    BY <2>3, <2>4
<1>5. AtHandInv'
  <2> SUFFICES ASSUME NEW r \in Runners, pc'[r] \in AtTask, listed'[r].of = creation',
                      Undisturbed(r, Order(r))'
               PROVE  AtHand(r, Order(r))'
    BY DEF AtHandInv
  <2>1. Order(r) \in Orders
    BY <1>1, Mine DEF AllInv, Works
  <2> QED
    BY <1>1, <1>4, <2>1 DEF Works, Touches, Undisturbed
<1>6. CountedInv'
  <2> SUFFICES ASSUME NEW r \in Runners, NEW o \in Orders, o \in Counted(r),
                      listed[r].of = creation, Undisturbed(r, o)
               PROVE  Told(o, IF o \in tally[r].success THEN "success" ELSE "failed")'
    BY <1>1 DEF CountedInv, Works, Touches
  <2> DEFINE told == IF o \in tally[r].success THEN "success" ELSE "failed"
  <2>1. Told(o, told) /\ told # "pending"
    BY DEF AllInv, CountedInv
  <2>2. r # q \/ o # Order(q)
    <3>1. Order(q) \in todo[q] /\ Counted(q) = listed[q].orders \ todo[q]
      BY Mine DEF AllInv, WorkInv, Works
    <3> QED
      BY <3>1
  <2> HIDE DEF told
  <2>3. rows'[o] = rows[o] /\ runs'[rows[o].run] = runs[rows[o].run]
    BY <2>1, <2>2, Apart DEF Works, Told
  <2>4. Told(o, told)'
    BY <2>1, <2>3 DEF Told, Works, Touches, told
  <2> QED
    BY <2>4 DEF Works, told
<1> QED
  BY <1>2, <1>3, <1>5, <1>6

\* A task is counted when the tables already say what the count does.
LEMMA ClosesInv ==
  ASSUME AllInv, NEW q \in Runners, NEW told, NEW then, Closes(q, told, then)
  PROVE  WorkInv' /\ StartsInv' /\ AtHandInv' /\ CountedInv'
<1> DEFINE o == Order(q)
<1>1. /\ o \in todo[q] /\ o \in Orders /\ run[q] \in RunIds /\ pc[q] \in AtTask
      /\ o \notin Counted(q)
  <2>1. pc[q] \in AtTask
    BY DEF Closes, AtTask, Guarded
  <2>2. o \in todo[q] /\ Counted(q) = listed[q].orders \ todo[q]
    BY <2>1, Mine DEF AllInv, WorkInv
  <2> QED
    BY <2>1, <2>2, Mine DEF AllInv
<1>2. /\ tally' \in [Runners -> [success : SUBSET Orders, failed : SUBSET Orders]]
      /\ \A r \in Runners : r # q => tally'[r] = tally[r]
      /\ told = "success" => /\ tally'[q].success = tally[q].success \union {o}
                             /\ tally'[q].failed = tally[q].failed
      /\ told = "failed" => /\ tally'[q].success = tally[q].success
                            /\ tally'[q].failed = tally[q].failed \union {o}
  <2>1. tally \in [Runners -> [success : SUBSET Orders, failed : SUBSET Orders]]
    BY DEF AllInv, WorkInv
  <2>2. tally[q] \in [success : SUBSET Orders, failed : SUBSET Orders]
    BY <2>1
  <2> DEFINE new == IF told = "success"
                    THEN [tally[q] EXCEPT !.success = @ \union {o}]
                    ELSE [tally[q] EXCEPT !.failed = @ \union {o}]
  <2>3. /\ new \in [success : SUBSET Orders, failed : SUBSET Orders]
        /\ told = "success" => /\ new.success = tally[q].success \union {o}
                               /\ new.failed = tally[q].failed
        /\ told = "failed" => /\ new.success = tally[q].success
                              /\ new.failed = tally[q].failed \union {o}
    BY <1>1, <2>2
  <2>4. tally' = [tally EXCEPT ![q] = new]
    BY DEF Closes
  <2> HIDE DEF new
  <2> QED
    BY <2>1, <2>3, <2>4
<1>3. /\ told \in {"success", "failed"}
      /\ \A r \in Runners : r # q => Counted(r)' = Counted(r)
      /\ Counted(q)' = Counted(q) \union {o}
  BY <1>2 DEF Counted, Closes
<1>4. /\ \A r \in Runners : r # q => pc'[r] = pc[r] /\ todo'[r] = todo[r]
      /\ pc'[q] = then /\ todo'[q] = todo[q] \ {o}
      /\ then \in {"next", "returned"}
      /\ then = "returned" => stopOnError[q]
      /\ {"called", "next", "returned", "raised", "dead"} \intersect AtTask = {}
      /\ \A r \in Runners : r # q => Order(r)' = Order(r) /\ Task(r)' = Task(r)
      /\ \A r \in Runners, u \in Orders : Undisturbed(r, u)' <=> Undisturbed(r, u)
  BY DEF AllInv, Inv, TypeInv, Closes, Touches, AtTask, Guarded, Order, Task, Undisturbed
<1> HIDE DEF o
<1>5. WorkInv'
  <2>1. ASSUME NEW r \in Runners
        PROVE  /\ pc'[r] \in Places
               /\ pc'[r] = "called" => todo'[r] = {} /\ Counted(r)' = {}
               /\ todo'[r] \subseteq listed[r].orders
               /\ Counted(r)' = listed[r].orders \ todo'[r]
               /\ tally'[r].success \intersect tally'[r].failed = {}
               /\ pc'[r] \in AtTask => /\ todo'[r] # {}
                                       /\ [task |-> Task(r)', run |-> run[r], by |-> r] \in starts
               /\ pc'[r] = "returned" => todo'[r] = {} \/ stopOnError[r]
    <3>1. /\ pc[r] \in Places
          /\ pc[r] = "called" => todo[r] = {} /\ Counted(r) = {}
          /\ todo[r] \subseteq listed[r].orders
          /\ Counted(r) = listed[r].orders \ todo[r]
          /\ tally[r].success \intersect tally[r].failed = {}
          /\ pc[r] \in AtTask =>
               todo[r] # {} /\ [task |-> Task(r), run |-> run[r], by |-> r] \in starts
          /\ pc[r] = "returned" => todo[r] = {} \/ stopOnError[r]
      BY DEF AllInv, WorkInv
    <3>2. CASE r # q
      BY <1>2, <1>3, <1>4, <3>1, <3>2
    <3>3. CASE r = q
      <4>1. /\ todo'[q] \subseteq listed[q].orders
            /\ Counted(q)' = listed[q].orders \ todo'[q]
        BY <1>1, <1>3, <1>4, <3>1, <3>3
      <4>2. tally'[q].success \intersect tally'[q].failed = {}
        BY <1>1, <1>2, <1>3, <3>1, <3>3 DEF Counted
      <4> QED
        BY <1>4, <3>3, <4>1, <4>2 DEF Places
    <3> QED
      BY <3>2, <3>3
  <2> QED
    BY <1>2, <2>1 DEF AllInv, WorkInv, Closes, Touches
<1>6. StartsInv'
  <2> SUFFICES ASSUME NEW s \in starts
               PROVE  /\ pc'[s.by] # "called" /\ s.task[1] = listed[s.by].of
                      /\ \/ s.task[2] \notin todo'[s.by]
                         \/ /\ s.task[2] = Order(s.by)'
                            /\ pc'[s.by] \in AtTask \union {"raised", "dead"}
    BY DEF StartsInv, Closes, Touches
  <2>1. s.by \in Runners
    BY DEF AllInv, WorkInv
  <2>2. /\ pc[s.by] # "called" /\ s.task[1] = listed[s.by].of
        /\ \/ s.task[2] \notin todo[s.by]
           \/ s.task[2] = Order(s.by) /\ pc[s.by] \in AtTask \union {"raised", "dead"}
    BY DEF AllInv, StartsInv
  <2>3. CASE s.by # q
    BY <1>4, <2>1, <2>2, <2>3
  <2>4. CASE s.by = q
    BY <1>4, <2>1, <2>2, <2>4 DEF o
  <2> QED
    BY <2>3, <2>4
<1>7. rows' = rows /\ runs' = runs /\ creation' = creation /\ listed' = listed /\ run' = run
  BY DEF Closes, Touches
<1>8. AtHandInv'
  <2> SUFFICES ASSUME NEW r \in Runners, pc'[r] \in AtTask, listed[r].of = creation,
                      Undisturbed(r, Order(r))'
               PROVE  AtHand(r, Order(r))'
    BY <1>7 DEF AtHandInv
  <2>1. r # q /\ pc[r] \in AtTask
    BY <1>4
  <2>2. Order(r) \in Orders /\ Order(r)' = Order(r)
    BY <1>4, <2>1, Mine DEF AllInv
  <2>3. Undisturbed(r, Order(r))
    BY <2>2 DEF Undisturbed, Closes, Touches
  <2>4. AtHand(r, Order(r))
    BY <2>1, <2>3 DEF AllInv, AtHandInv
  <2> QED
    BY <1>4, <1>7, <2>1, <2>2, <2>4 DEF AtHand
<1>9. CountedInv'
  <2> SUFFICES ASSUME NEW r \in Runners, NEW u \in Orders, u \in Counted(r)',
                      listed[r].of = creation, Undisturbed(r, u)
               PROVE  Told(u, IF u \in tally[r].success THEN "success" ELSE "failed")'
    BY <1>4, <1>7 DEF CountedInv
  <2>1. CASE r = q /\ u = o
    <3>1. AtHand(q, o) /\ rows[o].run = run[q]
      BY <1>1, <2>1 DEF AllInv, AtHandInv, AtHand, o
    <3>2. rows[o].status = told /\ runs[rows[o].run] = told
      BY <3>1 DEF AtHand, Closes
    <3>3. <<<<creation, o>>, told>> \in log'
      BY <2>1 DEF Closes, Task, o
    <3>4. Told(u, told)'
      BY <1>7, <2>1, <3>2, <3>3 DEF Told
    <3>5. o \in tally'[q].success <=> told = "success"
      BY <1>1, <1>2, <1>3 DEF Counted
    <3> QED
      BY <1>3, <2>1, <3>4, <3>5
  <2>2. CASE ~(r = q /\ u = o)
    <3>1. /\ u \in Counted(r)
          /\ u \in tally'[r].success <=> u \in tally[r].success
      BY <1>2, <1>3, <2>2
    <3>2. Told(u, IF u \in tally[r].success THEN "success" ELSE "failed")
      BY <3>1 DEF AllInv, CountedInv
    <3>3. \A x : Told(u, x) => Told(u, x)'
      BY <1>7 DEF Told, Closes, Touches
    <3> QED
      BY <3>1, <3>2, <3>3
  <2> QED
    BY <2>1, <2>2
<1> QED
  BY <1>5, <1>6, <1>8, <1>9

\* A run that ends between two tasks has none at hand.
LEMMA RestsInv ==
  ASSUME AllInv, NEW q \in Runners, NEW then, Rests(q, then)
  PROVE  WorkInv' /\ StartsInv' /\ AtHandInv' /\ CountedInv'
<1>1. /\ \A r \in Runners : r # q => pc'[r] = pc[r]
      /\ pc'[q] = then /\ then \notin AtTask
      /\ \A r \in Runners : Order(r)' = Order(r) /\ Task(r)' = Task(r)
      /\ \A r \in Runners : Counted(r)' = Counted(r)
      /\ pc[q] = "next" /\ "next" \notin AtTask
  BY DEF AllInv, Inv, TypeInv, Rests, AtTask, Guarded, Order, Task, Counted
<1>2. WorkInv'
  BY <1>1 DEF AllInv, WorkInv, Rests, Places
<1>3. StartsInv'
  BY <1>1 DEF AllInv, WorkInv, StartsInv, Rests
<1>4. AtHandInv'
  <2> SUFFICES ASSUME NEW r \in Runners, pc'[r] \in AtTask, listed[r].of = creation,
                      Undisturbed(r, Order(r))'
               PROVE  AtHand(r, Order(r))'
    BY DEF AtHandInv, Rests
  <2>1. r # q /\ pc'[r] = pc[r]
    BY <1>1
  <2>2. Undisturbed(r, Order(r))
    BY <1>1 DEF Undisturbed, Rests
  <2>3. AtHand(r, Order(r))
    BY <2>1, <2>2 DEF AllInv, AtHandInv
  <2> QED
    BY <1>1, <2>1, <2>3 DEF AtHand, Rests
<1>5. CountedInv'
  BY <1>1 DEF AllInv, CountedInv, Rests, Told, Undisturbed
<1> QED
  BY <1>2, <1>3, <1>4, <1>5

\* A start by another run disturbs, so the rows of whoever stays undisturbed
\* are not the ones it takes.
LEMMA BeginsInv ==
  ASSUME AllInv, NEW q \in Runners, StartTask(q)
  PROVE  WorkInv' /\ StartsInv' /\ AtHandInv' /\ CountedInv'
<1> DEFINE id == <<Order(q), now>>
           mine == [task |-> Task(q), run |-> id, by |-> q]
<1>1. /\ pc[q] = "next" /\ todo[q] # {}
      /\ run' = [run EXCEPT ![q] = id]
      /\ rows' = IF listed[q].of = creation
                 THEN [rows EXCEPT ![Order(q)] = [status |-> "running", run |-> id]]
                 ELSE rows
      /\ starts' = starts \union {mine}
      /\ pc' = [pc EXCEPT ![q] = "register"]
      /\ UNCHANGED <<now, creation, runs, log, listed, todo, tally, stopOnError>>
  BY DEF StartTask, Goto, SetRow, UpdatesRow
<1>2. Order(q) \in todo[q] /\ Order(q) \in Orders /\ Order(q) \notin Counted(q)
  <2>1. todo[q] \in SUBSET Orders /\ todo[q] # {}
    BY <1>1 DEF AllInv, Inv, TypeInv, WorkInv
  <2>2. Order(q) \in todo[q]
    BY <2>1, LeastOrder DEF Order
  <2>3. Counted(q) = listed[q].orders \ todo[q]
    BY DEF AllInv, WorkInv
  <2> QED
    BY <2>1, <2>2, <2>3
<1>3. /\ id \in RunIds
      /\ mine \in [task : Nat \X Orders, run : RunIds, by : Runners]
      /\ mine.task = <<listed[q].of, Order(q)>> /\ mine.run = id /\ mine.by = q
  <2>1. listed[q].of \in Nat /\ now \in 0..MaxSecond
    BY DEF AllInv, Inv, TypeInv, WorkInv
  <2> QED
    BY <1>2, <2>1 DEF RunIds, Task
<1>4. /\ \A r \in Runners : r # q => pc'[r] = pc[r] /\ run'[r] = run[r]
      /\ pc'[q] = "register" /\ run'[q] = id
      /\ \A r \in Runners : Order(r)' = Order(r) /\ Task(r)' = Task(r)
      /\ \A r \in Runners : Counted(r)' = Counted(r)
      /\ \A r \in Runners, u \in Orders : Undisturbed(r, u)' => Undisturbed(r, u)
      /\ "next" \notin AtTask /\ "register" \in AtTask
  BY <1>1 DEF AllInv, Inv, TypeInv, WorkInv, AtTask, Guarded, Order, Task, Counted,
    Undisturbed
<1> HIDE DEF mine, id
<1>5. WorkInv'
  <2>1. ASSUME NEW r \in Runners, pc'[r] \in AtTask
        PROVE  /\ todo[r] # {}
               /\ [task |-> Task(r), run |-> run'[r], by |-> r] \in starts'
    <3>1. CASE r = q
      BY <1>1, <1>4, <3>1 DEF mine
    <3>2. CASE r # q
      BY <1>1, <1>4, <2>1, <3>2 DEF AllInv, WorkInv
    <3> QED
      BY <3>1, <3>2
  <2>2. starts' \subseteq [task : Nat \X Orders, run : RunIds, by : Runners]
    BY <1>1, <1>3 DEF AllInv, WorkInv
  <2>3. \A r \in Runners :
          /\ pc'[r] = "called" => todo[r] = {} /\ Counted(r) = {}
          /\ pc'[r] = "returned" => todo[r] = {} \/ stopOnError[r]
    BY <1>4 DEF AllInv, WorkInv
  <2>4. run' = [r \in Runners |-> run'[r]]
    BY <1>1 DEF AllInv, WorkInv
  <2>5. ASSUME NEW r \in Runners
        PROVE  /\ pc'[r] \in Places
               /\ pc'[r] = "called" => todo'[r] = {} /\ Counted(r)' = {}
               /\ todo'[r] \subseteq listed'[r].orders
               /\ Counted(r)' = listed'[r].orders \ todo'[r]
               /\ tally'[r].success \intersect tally'[r].failed = {}
               /\ pc'[r] \in AtTask => /\ todo'[r] # {}
                                       /\ [task |-> Task(r)', run |-> run'[r], by |-> r] \in starts'
               /\ pc'[r] = "returned" => todo'[r] = {} \/ stopOnError'[r]
    <3>1. /\ pc[r] \in Places
          /\ todo[r] \subseteq listed[r].orders /\ Counted(r) = listed[r].orders \ todo[r]
          /\ tally[r].success \intersect tally[r].failed = {}
      BY DEF AllInv, WorkInv
    <3>2. Counted(r)' = Counted(r) /\ Task(r)' = Task(r)
      BY <1>4
    <3> QED
      BY <1>1, <1>4, <2>1, <2>3, <3>1, <3>2 DEF Places
  <2>6. /\ now' \in 0..MaxSecond /\ stopOnError' \in [Runners -> BOOLEAN]
        /\ tally' \in [Runners -> [success : SUBSET Orders, failed : SUBSET Orders]]
        /\ DOMAIN runs' = RunIds
    BY <1>1 DEF AllInv, WorkInv
  <2> QED
    BY <2>2, <2>4, <2>5, <2>6 DEF WorkInv
<1>6. StartsInv'
  <2> SUFFICES ASSUME NEW s \in starts'
               PROVE  /\ pc'[s.by] # "called" /\ s.task[1] = listed[s.by].of
                      /\ \/ s.task[2] \notin todo[s.by]
                         \/ /\ s.task[2] = Order(s.by)'
                            /\ pc'[s.by] \in AtTask \union {"raised", "dead"}
    BY <1>1 DEF StartsInv
  <2>1. CASE s = mine
    BY <1>3, <1>4, <2>1
  <2>2. CASE s \in starts
    <3>1. s.by \in Runners
      BY <2>2 DEF AllInv, WorkInv
    <3>2. /\ pc[s.by] # "called" /\ s.task[1] = listed[s.by].of
          /\ \/ s.task[2] \notin todo[s.by]
             \/ s.task[2] = Order(s.by) /\ pc[s.by] \in AtTask \union {"raised", "dead"}
      BY <2>2 DEF AllInv, StartsInv
    <3> QED
      BY <1>1, <1>4, <3>1, <3>2
  <2> QED
    BY <1>1, <2>1, <2>2
\* Who is undisturbed is not disturbed by this start.
<1>7. ASSUME NEW r \in Runners, NEW u \in Orders, listed[r].of = creation,
             Undisturbed(r, u)', r # q \/ u # Order(q)
      PROVE  rows'[u] = rows[u]
  <2>1. mine.task = <<creation, u>> => q = r
    <3>1. mine \in starts'
      BY <1>1
    <3>2. \A s \in starts' : s.task = <<listed'[r].of, u>> => s.by = r
      BY <1>7 DEF Undisturbed
    <3> QED
      BY <1>1, <1>3, <1>7, <3>1, <3>2
  <2>2. ~(u = Order(q) /\ listed[q].of = creation)
    BY <1>3, <1>7, <2>1
  <2> QED
    BY <1>1, <2>2
<1>8. AtHandInv'
  <2> SUFFICES ASSUME NEW r \in Runners, pc'[r] \in AtTask, listed[r].of = creation,
                      Undisturbed(r, Order(r))'
               PROVE  AtHand(r, Order(r))'
    BY <1>1 DEF AtHandInv
  <2>1. CASE r = q
    <3>1. rows'[Order(q)] = [status |-> "running", run |-> id]
      BY <1>1, <1>2, <2>1 DEF Inv, TypeInv, AllInv
    <3>2. rows'[Order(q)].run = id
      BY <3>1
    <3> QED
      BY <1>4, <2>1, <3>2 DEF AtHand
  <2>2. CASE r # q
    <3>1. Order(r) \in Orders /\ Order(r)' = Order(r) /\ pc[r] \in AtTask
      BY <1>4, <2>2, Mine DEF AllInv
    <3>2. PICK u \in Orders : u = Order(r)
      BY <3>1
    <3>3. Undisturbed(r, u)'
      BY <3>1, <3>2 DEF Undisturbed
    <3>4. AtHand(r, u) /\ rows'[u] = rows[u]
      BY <1>4, <1>7, <2>2, <3>1, <3>2, <3>3 DEF AllInv, AtHandInv
    <3> QED
      BY <1>1, <1>4, <2>2, <3>1, <3>2, <3>4 DEF AtHand
  <2> QED
    BY <2>1, <2>2
<1>9. CountedInv'
  <2> SUFFICES ASSUME NEW r \in Runners, NEW u \in Orders, u \in Counted(r),
                      listed[r].of = creation, Undisturbed(r, u)'
               PROVE  Told(u, IF u \in tally[r].success THEN "success" ELSE "failed")'
    BY <1>1, <1>4 DEF CountedInv
  <2>1. Told(u, IF u \in tally[r].success THEN "success" ELSE "failed")
    BY <1>4 DEF AllInv, CountedInv
  <2>2. rows'[u] = rows[u]
    BY <1>2, <1>7
  <2>3. \A x : Told(u, x) => Told(u, x)'
    BY <1>1, <2>2 DEF Told
  <2> QED
    BY <1>1, <2>1, <2>3
<1> QED
  BY <1>5, <1>6, <1>8, <1>9

\* A list is made once, before anything was started or counted.
LEMMA ListsInv ==
  ASSUME AllInv, NEW q \in Runners, ListPending(q)
  PROVE  WorkInv' /\ StartsInv' /\ AtHandInv' /\ CountedInv'
<1>1. /\ pc[q] = "called" /\ pc' = [pc EXCEPT ![q] = "next"]
      /\ listed' = [listed EXCEPT ![q] = [of |-> creation, orders |-> Pending]]
      /\ todo' = [todo EXCEPT ![q] = Pending]
      /\ UNCHANGED <<now, creation, rows, runs, log, run, tally, stopOnError, starts>>
  BY DEF ListPending, Goto, history
<1>2. Pending \subseteq Orders
  BY DEF Pending
<1>3. /\ \A r \in Runners : r # q => /\ pc'[r] = pc[r] /\ listed'[r] = listed[r]
                                     /\ todo'[r] = todo[r]
                                     /\ Order(r)' = Order(r) /\ Task(r)' = Task(r)
      /\ pc'[q] = "next" /\ "next" \notin AtTask
      /\ listed'[q].orders = Pending /\ todo'[q] = Pending
      /\ \A r \in Runners : Counted(r)' = Counted(r)
      /\ \A s \in starts : s.by \in Runners /\ s.by # q
  BY <1>1 DEF AllInv, Inv, TypeInv, WorkInv, StartsInv, AtTask, Guarded, Order, Task,
    Counted
<1>4. Counted(q) = {}
  BY <1>1 DEF AllInv, WorkInv
<1>5. WorkInv'
  <2>1. ASSUME NEW r \in Runners
        PROVE  /\ pc'[r] \in Places
               /\ pc'[r] = "called" => todo'[r] = {} /\ Counted(r)' = {}
               /\ todo'[r] \subseteq listed'[r].orders
               /\ Counted(r)' = listed'[r].orders \ todo'[r]
               /\ pc'[r] \in AtTask => /\ todo'[r] # {}
                                       /\ [task |-> Task(r)', run |-> run[r], by |-> r] \in starts
               /\ pc'[r] = "returned" => todo'[r] = {} \/ stopOnError[r]
    BY <1>3, <1>4 DEF AllInv, WorkInv, Places
  <2> QED
    BY <1>1, <2>1 DEF AllInv, WorkInv
<1>6. StartsInv'
  BY <1>1, <1>3 DEF AllInv, StartsInv
<1>7. AtHandInv'
  <2> SUFFICES ASSUME NEW r \in Runners, pc'[r] \in AtTask, listed'[r].of = creation,
                      Undisturbed(r, Order(r))'
               PROVE  AtHand(r, Order(r))'
    BY <1>1 DEF AtHandInv
  <2>1. r # q /\ pc'[r] = pc[r] /\ listed'[r] = listed[r] /\ Order(r)' = Order(r)
    BY <1>3
  <2>2. Undisturbed(r, Order(r))
    BY <1>1, <2>1 DEF Undisturbed
  <2>3. AtHand(r, Order(r))
    BY <2>1, <2>2 DEF AllInv, AtHandInv
  <2> QED
    BY <1>1, <2>1, <2>3 DEF AtHand
<1>8. CountedInv'
  <2> SUFFICES ASSUME NEW r \in Runners, NEW u \in Orders, u \in Counted(r),
                      listed'[r].of = creation, Undisturbed(r, u)'
               PROVE  Told(u, IF u \in tally[r].success THEN "success" ELSE "failed")'
    BY <1>1, <1>3 DEF CountedInv
  <2>1. r # q /\ listed'[r] = listed[r]
    BY <1>3, <1>4
  <2>2. Undisturbed(r, u)
    BY <1>1, <2>1 DEF Undisturbed
  <2>3. Told(u, IF u \in tally[r].success THEN "success" ELSE "failed")
    BY <2>1, <2>2 DEF AllInv, CountedInv
  <2> QED
    BY <1>1, <2>3 DEF Told
<1> QED
  BY <1>5, <1>6, <1>7, <1>8

\* The clock changes nothing here, and after a new creation no list is of it.
LEMMA OutsideInv ==
  ASSUME AllInv, Tick \/ CreateGrid \/ UNCHANGED vars
  PROVE  WorkInv' /\ StartsInv' /\ AtHandInv' /\ CountedInv'
<1>1. /\ UNCHANGED <<runs, log, pc, listed, todo, run, tally, stopOnError, starts>>
      /\ now' \in 0..MaxSecond
      /\ UNCHANGED <<creation, rows>> \/ creation' = creation + 1
  <2>1. now \in 0..MaxSecond /\ MaxSecond \in Nat
    BY GridAssumption DEF AllInv, WorkInv
  <2> QED
    BY <2>1 DEF Tick, CreateGrid, vars, local, history
<1>2. WorkInv'
  BY <1>1 DEF AllInv, WorkInv, Counted, Task, Order
<1>3. StartsInv'
  BY <1>1 DEF AllInv, StartsInv, Order
<1>4. CASE UNCHANGED <<creation, rows>>
  <2>1. AtHandInv'
    BY <1>1, <1>4 DEF AllInv, AtHandInv, AtHand, Undisturbed, Order
  <2>2. CountedInv'
    BY <1>1, <1>4 DEF AllInv, CountedInv, Counted, Told, Undisturbed
  <2> QED
    BY <1>2, <1>3, <2>1, <2>2
<1>5. CASE creation' = creation + 1
  <2>1. \A r \in Runners : listed'[r].of # creation'
    <3>1. creation \in Nat /\ \A r \in Runners : listed[r].of \in Nat /\ listed[r].of <= creation
      BY DEF AllInv, Inv, TypeInv
    <3> QED
      BY <1>1, <1>5, <3>1
  <2> QED
    BY <1>2, <1>3, <2>1 DEF AtHandInv, CountedInv
<1> QED
  BY <1>1, <1>4, <1>5

\* What SetStatus does to the rows while a run is at a task.
LEMMA RowTouched ==
  ASSUME AllInv, NEW q \in Runners, pc[q] \in AtTask, NEW status, SetStatus(q, status)
  PROVE  /\ \A o \in Orders : o # Order(q) \/ listed[q].of # creation => rows'[o] = rows[o]
         /\ \A o \in Orders : rows'[o].run = rows[o].run
         /\ listed[q].of = creation => rows'[Order(q)].status = status
<1> DEFINE row == [rows[Order(q)] EXCEPT !.status = status]
<1>1. rows' = IF listed[q].of = creation THEN [rows EXCEPT ![Order(q)] = row] ELSE rows
  BY DEF SetStatus, SetRow, UpdatesRow
<1>2. Order(q) \in Orders
  BY Mine DEF AllInv
<1>3. row.status = status /\ row.run = rows[Order(q)].run
  <2>1. rows[Order(q)] = [status |-> rows[Order(q)].status, run |-> rows[Order(q)].run]
    BY <1>2 DEF AllInv, Inv, TypeInv
  <2> QED
    BY <2>1
<1>4. rows = [o \in Orders |-> rows[o]]
  BY DEF AllInv, Inv, TypeInv
<1> HIDE DEF row
<1> QED
  BY <1>1, <1>2, <1>3, <1>4

\* What SetRun does to the runs.
LEMMA RunTouched ==
  ASSUME AllInv, NEW q \in Runners, pc[q] \in AtTask, NEW status, SetRun(q, status)
  PROVE  /\ \A i \in RunIds : i # run[q] => runs'[i] = runs[i]
         /\ DOMAIN runs' = RunIds /\ runs'[run[q]] = status
<1>1. run[q] \in RunIds /\ DOMAIN runs = RunIds
  BY Mine DEF AllInv, WorkInv
<1> QED
  BY <1>1 DEF SetRun

\* Every step of a run is one of the above.
LEMMA RunGridInv ==
  ASSUME AllInv, NEW q \in Runners, RunGrid(q)
  PROVE  WorkInv' /\ StartsInv' /\ AtHandInv' /\ CountedInv'
<1> DEFINE Good == WorkInv' /\ StartsInv' /\ AtHandInv' /\ CountedInv'
<1>1. SUFFICES Good
  OBVIOUS
<1>2. DOMAIN runs = RunIds
  BY DEF AllInv, WorkInv
<1>3. (\E then : Works(q, then)) => Good
  BY WorksInv
<1>4. (\E told, then : Closes(q, told, then)) => Good
  BY ClosesInv
<1>5. (\E then : Rests(q, then)) => Good
  BY RestsInv
<1> HIDE DEF Good
<1>6. CASE ListPending(q)
  BY <1>6, ListsInv DEF Good
<1>7. CASE StartTask(q)
  BY <1>7, BeginsInv DEF Good
<1>8. CASE RegisterRun(q) \/ BeginTraining(q)
  <2>1. pc[q] \in AtTask /\ SetRun(q, "running")
    BY <1>8 DEF RegisterRun, BeginTraining, AtTask, Guarded
  <2>2. Touches(q)
    BY <1>8, <2>1, RunTouched DEF Touches, RegisterRun, BeginTraining, history
  <2>3. Works(q, "announce") \/ Works(q, "train")
    BY <1>8, <2>1, <2>2 DEF Works, RegisterRun, BeginTraining, Goto, AtTask, Guarded
  <2> QED
    BY <1>3, <2>3
<1>9. CASE LogStart(q)
  <2>1. Touches(q)
    BY <1>2, <1>9 DEF Touches, LogStart, LogEvent, history
  <2>2. Works(q, "validate")
    BY <1>9, <2>1 DEF Works, LogStart, Goto, AtTask, Guarded
  <2> QED
    BY <1>3, <2>2
<1>10. CASE EndTraining(q)
  <2>1. pc[q] = "train" /\ pc[q] \in AtTask
        /\ UNCHANGED <<now, creation, rows, log, listed, todo, run, tally, stopOnError, starts>>
    BY <1>10 DEF EndTraining, AtTask, Guarded, history
  <2>2. CASE SetRun(q, "success") /\ Goto(q, "evaluate")
    <3>1. Touches(q) /\ runs'[run[q]] = "success"
      BY <2>1, <2>2, RunTouched DEF Touches
    <3>2. Works(q, "evaluate")
      BY <2>1, <2>2, <3>1 DEF Works, Goto, AtTask, Guarded
    <3> QED
      BY <1>3, <3>2
  <2>3. CASE SetRun(q, "failed") /\ Goto(q, "mark")
    <3>1. Touches(q)
      BY <2>1, <2>3, RunTouched DEF Touches
    <3>2. Works(q, "mark")
      BY <2>1, <2>3, <3>1 DEF Works, Goto, AtTask, Guarded
    <3> QED
      BY <1>3, <3>2
  <2> QED
    BY <1>10, <2>2, <2>3 DEF EndTraining
<1>11. CASE Evaluated(q)
  <2>1. Touches(q)
    BY <1>2, <1>11 DEF Touches, Evaluated
  <2>2. Works(q, "finish")
    BY <1>11, <2>1 DEF Works, Evaluated, Goto, AtTask, Guarded
  <2> QED
    BY <1>3, <2>2
<1>12. CASE FinishSuccess(q)
  <2>1. pc[q] \in AtTask /\ SetStatus(q, "success")
    BY <1>12 DEF FinishSuccess, AtTask, Guarded
  <2>2. Touches(q) /\ listed[q].of = creation => rows'[Order(q)].status = "success"
    BY <2>1, RowTouched
  <2>3. Touches(q)
    BY <1>2, <1>12, <2>1, RowTouched DEF Touches, FinishSuccess, history
  <2>4. Works(q, "note")
    BY <1>12, <2>2, <2>3 DEF Works, FinishSuccess, Goto, AtTask, Guarded
  <2> QED
    BY <1>3, <2>4
<1>13. CASE FinishFailed(q)
  <2>1. pc[q] \in AtTask /\ SetStatus(q, "failed")
    BY <1>13 DEF FinishFailed, AtTask, Guarded
  <2>2. listed[q].of = creation => rows'[Order(q)].status = "failed"
    BY <2>1, RowTouched
  <2>3. Touches(q)
    BY <1>2, <1>13, <2>1, RowTouched DEF Touches, FinishFailed, history
  <2>4. Works(q, "complain")
    BY <1>13, <2>2, <2>3 DEF Works, FinishFailed, Goto, AtTask, Guarded
  <2> QED
    BY <1>3, <2>4
<1>14. CASE MarkRunFailed(q)
  <2>1. pc[q] \in AtTask /\ SetRun(q, "failed")
    BY <1>14 DEF MarkRunFailed, RunStatusAfterError, AtTask, Guarded
  <2>2. Touches(q) /\ runs'[run[q]] = "failed"
    BY <1>14, <2>1, RunTouched DEF Touches, MarkRunFailed, history
  <2>3. Works(q, "fail")
    BY <1>14, <2>2 DEF Works, MarkRunFailed, Goto, AtTask, Guarded
  <2> QED
    BY <1>3, <2>3
<1>15. CASE LogSuccess(q)
  <2>1. Touches(q) /\ <<Task(q), "success">> \in log'
    BY <1>2, <1>15 DEF Touches, LogSuccess, LogEvent, history
  <2>2. tally' = [tally EXCEPT ![q] = [tally[q] EXCEPT !.success = @ \union {Order(q)}]]
    BY <1>15 DEF LogSuccess
  <2>3. Closes(q, "success", "next")
    BY <1>15, <2>1, <2>2 DEF Closes, LogSuccess, Goto, Done
  <2> QED
    BY <1>4, <2>3
<1>16. CASE LogFailure(q)
  <2>1. Touches(q) /\ <<Task(q), "failed">> \in log'
    BY <1>2, <1>16 DEF Touches, LogFailure, LogEvent, history
  <2>2. tally' = [tally EXCEPT ![q] = [tally[q] EXCEPT !.failed = @ \union {Order(q)}]]
    BY <1>16 DEF LogFailure
  <2>3. Closes(q, "failed", "next") \/ Closes(q, "failed", "returned")
    BY <1>16, <2>1, <2>2 DEF Closes, LogFailure, Goto, Done, StopsHere
  <2> QED
    BY <1>4, <2>3
<1>17. CASE (Raise(q) \/ Return(q) \/ Crash(q)) /\ pc[q] \notin AtTask
  <2>1. pc[q] = "next"
    BY <1>17 DEF Raise, Return, Crash, AtTask, Places, AllInv, WorkInv
  <2> QED
    BY <1>5, <1>17, <2>1 DEF Rests, Raise, Return, Crash, Goto, AfterError, Guarded, history
<1>18. CASE (Raise(q) \/ Crash(q)) /\ pc[q] \in AtTask
  <2>1. Touches(q)
    BY <1>2, <1>18 DEF Touches, Raise, Crash, history
  <2>2. Works(q, "mark") \/ Works(q, "raised") \/ Works(q, "dead")
    BY <1>18, <2>1 DEF Works, Raise, Crash, Goto, AfterError, AtTask, Guarded
  <2> QED
    BY <1>3, <2>2
<1>19. Return(q) => pc[q] \notin AtTask
  BY DEF Return, AtTask, Guarded
<1> QED
  BY <1>6, <1>7, <1>8, <1>9, <1>10, <1>11, <1>12, <1>13, <1>14, <1>15, <1>16, <1>17,
    <1>18, <1>19 DEF RunGrid

\* The invariant holds at the start.
LEMMA AllInvInit == Init => AllInv
<1> SUFFICES ASSUME Init PROVE AllInv
  OBVIOUS
<1>1. WorkInv
  BY GridAssumption DEF Init, WorkInv, Counted, AtTask, Guarded, Orders, Places
<1> QED
  BY <1>1, InitInv DEF Init, AllInv, StartsInv, AtHandInv, CountedInv, Counted, AtTask, Guarded

\* Every step keeps it.
LEMMA AllInvNext == AllInv /\ [Next]_vars => AllInv'
<1> SUFFICES ASSUME AllInv, [Next]_vars PROVE AllInv'
  OBVIOUS
<1>1. Inv'
  BY NextInv DEF AllInv
<1>2. WorkInv' /\ StartsInv' /\ AtHandInv' /\ CountedInv'
  BY OutsideInv, RunGridInv DEF Next
<1> QED
  BY <1>1, <1>2 DEF AllInv

\* What run_grid returns is so: the tasks it had to itself and counted have the
\* counted status in the task table, in model_run and in the event log, and only
\* --stop-on-error leaves others pending; for any number of concurrent runs and
\* new creations, and whatever database call of theirs raises.
THEOREM SummaryTrue == Spec => []SummaryIsTrue
<1>1. AllInv => SummaryIsTrue
  <2> SUFFICES ASSUME AllInv, NEW r \in Runners, pc[r] = "returned",
                      listed[r].of = creation, NEW o \in listed[r].orders,
                      Undisturbed(r, o)
               PROVE  IF o \in tally[r].success \union tally[r].failed
                      THEN LET told == IF o \in tally[r].success THEN "success" ELSE "failed"
                           IN  /\ rows[o].status = told /\ runs[rows[o].run] = told
                               /\ <<<<creation, o>>, told>> \in log
                      ELSE rows[o].status = "pending" /\ stopOnError[r]
    BY DEF SummaryIsTrue
  <2>1. o \in Orders
    BY DEF AllInv, Inv, TypeInv
  <2>2. CASE o \in Counted(r)
    BY <2>1, <2>2 DEF AllInv, CountedInv, Told, Counted
  <2>3. CASE o \notin Counted(r)
    <3>1. o \in todo[r] /\ stopOnError[r]
      BY <2>3 DEF AllInv, WorkInv
    <3>2. ASSUME rows[o].status # "pending"
          PROVE  FALSE
      <4>1. PICK s \in starts : s.task = <<creation, o>>
        BY <2>1, <3>2 DEF AllInv, Inv, NewRowsAreUntouched
      <4>2. s.by = r
        BY <4>1 DEF Undisturbed
      <4>3. s.task[2] = o /\ pc[r] \notin AtTask \union {"raised", "dead"}
        BY <4>1 DEF AtTask, Guarded
      <4> QED
        BY <3>1, <4>2, <4>3 DEF AllInv, StartsInv
    <3> QED
      BY <2>3, <3>1, <3>2 DEF Counted
  <2> QED
    BY <2>2, <2>3
<1> QED
  BY <1>1, AllInvInit, AllInvNext, PTL DEF Spec
===============================================================================

-------------------------------- MODULE KpiLab --------------------------------
(***************************************************************************)
(* kpi_lab: a laboratory that searches for a forecasting model worth its   *)
(* tickets (state_machine.py) and the hash chained ledger it writes to     *)
(* (ledger.py).  A lab is one process.  Its directory, and so its ledger   *)
(* and its report.json, is named after the game and the second it started: *)
(* labs of one second share them, each with the end of the chain as it     *)
(* found it when it started.                                               *)
(*                                                                         *)
(* A ledger file is its last hash and whether verify() still accepts it;   *)
(* an entry's hash is the lab that wrote it and how many it had written.   *)
(* The entries of one lab are its journal.  A coverage is the number of    *)
(* tickets the packing bound wants for it (lower_bound_for).               *)
(***************************************************************************)
EXTENDS Integers, Sequences, SequencesExt, FiniteSets

CONSTANTS Labs, Sessions,
          Bound,          \* tickets the packing bound wants for the target
          Kpis,           \* the definitions each lab may be started with
          Deltas, MinArmDelta,   \* differences between two arms, as integers
          MaxExperiments, MaxFailures,
          GridSize,       \* combinations the grid proposer knows
          None

ASSUME KpiAssumption ==
  /\ Bound \in Nat /\ Deltas \subseteq Int /\ MinArmDelta \in Int
  /\ \A l \in Labs : Kpis[l] \subseteq
       [objective : {"arm_delta", "raw_coverage"}, tickets : Nat, llm : BOOLEAN]
  /\ MaxExperiments \in Nat \ {0} /\ MaxFailures \in Nat /\ GridSize \in Nat

\* The terminal states a run ends in: nothing assigns PROTOCOL_VIOLATION.
Verdicts == {"KPI_INFEASIBLE", "KPI_MET_DEGENERATE", "LEAK_DETECTED_SUSPENDED",
             "BUDGET_EXHAUSTED", "KPI_MET_VERIFIED", "KPI_MET_NO_MODEL_VALUE"}
\* The scored experiments.
Records == [event : {"experiment"}, index : 0..MaxExperiments,
            source : {"llm", "grid"}, delta : Deltas]

ASSUME NoneAssumption ==
  None \notin Deltas /\ None \notin Verdicts /\ None \notin Records

VARIABLES
  pc,            \* the step each lab is at
  session,       \* the directory of a lab
  kpi,           \* objective, n_tickets and whether an LLM endpoint is given
  journal,       \* the entries each lab has appended
  head,          \* _last_hash of each lab's ledger object
  search,        \* index, failures, proposer, grid cursor, best of the loop
  experiments,   \* the records each lab holds in memory
  verdict,       \* the terminal state a lab is about to report
  intact,        \* the ledger_integrity it is about to report
  tail,          \* the last hash in each ledger file
  chained,       \* whether verify() accepts each ledger file
  report,        \* report.json of each directory
  later,         \* history variable: the labs that opened a lab's ledger
                 \* between its terminal entry and its verify()
  alone          \* history variable: nobody but those wrote to a lab's ledger
                 \* from its construction to its verify()

own == <<session, kpi, search, experiments, verdict, intact>>
files == <<tail, chained, alone, later>>
vars == <<pc, own, journal, head, files, report>>

Genesis == <<None, 0>>
Stop == {"reported", "raised", "dead"}
\* Between the construction of the ledger object and the terminal entry.
Recording == {"init", "gate", "freeze", "baseline", "controls", "enter", "loop",
              "fallback", "build", "confirm", "terminate"}
\* Between the construction of the ledger object and its verify().
Watching == Recording \union {"verify"}
Active == Watching \union {"report", "written"}
FreshSearch(llm) ==
  [index |-> 0, failures |-> 0, proposer |-> IF llm THEN "llm" ELSE "grid",
   cursor |-> 0, best |-> None]

Init ==
  /\ pc = [l \in Labs |-> "new"]
  /\ session = [l \in Labs |-> None] /\ kpi = [l \in Labs |-> None]
  /\ journal = [l \in Labs |-> << >>] /\ head = [l \in Labs |-> Genesis]
  /\ search = [l \in Labs |-> FreshSearch(FALSE)]
  /\ experiments = [l \in Labs |-> << >>]
  /\ verdict = [l \in Labs |-> None] /\ intact = [l \in Labs |-> FALSE]
  /\ tail = [s \in Sessions |-> Genesis] /\ chained = [s \in Sessions |-> TRUE]
  /\ report = [s \in Sessions |-> None]
  /\ alone = [l \in Labs |-> TRUE] /\ later = [l \in Labs |-> {}]

Goto(l, step) == pc' = [pc EXCEPT ![l] = step]

\* KpiLab.__init__, with the ledger's _tail.
Construct(l) ==
  /\ pc[l] = "new"
  /\ \E s \in Sessions, k \in Kpis[l] :
       /\ session' = [session EXCEPT ![l] = s]
       /\ kpi' = [kpi EXCEPT ![l] = k]
       /\ search' = [search EXCEPT ![l] = FreshSearch(k.llm)]
       /\ head' = [head EXCEPT ![l] = tail[s]]
       /\ later' = [m \in Labs |-> IF pc[m] = "verify" /\ session[m] = s
                                    THEN later[m] \union {l} ELSE later[m]]
  /\ Goto(l, "init")
  /\ UNCHANGED <<journal, experiments, verdict, intact, tail, chained, alone, report>>

(* ------------------------------ the ledger ------------------------------ *)

\* Mutant of Previous.
EndOfFile(l) == tail[session[l]]

Previous(l) == head[l]

\* ExperimentLedger.append: the entry follows the one this object knows last.
Write(l, entry) ==
  LET s == session[l]
      hash == <<l, Len(journal[l]) + 1>>
  IN  /\ journal' = [journal EXCEPT ![l] = Append(@, entry)]
      /\ head' = [head EXCEPT ![l] = hash]
      /\ tail' = [tail EXCEPT ![s] = hash]
      /\ chained' = [chained EXCEPT ![s] = @ /\ Previous(l) = tail[s]]
      /\ alone' = [k \in Labs |-> alone[k] /\ ~(/\ k # l /\ session[k] = s
                                               /\ pc[k] \in Watching
                                               /\ l \notin later[k])]
      /\ UNCHANGED later

Log(l, event) == Write(l, [event |-> event])

(* ------------------------- before the search loop ----------------------- *)

Enter(l, at, event, then) ==
  /\ pc[l] = at
  /\ Log(l, event)
  /\ Goto(l, then)
  /\ UNCHANGED <<own, report>>

EnterInit(l) == Enter(l, "init", "INIT", "gate")

IsDegenerate(l) == kpi[l].tickets >= Bound

Sentence(l, state) == verdict' = [verdict EXCEPT ![l] = state]

FeasibilityGate(l) ==
  /\ pc[l] = "gate"
  /\ Log(l, "FEASIBILITY_GATE")
  /\ \/ /\ kpi[l].tickets < Bound
        /\ Sentence(l, "KPI_INFEASIBLE") /\ Goto(l, "terminate")
     \/ /\ kpi[l].tickets >= Bound
        /\ IsDegenerate(l) /\ kpi[l].objective = "raw_coverage"
        /\ Sentence(l, "KPI_MET_DEGENERATE") /\ Goto(l, "terminate")
     \/ /\ kpi[l].tickets >= Bound
        /\ ~(IsDegenerate(l) /\ kpi[l].objective = "raw_coverage")
        /\ Goto(l, "freeze") /\ UNCHANGED verdict
  /\ UNCHANGED <<session, kpi, search, experiments, intact, report>>

ProtocolFreeze(l) == Enter(l, "freeze", "PROTOCOL_FREEZE", "baseline")
Baseline(l) == Enter(l, "baseline", "BASELINE_ARM_A", "controls")

\* The suite is suspended by false positives, or by a positive control that
\* did not fire.
Controls(l) ==
  /\ pc[l] = "controls"
  /\ \E suspend \in BOOLEAN :
       /\ Write(l, [event |-> "NEGATIVE_CONTROL_CALIB", suspend |-> suspend])
       /\ IF suspend
          THEN Sentence(l, "LEAK_DETECTED_SUSPENDED") /\ Goto(l, "terminate")
          ELSE Goto(l, "enter") /\ UNCHANGED verdict
  /\ UNCHANGED <<session, kpi, search, experiments, intact, report>>

EnterSearch(l) == Enter(l, "enter", "SEARCH_LOOP", "loop")

\* Too few draws: _split before the protocol is frozen, the control suite.
TooLittleData(l) ==
  /\ pc[l] \in {"freeze", "controls"}
  /\ Goto(l, "raised")
  /\ UNCHANGED <<own, journal, head, files, report>>

(* ------------------------------- the search ----------------------------- *)

GridProposes(s) == s.cursor < GridSize
\* The loop index goes up whether or not there is anything to build.
Barren(s) == [s EXCEPT !.index = @ + 1, !.failures = @ + 1]

MayGoOn(l) ==
  search[l].index < MaxExperiments /\ search[l].failures < MaxFailures

Proposals(l) ==
  IF search[l].proposer = "llm" THEN {"UNAVAILABLE", "REJECTED", "ACCEPTED"}
  ELSE IF GridProposes(search[l]) THEN {"ACCEPTED"} ELSE {"REJECTED"}

\* The grid moves its cursor with every combination it hands out.
Took(s) == IF s.proposer = "grid" THEN [s EXCEPT !.cursor = @ + 1] ELSE s

\* Mutant of AfterRejection.
TryAgain(s) == s

AfterRejection(s) == Barren(s)

Propose(l) ==
  /\ pc[l] = "loop" /\ MayGoOn(l)
  /\ \E status \in Proposals(l) :
       /\ Write(l, [event |-> "proposal_batch", status |-> status])
       /\ Goto(l, CASE status = "UNAVAILABLE" -> "fallback"
                    [] status = "REJECTED" -> "loop"
                    [] status = "ACCEPTED" -> "build")
       /\ search' = [search EXCEPT ![l] =
            CASE status = "UNAVAILABLE" -> @
              [] status = "REJECTED" -> AfterRejection(@)
              [] status = "ACCEPTED" -> Took(@)]
  /\ UNCHANGED <<session, kpi, experiments, verdict, intact, report>>

\* From here on the grid proposes.
Demoted(s) == [s EXCEPT !.proposer = "grid", !.cursor = @ + 1]

Fallback(l) ==
  /\ pc[l] = "fallback"
  /\ Log(l, "proposer_fallback")
  /\ IF GridProposes(search[l])
     THEN /\ search' = [search EXCEPT ![l] = Demoted(@)]
          /\ Goto(l, "build")
     ELSE /\ search' = [search EXCEPT ![l] = Barren([@ EXCEPT !.proposer = "grid"])]
          /\ Goto(l, "loop")
  /\ UNCHANGED <<session, kpi, experiments, verdict, intact, report>>

Record(l, delta) ==
  [event |-> "experiment", index |-> search[l].index,
   source |-> search[l].proposer, delta |-> delta]

\* Mutant of Improves.
LatestWins(delta, best) == TRUE

Improves(delta, best) == best = None \/ delta > best.delta

\* Failed builds go into the ledger, too.
Recorded(l, r) == Write(l, r)

\* An arm is built and scored on the calibration window, or fails to be; a
\* failure has no delta.
Experiment(l) ==
  /\ pc[l] = "build"
  /\ \E delta \in Deltas \union {None} :
       LET s == search[l]
           r == Record(l, delta)
       IN  /\ experiments' = [experiments EXCEPT ![l] = Append(@, r)]
           /\ Recorded(l, r)
           /\ search' = [search EXCEPT ![l] =
                IF delta = None THEN Barren(s)
                ELSE [s EXCEPT !.index = @ + 1, !.failures = 0,
                        !.best = IF Improves(delta, @) THEN r ELSE @]]
  /\ Goto(l, "loop")
  /\ UNCHANGED <<session, kpi, verdict, intact, report>>

\* The runtime limit may end the loop at any turn.
EndSearch(l) ==
  /\ pc[l] = "loop"
  /\ IF search[l].best = None
     THEN Sentence(l, "BUDGET_EXHAUSTED") /\ Goto(l, "terminate")
     ELSE Goto(l, "confirm") /\ UNCHANGED verdict
  /\ UNCHANGED <<session, kpi, search, experiments, intact, journal, head, files,
                 report>>

(* ---------------------------- the confirmation -------------------------- *)

Beats(c) == c.delta > MinArmDelta /\ c.rejected

Terminal(l, c) ==
  IF Beats(c) THEN "KPI_MET_VERIFIED"
  ELSE IF IsDegenerate(l) /\ c.reached >= Bound THEN "KPI_MET_DEGENERATE"
  ELSE "KPI_MET_NO_MODEL_VALUE"

\* The best arm is built again and scored on the sealed window.  A measured
\* coverage the tickets could not reach makes KpiMeasurement raise.
Confirm(l) ==
  /\ pc[l] = "confirm"
  /\ \E delta \in Deltas, rejected \in BOOLEAN, reached \in 0..kpi[l].tickets + 1 :
       LET c == [event |-> "CONFIRMATION", of |-> search[l].best.index,
                 delta |-> delta, rejected |-> rejected, reached |-> reached]
       IN  IF reached > kpi[l].tickets
           THEN Goto(l, "raised") /\ UNCHANGED <<verdict, journal, head, files>>
           ELSE /\ Write(l, c)
                /\ Sentence(l, Terminal(l, c))
                /\ Goto(l, "terminate")
  /\ UNCHANGED <<session, kpi, search, experiments, intact, report>>

(* ------------------------------ _terminate ------------------------------ *)

Terminate(l) ==
  /\ pc[l] = "terminate"
  /\ Log(l, verdict[l])
  /\ Goto(l, "verify")
  /\ UNCHANGED <<own, report>>

\* verify() opens the file anew: it reads what others have appended since.
Verify(l) ==
  /\ pc[l] = "verify"
  /\ intact' = [intact EXCEPT ![l] = chained[session[l]]]
  /\ Goto(l, "report")
  /\ UNCHANGED <<session, kpi, search, experiments, verdict, journal, head, files,
                 report>>

WriteReport(l) ==
  /\ pc[l] = "report"
  /\ report' = [report EXCEPT ![session[l]] =
       [lab |-> l, state |-> verdict[l], intact |-> intact[l],
        experiments |-> experiments[l]]]
  /\ Goto(l, "written")
  /\ UNCHANGED <<own, journal, head, files>>

NoteReport(l) == Enter(l, "written", "report_written", "reported")

Crash(l) ==
  /\ pc[l] \in Active
  /\ Goto(l, "dead")
  /\ UNCHANGED <<own, journal, head, files, report>>

(* ---------------------------- specification ----------------------------- *)

Step(l) ==
  \/ EnterInit(l) \/ FeasibilityGate(l) \/ ProtocolFreeze(l) \/ Baseline(l)
  \/ Controls(l) \/ EnterSearch(l) \/ TooLittleData(l) \/ Propose(l)
  \/ Fallback(l) \/ Experiment(l) \/ EndSearch(l) \/ Confirm(l) \/ Terminate(l)
  \/ Verify(l) \/ WriteReport(l) \/ NoteReport(l)

Next == \E l \in Labs : Construct(l) \/ Step(l) \/ Crash(l)

Spec == Init /\ [][Next]_vars

(* ------------------------------ properties ------------------------------ *)

Entries(l) == ToSet(journal[l])

\* The experiments a journal tells of, in its order.
ExperimentsOf(j) ==
  LET E[i \in 0..Len(j)] == IF i = 0 THEN << >>
                            ELSE IF j[i].event = "experiment" THEN Append(E[i - 1], j[i])
                            ELSE E[i - 1]
  IN  E[Len(j)]

\* A lab that finds its chain intact was the only one to write to its ledger
\* from its construction to its verify(), but for labs that opened the ledger
\* after its terminal entry: those follow all it has written, and verify()
\* accepts their entries.  A lab of the same second that opened the ledger
\* earlier, before or after this one, cannot have slipped an entry in, before
\* or after the terminal entry, and left no trace.
IntactMeansAlone == \A l \in Labs : intact[l] => alone[l]

\* A claim of skill rests on controls that behaved and on a confirmation that
\* rejected the null, of the first among the best experiments of the search; and
\* the report that makes it lists what the ledger recorded, in that order,
\* failed builds and those after the best one included.  It does not say that
\* the target was reached, which the verdict does not look at.
VerifiedIsEarned ==
  \A s \in Sessions :
    report[s] # None /\ report[s].state = "KPI_MET_VERIFIED" =>
      LET l == report[s].lab
          found == {e \in ToSet(report[s].experiments) : e.delta # None}
      IN  /\ report[s].experiments = ExperimentsOf(journal[l])
          /\ [event |-> "NEGATIVE_CONTROL_CALIB", suspend |-> FALSE] \in Entries(l)
          /\ \E c \in Entries(l), e \in found :
               /\ c.event = "CONFIRMATION" /\ c.rejected /\ c.delta > MinArmDelta
               /\ c.of = e.index
               /\ \A f \in found :
                    \/ f.delta < e.delta
                    \/ f.delta = e.delta /\ e.index <= f.index

\* "Hard limits": neither fallbacks nor rejections buy a lab more turns than
\* its experiments, nor one after as many barren turns in a row as it may have.
HardLimits ==
  \A l \in Labs :
    LET batches == {i \in DOMAIN journal[l] :
                      journal[l][i].event = "proposal_batch"}
        turns(i, j) == Cardinality(batches \intersect i..j - 1)
    IN  /\ Cardinality(batches) <= MaxExperiments
        /\ \A i, j \in batches :
             i < j /\ turns(i, j) = MaxFailures =>
               \E k \in i..j : /\ journal[l][k].event = "experiment"
                               /\ journal[l][k].delta # None

\* state_machine.py: "KPI_MET_VERIFIED Target reached, the model arm beat the
\* reference arm, the e-process crossed 1/alpha, and every control behaved."
VerifiedMeansReached ==
  \A s \in Sessions :
    report[s] # None /\ report[s].state = "KPI_MET_VERIFIED" =>
      \E c \in Entries(report[s].lab) :
        c.event = "CONFIRMATION" /\ c.reached >= Bound

\* state_machine.py: "KPI_MET_NO_MODEL_VALUE Target reached, but the model arm
\* did not beat the data-free reference arm."
NoModelValueMeansReached ==
  \A s \in Sessions :
    report[s] # None /\ report[s].state = "KPI_MET_NO_MODEL_VALUE" =>
      \E c \in Entries(report[s].lab) :
        c.event = "CONFIRMATION" /\ c.reached >= Bound
=============================================================================

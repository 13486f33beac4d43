--------------------------- MODULE RunTransitions ---------------------------
(***************************************************************************)
(* The transition matrix of a forecast run and the decision the transition *)
(* engine takes on one command (run_lifecycle/transitions.py).  Phases are *)
(* numbered in the order of the RunPhase enumeration: the code has eleven, *)
(* from PLAN to COMPLETE.                                                  *)
(***************************************************************************)
EXTENDS Naturals

CONSTANT COMPLETE    \* the number of the last phase (11 in the code)

ASSUME CompleteAssumption == COMPLETE \in Nat /\ COMPLETE >= 2

PLAN == 1
RunPhase == PLAN..COMPLETE

RunStatus == {"PENDING", "RUNNING", "SUCCEEDED", "RETRYABLE_FAILURE",
              "BLOCKED", "CANCELLED", "TIMED_OUT", "TERMINAL_FAILURE"}

RunCommandType ==
  {"START", "MARK_SUCCEEDED", "MARK_RETRYABLE_FAILURE", "MARK_BLOCKED",
   "MARK_TIMED_OUT", "MARK_TERMINAL_FAILURE", "RETRY", "RESUME", "CANCEL"}

-----------------------------------------------------------------------------
Rule(phase, status, command, toPhase, toStatus) ==
  [from_phase |-> phase, from_status |-> status, command_type |-> command,
   to_phase |-> toPhase, to_status |-> toStatus]

\* MARK_SUCCEEDED is the only command that leaves a phase.
SucceedRule(phase) ==
  Rule(phase, "RUNNING", "MARK_SUCCEEDED", phase + 1,
       IF phase + 1 = COMPLETE THEN "SUCCEEDED" ELSE "PENDING")

\* The command that records an outcome of a running phase, and that outcome.
Outcomes == { <<"MARK_RETRYABLE_FAILURE", "RETRYABLE_FAILURE">>,
              <<"MARK_BLOCKED", "BLOCKED">>,
              <<"MARK_TIMED_OUT", "TIMED_OUT">>,
              <<"MARK_TERMINAL_FAILURE", "TERMINAL_FAILURE">> }

Cancellable == {"PENDING", "RUNNING", "RETRYABLE_FAILURE", "BLOCKED", "TIMED_OUT"}

RulesFrom(phase) ==
  { Rule(phase, "PENDING", "START", phase, "RUNNING"),
    SucceedRule(phase),
    Rule(phase, "RETRYABLE_FAILURE", "RETRY", phase, "RUNNING"),
    Rule(phase, "BLOCKED", "RESUME", phase, "RUNNING"),
    Rule(phase, "TIMED_OUT", "RESUME", phase, "RUNNING") }
    \cup { Rule(phase, "RUNNING", o[1], phase, o[2]) : o \in Outcomes }
    \cup { Rule(phase, s, "CANCEL", phase, "CANCELLED") : s \in Cancellable }

TRANSITION_RULES == UNION { RulesFrom(p) : p \in RunPhase \ {COMPLETE} }

\* TRANSITION_MATRIX.get(...): the rules under one key, none or one of them.
MatrixRules(phase, status, command) ==
  { r \in TRANSITION_RULES :
      r.from_phase = phase /\ r.from_status = status /\ r.command_type = command }

-----------------------------------------------------------------------------
is_terminal(aggregate) ==
  \/ aggregate.status \in {"CANCELLED", "TERMINAL_FAILURE"}
  \/ aggregate.phase = COMPLETE /\ aggregate.status = "SUCCEEDED"

(* decide: the rule that applies to the command, none when it is rejected. *)
(* The run identifier is not compared: the service looks the aggregate up  *)
(* under the identifier of the command.                                    *)
decide(aggregate, command) ==
  IF /\ aggregate.revision = command.expected_revision
     /\ aggregate.phase = command.phase
     /\ ~ is_terminal(aggregate)
  THEN MatrixRules(aggregate.phase, aggregate.status, command.type)
  ELSE {}
=============================================================================

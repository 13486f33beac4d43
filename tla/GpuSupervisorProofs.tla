------------------------- MODULE GpuSupervisorProofs -------------------------
(***************************************************************************)
(* For any number of supervisors in any modes, killed, hung or not: one    *)
(* forecast at a time, behind a closed gate, but for those whose own       *)
(* supervisor stopped watching them; and whoever stopped the LLM and knows *)
(* it, or kept it, opens the gate over the LLM it last saw.                *)
(*                                                                         *)
(* The argument is the lock file: whoever is between its creation and its  *)
(* removal, or died there, is the one who drives gate, LLM and GPU.        *)
(***************************************************************************)
EXTENDS GpuSupervisor, TLAPS

Outside == {"idle", "rejected", "done"}
Shut == {"decide", "ready", "stop", "waitDown", "waitFree", "launch", "monitor"}
Inside == Shut \union
  {"preflight", "quiesce", "drain", "close", "waitAfter", "continuity",
   "start", "waitUp", "recover", "verify", "open", "release"}
Modes == {"handoff", "undecided", "coexist", "block"}

Locals ==
  [initially : BOOLEAN, stopped : BOOLEAN, verified : BOOLEAN, closed : BOOLEAN,
   stable : Nat, basePid : Nat, checked : Nat, ok : BOOLEAN, mode : Modes]

ControlInv ==
  /\ pc \in [Supervisors -> Outside \union Inside \union {"crashed", "hung"}]
  /\ child \in [Supervisors -> {"none", "running", "exited", "left"}]
  /\ gate \in {"open", "quiesced", "closed"} /\ inFlight \in Nat
  /\ llm \in {"up", "down", "stopping", "starting"} /\ pid \in Nat /\ reloads \in Nat
LocalInv == local \in [Supervisors -> Locals]
TypeInv == ControlInv /\ LocalInv

\* The mode that goes with a place in run.
ModeAt(place, mode) ==
  /\ place \in {"stop", "waitDown", "waitFree", "start", "waitUp"} =>
       mode = "handoff"
  /\ place \in {"ready", "continuity", "recover", "verify"} => mode = "coexist"
  /\ place \in {"launch", "monitor", "waitAfter"} => mode \in {"handoff", "coexist"}
ModeInv == \A s \in Supervisors : ModeAt(pc[s], local[s].mode)

\* The lock file is of the supervisor at work, also when it hangs or has died.
LockInv == \A s \in Supervisors : pc[s] \notin Outside => lock = s

ForecastIsWatched ==
  \A s \in Supervisors : child[s] = "running" => pc[s] \in {"monitor", "crashed", "hung"}

\* The way to the closed gate, which stays until the forecast is over.
GateInv ==
  \A s \in Supervisors :
    /\ pc[s] \in {"drain", "close"} \union Shut => gate # "open"
    /\ pc[s] = "close" => inFlight = 0
    /\ pc[s] \in Shut \/ child[s] = "running" => gate = "closed" /\ inFlight = 0

ForecastInv == TypeInv /\ ModeInv /\ LockInv /\ ForecastIsWatched /\ GateInv

\* Nothing is verified before the end of the finally clause.
NotesAt(place, v) == place \in ({"idle"} \union Inside) \ {"open", "release"} => ~ v.verified
NotesInv == \A s \in Supervisors : NotesAt(pc[s], local[s])

\* An LLM that was told to load stops for nobody, and one that was verified is
\* as it was then while the gate is not open and nobody disturbed it.
UpAt(place, v, runtime, process, loads, admission) ==
  /\ place = "waitUp" => runtime # "stopping"
  /\ place = "open" /\ v.verified =>
       /\ v.checked <= loads
       /\ loads = v.checked /\ admission # "open" =>
            /\ v.mode = "handoff" => runtime = "up"
            /\ v.mode = "coexist" => process = v.basePid
UpInv == \A s \in Supervisors : UpAt(pc[s], local[s], llm, pid, reloads, gate)

HealthInv == ForecastInv /\ NotesInv /\ UpInv

-----------------------------------------------------------------------------
(* Types and control                                                       *)

LEMMA Updates ==
  ASSUME NEW v \in Locals
  PROVE  /\ [v EXCEPT !.stable = 0] \in Locals
         /\ [v EXCEPT !.stable = @ + 1] \in Locals
         /\ [v EXCEPT !.stopped = TRUE] \in Locals
         /\ [v EXCEPT !.closed = TRUE] \in Locals
         /\ \A n \in Nat :
              [v EXCEPT !.verified = TRUE, !.checked = n, !.ok = TRUE] \in Locals
         /\ \A b \in BOOLEAN : /\ [v EXCEPT !.initially = b] \in Locals
                              /\ \A n \in Nat :
                                   [v EXCEPT !.verified = b, !.checked = n] \in Locals
                              /\ [v EXCEPT !.ok = b] \in Locals
                              /\ [v EXCEPT !.ok = @ /\ b] \in Locals
         /\ \A mode \in Modes, n \in Nat :
              [v EXCEPT !.mode = mode, !.basePid = n] \in Locals
<1> USE DEF Locals
<1>1. [v EXCEPT !.stable = 0] \in Locals
  OBVIOUS
<1>2. [v EXCEPT !.stable = @ + 1] \in Locals
  OBVIOUS
<1>3. [v EXCEPT !.stopped = TRUE] \in Locals
  OBVIOUS
<1>4. [v EXCEPT !.closed = TRUE] \in Locals
  OBVIOUS
<1>5. ASSUME NEW n \in Nat
      PROVE  [v EXCEPT !.verified = TRUE, !.checked = n, !.ok = TRUE] \in Locals
  OBVIOUS
<1>6. ASSUME NEW b \in BOOLEAN
      PROVE  /\ [v EXCEPT !.initially = b] \in Locals
             /\ \A n \in Nat : [v EXCEPT !.verified = b, !.checked = n] \in Locals
             /\ [v EXCEPT !.ok = b] \in Locals
  OBVIOUS
<1>7. ASSUME NEW b \in BOOLEAN PROVE [v EXCEPT !.ok = @ /\ b] \in Locals
  OBVIOUS
<1>8. ASSUME NEW mode \in Modes, NEW n \in Nat
      PROVE  [v EXCEPT !.mode = mode, !.basePid = n] \in Locals
  OBVIOUS
<1> HIDE DEF Locals
<1> QED
  BY <1>1, <1>2, <1>3, <1>4, <1>5, <1>6, <1>7, <1>8

\* What Set, Goto and Leave do, pointwise.
LEMMA SetMeans ==
  ASSUME LocalInv, NEW s \in Supervisors, NEW v \in Locals, Set(s, v)
  PROVE  LocalInv' /\ local'[s] = v /\ \A u \in Supervisors \ {s} : local'[u] = local[u]
BY DEF LocalInv, Set

LEMMA GotoMeans ==
  ASSUME ControlInv, NEW s \in Supervisors, NEW label, Goto(s, label)
  PROVE  pc'[s] = label /\ \A u \in Supervisors \ {s} : pc'[u] = pc[u]
BY DEF ControlInv, Goto

LEMMA LeaveMeans ==
  ASSUME TypeInv, NEW s \in Supervisors, NEW v \in Locals, Leave(s, v)
  PROVE  /\ LocalInv'
         /\ pc'[s] = Finally(v)
         /\ local'[s].mode = v.mode /\ local'[s].basePid = v.basePid
         /\ local'[s].initially = v.initially /\ local'[s].stopped = v.stopped
         /\ local'[s].verified = v.verified /\ local'[s].checked = v.checked
         /\ \A u \in Supervisors \ {s} : pc'[u] = pc[u] /\ local'[u] = local[u]
<1>1. Set(s, [v EXCEPT !.stable = 0]) /\ Goto(s, Finally(v))
  BY DEF Leave
<1>2. [v EXCEPT !.stable = 0] \in Locals
  BY Updates
<1> QED
  BY <1>1, <1>2, SetMeans, GotoMeans DEF TypeInv, Locals

LEMMA ModeSet ==
  ASSUME TypeInv, ModeInv, NEW s \in Supervisors, NEW v \in Locals, NEW then,
         Set(s, v), Goto(s, then), ModeAt(then, v.mode)
  PROVE  LocalInv' /\ ModeInv'
BY SetMeans, GotoMeans DEF TypeInv, ModeInv

LEMMA ModeKept ==
  ASSUME TypeInv, ModeInv, NEW s \in Supervisors, NEW then,
         UNCHANGED local, Goto(s, then), ModeAt(then, local[s].mode)
  PROVE  LocalInv' /\ ModeInv'
BY GotoMeans DEF TypeInv, ModeInv, LocalInv

LEMMA ModeLeft ==
  ASSUME TypeInv, ModeInv, NEW s \in Supervisors, NEW v \in Locals, Leave(s, v)
  PROVE  LocalInv' /\ ModeInv'
<1>1. ModeAt(Finally(v), v.mode)
  BY DEF ModeAt, Finally, restore_required
<1> QED
  BY <1>1, LeaveMeans DEF ModeInv

LEMMA ProbeIsBoolean == Probes \subseteq BOOLEAN
<1>1. LlmAnswers \in BOOLEAN
  BY DEF LlmAnswers
<1> QED
  BY <1>1 DEF Probes

LEMMA ModeStep ==
  ASSUME NEW s \in Supervisors, Step(s), TypeInv, ModeInv
  PROVE  LocalInv' /\ ModeInv'
<1>1. local[s] \in Locals
  BY DEF TypeInv, LocalInv
<1>2. ModeAt(pc[s], local[s].mode) /\ reloads \in Nat
  BY DEF ModeInv, TypeInv, ControlInv
<1>3. CASE UNCHANGED local /\ \E then : Goto(s, then) /\ ModeAt(then, local[s].mode)
  BY <1>3, ModeKept
<1>4. CASE Leave(s, local[s])
  BY <1>1, <1>4, ModeLeft
<1>5. CASE AcquireLock(s) \/ LockExists(s) \/ DrainPoll(s)
  BY <1>3, <1>5 DEF AcquireLock, LockExists, DrainPoll, ModeAt
<1>6. CASE Preflight(s)
  <2>1. PICK seen \in BOOLEAN :
          \/ Leave(s, local[s])
          \/ Set(s, [local[s] EXCEPT !.initially = seen]) /\ Goto(s, "quiesce")
    BY <1>6, ProbeIsBoolean, Zenon DEF Preflight
  <2>2. [local[s] EXCEPT !.initially = seen] \in Locals
    BY <1>1, Updates
  <2> QED
    BY <1>4, <2>1, <2>2, ModeSet DEF ModeAt
<1>7. CASE Quiesce(s)
  BY <1>3, <1>4, <1>7 DEF Quiesce, ModeAt
<1>8. CASE Close(s)
  <2> DEFINE v == [local[s] EXCEPT !.closed = TRUE]
  <2>1. \/ Leave(s, local[s])
        \/ Set(s, v) /\ Goto(s, IF local[s].mode = "handoff" THEN StopOrWait(s) ELSE "decide")
    BY <1>8 DEF Close
  <2>2. v \in Locals
    BY <1>1, Updates
  <2>0. v.mode = local[s].mode
    BY <1>1 DEF Locals
  <2>3. StopOrWait(s) \in {"stop", "waitFree"}
    BY DEF StopOrWait
  <2> HIDE DEF v
  <2> QED
    BY <1>4, <2>1, <2>2, <2>0, <2>3, ModeSet DEF ModeAt
<1>9. CASE Decide(s)
  <2>1. PICK profiled \in BOOLEAN, roomy \in BOOLEAN, fallback \in {"handoff", "block"} :
          LET mode == decide_residency(s, profiled, roomy, fallback)
              v == [local[s] EXCEPT !.mode = mode, !.basePid = pid]
          IN  IF mode = "block" THEN Leave(s, v)
              ELSE Set(s, v) /\ Goto(s, IF mode = "handoff" THEN StopOrWait(s) ELSE "ready")
    BY <1>9, Zenon DEF Decide
  <2> DEFINE mode == decide_residency(s, profiled, roomy, fallback)
             v == [local[s] EXCEPT !.mode = mode, !.basePid = pid]
  <2>2. mode \in {"handoff", "block", "coexist"}
    BY DEF decide_residency
  <2>3. v \in Locals
    BY <1>1, <2>2, Updates DEF Modes, TypeInv, ControlInv
  <2>5. v.mode = mode
    BY <1>1 DEF Locals
  <2>4. StopOrWait(s) \in {"stop", "waitFree"}
    BY DEF StopOrWait
  <2> HIDE DEF mode, v
  <2> QED
    BY <2>1, <2>2, <2>3, <2>4, <2>5, ModeLeft, ModeSet DEF ModeAt, mode, v
<1>10. CASE DecideRaises(s) \/ WaitFails(s) \/ LaunchFails(s) \/ MonitorAlarm(s)
  BY <1>4, <1>10 DEF DecideRaises, WaitFails, LaunchFails, MonitorAlarm
<1>11. CASE Ready(s) \/ Stop(s) \/ Launch(s) \/ RecoverFails(s) \/ ReleaseLock(s)
  BY <1>2, <1>3, <1>4, <1>11 DEF Ready, Stop, Launch, RecoverFails, ReleaseLock, ModeAt
<1>12. CASE WaitDown(s)
  <2>1. [local[s] EXCEPT !.stopped = TRUE] \in Locals
    BY <1>1, Updates
  <2>2. [local[s] EXCEPT !.stopped = TRUE].mode = local[s].mode
    BY <1>1 DEF Locals
  <2> QED
    BY <1>2, <1>12, <2>1, <2>2, ModeSet DEF WaitDown, ModeAt
<1>13. CASE Sample(s)
  <2>1. CASE AfterStable(s)
    <3>1. [local[s] EXCEPT !.ok = TRUE] \in Locals
      BY <1>1, Updates
    <3> QED
      BY <1>2, <1>3, <1>13, <2>1, <3>1, ModeLeft DEF Sample, AfterStable, ModeAt
  <2>2. CASE UNCHANGED pc /\ ~ AfterStable(s)
    <3>1. PICK v \in Locals : v.mode = local[s].mode /\ Set(s, v)
      <4>1. /\ [local[s] EXCEPT !.stable = @ + 1] \in Locals
            /\ [local[s] EXCEPT !.stable = 0] \in Locals
        BY <1>1, Updates
      <4>2. /\ [local[s] EXCEPT !.stable = @ + 1].mode = local[s].mode
            /\ [local[s] EXCEPT !.stable = 0].mode = local[s].mode
        BY <1>1 DEF Locals
      <4> QED
        BY <1>13, <2>2, <4>1, <4>2 DEF Sample
    <3>2. Goto(s, pc[s])
      BY <2>2 DEF Goto, TypeInv, ControlInv
    <3> QED
      BY <1>2, <3>1, <3>2, ModeSet
  <2> QED
    BY <1>13, <2>1, <2>2 DEF Sample
<1>14. CASE ForecastReaped(s)
  <2>1. [local[s] EXCEPT !.stable = 0] \in Locals
    BY <1>1, Updates
  <2>2. [local[s] EXCEPT !.stable = 0].mode = local[s].mode
    BY <1>1 DEF Locals
  <2> QED
    BY <1>2, <1>4, <1>14, <2>1, <2>2, ModeSet DEF ForecastReaped, ModeAt
<1>15. CASE Continuity(s)
  <2>1. PICK v \in Locals : Leave(s, v)
    BY <1>1, <1>2, <1>15, Updates, Zenon DEF Continuity
  <2> QED
    BY <2>1, ModeLeft
<1>16. CASE Start(s)
  <2>1. /\ [local[s] EXCEPT !.ok = FALSE] \in Locals
    BY <1>1, Updates
  <2> QED
    BY <1>2, <1>3, <1>16, <2>1, ModeSet DEF Start, ModeAt
<1>17. CASE WaitUp(s)
  <2>1. /\ [local[s] EXCEPT !.ok = FALSE] \in Locals
        /\ [local[s] EXCEPT !.verified = TRUE, !.checked = reloads] \in Locals
    BY <1>1, <1>2, Updates
  <2> QED
    BY <1>17, <2>1, ModeSet DEF WaitUp, ModeAt
<1>18. CASE Verify(s)
  <2>1. PICK seen \in BOOLEAN :
          Set(s, [local[s] EXCEPT !.verified = SameLlm(s, seen), !.checked = reloads])
    BY <1>18, ProbeIsBoolean, Zenon DEF Verify
  <2>2. SameLlm(s, seen) \in BOOLEAN
    BY DEF SameLlm
  <2>3. [local[s] EXCEPT !.verified = SameLlm(s, seen), !.checked = reloads] \in Locals
    BY <1>1, <1>2, <2>2, Updates
  <2> QED
    BY <1>18, <2>1, <2>3, ModeSet DEF Verify, ModeAt
<1>19. CASE Open(s)
  <2>1. PICK v \in Locals : Set(s, v) \/ (v = local[s] /\ UNCHANGED local)
    <3>1. \A b \in BOOLEAN : [local[s] EXCEPT !.ok = @ /\ b] \in Locals
      BY <1>1, Updates
    <3>2. \A post : (post = "done") \in BOOLEAN
      OBVIOUS
    <3> QED
      BY <1>1, <1>19, <3>1, <3>2, Zenon DEF Open
  <2> QED
    BY <1>3, <1>19, <2>1, ModeSet DEF Open, ModeAt
<1> QED
  BY <1>5, <1>6, <1>7, <1>8, <1>9, <1>10, <1>11, <1>12, <1>13, <1>14, <1>15, <1>16,
    <1>17, <1>18, <1>19 DEF Step

LEMMA ControlStep ==
  ASSUME NEW s \in Supervisors, Step(s), ForecastInv
  PROVE  ControlInv' /\ LockInv' /\ ForecastIsWatched' /\ GateInv'
<1> USE SupervisorAssumption
    DEF ForecastInv, TypeInv, ControlInv, LockInv, ForecastIsWatched, GateInv, Outside,
      Inside, Shut, Goto, Leave, Finally, gateVars, llmVars
<1>1. CASE AcquireLock(s)
  BY <1>1 DEF AcquireLock, LockIsFree
<1>2. CASE LockExists(s)
  BY <1>2 DEF LockExists, LockIsFree
<1>3. CASE Preflight(s)
  BY <1>3 DEF Preflight
<1>4. CASE Quiesce(s)
  BY <1>4 DEF Quiesce
<1>5. CASE DrainPoll(s)
  BY <1>5 DEF DrainPoll, Drained
<1>6. CASE Close(s)
  BY <1>6 DEF Close, StopOrWait
<1>7. CASE Decide(s)
  BY <1>7 DEF Decide, StopOrWait, decide_residency
<1>8. CASE DecideRaises(s)
  BY <1>8 DEF DecideRaises
<1>9. CASE Ready(s)
  BY <1>9 DEF Ready
<1>10. CASE Stop(s)
  BY <1>10 DEF Stop
<1>11. CASE WaitDown(s)
  BY <1>11 DEF WaitDown
<1>12. CASE Sample(s)
  <2>1. \/ UNCHANGED pc
        \/ pc[s] = "waitFree" /\ pc' = [pc EXCEPT ![s] = "launch"]
        \/ /\ pc[s] \in {"waitAfter", "recover"}
           /\ \E then \in {"start", "recover", "open", "continuity", "verify"} :
                pc' = [pc EXCEPT ![s] = then]
    BY <1>12 DEF Sample, AfterStable, ModeInv, ModeAt
  <2>2. UNCHANGED <<child, lock, gateVars, llmVars>>
    BY <1>12 DEF Sample
  <2> QED
    BY <2>1, <2>2
<1>13. CASE WaitFails(s)
  BY <1>13 DEF WaitFails
<1>14. CASE Launch(s)
  BY <1>14 DEF Launch
<1>15. CASE LaunchFails(s)
  BY <1>15 DEF LaunchFails
<1>16. CASE ForecastReaped(s)
  BY <1>16 DEF ForecastReaped
<1>17. CASE MonitorAlarm(s)
  BY <1>17 DEF MonitorAlarm, Terminates, Left
<1>18. CASE Continuity(s)
  BY <1>18 DEF Continuity
<1>19. CASE Start(s)
  BY <1>19 DEF Start, Load
<1>20. CASE WaitUp(s)
  BY <1>20 DEF WaitUp
<1>21. CASE Verify(s)
  BY <1>21 DEF Verify
<1>22. CASE RecoverFails(s)
  BY <1>22 DEF RecoverFails
<1>23. CASE Open(s)
  BY <1>23 DEF Open
<1>24. CASE ReleaseLock(s)
  BY <1>24 DEF ReleaseLock
<1> QED
  BY <1>1, <1>2, <1>3, <1>4, <1>5, <1>6, <1>7, <1>8, <1>9, <1>10, <1>11, <1>12, <1>13, <1>14,
    <1>15, <1>16, <1>17, <1>18, <1>19, <1>20, <1>21, <1>22, <1>23, <1>24 DEF Step

LEMMA ForecastMishap ==
  ASSUME NEW s \in Supervisors, Mishap(s), ForecastInv
  PROVE  ForecastInv'
<1>1. local[s] \in Locals
  BY DEF ForecastInv, TypeInv, LocalInv
<1>2. CASE ForecastTimeout(s) \/ MonitorRaises(s)
  <2>1. /\ pc[s] = "monitor" /\ Leave(s, local[s])
        /\ child' \in {[child EXCEPT ![s] = "none"], [child EXCEPT ![s] = "left"]}
        /\ UNCHANGED <<lock, gateVars, llmVars>>
    BY <1>2 DEF ForecastTimeout, MonitorRaises, Terminates, Left
  <2>2. LocalInv' /\ ModeInv'
    BY <1>1, <2>1, ModeLeft DEF ForecastInv
  <2>3. ControlInv' /\ LockInv' /\ ForecastIsWatched' /\ GateInv'
    BY <2>1 DEF ForecastInv, TypeInv, ControlInv, LockInv, ForecastIsWatched, GateInv, Outside,
      Inside, Shut, Goto, Leave, Finally, gateVars, llmVars
  <2> QED
    BY <2>2, <2>3 DEF ForecastInv, TypeInv
<1>3. CASE ProbeHangs(s) \/ Crash(s)
  BY <1>3 DEF ProbeHangs, Crash, ForecastInv, TypeInv, ControlInv, LocalInv, ModeInv, ModeAt,
    LockInv, ForecastIsWatched, GateInv, Outside, Inside, Shut, Goto, gateVars, llmVars
<1> QED
  BY <1>2, <1>3 DEF Mishap

LEMMA ForecastEnvironment ==
  ASSUME Environment, ForecastInv
  PROVE  ForecastInv'
<1> USE SupervisorAssumption
    DEF ForecastInv, TypeInv, ControlInv, LocalInv, ModeInv, ModeAt, LockInv, ForecastIsWatched,
      GateInv, Outside, Inside, Shut, Goto, gateVars, llmVars
<1>1. ASSUME NEW s \in Supervisors, ForecastExits(s) PROVE ForecastInv'
  BY <1>1 DEF ForecastExits
<1>2. CASE Request
  BY <1>2 DEF Request, Load
<1>3. CASE Answer
  BY <1>3 DEF Answer
<1>4. CASE LlmSettles
  BY <1>4 DEF LlmSettles
<1>5. CASE Disturbance
  BY <1>5 DEF Disturbance, Load
<1> QED
  BY <1>1, <1>2, <1>3, <1>4, <1>5, ForecastMishap DEF Environment

\* The invariant of the theorems, and that it always holds.
LEMMA ForecastInit == Init => ForecastInv
BY DEF Init, ForecastInv, TypeInv, ControlInv, LocalInv, Locals, Modes, ModeInv, ModeAt, LockInv,
  ForecastIsWatched, GateInv, Outside, Inside, Shut

LEMMA ForecastNext ==
  ASSUME ForecastInv, [Next]_vars
  PROVE  ForecastInv'
<1>1. CASE UNCHANGED vars
  BY <1>1 DEF vars, gateVars, llmVars, ForecastInv, TypeInv, ControlInv, LocalInv, ModeInv, LockInv,
    ForecastIsWatched, GateInv
<1>2. CASE Environment
  BY <1>2, ForecastEnvironment
<1>3. CASE \E s \in Supervisors : Step(s)
  BY <1>3, ModeStep, ControlStep DEF ForecastInv, TypeInv
<1> QED
  BY <1>1, <1>2, <1>3 DEF Next

LEMMA ForecastAlways == Spec => []ForecastInv
BY ForecastInit, ForecastNext, PTL DEF Spec

(* Any number of supervisors start at any time and may be killed or hang,  *)
(* their forecasts living on: there is one forecast at most, because such a*)
(* supervisor leaves the lock file behind.  A forecast whose supervisor    *)
(* raised past it, and released the lock, is not counted.                  *)
THEOREM OneForecastAtATime == Spec => []OneForecast
<1>1. ForecastInv => OneForecast
  BY DEF ForecastInv, ForecastIsWatched, LockInv, OneForecast, Outside
<1> QED
  BY <1>1, ForecastAlways, PTL

(* From the closed and drained gate to the end of the forecast, or to the  *)
(* moment its supervisor raises past it, nobody opens the gate and no      *)
(* request is admitted, other supervisors and their deaths included.       *)
THEOREM GateStaysShut == Spec => []GateShutDuringForecast
<1>1. ForecastInv => GateShutDuringForecast
  BY DEF ForecastInv, GateInv, GateShutDuringForecast
<1> QED
  BY <1>1, ForecastAlways, PTL

-----------------------------------------------------------------------------
(* The health of the LLM                                                   *)

\* Whoever works is alone, so its notes are all there is to look at.
LEMMA HealthAlone ==
  ASSUME HealthInv, NEW s \in Supervisors, pc[s] \in Inside,
         \A u \in Supervisors \ {s} : pc'[u] = pc[u] /\ local'[u] = local[u],
         NotesAt(pc'[s], local'[s]), UpAt(pc'[s], local'[s], llm', pid', reloads', gate')
  PROVE  NotesInv' /\ UpInv'
<1> SUFFICES ASSUME NEW u \in Supervisors
             PROVE  /\ NotesAt(pc'[u], local'[u])
                    /\ UpAt(pc'[u], local'[u], llm', pid', reloads', gate')
  BY DEF NotesInv, UpInv
<1>1. CASE u = s
  BY <1>1
<1>2. CASE u # s
  <2>1. pc[u] \in Outside
    BY <1>2 DEF HealthInv, ForecastInv, LockInv, Inside, Shut, Outside
  <2> QED
    BY <1>2, <2>1 DEF HealthInv, NotesInv, NotesAt, UpAt, Outside, Inside, Shut
<1> QED
  BY <1>1, <1>2

\* A step that verifies nothing and does not go to wait for the LLM.
LEMMA HealthUnverified ==
  ASSUME HealthInv, NEW s \in Supervisors, pc[s] \in Inside,
         \A u \in Supervisors \ {s} : pc'[u] = pc[u] /\ local'[u] = local[u],
         ~ local'[s].verified, pc'[s] # "waitUp"
  PROVE  NotesInv' /\ UpInv'
BY HealthAlone DEF NotesAt, UpAt

LEMMA HealthSet ==
  ASSUME HealthInv, NEW s \in Supervisors, pc[s] \in Inside,
         NEW v \in Locals, NEW then, Set(s, v), Goto(s, then),
         NotesAt(then, v), UpAt(then, v, llm', pid', reloads', gate')
  PROVE  NotesInv' /\ UpInv'
BY SetMeans, GotoMeans, HealthAlone DEF HealthInv, ForecastInv, TypeInv

LEMMA HealthKept ==
  ASSUME HealthInv, NEW s \in Supervisors, pc[s] \in Inside,
         NEW then, UNCHANGED local, Goto(s, then),
         NotesAt(then, local[s]), UpAt(then, local[s], llm', pid', reloads', gate')
  PROVE  NotesInv' /\ UpInv'
BY GotoMeans, HealthAlone DEF HealthInv, ForecastInv, TypeInv

LEMMA HealthLeft ==
  ASSUME HealthInv, NEW s \in Supervisors, pc[s] \in Inside,
         NEW v \in Locals, Leave(s, v), ~ v.verified
  PROVE  NotesInv' /\ UpInv'
<1>1. /\ pc'[s] = Finally(v) /\ local'[s].verified = v.verified
      /\ \A u \in Supervisors \ {s} : pc'[u] = pc[u] /\ local'[u] = local[u]
  BY LeaveMeans DEF HealthInv, ForecastInv
<1> QED
  BY <1>1, HealthUnverified DEF Finally

\* Most steps verify nothing, and do not go to wait for the LLM either.
Silent == {v \in Locals : ~ v.verified}
Quiet(s) ==
  \/ \E v \in Silent : Leave(s, v) \/ \E then : then # "waitUp" /\ Set(s, v) /\ Goto(s, then)
  \/ \E then : then # "waitUp" /\ Goto(s, then) /\ UNCHANGED local

LEMMA SilentUpdates ==
  ASSUME NEW v \in Silent
  PROVE  /\ [v EXCEPT !.stable = 0] \in Silent
         /\ [v EXCEPT !.stable = @ + 1] \in Silent
         /\ [v EXCEPT !.stopped = TRUE] \in Silent
         /\ [v EXCEPT !.closed = TRUE] \in Silent
         /\ [v EXCEPT !.ok = TRUE] \in Silent
         /\ [v EXCEPT !.ok = FALSE] \in Silent
         /\ \A b \in BOOLEAN : [v EXCEPT !.initially = b] \in Silent
         /\ \A mode \in Modes, n \in Nat : [v EXCEPT !.mode = mode, !.basePid = n] \in Silent
<1>1. v \in Locals /\ ~ v.verified
  BY DEF Silent
<1>2. /\ [v EXCEPT !.stable = 0].verified = v.verified
      /\ [v EXCEPT !.stable = @ + 1].verified = v.verified
      /\ [v EXCEPT !.stopped = TRUE].verified = v.verified
      /\ [v EXCEPT !.closed = TRUE].verified = v.verified
      /\ [v EXCEPT !.ok = TRUE].verified = v.verified
      /\ [v EXCEPT !.ok = FALSE].verified = v.verified
  BY <1>1 DEF Locals
<1>3. \A b : [v EXCEPT !.initially = b].verified = v.verified
  BY <1>1 DEF Locals
<1>4. \A mode, n : [v EXCEPT !.mode = mode, !.basePid = n].verified = v.verified
  BY <1>1 DEF Locals
<1> QED
  BY <1>1, <1>2, <1>3, <1>4, Updates DEF Silent

LEMMA QuietMeans ==
  ASSUME HealthInv, NEW s \in Supervisors, pc[s] \in Inside, local[s] \in Silent, Quiet(s)
  PROVE  NotesInv' /\ UpInv'
<1>1. ASSUME NEW v \in Silent, Leave(s, v) PROVE NotesInv' /\ UpInv'
  BY <1>1, HealthLeft DEF Silent
<1>2. ASSUME NEW v \in Silent, NEW then, then # "waitUp", Set(s, v), Goto(s, then)
      PROVE  NotesInv' /\ UpInv'
  BY <1>2, HealthSet DEF Silent, NotesAt, UpAt
<1>3. ASSUME NEW then, then # "waitUp", Goto(s, then), UNCHANGED local
      PROVE  NotesInv' /\ UpInv'
  BY <1>3, HealthKept DEF Silent, NotesAt, UpAt
<1> QED
  BY <1>1, <1>2, <1>3 DEF Quiet

LEMMA QuietStep ==
  ASSUME HealthInv, NEW s \in Supervisors, local[s] \in Silent,
         \/ Preflight(s) \/ Quiesce(s) \/ DrainPoll(s) \/ Close(s) \/ Decide(s)
         \/ DecideRaises(s) \/ Ready(s) \/ Stop(s) \/ WaitDown(s) \/ Sample(s) \/ WaitFails(s)
         \/ Launch(s) \/ LaunchFails(s) \/ ForecastReaped(s) \/ MonitorAlarm(s)
         \/ RecoverFails(s)
  PROVE  Quiet(s)
<1>1. CASE Preflight(s)
  <2>1. PICK seen \in BOOLEAN :
          \/ Leave(s, local[s])
          \/ Set(s, [local[s] EXCEPT !.initially = seen]) /\ Goto(s, "quiesce")
    BY <1>1, ProbeIsBoolean, Zenon DEF Preflight
  <2> QED
    BY <2>1, SilentUpdates DEF Quiet
<1>2. CASE Quiesce(s)
  BY <1>2, Zenon DEF Quiesce, Quiet
<1>3. CASE DrainPoll(s)
  BY <1>3 DEF DrainPoll, Quiet
<1>4. CASE Close(s)
  <2>1. \/ Leave(s, local[s])
        \/ /\ Set(s, [local[s] EXCEPT !.closed = TRUE])
           /\ Goto(s, IF local[s].mode = "handoff" THEN StopOrWait(s) ELSE "decide")
    BY <1>4, Zenon DEF Close
  <2>2. (IF local[s].mode = "handoff" THEN StopOrWait(s) ELSE "decide") # "waitUp"
    BY DEF StopOrWait
  <2> QED
    BY <2>1, <2>2, SilentUpdates DEF Quiet
<1>5. CASE Decide(s)
  <2>1. PICK profiled \in BOOLEAN, roomy \in BOOLEAN, fallback \in {"handoff", "block"} :
          LET mode == decide_residency(s, profiled, roomy, fallback)
              v == [local[s] EXCEPT !.mode = mode, !.basePid = pid]
          IN  IF mode = "block" THEN Leave(s, v)
              ELSE Set(s, v) /\ Goto(s, IF mode = "handoff" THEN StopOrWait(s) ELSE "ready")
    BY <1>5, Zenon DEF Decide
  <2> DEFINE mode == decide_residency(s, profiled, roomy, fallback)
             v == [local[s] EXCEPT !.mode = mode, !.basePid = pid]
             then == IF mode = "handoff" THEN StopOrWait(s) ELSE "ready"
  <2>2. mode \in Modes
    BY DEF decide_residency, Modes
  <2>3. v \in Silent
    BY <2>2, SilentUpdates DEF HealthInv, ForecastInv, TypeInv, ControlInv
  <2>4. then # "waitUp"
    BY DEF StopOrWait
  <2>5. Leave(s, v) \/ (Set(s, v) /\ Goto(s, then))
    BY <2>1, Zenon
  <2> HIDE DEF mode, v, then
  <2> QED
    BY <2>3, <2>4, <2>5 DEF Quiet
<1>6. CASE DecideRaises(s) \/ WaitFails(s) \/ LaunchFails(s) \/ MonitorAlarm(s)
  BY <1>6, Zenon DEF DecideRaises, WaitFails, LaunchFails, MonitorAlarm, Quiet
<1>7. CASE Ready(s)
  BY <1>7 DEF Ready, Quiet
<1>8. CASE Stop(s)
  BY <1>8 DEF Stop, Quiet
<1>9. CASE WaitDown(s)
  BY <1>9, SilentUpdates DEF WaitDown, Quiet
<1>10. CASE Sample(s)
  <2>1. CASE AfterStable(s)
    <3>1. ModeAt(pc[s], local[s].mode)
      BY DEF HealthInv, ForecastInv, ModeInv
    <3> QED
      BY <1>10, <2>1, <3>1, SilentUpdates DEF Sample, AfterStable, ModeAt, Quiet
  <2>2. CASE UNCHANGED pc /\ ~ AfterStable(s)
    <3>1. PICK v \in Silent : Set(s, v)
      BY <1>10, <2>2, SilentUpdates DEF Sample
    <3>2. Goto(s, pc[s]) /\ pc[s] # "waitUp"
      BY <1>10, <2>2 DEF Sample, Goto, HealthInv, ForecastInv, TypeInv, ControlInv
    <3> QED
      BY <3>1, <3>2 DEF Quiet
  <2> QED
    BY <1>10, <2>1, <2>2 DEF Sample
<1>11. CASE Launch(s)
  BY <1>11 DEF Launch, Quiet
<1>12. CASE ForecastReaped(s)
  BY <1>12, SilentUpdates DEF ForecastReaped, Quiet
<1>13. CASE RecoverFails(s)
  BY <1>13 DEF RecoverFails, Quiet
<1> QED
  BY <1>1, <1>2, <1>3, <1>4, <1>5, <1>6, <1>7, <1>8, <1>9, <1>10, <1>11, <1>12, <1>13

LEMMA HealthStep ==
  ASSUME HealthInv, NEW s \in Supervisors, Step(s)
  PROVE  NotesInv' /\ UpInv'
<1>1. local[s] \in Locals /\ reloads \in Nat
  BY DEF HealthInv, ForecastInv, TypeInv, LocalInv, ControlInv
<1>2. ModeAt(pc[s], local[s].mode) /\ NotesAt(pc[s], local[s])
      /\ UpAt(pc[s], local[s], llm, pid, reloads, gate)
  BY DEF HealthInv, ForecastInv, ModeInv, NotesInv, UpInv
<1>3. CASE AcquireLock(s) \/ LockExists(s)
  <2>1. /\ pc[s] = "idle" /\ pc'[s] \in {"preflight", "rejected"}
        /\ UNCHANGED <<local, gate, llm, pid, reloads>>
        /\ \A u \in Supervisors \ {s} : pc'[u] = pc[u]
    BY <1>3, GotoMeans
    DEF AcquireLock, LockExists, gateVars, llmVars, HealthInv, ForecastInv, TypeInv
  <2>2. ASSUME NEW u \in Supervisors
        PROVE  /\ NotesAt(pc'[u], local'[u])
               /\ UpAt(pc'[u], local'[u], llm', pid', reloads', gate')
    <3>1. NotesAt(pc[u], local[u]) /\ UpAt(pc[u], local[u], llm, pid, reloads, gate)
      BY DEF HealthInv, NotesInv, UpInv
    <3> QED
      BY <2>1, <3>1 DEF NotesAt, UpAt, Inside, Shut
  <2> QED
    BY <2>2 DEF NotesInv, UpInv
<1>4. ASSUME pc[s] \in Inside \ {"open", "release"} PROVE local[s] \in Silent
  BY <1>1, <1>2, <1>4 DEF NotesAt, Silent
<1>5. CASE \/ Preflight(s) \/ Quiesce(s) \/ DrainPoll(s) \/ Close(s) \/ Decide(s)
           \/ DecideRaises(s) \/ Ready(s) \/ Stop(s) \/ WaitDown(s) \/ Sample(s) \/ WaitFails(s)
           \/ Launch(s) \/ LaunchFails(s) \/ ForecastReaped(s) \/ MonitorAlarm(s)
           \/ RecoverFails(s)
  <2>1. pc[s] \in Inside \ {"open", "release"}
    BY <1>5 DEF Preflight, Quiesce, DrainPoll, Close, Decide, DecideRaises, Ready, Stop, WaitDown,
      Sample, WaitFails, Launch, LaunchFails, ForecastReaped, MonitorAlarm, RecoverFails,
      Inside, Shut
  <2> QED
    BY <1>4, <1>5, <2>1, QuietStep, QuietMeans
<1>6. CASE Continuity(s)
  <2>1. pc[s] = "continuity" /\ pc[s] \in Inside /\ UNCHANGED <<gateVars, llmVars>>
    BY <1>6 DEF Continuity, Inside
  <2> DEFINE v == [local[s] EXCEPT !.verified = TRUE, !.checked = reloads, !.ok = TRUE]
  <2>2. PICK seen \in Probes : Leave(s, IF SameLlm(s, seen) THEN v ELSE local[s])
    BY <1>6, Zenon DEF Continuity
  <2>3. CASE SameLlm(s, seen)
    <3>1. pid = local[s].basePid
      BY <2>3 DEF SameLlm
    <3>2. v \in Locals
      BY <1>1, Updates
    <3>3. /\ v.mode = local[s].mode /\ v.basePid = local[s].basePid
          /\ v.checked = reloads /\ v.verified
      BY <1>1 DEF Locals
    <3> HIDE DEF v
    <3>4. /\ pc'[s] = Finally(v)
          /\ local'[s].mode = v.mode /\ local'[s].basePid = v.basePid
          /\ local'[s].verified = v.verified /\ local'[s].checked = v.checked
          /\ \A u \in Supervisors \ {s} : pc'[u] = pc[u] /\ local'[u] = local[u]
      BY <2>2, <2>3, <3>2, LeaveMeans DEF HealthInv, ForecastInv
    <3>5. pc'[s] = "open"
      BY <1>2, <2>1, <3>3, <3>4 DEF Finally, restore_required, ModeAt
    <3>6. NotesAt(pc'[s], local'[s])
      BY <3>5 DEF NotesAt
    <3>7. UpAt(pc'[s], local'[s], llm', pid', reloads', gate')
      BY <1>1, <1>2, <2>1, <3>1, <3>3, <3>4, <3>5 DEF UpAt, ModeAt, llmVars
    <3> QED
      BY <2>1, <3>4, <3>6, <3>7, HealthAlone
  <2>4. CASE ~ SameLlm(s, seen)
    BY <1>4, <2>1, <2>2, <2>4, HealthLeft DEF Silent
  <2> QED
    BY <2>3, <2>4
<1>7. CASE Start(s)
  <2>1. pc[s] = "start" /\ pc[s] \in Inside \ {"open", "release"}
    BY <1>7 DEF Start, Inside
  <2>2. \/ Goto(s, "waitUp") /\ UNCHANGED local /\ llm' # "stopping"
        \/ Set(s, [local[s] EXCEPT !.ok = FALSE]) /\ Goto(s, "open")
    BY <1>7 DEF Start, Load, Posts
  <2>3. CASE Goto(s, "waitUp") /\ UNCHANGED local /\ llm' # "stopping"
    <3>1. NotesAt("waitUp", local[s]) /\ UpAt("waitUp", local[s], llm', pid', reloads', gate')
      BY <1>4, <2>1, <2>3 DEF NotesAt, UpAt, Silent
    <3> QED
      BY <2>1, <2>3, <3>1, HealthKept
  <2>4. CASE Set(s, [local[s] EXCEPT !.ok = FALSE]) /\ Goto(s, "open")
    BY <1>4, <2>1, <2>4, SilentUpdates, QuietMeans DEF Quiet
  <2> QED
    BY <2>2, <2>3, <2>4
<1>8. CASE WaitUp(s)
  <2>1. /\ pc[s] = "waitUp" /\ pc[s] \in Inside \ {"open", "release"} /\ Goto(s, "open")
        /\ UNCHANGED <<gateVars, llmVars>>
    BY <1>8 DEF WaitUp, Inside
  <2> DEFINE v == [local[s] EXCEPT !.verified = TRUE, !.checked = reloads]
  <2>2. \/ LlmAnswers /\ Set(s, v)
        \/ Set(s, [local[s] EXCEPT !.ok = FALSE])
    BY <1>8 DEF WaitUp
  <2>3. CASE LlmAnswers /\ Set(s, v)
    <3>1. v \in Locals
      BY <1>1, Updates
    <3>2. v.mode = local[s].mode /\ v.checked = reloads
      BY <1>1 DEF Locals
    <3> HIDE DEF v
    <3>3. NotesAt("open", v) /\ UpAt("open", v, llm', pid', reloads', gate')
      BY <1>1, <1>2, <2>1, <2>3, <3>2 DEF NotesAt, UpAt, ModeAt, LlmAnswers, llmVars
    <3> QED
      BY <2>1, <2>3, <3>1, <3>3, HealthSet
  <2>4. CASE Set(s, [local[s] EXCEPT !.ok = FALSE])
    BY <1>4, <2>1, <2>4, SilentUpdates, QuietMeans DEF Quiet
  <2> QED
    BY <2>2, <2>3, <2>4
<1>9. CASE Verify(s)
  <2>1. /\ pc[s] = "verify" /\ pc[s] \in Inside /\ Goto(s, "open")
        /\ UNCHANGED <<gateVars, llmVars>>
    BY <1>9 DEF Verify, Inside
  <2>2. PICK seen \in Probes :
          Set(s, [local[s] EXCEPT !.verified = SameLlm(s, seen), !.checked = reloads])
    BY <1>9, Zenon DEF Verify
  <2> DEFINE v == [local[s] EXCEPT !.verified = SameLlm(s, seen), !.checked = reloads]
  <2>3. v \in Locals
    <3>1. SameLlm(s, seen) \in BOOLEAN
      BY ProbeIsBoolean DEF SameLlm
    <3> QED
      BY <1>1, <3>1, Updates
  <2>4. /\ v.verified = SameLlm(s, seen) /\ v.checked = reloads
        /\ v.mode = local[s].mode /\ v.basePid = local[s].basePid
    BY <1>1 DEF Locals
  <2>5. SameLlm(s, seen) => pid = local[s].basePid
    BY DEF SameLlm
  <2> HIDE DEF v
  <2>6. NotesAt("open", v) /\ UpAt("open", v, llm', pid', reloads', gate')
    BY <1>1, <1>2, <2>1, <2>4, <2>5 DEF NotesAt, UpAt, ModeAt, llmVars
  <2> QED
    BY <2>1, <2>2, <2>3, <2>6, HealthSet DEF v
<1>10. CASE Open(s)
  <2>1. pc[s] = "open" /\ pc[s] \in Inside /\ Goto(s, "release")
    BY <1>10 DEF Open, Inside
  <2>2. PICK v \in Locals : Set(s, v) \/ UNCHANGED local
    <3>1. \A b \in BOOLEAN : [local[s] EXCEPT !.ok = @ /\ b] \in Locals
      BY <1>1, Updates
    <3>2. \A post : (post = "done") \in BOOLEAN
      OBVIOUS
    <3> QED
      BY <1>1, <1>10, <3>1, <3>2, Zenon DEF Open
  <2>3. \A u : NotesAt("release", u) /\ UpAt("release", u, llm', pid', reloads', gate')
    BY DEF NotesAt, UpAt
  <2> QED
    BY <2>1, <2>2, <2>3, HealthSet, HealthKept
<1>11. CASE ReleaseLock(s)
  <2>1. pc[s] = "release" /\ Goto(s, "done") /\ UNCHANGED local
    BY <1>11 DEF ReleaseLock
  <2>2. NotesAt("done", local[s]) /\ UpAt("done", local[s], llm', pid', reloads', gate')
    BY DEF NotesAt, UpAt, Inside, Shut
  <2> QED
    BY <2>1, <2>2, HealthKept DEF Inside
<1> QED
  BY <1>3, <1>5, <1>6, <1>7, <1>8, <1>9, <1>10, <1>11 DEF Step

LEMMA HealthEnvironment ==
  ASSUME HealthInv, Environment
  PROVE  NotesInv' /\ UpInv'
<1> USE DEF gateVars, llmVars
<1>1. ASSUME NEW s \in Supervisors, ProbeHangs(s) \/ Crash(s) PROVE NotesInv' /\ UpInv'
  <2>1. /\ pc'[s] \in {"hung", "crashed"} /\ UNCHANGED <<local, gate, llm, pid, reloads>>
        /\ \A u \in Supervisors \ {s} : pc'[u] = pc[u]
    BY <1>1, GotoMeans DEF ProbeHangs, Crash, HealthInv, ForecastInv, TypeInv
  <2> QED
    BY <2>1 DEF HealthInv, NotesInv, NotesAt, UpInv, UpAt, Inside, Shut
<1>2. ASSUME NEW s \in Supervisors, ForecastTimeout(s) \/ MonitorRaises(s)
      PROVE  NotesInv' /\ UpInv'
  <2>1. pc[s] = "monitor" /\ Leave(s, local[s])
    BY <1>2 DEF ForecastTimeout, MonitorRaises
  <2>2. pc[s] \in Inside /\ local[s] \in Locals /\ ~ local[s].verified
    BY <2>1 DEF HealthInv, ForecastInv, TypeInv, LocalInv, NotesInv, NotesAt, Inside, Shut
  <2> QED
    BY <2>1, <2>2, HealthLeft
<1>3. ASSUME UNCHANGED <<pc, local>>,
             \/ UNCHANGED <<gate, llm, pid, reloads>>
             \/ /\ gate = "open" /\ UNCHANGED <<gate, reloads>>
                /\ (UNCHANGED <<llm, pid>> \/ Load)
             \/ LlmSettles /\ UNCHANGED gate
      PROVE  NotesInv' /\ UpInv'
  BY <1>3 DEF HealthInv, NotesInv, UpInv, UpAt, Load, LlmSettles
<1>4. CASE Disturbance
  <2>1. /\ UNCHANGED <<pc, local, gate>> /\ reloads' = reloads + 1
        /\ llm' # "stopping" /\ reloads \in Nat
    BY <1>4 DEF Disturbance, Load, HealthInv, ForecastInv, TypeInv, ControlInv
  <2>2. \A s \in Supervisors : local[s].checked \in Nat
    BY DEF HealthInv, ForecastInv, TypeInv, LocalInv, Locals
  <2> QED
    BY <2>1, <2>2 DEF HealthInv, NotesInv, UpInv, UpAt
<1> QED
  BY <1>1, <1>2, <1>3, <1>4
  DEF Environment, Mishap, ForecastExits, Request, Answer, LlmSettles

LEMMA HealthInit == Init => HealthInv
<1>1. ASSUME Init PROVE NotesInv /\ UpInv
  BY <1>1 DEF Init, NotesInv, NotesAt, UpInv, UpAt, Inside, Shut
<1> QED
  BY <1>1, ForecastInit DEF HealthInv

LEMMA HealthNext ==
  ASSUME HealthInv, [Next]_vars
  PROVE  HealthInv'
<1>1. ForecastInv'
  BY ForecastNext DEF HealthInv
<1>2. CASE UNCHANGED vars
  BY <1>1, <1>2 DEF vars, gateVars, llmVars, HealthInv, NotesInv, UpInv
<1>3. CASE Environment
  BY <1>1, <1>3, HealthEnvironment DEF HealthInv
<1>4. CASE \E s \in Supervisors : Step(s)
  BY <1>1, <1>4, HealthStep DEF HealthInv
<1> QED
  BY <1>2, <1>3, <1>4 DEF Next

LEMMA HealthAlways == Spec => []HealthInv
BY HealthInit, HealthNext, PTL DEF Spec

\* Only the supervisor at work, at the end of its finally clause, opens the gate.
LEMMA OpenedBy ==
  ASSUME HealthInv, [Next]_vars, NEW s \in Supervisors, Opens(s)
  PROVE  Open(s)
<1> USE DEF Opens
<1>1. ~ Environment /\ ~ UNCHANGED vars
  BY DEF Environment, Mishap, ForecastTimeout, MonitorRaises, ProbeHangs, Crash, ForecastExits,
    Request, Answer, LlmSettles, Disturbance, vars, gateVars
<1>2. PICK u \in Supervisors : Step(u)
  BY <1>1 DEF Next
<1>3. Open(u)
  BY <1>2
  DEF Step, AcquireLock, LockExists, Preflight, Quiesce, DrainPoll, Close, Decide, DecideRaises,
    Ready, Stop, WaitDown, Sample, WaitFails, Launch, LaunchFails, ForecastReaped, MonitorAlarm,
    Continuity, Start, WaitUp, Verify, RecoverFails, ReleaseLock, gateVars
<1>4. lock = s /\ lock = u
  BY <1>3 DEF Open, HealthInv, ForecastInv, LockInv, Outside
<1> QED
  BY <1>3, <1>4

(* Whichever way a run ended, unloads with a lost answer, hung probes and  *)
(* deaths included: a supervisor that noted that it stopped the LLM opens  *)
(* the gate over an LLM that is up, and one that kept the LLM over the     *)
(* process of its decision, unless a failure or a reload came after its    *)
(* last check.                                                             *)
THEOREM ReopenedHealthy == Spec => GateReopenedHealthy
<1> DEFINE Healthy(s) ==
             Opens(s) /\ reloads = local[s].checked =>
               /\ local[s].mode = "handoff" /\ local[s].initially /\ local[s].stopped
                  => llm = "up"
               /\ local[s].mode = "coexist" => pid = local[s].basePid
<1>1. ASSUME HealthInv, [Next]_vars, NEW s \in Supervisors PROVE Healthy(s)
  <2> SUFFICES ASSUME Opens(s), reloads = local[s].checked
               PROVE  /\ local[s].mode = "handoff" /\ local[s].initially /\ local[s].stopped
                         => llm = "up"
                      /\ local[s].mode = "coexist" => pid = local[s].basePid
    OBVIOUS
  <2>1. gate_safe(local[s]) /\ pc[s] = "open" /\ gate # "open"
    BY <1>1, OpenedBy DEF Open, Opens
  <2>2. UpAt("open", local[s], llm, pid, reloads, gate)
    BY <1>1, <2>1 DEF HealthInv, UpInv
  <2> QED
    BY <2>1, <2>2 DEF gate_safe, restore_required, UpAt
<1>2. HealthInv /\ [Next]_vars => [\A s \in Supervisors : Healthy(s)]_vars
  BY <1>1
<1> QED
  BY <1>2, HealthAlways, PTL DEF Spec, GateReopenedHealthy
===============================================================================

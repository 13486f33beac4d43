---------------------------- MODULE GpuSupervisor ----------------------------
(***************************************************************************)
(* One run of ExclusiveGpuSupervisor (gpu_exclusive/supervisor.py) or of   *)
(* AdaptiveGpuSupervisor (adaptive.py) per supervisor process, and what    *)
(* they drive: the request gate, the LLM runtime, the GPU and the forecast *)
(* command.  Gate and runtime are services of their own: a POST may take   *)
(* effect and still fail for its caller, the runtime stops and loads after *)
(* it has answered, and may fail; a client that goes around the gate may   *)
(* load it.  A call of nvidia-smi has no timeout and may never return.     *)
(*                                                                         *)
(* The configuration restores and monitors the LLM, as it does by default. *)
(* Video memory is what the LLM and the forecasts hold; a process identity *)
(* of the LLM is the number of times it was loaded.  An interrupt reaches a*)
(* supervisor while it monitors its forecast; elsewhere it does what a     *)
(* failure there or a kill does.                                           *)
(***************************************************************************)
EXTENDS Naturals, FiniteSets

CONSTANTS
  Supervisors,
  Requested,       \* residency.mode of each supervisor: handoff, auto, coexist
  RequireLlm,      \* the supervisors with require_qwen_initially_running
  StableSamples,
  Crashing,        \* the supervisors that may be killed
  NoOne

CONSTANTS MaxInFlight, MaxReloads   \* bounds of a checked instance

ASSUME RequestedAssumption == Requested \in [Supervisors -> {"handoff", "auto", "coexist"}]
ASSUME StableAssumption == StableSamples \in Nat \ {0}
ASSUME SupervisorAssumption == /\ Crashing \subseteq Supervisors
                               /\ RequireLlm \subseteq Supervisors
                               /\ NoOne \notin Supervisors
ASSUME BoundAssumption == MaxInFlight \in Nat /\ MaxReloads \in Nat

VARIABLES
  pc,         \* where a supervisor is in run
  local,      \* the local variables of run, and the value of reloads when it
              \* last found the LLM as it has to be (checked)
  child,      \* the forecast process of a supervisor: "left" is one that runs
              \* on and that its supervisor has stopped watching
  lock,       \* the supervisor that created the lock file
  gate,       \* admission of the request gate
  inFlight,   \* requests the gate has admitted and not answered
  llm,        \* the runtime
  pid,        \* how often it was loaded
  reloads     \* how often a client went around the gate, or the LLM failed

gateVars == <<gate, inFlight>>
llmVars == <<llm, pid, reloads>>
vars == <<pc, local, child, lock, gateVars, llmVars>>

Init ==
  /\ pc = [s \in Supervisors |-> "idle"]
  /\ local = [s \in Supervisors |->
                [initially |-> FALSE, stopped |-> FALSE, verified |-> FALSE,
                 closed |-> FALSE, stable |-> 0, basePid |-> 0, ok |-> FALSE,
                 checked |-> 0,
                 mode |-> IF Requested[s] = "handoff" THEN "handoff" ELSE "undecided"]]
  /\ child = [s \in Supervisors |-> "none"]
  /\ lock = NoOne
  /\ gate = "open" /\ inFlight = 0
  /\ llm \in {"up", "down"} /\ pid = 1 /\ reloads = 0

-----------------------------------------------------------------------------
(* The services as the adapters see them (adapters.py).                    *)

LlmAnswers == llm \in {"up", "stopping"}

\* running(): a failed request counts as not running.
Probes == IF LlmAnswers THEN BOOLEAN ELSE {FALSE}

\* How a POST ends: answered, with its effect but an error, or without effect.
Posts == {"done", "lost", "refused"}

\* A forecast nobody watches may have left the GPU, or be about to come to it.
Clear == IF \E s \in Supervisors : child[s] = "left" THEN BOOLEAN ELSE {TRUE}

GpuFree == llm = "down" /\ \A s \in Supervisors : child[s] # "running"

\* The LLM process of the decision is there and answers.
SameLlm(s, seen) == seen /\ pid = local[s].basePid

\* Memory and processes are those of the decision: the LLM and nothing else.
AtBaseline(s) == /\ llm # "down" /\ pid = local[s].basePid
                 /\ \A u \in Supervisors : child[u] # "running"

Load == llm' = "starting" /\ pid' = pid + 1

-----------------------------------------------------------------------------
(* Leaving the try block: what the finally clause does first.              *)

restore_required(v) == v.mode = "handoff" /\ v.initially /\ v.stopped

GateSafeUnverified(v) == v.mode \in {"handoff", "coexist"}   \* faulty form
gate_safe(v) ==
  \/ v.mode = "handoff" /\ (restore_required(v) => v.verified)
  \/ v.mode = "coexist" /\ v.verified

Finally(v) == IF restore_required(v) THEN "start"
              ELSE IF v.mode = "coexist" /\ ~ v.verified THEN "recover"
              ELSE "open"

Goto(s, label) == pc' = [pc EXCEPT ![s] = label]
Set(s, v) == local' = [local EXCEPT ![s] = v]

\* The try block ends with the local variables v, by an exception or not.
Leave(s, v) == Set(s, [v EXCEPT !.stable = 0]) /\ Goto(s, Finally(v))

-----------------------------------------------------------------------------
(* run: lock, preflight and gate                                           *)

LockIgnored(s) == TRUE   \* faulty form of the next definition
LockIsFree(s) == lock = NoOne

AcquireLock(s) ==
  /\ pc[s] = "idle" /\ LockIsFree(s)
  /\ lock' = s /\ Goto(s, "preflight")
  /\ UNCHANGED <<local, child, gateVars, llmVars>>

LockExists(s) ==
  /\ pc[s] = "idle" /\ ~ LockIsFree(s)
  /\ Goto(s, "rejected")
  /\ UNCHANGED <<local, child, lock, gateVars, llmVars>>

Preflight(s) ==
  /\ pc[s] = "preflight"
  /\ \E seen \in Probes :
       IF s \in RequireLlm /\ ~ seen
       THEN Leave(s, local[s])
       ELSE Set(s, [local[s] EXCEPT !.initially = seen]) /\ Goto(s, "quiesce")
  /\ UNCHANGED <<child, lock, gateVars, llmVars>>

Quiesce(s) ==
  /\ pc[s] = "quiesce"
  /\ \E post \in Posts :
       /\ gate' = IF post # "refused" /\ gate = "open" THEN "quiesced" ELSE gate
       /\ IF post = "done" THEN Goto(s, "drain") /\ UNCHANGED local
                           ELSE Leave(s, local[s])
  /\ UNCHANGED <<child, lock, inFlight, llmVars>>

DrainSkipped(s) == TRUE   \* faulty form of the next definition
Drained(s) == inFlight = 0

DrainPoll(s) ==
  /\ pc[s] = "drain" /\ Drained(s)
  /\ Goto(s, "close")
  /\ UNCHANGED <<local, child, lock, gateVars, llmVars>>

\* From the closed gate a hand-off goes on to stop the LLM, if it was running.
StopOrWait(s) == IF local[s].initially THEN "stop" ELSE "waitFree"

Close(s) ==
  /\ pc[s] = "close"
  /\ \E post \in Posts :
       /\ gate' = IF post = "refused" THEN gate ELSE "closed"
       /\ IF post = "done"
          THEN /\ Set(s, [local[s] EXCEPT !.closed = TRUE])
               /\ Goto(s, IF local[s].mode = "handoff" THEN StopOrWait(s) ELSE "decide")
          ELSE Leave(s, local[s])
  /\ UNCHANGED <<child, lock, inFlight, llmVars>>

-----------------------------------------------------------------------------
(* run: residency decision, stop of the LLM, free GPU                      *)

(* decide_residency.  roomy: an exact certified profile exists, no foreign *)
(* process is on the GPU and the free memory covers budget and reserve;    *)
(* profiled: the profile exists, the room may not; fallback: what the      *)
(* policy does about an unknown profile.                                   *)
decide_residency(s, profiled, roomy, fallback) ==
  LET declined == IF Requested[s] = "coexist" THEN "block" ELSE fallback
  IN  CASE ~ profiled -> declined
        [] profiled /\ ~ local[s].initially -> "block"
        [] profiled /\ local[s].initially /\ (llm = "down" \/ ~ roomy) -> declined
        [] OTHER -> "coexist"

Decide(s) ==
  /\ pc[s] = "decide"
  /\ \E profiled, roomy \in BOOLEAN, fallback \in {"handoff", "block"} :
       LET mode == decide_residency(s, profiled, roomy, fallback)
           v == [local[s] EXCEPT !.mode = mode, !.basePid = pid]
       IN  IF mode = "block" THEN Leave(s, v)
           ELSE Set(s, v) /\ Goto(s, IF mode = "handoff" THEN StopOrWait(s) ELSE "ready")
  /\ UNCHANGED <<child, lock, gateVars, llmVars>>

\* nvidia-smi fails or the profile registry is malformed: nothing is decided.
DecideRaises(s) ==
  /\ pc[s] = "decide"
  /\ Leave(s, local[s])
  /\ UNCHANGED <<child, lock, gateVars, llmVars>>

Ready(s) ==
  /\ pc[s] = "ready"
  /\ \E seen \in Probes :
       IF SameLlm(s, seen) THEN Goto(s, "launch") /\ UNCHANGED local
                           ELSE Leave(s, local[s])
  /\ UNCHANGED <<child, lock, gateVars, llmVars>>

Stop(s) ==
  /\ pc[s] = "stop"
  /\ \E post \in Posts :
       /\ llm' = IF post = "refused" \/ llm = "down" THEN llm ELSE "stopping"
       /\ IF post = "done" THEN Goto(s, "waitDown") /\ UNCHANGED local
                           ELSE Leave(s, local[s])
  /\ UNCHANGED <<child, lock, gateVars, pid, reloads>>

WaitDown(s) ==
  /\ pc[s] = "waitDown" /\ FALSE \in Probes
  /\ Set(s, [local[s] EXCEPT !.stopped = TRUE]) /\ Goto(s, "waitFree")
  /\ UNCHANGED <<child, lock, gateVars, llmVars>>

\* wait_free and wait_for_baseline count consecutive good samples.
StableEnough(n) == n >= StableSamples

AfterStable(s) ==
  CASE pc[s] = "waitFree" -> Goto(s, "launch") /\ UNCHANGED local
    [] pc[s] = "waitAfter" /\ local[s].mode = "handoff" ->
         Leave(s, [local[s] EXCEPT !.ok = TRUE])
    [] pc[s] = "waitAfter" /\ local[s].mode = "coexist" ->
         Goto(s, "continuity") /\ UNCHANGED local
    [] pc[s] = "recover" -> Goto(s, "verify") /\ UNCHANGED local

Sample(s) ==
  /\ pc[s] \in {"waitFree", "waitAfter", "recover"}
  /\ \E clear \in Clear :
       IF clear /\ IF local[s].mode = "coexist" THEN AtBaseline(s) ELSE GpuFree
       THEN IF StableEnough(local[s].stable + 1)
            THEN AfterStable(s)
            ELSE Set(s, [local[s] EXCEPT !.stable = @ + 1]) /\ UNCHANGED pc
       ELSE Set(s, [local[s] EXCEPT !.stable = 0]) /\ UNCHANGED pc
  /\ UNCHANGED <<child, lock, gateVars, llmVars>>

\* A wait inside the try block passes its deadline, or a probe in it raises.
DrainsForEver(s) == /\ pc[s] \in {"preflight", "waitDown", "waitFree", "waitAfter"}
                    /\ Leave(s, local[s])
                    /\ UNCHANGED <<child, lock, gateVars, llmVars>>   \* faulty form
WaitFails(s) ==
  /\ pc[s] \in {"preflight", "drain", "waitDown", "waitFree", "waitAfter"}
  /\ Leave(s, local[s])
  /\ UNCHANGED <<child, lock, gateVars, llmVars>>

-----------------------------------------------------------------------------
(* _run_forecast and _run_forecast_coexist                                 *)

Launch(s) ==
  /\ pc[s] = "launch"
  /\ child' = [child EXCEPT ![s] = "running"]
  /\ Goto(s, "monitor")
  /\ UNCHANGED <<local, lock, gateVars, llmVars>>

\* The command cannot be started.
LaunchFails(s) ==
  /\ pc[s] = "launch"
  /\ Leave(s, local[s])
  /\ UNCHANGED <<child, lock, gateVars, llmVars>>

ForecastReaped(s) ==
  /\ pc[s] = "monitor" /\ child[s] = "exited"
  /\ child' = [child EXCEPT ![s] = "none"]
  /\ \/ Set(s, [local[s] EXCEPT !.stable = 0]) /\ Goto(s, "waitAfter")
     \/ Leave(s, local[s])
  /\ UNCHANGED <<lock, gateVars, llmVars>>

AlarmIgnored(s, seen) == FALSE   \* faulty form of the next definition
Alarm(s, seen) == IF local[s].mode = "coexist" THEN ~ SameLlm(s, seen) ELSE seen

\* _terminate_process: the second wait, after the SIGKILL, may time out as well.
Left(s) == [child EXCEPT ![s] = "left"]
Terminates(s) == child' = [child EXCEPT ![s] = "none"] \/ child' = Left(s)

\* The monitor sees the LLM back, or the resident LLM gone, and kills the forecast.
MonitorAlarm(s) ==
  /\ pc[s] = "monitor" /\ child[s] = "running"
  /\ \E seen \in Probes : Alarm(s, seen)
  /\ Terminates(s) /\ Leave(s, local[s])
  /\ UNCHANGED <<lock, gateVars, llmVars>>

ForecastTimeout(s) ==
  /\ pc[s] = "monitor" /\ child[s] = "running"
  /\ Terminates(s) /\ Leave(s, local[s])
  /\ UNCHANGED <<lock, gateVars, llmVars>>

\* The monitor raises past the forecast: on a connection error its probe does
\* not catch, or on an interrupt of the supervisor.
MonitorRaises(s) ==
  /\ pc[s] = "monitor" /\ child[s] = "running"
  /\ child' = Left(s) /\ Leave(s, local[s])
  /\ UNCHANGED <<lock, gateVars, llmVars>>

Continuity(s) ==
  /\ pc[s] = "continuity"
  /\ \E seen \in Probes :
       Leave(s, IF SameLlm(s, seen)
                THEN [local[s] EXCEPT !.verified = TRUE, !.checked = reloads, !.ok = TRUE]
                ELSE local[s])
  /\ UNCHANGED <<child, lock, gateVars, llmVars>>

-----------------------------------------------------------------------------
(* The finally clause                                                      *)

Start(s) ==
  /\ pc[s] = "start"
  /\ \E post \in Posts :
       /\ IF post # "refused" /\ llm \in {"down", "stopping"} THEN Load
                                                        ELSE UNCHANGED <<llm, pid>>
       /\ IF post = "done" THEN Goto(s, "waitUp") /\ UNCHANGED local
          ELSE Set(s, [local[s] EXCEPT !.ok = FALSE]) /\ Goto(s, "open")
  /\ UNCHANGED <<child, lock, gateVars, reloads>>

WaitUp(s) ==
  /\ pc[s] = "waitUp"
  /\ \/ LlmAnswers /\ Set(s, [local[s] EXCEPT !.verified = TRUE, !.checked = reloads])
     \/ Set(s, [local[s] EXCEPT !.ok = FALSE])      \* the deadline passes
  /\ Goto(s, "open")
  /\ UNCHANGED <<child, lock, gateVars, llmVars>>

Verify(s) ==
  /\ pc[s] = "verify"
  /\ \E seen \in Probes :
       Set(s, [local[s] EXCEPT !.verified = SameLlm(s, seen), !.checked = reloads])
  /\ Goto(s, "open")
  /\ UNCHANGED <<child, lock, gateVars, llmVars>>

RecoverFails(s) ==
  /\ pc[s] = "recover"
  /\ Goto(s, "open")
  /\ UNCHANGED <<local, child, lock, gateVars, llmVars>>

Open(s) ==
  /\ pc[s] = "open"
  /\ IF local[s].closed /\ gate_safe(local[s])
     THEN \E post \in Posts :
            /\ gate' = IF post = "refused" THEN gate ELSE "open"
            /\ Set(s, [local[s] EXCEPT !.ok = @ /\ post = "done"])
     ELSE UNCHANGED <<gate, local>>
  /\ Goto(s, "release")
  /\ UNCHANGED <<child, lock, inFlight, llmVars>>

ReleaseLock(s) ==
  /\ pc[s] = "release"
  /\ lock' = NoOne /\ Goto(s, "done")
  /\ UNCHANGED <<local, child, gateVars, llmVars>>

-----------------------------------------------------------------------------
(* What happens around a supervisor                                        *)

\* snapshot and processes run nvidia-smi without a timeout: it never returns.
ProbeHangs(s) ==
  /\ \/ pc[s] \in {"decide", "ready", "waitFree", "waitAfter", "continuity", "recover", "verify"}
     \/ pc[s] = "monitor" /\ local[s].mode = "coexist"
  /\ Goto(s, "hung")
  /\ UNCHANGED <<local, child, lock, gateVars, llmVars>>

\* The supervisor is killed; the forecast has a session of its own.
Crash(s) ==
  /\ s \in Crashing /\ pc[s] \notin {"idle", "done", "rejected", "crashed"}
  /\ Goto(s, "crashed")
  /\ UNCHANGED <<local, child, lock, gateVars, llmVars>>

ForecastExits(s) ==
  /\ \/ child[s] = "running" /\ child' = [child EXCEPT ![s] = "exited"]
     \/ child[s] = "left" /\ child' = [child EXCEPT ![s] = "none"]
  /\ UNCHANGED <<pc, local, lock, gateVars, llmVars>>

\* Through the open gate a request reaches the runtime, which loads for it.
Request ==
  /\ gate = "open" /\ inFlight < MaxInFlight
  /\ inFlight' = inFlight + 1
  /\ IF llm = "down" THEN Load ELSE UNCHANGED <<llm, pid>>
  /\ UNCHANGED <<pc, local, child, lock, gate, reloads>>

Answer ==
  /\ inFlight > 0
  /\ inFlight' = inFlight - 1
  /\ UNCHANGED <<pc, local, child, lock, gate, llmVars>>

LlmSettles ==
  /\ \/ llm = "stopping" /\ llm' = "down"
     \/ llm = "starting" /\ llm' = "up"
  /\ UNCHANGED <<pc, local, child, lock, gateVars, pid, reloads>>

\* A client goes around the gate, or the LLM fails.
Disturbance ==
  /\ reloads < MaxReloads
  /\ reloads' = reloads + 1
  /\ \/ llm = "down" /\ Load
     \/ llm \in {"up", "starting"} /\ llm' = "down" /\ UNCHANGED pid
  /\ UNCHANGED <<pc, local, child, lock, gateVars>>

-----------------------------------------------------------------------------
Step(s) ==
  \/ AcquireLock(s) \/ LockExists(s) \/ Preflight(s)
  \/ Quiesce(s) \/ DrainPoll(s) \/ Close(s) \/ Decide(s) \/ DecideRaises(s) \/ Ready(s)
  \/ Stop(s) \/ WaitDown(s) \/ Sample(s) \/ WaitFails(s)
  \/ Launch(s) \/ LaunchFails(s) \/ ForecastReaped(s) \/ MonitorAlarm(s) \/ Continuity(s)
  \/ Start(s) \/ WaitUp(s) \/ Verify(s) \/ RecoverFails(s) \/ Open(s) \/ ReleaseLock(s)

\* What may happen to a supervisor and need not.
Mishap(s) == ForecastTimeout(s) \/ MonitorRaises(s) \/ ProbeHangs(s) \/ Crash(s)

Environment ==
  \/ \E s \in Supervisors : Mishap(s) \/ ForecastExits(s)
  \/ Request \/ Answer \/ LlmSettles \/ Disturbance

Next == Environment \/ \E s \in Supervisors : Step(s)

\* A supervisor that was started runs on unless a probe hangs, an LLM that is
\* up for good is seen in the end, the deadlines of the waits pass, and the
\* runtime finishes what it began.
Fairness ==
  /\ WF_vars(LlmSettles)
  /\ \A s \in Supervisors : WF_vars(Step(s)) /\ WF_vars(WaitFails(s) \/ RecoverFails(s))

Spec == Init /\ [][Next]_vars /\ Fairness

-----------------------------------------------------------------------------
(* While a forecast runs that its supervisor watches, or watched until it  *)
(* was killed or hung, no other such forecast runs.                        *)
OneForecast ==
  \A s, u \in Supervisors : child[s] = "running" /\ child[u] = "running" => s = u

(* While such a forecast runs, the gate is shut and no admitted request is *)
(* left.                                                                   *)
GateShutDuringForecast ==
  \A s \in Supervisors : child[s] = "running" => gate = "closed" /\ inFlight = 0

(* docs/GPU_EXCLUSIVE_SUPERVISOR.md:15-17 orders: wait for the GPU to      *)
(* become free again, restore the LLM, reopen the gate.  No supervisor does*)
(* the last two over its own forecast.  A monitor that raises past its     *)
(* forecast does.                                                          *)
NothingRestoredOverForecast ==
  \A s \in Supervisors :
    pc[s] \in {"start", "waitUp", "open", "release", "done"} =>
      child[s] \notin {"running", "left"}

\* s opens the gate.
Opens(s) == pc[s] = "open" /\ gate # "open" /\ gate' = "open"

(* A supervisor that stopped the LLM, and knows it, opens the gate over an *)
(* LLM that is up again, and one that kept it resident over the process of *)
(* its decision: unless, since it was last seen, the LLM failed or a client*)
(* loaded it around the gate.                                              *)
GateReopenedHealthy ==
  [][\A s \in Supervisors :
       Opens(s) /\ reloads = local[s].checked =>
         /\ local[s].mode = "handoff" /\ local[s].initially /\ local[s].stopped => llm = "up"
         /\ local[s].mode = "coexist" => pid = local[s].basePid]_vars

(* docs/GPU_EXCLUSIVE_SUPERVISOR.md:17, reopen the external gate only after*)
(* Qwen health is restored: a supervisor that found the LLM running opens  *)
(* the gate over an LLM that is up.  It does not when the unload took      *)
(* effect and only its answer was lost, or came after its deadline.        *)
GateReopenedOnlyHealthy ==
  [][\A s \in Supervisors : Opens(s) /\ local[s].initially => llm = "up"]_vars

(* A forecast that owns the GPU does not share it for ever with an LLM that*)
(* a client loaded around the gate, under the eyes of its supervisor.      *)
ReloadStopsForecast ==
  \A s \in Supervisors :
    []<> ~ (/\ pc[s] = "monitor" /\ local[s].mode = "handoff"
            /\ child[s] = "running" /\ llm = "up")

(* A supervisor returns from every wait, whatever the gate, the runtime and*)
(* the GPU do: without a configured timeout only the forecast may keep it, *)
(* and an nvidia-smi that never returns.                                   *)
SupervisorReturns ==
  \A s \in Supervisors :
    <>[](\/ pc[s] \in {"rejected", "done", "crashed", "hung"}
         \/ pc[s] = "monitor" /\ child[s] = "running")
=============================================================================

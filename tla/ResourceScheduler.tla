-------------------------- MODULE ResourceScheduler --------------------------
(***************************************************************************)
(* ResourceScheduler.acquire and release as the threads of the broad       *)
(* campaign call them (orchestration/resource_scheduler_impl.py): a CPU    *)
(* semaphore, one semaphore per GPU device, a gate that serialises GPU     *)
(* admission and that an exclusive task keeps while it runs, and the       *)
(* counters gpu_resource_status reports.  Every task acquires once, runs   *)
(* its child process and releases (_run_task).  A step is what a thread    *)
(* does up to the next point where another thread can change what it reads.*)
(*                                                                         *)
(* Time is not modelled: a timed acquire may give up whenever the resource *)
(* is not there.  The list of leases is a report of what pc and held say.  *)
(***************************************************************************)
EXTENDS Integers, FiniteSets, FiniteSetsExt

CONSTANTS
  Tasks,
  Class,         \* resource class of a task
  CpuLanes,      \* max_parallel_cpu_models
  DeviceCount,
  DeviceSlots,   \* gpu_device_slots
  NoTask

Devices == 0..(DeviceCount - 1)

ASSUME ClassAssumption == Class \in [Tasks -> {"CPU", "GPU", "EXCLUSIVE_GPU"}]
ASSUME LaneAssumption == CpuLanes \in Nat \ {0}
ASSUME DeviceAssumption == DeviceCount \in Nat /\ DeviceSlots \in [Devices -> Nat]
ASSUME NoTaskAssumption == NoTask \notin Tasks
ASSUME FiniteAssumption == IsFiniteSet(Tasks)

VARIABLES
  pc,            \* where the thread of each task is
  cpuFree,       \* the CPU semaphore
  gpuFree,       \* the semaphore of each device
  gate,          \* the task that holds the exclusive GPU gate
  nextDevice,    \* where the next scan starts
  activeTrials, activeByDevice,   \* the counters of gpu_resource_status
  held,          \* device slots a task has taken and not given back
  scan           \* the scan of a task over the devices: start and offset

vars == <<pc, cpuFree, gpuFree, gate, nextDevice, activeTrials, activeByDevice, held, scan>>
counters == <<activeTrials, activeByDevice>>

NoSlots == [d \in Devices |-> 0]
Capacity == MapThenSumSet(LAMBDA d : DeviceSlots[d], Devices)
SlotCount(h) == MapThenSumSet(LAMBDA d : h[d], Devices)

Goto(t, label) == pc' = [pc EXCEPT ![t] = label]

Init ==
  /\ pc = [t \in Tasks |-> "new"]
  /\ cpuFree = CpuLanes
  /\ gpuFree = DeviceSlots
  /\ gate = NoTask
  /\ nextDevice = 0
  /\ activeTrials = 0
  /\ activeByDevice = NoSlots
  /\ held = [t \in Tasks |-> NoSlots]
  /\ scan = [t \in Tasks |-> [start |-> 0, offset |-> 0]]

-----------------------------------------------------------------------------
(* The semaphores and counters; each definition with its faulty forms.     *)

HasNoLessThanNone(d) == gpuFree[d] >= 0
HasSlot(d) == gpuFree[d] > 0

NotGivenBack(t) == gpuFree
GivenBack(t) == [d \in Devices |-> gpuFree[d] + held[t][d]]

NotBelowZero(n) == IF n < 0 THEN 0 ELSE n
LoweredOnFirst(t) ==
  [activeByDevice EXCEPT ![Min({d \in Devices : held[t][d] > 0})] = NotBelowZero(@ - 1)]
Lowered(t) == [d \in Devices |-> NotBelowZero(activeByDevice[d] - held[t][d])]

GateStaysShut(t) == t
GateAfterTimeout(t) == NoTask

Missing(t) == {d \in Devices : held[t][d] < DeviceSlots[d]}

-----------------------------------------------------------------------------
(* acquire                                                                 *)

AcquireCpu(t) ==
  /\ pc[t] = "new" /\ Class[t] = "CPU"
  /\ cpuFree > 0
  /\ cpuFree' = cpuFree - 1
  /\ Goto(t, "running")
  /\ UNCHANGED <<gpuFree, gate, nextDevice, counters, held, scan>>

\* A GPU task without any GPU slot raises, and any task may time out while
\* the semaphore or the gate it waits for is taken.
AcquireFails(t) ==
  /\ pc[t] = "new"
  /\ IF Class[t] = "CPU" THEN cpuFree = 0 ELSE Capacity = 0 \/ gate # NoTask
  /\ Goto(t, "failed")
  /\ UNCHANGED <<cpuFree, gpuFree, gate, nextDevice, counters, held, scan>>

\* Only the holder of the gate changes nextDevice, so reading it belongs to
\* the step that takes the gate.
AcquireGate(t) ==
  /\ pc[t] = "new" /\ Class[t] # "CPU" /\ Capacity > 0
  /\ gate = NoTask
  /\ gate' = t
  /\ scan' = [scan EXCEPT ![t] = [start |-> nextDevice, offset |-> 0]]
  /\ Goto(t, IF Class[t] = "GPU" THEN "scan" ELSE "drain")
  /\ UNCHANGED <<cpuFree, gpuFree, nextDevice, counters, held>>

-----------------------------------------------------------------------------
(* acquire, shared GPU use: scan the devices from nextDevice on            *)

Scanned(t) == (scan[t].start + scan[t].offset) % DeviceCount

MoreDevices(t) == scan[t].offset < DeviceCount

TryDevice(t) ==
  /\ pc[t] = "scan" /\ MoreDevices(t)
  /\ LET d == Scanned(t)
     IN  IF HasSlot(d)
         THEN /\ gpuFree' = [gpuFree EXCEPT ![d] = @ - 1]
              /\ held' = [held EXCEPT ![t][d] = 1]
              /\ Goto(t, "count")
              /\ UNCHANGED scan
         ELSE /\ scan' = [scan EXCEPT ![t].offset = @ + 1]
              /\ UNCHANGED <<gpuFree, held, pc>>
  /\ UNCHANGED <<cpuFree, gate, nextDevice, counters>>

\* No device had a free slot: sleep and scan again, or time out.
Rescan(t) ==
  /\ pc[t] = "scan" /\ scan[t].offset = DeviceCount
  /\ scan' = [scan EXCEPT ![t] = [start |-> nextDevice, offset |-> 0]]
  /\ UNCHANGED <<pc, cpuFree, gpuFree, gate, nextDevice, counters, held>>

ScanTimesOut(t) ==
  /\ pc[t] = "scan" /\ scan[t].offset = DeviceCount
  /\ gate' = GateAfterTimeout(t)
  /\ Goto(t, "failed")
  /\ UNCHANGED <<cpuFree, gpuFree, nextDevice, counters, held, scan>>

CountDevice(t) ==
  LET d == Scanned(t)
  IN  /\ pc[t] = "count"
      /\ nextDevice' = (d + 1) % DeviceCount
      /\ activeTrials' = activeTrials + 1
      /\ activeByDevice' = [activeByDevice EXCEPT ![d] = @ + 1]
      /\ Goto(t, "open")
      /\ UNCHANGED <<cpuFree, gpuFree, gate, held, scan>>

OpenGate(t) ==
  /\ pc[t] = "open"
  /\ gate' = NoTask
  /\ Goto(t, "running")
  /\ UNCHANGED <<cpuFree, gpuFree, nextDevice, counters, held, scan>>

-----------------------------------------------------------------------------
(* acquire, exclusive GPU use: take every slot of every device in order    *)

DrainSlot(t) ==
  /\ pc[t] = "drain" /\ Missing(t) # {}
  /\ LET d == Min(Missing(t))
     IN  /\ HasSlot(d)
         /\ gpuFree' = [gpuFree EXCEPT ![d] = @ - 1]
         /\ held' = [held EXCEPT ![t][d] = @ + 1]
  /\ UNCHANGED <<pc, cpuFree, gate, nextDevice, counters, scan>>

\* The slots drained so far are given back, then the gate: nobody can take a
\* slot in between without the gate.
DrainTimesOut(t) ==
  /\ pc[t] = "drain" /\ Missing(t) # {}
  /\ gpuFree[Min(Missing(t))] = 0
  /\ gpuFree' = GivenBack(t)
  /\ held' = [held EXCEPT ![t] = NoSlots]
  /\ gate' = GateAfterTimeout(t)
  /\ Goto(t, "failed")
  /\ UNCHANGED <<cpuFree, nextDevice, counters, scan>>

CountExclusive(t) ==
  /\ pc[t] = "drain" /\ Missing(t) = {}
  /\ activeTrials' = activeTrials + SlotCount(held[t])
  /\ activeByDevice' = [d \in Devices |-> activeByDevice[d] + held[t][d]]
  /\ Goto(t, "running")
  /\ UNCHANGED <<cpuFree, gpuFree, gate, nextDevice, held, scan>>

-----------------------------------------------------------------------------
(* The child process ends or is killed with its tree; release              *)

FinishCpu(t) ==
  /\ pc[t] = "running" /\ Class[t] = "CPU"
  /\ cpuFree' = cpuFree + 1
  /\ Goto(t, "done")
  /\ UNCHANGED <<gpuFree, gate, nextDevice, counters, held, scan>>

Uncount(t) ==
  /\ pc[t] = "running" /\ Class[t] # "CPU"
  /\ activeTrials' = NotBelowZero(activeTrials - SlotCount(held[t]))
  /\ activeByDevice' = Lowered(t)
  /\ Goto(t, "release")
  /\ UNCHANGED <<cpuFree, gpuFree, gate, nextDevice, held, scan>>

ReleaseSlots(t) ==
  /\ pc[t] = "release"
  /\ gpuFree' = GivenBack(t)
  /\ held' = [held EXCEPT ![t] = NoSlots]
  /\ Goto(t, IF Class[t] = "GPU" THEN "done" ELSE "reopen")
  /\ UNCHANGED <<cpuFree, gate, nextDevice, counters, scan>>

ReopenGate(t) ==
  /\ pc[t] = "reopen"
  /\ gate' = NoTask
  /\ Goto(t, "done")
  /\ UNCHANGED <<cpuFree, gpuFree, nextDevice, counters, held, scan>>

-----------------------------------------------------------------------------
Ended == {"done", "failed"}
AllEnded == (\A t \in Tasks : pc[t] \in Ended) /\ UNCHANGED vars

Work(t) ==
  \/ AcquireCpu(t) \/ AcquireGate(t)
  \/ TryDevice(t) \/ Rescan(t) \/ CountDevice(t) \/ OpenGate(t)
  \/ DrainSlot(t) \/ CountExclusive(t)
  \/ FinishCpu(t) \/ Uncount(t) \/ ReleaseSlots(t) \/ ReopenGate(t)

TimeOut(t) == AcquireFails(t) \/ ScanTimesOut(t) \/ DrainTimesOut(t)

Next == AllEnded \/ \E t \in Tasks : Work(t) \/ TimeOut(t)

\* A thread that can go on does; a timeout is never relied upon.
Fairness == \A t \in Tasks : WF_vars(Work(t))

Spec == Init /\ [][Next]_vars /\ Fairness

-----------------------------------------------------------------------------
(* No path, a timeout in the middle of a drain included, loses a device    *)
(* slot or gives one back twice, and ended tasks hold none.                *)
SlotsConserved ==
  /\ \A d \in Devices :
       gpuFree[d] + MapThenSumSet(LAMBDA t : held[t][d], Tasks) = DeviceSlots[d]
  /\ \A t \in Tasks : pc[t] \in Ended => held[t] = NoSlots /\ gate # t

(* The status never reports more running trials than slots: counters are   *)
(* raised after the slots are taken and lowered before they are given back,*)
(* and the total agrees with the devices.                                  *)
StatusWithinSlots ==
  /\ \A d \in Devices : activeByDevice[d] <= DeviceSlots[d] - gpuFree[d]
  /\ activeTrials = SlotCount(activeByDevice)

(* Nothing waits for ever: every task gets its lease and ends, or fails,   *)
(* with exclusive tasks draining slots that shared tasks still use.        *)
EveryTaskEnds == \A t \in Tasks : <>(pc[t] \in Ended)

-----------------------------------------------------------------------------
(* The slots of a task count as granted from the last one it takes to the  *)
(* step that gives them back.                                              *)
Granted ==
  [t \in Tasks |-> IF pc[t] = "drain" /\ Missing(t) # {} THEN NoSlots ELSE held[t]]

Admission == INSTANCE SlotAdmission
  WITH Slots <- DeviceSlots, holding <- Granted,
       Exclusive <- {t \in Tasks : Class[t] = "EXCLUSIVE_GPU"},
       Demand <- [t \in Tasks |-> 1]

(* The scheduler implements the all-or-nothing admission it stands for.    *)
ImplementsAdmission == Admission!Spec
=============================================================================

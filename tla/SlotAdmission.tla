---------------------------- MODULE SlotAdmission ----------------------------
(***************************************************************************)
(* What a GPU admission controller promises its callers: a task is granted *)
(* all the slots it asked for in one step or none, the slots out on a      *)
(* device never exceed the device's slots, a task that asked for exclusive *)
(* use has the whole machine, and slots come back in one step.             *)
(* ResourceScheduler implements it.                                        *)
(***************************************************************************)
EXTENDS Integers, FiniteSets, FiniteSetsExt

CONSTANTS Tasks, Devices,
          Slots,          \* slots of each device
          Exclusive,      \* the tasks that ask for the whole machine
          Demand          \* slots a task that is not exclusive asks for

VARIABLE holding          \* slots each task holds on each device

NoSlots == [d \in Devices |-> 0]
Used(d) == MapThenSumSet(LAMBDA t : holding[t][d], Tasks)

Init == holding = [t \in Tasks |-> NoSlots]

\* The slots of a task that is not exclusive are all on one device.
GrantShared(t, d) ==
  /\ t \notin Exclusive /\ holding[t] = NoSlots
  /\ Used(d) + Demand[t] <= Slots[d]
  /\ holding' = [holding EXCEPT ![t][d] = Demand[t]]

GrantExclusive(t) ==
  /\ t \in Exclusive
  /\ \A u \in Tasks : holding[u] = NoSlots
  /\ holding' = [holding EXCEPT ![t] = Slots]

Release(t) ==
  /\ holding[t] # NoSlots
  /\ holding' = [holding EXCEPT ![t] = NoSlots]

Next == \E t \in Tasks : \/ \E d \in Devices : GrantShared(t, d)
                         \/ GrantExclusive(t)
                         \/ Release(t)

Spec == Init /\ [][Next]_holding
=============================================================================

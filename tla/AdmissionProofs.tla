---------------------------- MODULE AdmissionProofs ----------------------------
(***************************************************************************)
(* Proofs about the two sides of SlotAdmission.  ResourceScheduler, for    *)
(* any tasks, classes and devices: no slot is lost or given back twice, the*)
(* status stays within the slots, and it implements SlotAdmission.         *)
(* BroadCampaign, which takes its leases from SlotAdmission: its children  *)
(* stay under leases, and its rows, files and summary agree.               *)
(*                                                                         *)
(* The argument for the scheduler: free slots and those tasks hold add up  *)
(* to the device's, the counters are the sums of what tasks between their  *)
(* counting and their uncounting hold, the gate tells who may scan or      *)
(* drain, and where a task is tells what it holds.  Sums over devices and  *)
(* tasks are the folds of the community modules; the first part proves what*)
(* a sum does when one term changes, each time from a minimal set that     *)
(* would be an exception.  The last part is the campaign.                  *)
(***************************************************************************)
EXTENDS ResourceScheduler, BroadCampaign, FiniteSetTheorems, WellFoundedInduction, TLAPS

(* Sums over finite sets.                                                  *)

Sum(f, S) == MapThenSumSet(LAMBDA x : f[x], S)
Some(s) == CHOOSE x \in s : TRUE
\* g is the function the fold defines: the sum of f over every subset of S.
Adds(g, f, S) ==
  g = [s \in SUBSET S |-> IF s = {} THEN 0 ELSE f[Some(s)] + g[s \ {Some(s)}]]

\* What the folds of the community modules compute, by their definition: the
\* value of the function that adds a chosen element at a time.
LEMMA Unfold ==
  ASSUME NEW f, NEW S
  PROVE  Sum(f, S) = (CHOOSE g : Adds(g, f, S))[S]
BY DEF Sum, MapThenSumSet, MapThenFoldSet, Adds, Some

\* A sum over the entries of a table is the sum of a function.
LEMMA SumOfEntries ==
  ASSUME NEW h, NEW S, NEW d
  PROVE  MapThenSumSet(LAMBDA t : h[t][d], S) = Sum([t \in S |-> h[t][d]], S)
<1> DEFINE f == [t \in S |-> h[t][d]]
<1>1. MapThenSumSet(LAMBDA t : h[t][d], S) =
      (CHOOSE g : g = [s \in SUBSET S |-> IF s = {} THEN 0 ELSE h[Some(s)][d] + g[s \ {Some(s)}]])[S]
  BY DEF MapThenSumSet, MapThenFoldSet, Some
<1>2. \A g : g = [s \in SUBSET S |-> IF s = {} THEN 0 ELSE h[Some(s)][d] + g[s \ {Some(s)}]] <=> Adds(g, f, S)
  <2>1. \A s \in SUBSET S : s # {} => Some(s) \in S
    BY DEF Some
  <2>2. \A s \in SUBSET S : s # {} => f[Some(s)] = h[Some(s)][d]
    BY <2>1
  <2> QED
    BY <2>2 DEF Adds
<1>3. (CHOOSE g : g = [s \in SUBSET S |-> IF s = {} THEN 0 ELSE h[Some(s)][d] + g[s \ {Some(s)}]])
     = (CHOOSE g : Adds(g, f, S))
  BY <1>2, Zenon
<1> QED
  BY <1>1, <1>3, Unfold

\* A non-empty set of subsets of a finite set has a minimal member.
LEMMA Minimal ==
  ASSUME NEW S, IsFiniteSet(S), NEW T \in SUBSET SUBSET S, T # {}
  PROVE  \E m \in T : \A u \in T : u \subseteq m => u = m
<1> DEFINE R == StrictSubsetOrdering(S)
           F == FiniteSubsetsOf(S)
<1>1. IsWellFoundedOn(R, F)
  BY FS_StrictSubsetOrderingWellFounded
<1>2. T \subseteq F
  BY FS_Subset DEF FiniteSubsetsOf
<1>3. PICK m \in T : \A u \in T : ~(<<u, m>> \in R)
  <2> HIDE DEF R, F
  <2> QED
    BY <1>1, <1>2, WFMin
<1>4. \A u \in T : u \subseteq m => u = m
  BY <1>2, <1>3 DEF StrictSubsetOrdering, FiniteSubsetsOf
<1> QED
  BY <1>4

\* Two functions that add up f agree on every finite set they both know: a
\* minimal set they differ on cannot be.
LEMMA Unique ==
  ASSUME NEW f, NEW A, NEW B, NEW V, IsFiniteSet(V), V \subseteq A, V \subseteq B,
         NEW g, NEW h, Adds(g, f, A), Adds(h, f, B)
  PROVE  g[V] = h[V]
<1> DEFINE T == {s \in SUBSET V : g[s] # h[s]}
<1>1. SUFFICES T = {}
  OBVIOUS
<1>2. SUFFICES ASSUME T # {} PROVE FALSE
  OBVIOUS
<1>3. PICK m \in T : \A u \in T : u \subseteq m => u = m
  <2>1. T \in SUBSET SUBSET V
    OBVIOUS
  <2> HIDE DEF T
  <2> QED
    BY <1>2, <2>1, Minimal
<1>4. g[m] = IF m = {} THEN 0 ELSE f[Some(m)] + g[m \ {Some(m)}]
  BY DEF Adds
<1>5. h[m] = IF m = {} THEN 0 ELSE f[Some(m)] + h[m \ {Some(m)}]
  BY DEF Adds
<1>6. m # {}
  BY <1>4, <1>5
<1>7. Some(m) \in m
  BY <1>6 DEF Some
<1>8. m \ {Some(m)} \in SUBSET V /\ m \ {Some(m)} \notin T
  BY <1>3, <1>7
<1> QED
  BY <1>4, <1>5, <1>6, <1>8

\* A function that adds up f exists: on a minimal set without one it can be
\* put together from those of the smaller sets.
LEMMA Exists ==
  ASSUME NEW f, NEW S, IsFiniteSet(S), \A x \in S : f[x] \in Nat
  PROVE  \E g \in [SUBSET S -> Nat] : Adds(g, f, S)
<1> DEFINE Good(U) == \E g \in [SUBSET U -> Nat] : Adds(g, f, U)
           T == {U \in SUBSET S : ~Good(U)}
<1>1. SUFFICES T = {}
  OBVIOUS
<1>2. SUFFICES ASSUME T # {} PROVE FALSE
  OBVIOUS
<1>3. PICK m \in T : \A u \in T : u \subseteq m => u = m
  <2>1. T \in SUBSET SUBSET S
    OBVIOUS
  <2> HIDE DEF T
  <2> QED
    BY <1>2, <2>1, Minimal
<1> DEFINE G(U) == CHOOSE g \in [SUBSET U -> Nat] : Adds(g, f, U)
           h == [s \in SUBSET m |-> IF s = {} THEN 0
                   ELSE f[Some(s)] + G(s \ {Some(s)})[s \ {Some(s)}]]
<1>4. \A U \in SUBSET m : U # m => G(U) \in [SUBSET U -> Nat] /\ Adds(G(U), f, U)
  BY <1>3
<1>5. \A s \in SUBSET m : s # {} =>
        Some(s) \in s /\ s \ {Some(s)} \in SUBSET m /\ s \ {Some(s)} # m
  BY DEF Some
<1> HIDE DEF G
<1>6. h \in [SUBSET m -> Nat]
  <2> SUFFICES ASSUME NEW s \in SUBSET m, s # {}
               PROVE  f[Some(s)] + G(s \ {Some(s)})[s \ {Some(s)}] \in Nat
    OBVIOUS
  <2> DEFINE u == s \ {Some(s)}
  <2>1. u \in SUBSET m /\ u # m /\ f[Some(s)] \in Nat
    BY <1>5
  <2>2. G(u) \in [SUBSET u -> Nat]
    BY <1>4, <2>1
  <2> HIDE DEF u
  <2>3. G(u)[u] \in Nat
    BY <2>2
  <2> USE DEF u
  <2> QED
    BY <2>1, <2>3
<1>7. \A U \in SUBSET m : U # m => h[U] = G(U)[U]
  <2> SUFFICES ASSUME NEW U \in SUBSET m, U # m
               PROVE  h[U] = G(U)[U]
    OBVIOUS
  <2>1. G(U)[U] = IF U = {} THEN 0 ELSE f[Some(U)] + G(U)[U \ {Some(U)}]
    BY <1>4 DEF Adds
  <2>2. CASE U = {}
    BY <2>1, <2>2
  <2>3. CASE U # {}
    <3> DEFINE V == U \ {Some(U)}
    <3>1. V \in SUBSET m /\ V # m /\ V \subseteq U /\ IsFiniteSet(V)
      BY <1>5, <2>3, FS_Subset
    <3>2. G(V)[V] = G(U)[V]
      <4>1. Adds(G(V), f, V) /\ Adds(G(U), f, U)
        BY <1>4, <3>1
      <4> HIDE DEF V
      <4> QED
        BY <3>1, <4>1, Unique
    <3> QED
      BY <2>1, <2>3, <3>2
  <2> QED
    BY <2>2, <2>3
<1>8. Adds(h, f, m)
  <2>1. \A s \in SUBSET m : s # {} =>
          h[s \ {Some(s)}] = G(s \ {Some(s)})[s \ {Some(s)}]
    BY <1>5, <1>7
  <2>2. h = [s \in SUBSET m |-> IF s = {} THEN 0 ELSE f[Some(s)] + h[s \ {Some(s)}]]
    BY <2>1
  <2> HIDE DEF h
  <2> QED
    BY <2>2 DEF Adds
<1> HIDE DEF h
<1> QED
  BY <1>3, <1>6, <1>8

\* Sums of natural numbers are natural numbers.
LEMMA SumType ==
  ASSUME NEW f, NEW S, IsFiniteSet(S), \A x \in S : f[x] \in Nat
  PROVE  Sum(f, S) \in Nat
<1> DEFINE g == CHOOSE g : Adds(g, f, S)
<1>1. PICK h \in [SUBSET S -> Nat] : Adds(h, f, S)
  BY Exists
<1>2. Adds(g, f, S)
  BY <1>1
<1> HIDE DEF g
<1>3. g[S] = h[S]
  BY <1>1, <1>2, Unique
<1> QED
  BY <1>1, <1>3, Unfold DEF g

\* The sum over no element is zero.
LEMMA SumEmpty == ASSUME NEW f PROVE Sum(f, {}) = 0
<1>1. IsFiniteSet({})
  BY FS_EmptySet
<1>2. PICK h \in [SUBSET {} -> Nat] : Adds(h, f, {})
  BY <1>1, Exists
<1> DEFINE g == CHOOSE g : Adds(g, f, {})
<1>3. Adds(g, f, {})
  BY <1>2
<1> HIDE DEF g
<1>4. g[{}] = 0
  BY <1>3 DEF Adds
<1> QED
  BY <1>4, Unfold DEF g

\* A sum is the chosen element's term and the sum over the rest.
LEMMA SumSome ==
  ASSUME NEW f, NEW S, IsFiniteSet(S), \A x \in S : f[x] \in Nat, S # {}
  PROVE  Some(S) \in S /\ Sum(f, S) = f[Some(S)] + Sum(f, S \ {Some(S)})
<1> DEFINE U == S \ {Some(S)}
           G(V) == CHOOSE g : Adds(g, f, V)
<1>1. Some(S) \in S
  BY DEF Some
<1>2. U \subseteq S /\ IsFiniteSet(U) /\ \A x \in U : f[x] \in Nat
  BY FS_Subset
<1> HIDE DEF U
<1>3. Adds(G(S), f, S) /\ Adds(G(U), f, U)
  <2>1. (\E g : Adds(g, f, S)) /\ (\E g : Adds(g, f, U))
    BY <1>2, Exists
  <2> QED
    BY <2>1
<1> HIDE DEF G
<1>4. G(S)[U] = G(U)[U]
  BY <1>2, <1>3, Unique
<1>5. G(S)[S] = f[Some(S)] + G(S)[U]
  BY <1>3 DEF Adds, U
<1>6. Sum(f, S) = G(S)[S] /\ Sum(f, U) = G(U)[U]
  BY Unfold DEF G
<1> QED
  BY <1>1, <1>4, <1>5, <1>6 DEF U

\* It is any element's term and the sum over the rest: the order in which the
\* fold takes the elements is of no account.
LEMMA SumRemove ==
  ASSUME NEW f, NEW S, IsFiniteSet(S), \A x \in S : f[x] \in Nat, NEW x \in S
  PROVE  Sum(f, S) = f[x] + Sum(f, S \ {x})
<1> DEFINE Bad(U) == \E y \in U : Sum(f, U) # f[y] + Sum(f, U \ {y})
           T == {U \in SUBSET S : Bad(U)}
<1>1. SUFFICES ASSUME T # {} PROVE FALSE
  OBVIOUS
<1>2. PICK m \in T : \A u \in T : u \subseteq m => u = m
  <2>1. T \in SUBSET SUBSET S
    OBVIOUS
  <2> HIDE DEF T
  <2> QED
    BY <1>1, <2>1, Minimal
<1>3. PICK y \in m : Sum(f, m) # f[y] + Sum(f, m \ {y})
  BY <1>2
<1> DEFINE z == Some(m)
<1>4. \A u \in SUBSET m : u # m => ~Bad(u)
  BY <1>2
<1>5. \A u \in SUBSET m : IsFiniteSet(u) /\ Sum(f, u) \in Nat
  <2> SUFFICES ASSUME NEW u \in SUBSET m
               PROVE  IsFiniteSet(u) /\ Sum(f, u) \in Nat
    OBVIOUS
  <2>1. u \in SUBSET S
    BY <1>2
  <2>2. IsFiniteSet(u) /\ \A v \in u : f[v] \in Nat
    BY <2>1, FS_Subset
  <2> QED
    BY <2>2, SumType
<1>6. m \subseteq S /\ m # {} /\ \A v \in m : f[v] \in Nat
  BY <1>2, <1>3
<1>7. z \in m /\ Sum(f, m) = f[z] + Sum(f, m \ {z})
  BY <1>5, <1>6, SumSome
<1> HIDE DEF z, T
<1>8. y # z
  BY <1>3, <1>7
<1>9. Sum(f, m \ {z}) = f[y] + Sum(f, (m \ {z}) \ {y})
  BY <1>4, <1>7, <1>8
<1>10. Sum(f, m \ {y}) = f[z] + Sum(f, (m \ {y}) \ {z})
  BY <1>3, <1>4, <1>7, <1>8
<1>11. (m \ {z}) \ {y} = (m \ {y}) \ {z}
  OBVIOUS
<1>12. f[y] \in Nat /\ f[z] \in Nat /\ Sum(f, (m \ {y}) \ {z}) \in Nat
  BY <1>5, <1>6, <1>7
<1> HIDE DEF Bad
<1> QED
  BY <1>3, <1>7, <1>9, <1>10, <1>11, <1>12

\* One sum is at least another when each of its terms is.
LEMMA SumMonotone ==
  ASSUME NEW f, NEW g, NEW S, IsFiniteSet(S),
         \A x \in S : f[x] \in Nat /\ g[x] \in Nat /\ f[x] <= g[x]
  PROVE  Sum(f, S) <= Sum(g, S)
<1> DEFINE T == {U \in SUBSET S : ~(Sum(f, U) <= Sum(g, U))}
<1>1. SUFFICES ASSUME T # {} PROVE FALSE
  OBVIOUS
<1>2. PICK m \in T : \A u \in T : u \subseteq m => u = m
  <2>1. T \in SUBSET SUBSET S
    OBVIOUS
  <2> HIDE DEF T
  <2> QED
    BY <1>1, <2>1, Minimal
<1>3. m # {}
  BY SumEmpty
<1>4. PICK x \in m : TRUE
  BY <1>3
<1>5. IsFiniteSet(m) /\ IsFiniteSet(m \ {x}) /\ m \ {x} \in SUBSET S
  BY FS_Subset
<1>6. /\ Sum(f, m) = f[x] + Sum(f, m \ {x})
      /\ Sum(g, m) = g[x] + Sum(g, m \ {x})
  BY <1>5, SumRemove
<1>7. Sum(f, m \ {x}) \in Nat /\ Sum(g, m \ {x}) \in Nat
  BY <1>5, SumType
<1>8. Sum(f, m \ {x}) <= Sum(g, m \ {x})
  BY <1>2, <1>5
<1> QED
  BY <1>6, <1>7, <1>8

\* The sum of sums.
LEMMA SumOfSums ==
  ASSUME NEW f, NEW g, NEW h, NEW S, IsFiniteSet(S),
         \A x \in S : f[x] \in Nat /\ g[x] \in Nat /\ h[x] = f[x] + g[x]
  PROVE  Sum(h, S) = Sum(f, S) + Sum(g, S)
<1> DEFINE T == {U \in SUBSET S : Sum(h, U) # Sum(f, U) + Sum(g, U)}
<1>1. SUFFICES ASSUME T # {} PROVE FALSE
  OBVIOUS
<1>2. PICK m \in T : \A u \in T : u \subseteq m => u = m
  <2>1. T \in SUBSET SUBSET S
    OBVIOUS
  <2> HIDE DEF T
  <2> QED
    BY <1>1, <2>1, Minimal
<1>3. m # {}
  <2> SUFFICES ASSUME m = {} PROVE FALSE
    OBVIOUS
  <2>1. Sum(f, {}) = 0 /\ Sum(g, {}) = 0 /\ Sum(h, {}) = 0
    BY SumEmpty
  <2>2. Sum(h, m) # Sum(f, m) + Sum(g, m)
    OBVIOUS
  <2> QED
    BY <2>1, <2>2
<1>4. PICK x \in m : TRUE
  BY <1>3
<1>5. /\ IsFiniteSet(m) /\ IsFiniteSet(m \ {x}) /\ m \ {x} \in SUBSET S
      /\ \A v \in S : h[v] \in Nat
  BY FS_Subset
<1>6. /\ Sum(f, m) = f[x] + Sum(f, m \ {x})
      /\ Sum(g, m) = g[x] + Sum(g, m \ {x})
      /\ Sum(h, m) = h[x] + Sum(h, m \ {x})
  BY <1>5, SumRemove
<1>7. Sum(f, m \ {x}) \in Nat /\ Sum(g, m \ {x}) \in Nat
  BY <1>5, SumType
<1>8. Sum(h, m \ {x}) = Sum(f, m \ {x}) + Sum(g, m \ {x})
  BY <1>2, <1>5
<1> QED
  BY <1>6, <1>7, <1>8

\* Equal terms, equal sums.
LEMMA SumEqual ==
  ASSUME NEW f, NEW g, NEW S, IsFiniteSet(S),
         \A x \in S : f[x] \in Nat /\ g[x] = f[x]
  PROVE  Sum(f, S) = Sum(g, S)
<1>1. Sum(f, S) <= Sum(g, S) /\ Sum(g, S) <= Sum(f, S)
  BY SumMonotone
<1>2. Sum(f, S) \in Nat /\ Sum(g, S) \in Nat
  BY SumType
<1> QED
  BY <1>1, <1>2

\* A change of one term.
LEMMA SumChange ==
  ASSUME NEW f, NEW g, NEW S, IsFiniteSet(S), NEW x \in S,
         \A y \in S : f[y] \in Nat /\ g[y] \in Nat /\ (y # x => g[y] = f[y])
  PROVE  Sum(g, S) - g[x] = Sum(f, S) - f[x]
<1>1. IsFiniteSet(S \ {x})
  BY FS_Subset
<1>2. Sum(f, S \ {x}) = Sum(g, S \ {x}) /\ Sum(f, S \ {x}) \in Nat
  BY <1>1, SumEqual, SumType
<1>3. Sum(f, S) = f[x] + Sum(f, S \ {x}) /\ Sum(g, S) = g[x] + Sum(g, S \ {x})
  BY SumRemove
<1>4. f[x] \in Nat /\ g[x] \in Nat
  OBVIOUS
<1> QED
  BY <1>2, <1>3, <1>4

\* Two different terms are no more than the sum.
LEMMA SumBound ==
  ASSUME NEW f, NEW S, IsFiniteSet(S), \A x \in S : f[x] \in Nat, NEW x \in S
  PROVE  /\ f[x] <= Sum(f, S)
         /\ \A y \in S \ {x} : f[x] + f[y] <= Sum(f, S)
<1>1. IsFiniteSet(S \ {x})
  BY FS_Subset
<1>2. Sum(f, S) = f[x] + Sum(f, S \ {x}) /\ Sum(f, S \ {x}) \in Nat
  BY <1>1, SumRemove, SumType
<1>3. \A y \in S \ {x} : f[y] <= Sum(f, S \ {x})
  <2> SUFFICES ASSUME NEW y \in S \ {x}
               PROVE  f[y] <= Sum(f, S \ {x})
    OBVIOUS
  <2>1. IsFiniteSet((S \ {x}) \ {y})
    BY FS_Subset
  <2>2. Sum(f, S \ {x}) = f[y] + Sum(f, (S \ {x}) \ {y}) /\ Sum(f, (S \ {x}) \ {y}) \in Nat
    BY <1>1, <2>1, SumRemove, SumType
  <2> QED
    BY <2>2
<1>4. f[x] \in Nat /\ \A y \in S \ {x} : f[y] \in Nat
  OBVIOUS
<1>5. Sum(f, S) = f[x] + Sum(f, S \ {x}) /\ Sum(f, S \ {x}) \in Nat
  BY <1>2
<1> DEFINE all == Sum(f, S)
           rest == Sum(f, S \ {x})
<1> HIDE DEF all, rest
<1>6. all = f[x] + rest /\ rest \in Nat /\ \A y \in S \ {x} : f[y] <= rest
  BY <1>3, <1>5 DEF all, rest
<1>7. f[x] <= all /\ \A y \in S \ {x} : f[x] + f[y] <= all
  BY <1>4, <1>6
<1> QED
  BY <1>7 DEF all

\* A positive sum has a positive term.
LEMMA SumPositive ==
  ASSUME NEW f, NEW S, IsFiniteSet(S), \A x \in S : f[x] \in Nat, Sum(f, S) > 0
  PROVE  \E x \in S : f[x] > 0
<1> DEFINE zero == [x \in S |-> 0]
<1>1. Sum(zero, S) = Sum(zero, S) + Sum(zero, S)
  BY SumOfSums
<1>2. Sum(zero, S) \in Nat
  BY SumType
<1>3. Sum(zero, S) = 0
  BY <1>1, <1>2
<1>4. SUFFICES ASSUME \A x \in S : ~(f[x] > 0) PROVE FALSE
  OBVIOUS
<1>5. Sum(f, S) = Sum(zero, S)
  <2>1. \A x \in S : f[x] = 0
    BY <1>4
  <2> HIDE DEF zero
  <2>2. \A x \in S : zero[x] = 0
    BY DEF zero
  <2> QED
    BY <2>1, <2>2, SumEqual
<1> QED
  BY <1>3, <1>5

-----------------------------------------------------------------------------
(* The inductive invariant.                                                *)

Labels == {"new", "scan", "count", "open", "drain", "running", "release",
           "reopen", "done", "failed"}
Exclusive == {t \in Tasks : Class[t] = "EXCLUSIVE_GPU"}
Slot(d) == [NoSlots EXCEPT ![d] = 1]
Taken(h, d) == Sum([t \in Tasks |-> h[t][d]], Tasks)
\* The slots of a task that the counters have.
Counted == [t \in Tasks |-> IF pc[t] \in {"open", "running"} THEN held[t] ELSE NoSlots]

TypeInv ==
  /\ pc \in [Tasks -> Labels] /\ gate \in Tasks \union {NoTask}
  /\ nextDevice \in Nat /\ scan \in [Tasks -> [start : Nat, offset : Nat]]
  /\ gpuFree \in [Devices -> Nat] /\ held \in [Tasks -> [Devices -> Nat]]
  /\ activeTrials \in Nat /\ activeByDevice \in [Devices -> Nat]

\* The gate is held from the step that takes it to the one that opens it, by an
\* exclusive task until it has given its slots back.
Gated(t) ==
  \/ pc[t] \in {"scan", "count", "open", "drain"}
  \/ t \in Exclusive /\ pc[t] \in {"running", "release", "reopen"}
GateInv == \A t \in Tasks : gate = t <=> Gated(t)

\* What a task holds where it is.
Idle(t) == Class[t] = "CPU" \/ pc[t] \in {"new", "scan", "reopen", "done", "failed"}
Admitted(t) == pc[t] \in {"open", "running", "release"}
HeldOk(t) ==
  /\ Idle(t) => held[t] = NoSlots
  /\ Class[t] = "CPU" => pc[t] \in {"new", "running", "done", "failed"}
  /\ pc[t] \in {"scan", "count", "open"} => Class[t] = "GPU"
  /\ pc[t] \in {"drain", "reopen"} => t \in Exclusive
  /\ Class[t] # "CPU" => pc[t] \in {"new", "failed"} \/ Capacity > 0
  /\ pc[t] = "count" => Scanned(t) \in Devices /\ held[t] = Slot(Scanned(t))
  /\ Class[t] = "GPU" /\ Admitted(t) => \E d \in Devices : held[t] = Slot(d)
  /\ pc[t] = "drain" => \A d \in Devices : held[t][d] <= DeviceSlots[d]
  /\ t \in Exclusive /\ Admitted(t) => held[t] = DeviceSlots
HeldInv == \A t \in Tasks : HeldOk(t)

SlotInv == \A d \in Devices : gpuFree[d] + Taken(held, d) = DeviceSlots[d]
CountInv ==
  /\ \A d \in Devices : activeByDevice[d] = Taken(Counted, d)
  /\ activeTrials = SlotCount(activeByDevice)

SchedulerInv == TypeInv /\ GateInv /\ HeldInv /\ SlotInv /\ CountInv

-----------------------------------------------------------------------------
(* Slots and devices.                                                      *)

\* There are finitely many devices, numbered from zero.
LEMMA DevicesFinite == IsFiniteSet(Devices) /\ Devices \subseteq Nat
BY DeviceAssumption, FS_Interval DEF Devices

\* The sum of sums over the devices.
LEMMA DeviceSums ==
  ASSUME NEW f, NEW g, NEW h,
         \A d \in Devices : f[d] \in Nat /\ g[d] \in Nat /\ h[d] = f[d] + g[d]
  PROVE  Sum(h, Devices) = Sum(f, Devices) + Sum(g, Devices)
<1> DEFINE S == Devices
<1>1. IsFiniteSet(S) /\ \A x \in S : f[x] \in Nat /\ g[x] \in Nat /\ h[x] = f[x] + g[x]
  BY DevicesFinite
<1> HIDE DEF S
<1>2. Sum(h, S) = Sum(f, S) + Sum(g, S)
  BY <1>1, SumOfSums
<1> QED
  BY <1>2 DEF S

\* NoSlots is no slot on every device.
LEMMA NoSlotsType == NoSlots \in [Devices -> Nat] /\ \A d \in Devices : NoSlots[d] = 0
BY DEF NoSlots

\* Slot(d) is one slot, on d.
LEMMA SlotType ==
  ASSUME NEW d \in Devices
  PROVE  /\ Slot(d) \in [Devices -> Nat] /\ Slot(d)[d] = 1
         /\ \A e \in Devices : e # d => Slot(d)[e] = 0
BY DEF Slot, NoSlots

\* SlotCount, which the counters use, is a sum.
LEMMA CountSlots ==
  ASSUME NEW h
  PROVE  SlotCount(h) = Sum(h, Devices)
BY DEF SlotCount, Sum

\* A shared task's slots add up to one.
LEMMA SlotSum ==
  ASSUME NEW d \in Devices
  PROVE  Sum(Slot(d), Devices) = 1
<1> DEFINE f == Slot(d)
           S == Devices \ {d}
<1>1. IsFiniteSet(Devices) /\ IsFiniteSet(S)
  BY DevicesFinite, FS_Subset
<1>2. /\ f[d] = 1
      /\ \A e \in Devices : f[e] \in Nat
      /\ \A e \in S : f[e] \in Nat /\ ~(f[e] > 0)
  BY SlotType
<1> HIDE DEF f
<1>3. Sum(f, S) \in Nat
  BY <1>1, <1>2, SumType
<1>4. ~(Sum(f, S) > 0)
  BY <1>1, <1>2, SumPositive
<1>5. Sum(f, Devices) = f[d] + Sum(f, S)
  BY <1>1, <1>2, SumRemove
<1>6. Sum(f, Devices) = 1
  BY <1>2, <1>3, <1>4, <1>5
<1> QED
  BY <1>6 DEF f

\* With any capacity there is a device with slots.
LEMMA SomeDevice ==
  ASSUME Capacity > 0
  PROVE  /\ \E d \in Devices : DeviceSlots[d] > 0
         /\ DeviceCount \in Nat \ {0}
<1>1. Sum(DeviceSlots, Devices) > 0
  BY DEF Capacity, Sum
<1>2. \E d \in Devices : DeviceSlots[d] > 0
  BY <1>1, DeviceAssumption, DevicesFinite, SumPositive
<1> QED
  BY <1>2, DeviceAssumption DEF Devices

\* The least of some devices is one of them: the drain has a device to take.
LEMMA LeastDevice ==
  ASSUME NEW M \in SUBSET Devices, M # {}
  PROVE  Min(M) \in M
<1>1. M \subseteq Nat
  BY DevicesFinite
<1> DEFINE R == OpToRel(<, Nat)
<1>2. \A n, m \in Nat : n < m => <<n, m>> \in R
  BY DEF OpToRel
<1>3. IsWellFoundedOn(R, Nat)
  BY NatLessThanWellFounded
<1> HIDE DEF R
<1>4. PICK m \in M : \A n \in M : ~(<<n, m>> \in R)
  BY <1>1, <1>3, WFMin
<1>5. \A n \in M : m <= n
  <2> SUFFICES ASSUME NEW n \in M
               PROVE  m <= n
    OBVIOUS
  <2>1. n \in Nat /\ m \in Nat
    BY <1>1
  <2>2. ~(n < m)
    BY <1>2, <1>4, <2>1, Zenon
  <2> QED
    BY <2>1, <2>2
<1> QED
  BY <1>5 DEF Min

\* What is taken of a device, what one task has of it and what two have.
LEMMA TakenTypes ==
  ASSUME NEW h \in [Tasks -> [Devices -> Nat]], NEW d \in Devices
  PROVE  /\ Taken(h, d) \in Nat
         /\ \A t \in Tasks : h[t][d] <= Taken(h, d)
         /\ \A t \in Tasks, u \in Tasks : t # u => h[t][d] + h[u][d] <= Taken(h, d)
<1> DEFINE f == [t \in Tasks |-> h[t][d]]
<1>1. \A t \in Tasks : f[t] \in Nat /\ f[t] = h[t][d]
  OBVIOUS
<1> HIDE DEF f
<1>2. Sum(f, Tasks) \in Nat
  BY <1>1, FiniteAssumption, SumType
<1>3. \A t \in Tasks : /\ f[t] <= Sum(f, Tasks)
                       /\ \A u \in Tasks \ {t} : f[t] + f[u] <= Sum(f, Tasks)
  BY <1>1, FiniteAssumption, SumBound
<1>4. Taken(h, d) = Sum(f, Tasks)
  BY DEF Taken, f
<1> QED
  BY <1>1, <1>2, <1>3, <1>4

\* Where one task's slots change, what is taken changes by as much.
LEMMA TakenChanges ==
  ASSUME NEW h \in [Tasks -> [Devices -> Nat]], NEW g \in [Tasks -> [Devices -> Nat]],
         NEW d \in Devices, NEW t \in Tasks,
         \A u \in Tasks : u # t => g[u] = h[u]
  PROVE  Taken(g, d) - g[t][d] = Taken(h, d) - h[t][d]
<1> DEFINE a == [u \in Tasks |-> h[u][d]]
           b == [u \in Tasks |-> g[u][d]]
<1>1. /\ \A u \in Tasks : a[u] \in Nat /\ b[u] \in Nat /\ (u # t => b[u] = a[u])
      /\ a[t] = h[t][d] /\ b[t] = g[t][d]
  OBVIOUS
<1> HIDE DEF a, b
<1>2. Sum(b, Tasks) - b[t] = Sum(a, Tasks) - a[t]
  BY <1>1, FiniteAssumption, SumChange
<1> QED
  BY <1>1, <1>2 DEF Taken, a, b

\* Where every task has no more, no more is taken.
LEMMA TakenMonotone ==
  ASSUME NEW h \in [Tasks -> [Devices -> Nat]], NEW g \in [Tasks -> [Devices -> Nat]],
         NEW d \in Devices, \A t \in Tasks : g[t][d] <= h[t][d]
  PROVE  Taken(g, d) <= Taken(h, d)
<1> DEFINE a == [u \in Tasks |-> h[u][d]]
           b == [u \in Tasks |-> g[u][d]]
<1>1. \A u \in Tasks : a[u] \in Nat /\ b[u] \in Nat /\ b[u] <= a[u]
  OBVIOUS
<1> HIDE DEF a, b
<1>2. Sum(b, Tasks) <= Sum(a, Tasks)
  BY <1>1, FiniteAssumption, SumMonotone
<1> QED
  BY <1>2 DEF Taken, a, b

\* Where no task has a slot, none is taken.
LEMMA NothingTaken ==
  ASSUME NEW h, NEW d \in Devices, \A t \in Tasks : h[t] = NoSlots
  PROVE  Taken(h, d) = 0
<1> DEFINE f == [t \in Tasks |-> h[t][d]]
<1>1. \A t \in Tasks : f[t] = 0 /\ f[t] \in Nat
  BY NoSlotsType
<1> HIDE DEF f
<1>2. ~(Sum(f, Tasks) > 0) /\ Sum(f, Tasks) \in Nat
  BY <1>1, FiniteAssumption, SumPositive, SumType
<1> QED
  BY <1>2 DEF Taken, f

\* The slots the counters have are slots tasks hold.
LEMMA CountedType ==
  ASSUME TypeInv
  PROVE  /\ Counted \in [Tasks -> [Devices -> Nat]]
         /\ \A t \in Tasks :
              Counted[t] = IF pc[t] \in {"open", "running"} THEN held[t] ELSE NoSlots
BY NoSlotsType DEF TypeInv, Counted

\* A step that changes what one task holds, the semaphores by as much, keeps
\* the sums.
LEMMA SlotStep ==
  ASSUME TypeInv, SlotInv, TypeInv', NEW t \in Tasks,
         \A u \in Tasks : u # t => held'[u] = held[u],
         \A d \in Devices : gpuFree'[d] + held'[t][d] = gpuFree[d] + held[t][d]
  PROVE  SlotInv'
<1> SUFFICES ASSUME NEW d \in Devices
             PROVE  gpuFree'[d] + Taken(held', d) = DeviceSlots[d]
  BY DEF SlotInv, Taken
<1>1. held \in [Tasks -> [Devices -> Nat]] /\ held' \in [Tasks -> [Devices -> Nat]]
  BY DEF TypeInv
<1>2. Taken(held', d) - held'[t][d] = Taken(held, d) - held[t][d]
  BY <1>1, TakenChanges
<1>3. Taken(held', d) \in Nat /\ Taken(held, d) \in Nat
  BY <1>1, TakenTypes
<1>4. /\ gpuFree[d] \in Nat /\ gpuFree'[d] \in Nat
      /\ held[t][d] \in Nat /\ held'[t][d] \in Nat
  BY DEF TypeInv
<1>5. gpuFree[d] + Taken(held, d) = DeviceSlots[d]
  BY DEF SlotInv
<1> QED
  BY <1>2, <1>3, <1>4, <1>5

\* A step that changes what the counters have of one task, the counters by as
\* much, keeps the sums.
LEMMA CountStep ==
  ASSUME TypeInv, CountInv, TypeInv', NEW t \in Tasks,
         \A u \in Tasks : u # t => pc'[u] = pc[u] /\ held'[u] = held[u],
         \A d \in Devices :
           activeByDevice'[d] + Counted[t][d] = activeByDevice[d] + Counted'[t][d]
  PROVE  \A d \in Devices : activeByDevice'[d] = Taken(Counted', d)
<1> SUFFICES ASSUME NEW d \in Devices
             PROVE  activeByDevice'[d] = Taken(Counted', d)
  OBVIOUS
<1>1. /\ Counted \in [Tasks -> [Devices -> Nat]] /\ Counted' \in [Tasks -> [Devices -> Nat]]
      /\ \A u \in Tasks : u # t => Counted'[u] = Counted[u]
  BY CountedType, NoSlotsType DEF TypeInv, Counted
<1>2. Taken(Counted', d) - Counted'[t][d] = Taken(Counted, d) - Counted[t][d]
  BY <1>1, TakenChanges
<1>3. /\ Taken(Counted', d) \in Nat /\ Taken(Counted, d) \in Nat
      /\ Counted[t][d] \in Nat /\ Counted'[t][d] \in Nat
  BY <1>1, TakenTypes
<1>4. activeByDevice[d] \in Nat /\ activeByDevice'[d] \in Nat
  BY DEF TypeInv
<1>5. activeByDevice[d] = Taken(Counted, d)
  BY DEF CountInv
<1> QED
  BY <1>2, <1>3, <1>4, <1>5
-----------------------------------------------------------------------------
(* The invariant through the steps.                                        *)

\* A step that leaves a task's place, slots and scan alone keeps HeldOk for it.
LEMMA OthersKeep ==
  ASSUME HeldInv, NEW t \in Tasks, HeldOk(t)',
         \A u \in Tasks : u # t => pc'[u] = pc[u] /\ held'[u] = held[u] /\ scan'[u] = scan[u]
  PROVE  HeldInv'
<1> SUFFICES ASSUME NEW u \in Tasks, u # t
             PROVE  HeldOk(u)'
  BY DEF HeldInv
<1>1. HeldOk(u)
  BY DEF HeldInv
<1> QED
  BY <1>1 DEF HeldOk, Idle, Admitted, Scanned

\* The gate stays as it is.
LEMMA GateKeeps ==
  ASSUME GateInv, NEW t \in Tasks, gate' = gate, Gated(t)' <=> Gated(t),
         \A u \in Tasks : u # t => pc'[u] = pc[u]
  PROVE  GateInv'
BY DEF GateInv, Gated

\* The gate is opened by the task that has it.
LEMMA GateOpens ==
  ASSUME GateInv, NEW t \in Tasks, Gated(t), gate' = NoTask, ~Gated(t)',
         \A u \in Tasks : u # t => pc'[u] = pc[u]
  PROVE  GateInv'
BY NoTaskAssumption DEF GateInv, Gated

\* The gate is taken by a task while nobody has it.
LEMMA GateCloses ==
  ASSUME GateInv, NEW t \in Tasks, gate = NoTask, gate' = t, Gated(t)',
         \A u \in Tasks : u # t => pc'[u] = pc[u]
  PROVE  GateInv'
BY NoTaskAssumption DEF GateInv, Gated

\* A step that moves no slot and no counted task keeps the sums.
LEMMA QuietSums ==
  ASSUME SchedulerInv, UNCHANGED <<gpuFree, counters, held>>, Counted' = Counted
  PROVE  SlotInv' /\ CountInv'
BY DEF SchedulerInv, SlotInv, CountInv, Taken, counters

\* The invariant holds at the start.
LEMMA SchedulerInit == Init => SchedulerInv
<1> SUFFICES ASSUME Init PROVE SchedulerInv
  OBVIOUS
<1>1. TypeInv
  <2>1. DeviceSlots \in [Devices -> Nat]
    BY DeviceAssumption
  <2> QED
    BY <2>1, NoSlotsType DEF Init, TypeInv, Labels
<1>2. GateInv
  BY NoTaskAssumption DEF Init, GateInv, Gated
<1>3. HeldInv
  BY DEF Init, HeldInv, HeldOk, Idle, Admitted
<1>4. SlotInv
  <2> SUFFICES ASSUME NEW d \in Devices
               PROVE  gpuFree[d] + Taken(held, d) = DeviceSlots[d]
    BY DEF SlotInv
  <2>1. Taken(held, d) = 0
    BY NothingTaken DEF Init
  <2> QED
    BY <2>1, DeviceAssumption DEF Init
<1>5. CountInv
  <2>1. \A d \in Devices : activeByDevice[d] = Taken(Counted, d)
    <3>1. \A t \in Tasks : Counted[t] = NoSlots
      BY DEF Init, Counted
    <3> QED
      BY <3>1, NothingTaken, NoSlotsType DEF Init
  <2>2. SlotCount(activeByDevice) = 0
    <3>1. SlotCount(NoSlots) = Sum(NoSlots, Devices)
      BY CountSlots
    <3>2. \A d \in Devices : NoSlots[d] \in Nat /\ ~(NoSlots[d] > 0)
      BY NoSlotsType
    <3>3. Sum(NoSlots, Devices) \in Nat
      BY <3>2, DevicesFinite, SumType
    <3>4. ~(Sum(NoSlots, Devices) > 0)
      BY <3>2, DevicesFinite, SumPositive
    <3> QED
      BY <3>1, <3>3, <3>4 DEF Init
  <2> QED
    BY <2>1, <2>2 DEF Init, CountInv
<1> QED
  BY <1>1, <1>2, <1>3, <1>4, <1>5 DEF SchedulerInv

\* Waiting, timing out without anything in hand, and the ends of the gate.
LEMMA QuietInv ==
  ASSUME SchedulerInv, NEW t \in Tasks,
         \/ AcquireCpu(t) \/ AcquireFails(t) \/ AcquireGate(t) \/ Rescan(t)
         \/ ScanTimesOut(t) \/ OpenGate(t) \/ FinishCpu(t) \/ ReopenGate(t)
  PROVE  SchedulerInv'
<1> USE DEF Goto, counters
<1>1. /\ UNCHANGED <<gpuFree, counters, held, nextDevice>>
      /\ TypeInv' /\ pc'[t] \in Labels
      /\ \A u \in Tasks : u # t => pc'[u] = pc[u] /\ scan'[u] = scan[u]
  <2> USE DEF SchedulerInv, TypeInv, Labels
  <2>1. CASE AcquireCpu(t)
    BY <2>1 DEF AcquireCpu
  <2>2. CASE AcquireFails(t)
    BY <2>2 DEF AcquireFails
  <2>3. CASE AcquireGate(t)
    BY <2>3 DEF AcquireGate
  <2>4. CASE Rescan(t)
    BY <2>4 DEF Rescan
  <2>5. CASE ScanTimesOut(t)
    BY <2>5 DEF ScanTimesOut, GateAfterTimeout
  <2>6. CASE OpenGate(t)
    BY <2>6 DEF OpenGate
  <2>7. CASE FinishCpu(t)
    BY <2>7 DEF FinishCpu
  <2>8. CASE ReopenGate(t)
    BY <2>8 DEF ReopenGate
  <2> QED
    BY <2>1, <2>2, <2>3, <2>4, <2>5, <2>6, <2>7, <2>8
<1>2. HeldOk(t) /\ Class[t] \in {"CPU", "GPU", "EXCLUSIVE_GPU"}
  BY ClassAssumption DEF SchedulerInv, HeldInv
<1>3. HeldInv'
  <2>1. HeldOk(t)'
    <3> USE <1>1, <1>2 DEF SchedulerInv, TypeInv, HeldOk, Idle, Admitted, Exclusive, Scanned
    <3>1. CASE AcquireCpu(t)
      BY <3>1 DEF AcquireCpu
    <3>2. CASE AcquireFails(t)
      BY <3>2 DEF AcquireFails
    <3>3. CASE AcquireGate(t)
      <4>1. /\ held'[t] = NoSlots /\ Class[t] # "CPU" /\ Capacity > 0
            /\ pc'[t] = IF Class[t] = "GPU" THEN "scan" ELSE "drain"
        BY <3>3 DEF AcquireGate
      <4>2. \A d \in Devices : NoSlots[d] <= DeviceSlots[d]
        BY NoSlotsType, DeviceAssumption
      <4> QED
        BY <4>1, <4>2
    <3>4. CASE Rescan(t)
      BY <3>4 DEF Rescan
    <3>5. CASE ScanTimesOut(t)
      BY <3>5 DEF ScanTimesOut
    <3>6. CASE OpenGate(t)
      BY <3>6 DEF OpenGate
    <3>7. CASE FinishCpu(t)
      BY <3>7 DEF FinishCpu
    <3>8. CASE ReopenGate(t)
      BY <3>8 DEF ReopenGate
    <3> QED
      BY <3>1, <3>2, <3>3, <3>4, <3>5, <3>6, <3>7, <3>8
  <2> QED
    BY <1>1, <2>1, OthersKeep DEF SchedulerInv
<1>4. GateInv'
  <2>1. CASE AcquireGate(t)
    <3>1. gate = NoTask /\ gate' = t /\ Gated(t)'
      BY <2>1 DEF AcquireGate, SchedulerInv, TypeInv, Gated
    <3> QED
      BY <1>1, <3>1, GateCloses DEF SchedulerInv
  <2>2. CASE ScanTimesOut(t) \/ OpenGate(t) \/ ReopenGate(t)
    <3>1. Gated(t) /\ gate' = NoTask /\ ~Gated(t)'
      BY <2>2, <1>2 DEF ScanTimesOut, OpenGate, ReopenGate, GateAfterTimeout,
        SchedulerInv, TypeInv, Gated, HeldOk, Exclusive
    <3> QED
      BY <1>1, <3>1, GateOpens DEF SchedulerInv
  <2>3. CASE AcquireCpu(t) \/ AcquireFails(t) \/ Rescan(t) \/ FinishCpu(t)
    <3>1. gate' = gate /\ (Gated(t)' <=> Gated(t))
      BY <2>3 DEF AcquireCpu, AcquireFails, Rescan, FinishCpu, SchedulerInv, TypeInv,
        Gated, Exclusive
    <3> QED
      BY <1>1, <3>1, GateKeeps DEF SchedulerInv
  <2> QED
    BY <2>1, <2>2, <2>3
<1>5. Counted' = Counted
  <2> SUFFICES ASSUME NEW u \in Tasks
               PROVE  (IF pc'[u] \in {"open", "running"} THEN held'[u] ELSE NoSlots)
                        = (IF pc[u] \in {"open", "running"} THEN held[u] ELSE NoSlots)
    BY DEF Counted
  <2>1. CASE u # t
    BY <1>1, <2>1
  <2>2. CASE u = t
    BY <1>1, <1>2, <2>2 DEF SchedulerInv, TypeInv, HeldOk, Idle, AcquireCpu, AcquireFails,
      AcquireGate, Rescan, ScanTimesOut, OpenGate, FinishCpu, ReopenGate
  <2> QED
    BY <2>1, <2>2
<1>6. SlotInv' /\ CountInv'
  BY <1>1, <1>5, QuietSums
<1> QED
  BY <1>1, <1>3, <1>4, <1>6 DEF SchedulerInv

\* A task takes a slot of a device, while scanning or draining.
TakesSlot(t, d, h, to) ==
  /\ d \in Devices /\ gpuFree[d] > 0
  /\ h \in [Devices -> Nat] /\ h[d] = held[t][d] + 1
  /\ \A e \in Devices : e # d => h[e] = held[t][e]
  /\ gpuFree' = [gpuFree EXCEPT ![d] = @ - 1]
  /\ held' = [held EXCEPT ![t] = h]
  /\ pc' = [pc EXCEPT ![t] = to]
  /\ UNCHANGED <<cpuFree, gate, nextDevice, counters, scan>>

\* A slot is taken while the counters do not have the task's slots yet.
LEMMA TakeInv ==
  ASSUME SchedulerInv, NEW t \in Tasks, NEW d, NEW h, NEW to,
         TakesSlot(t, d, h, to), HeldOk(t)',
         \/ pc[t] = "scan" /\ to = "count"
         \/ pc[t] = "drain" /\ to = "drain"
  PROVE  SchedulerInv'
<1>1. /\ TypeInv' /\ held'[t] = h /\ pc'[t] = to
      /\ \A u \in Tasks : u # t => pc'[u] = pc[u] /\ held'[u] = held[u] /\ scan'[u] = scan[u]
  BY DEF SchedulerInv, TypeInv, TakesSlot, Labels, counters
<1>2. HeldInv'
  BY <1>1, OthersKeep DEF SchedulerInv
<1>3. GateInv'
  <2>1. gate' = gate /\ (Gated(t)' <=> Gated(t))
    BY <1>1 DEF TakesSlot, Gated
  <2> QED
    BY <1>1, <2>1, GateKeeps DEF SchedulerInv
<1>4. SlotInv'
  <2>1. \A e \in Devices : gpuFree'[e] + held'[t][e] = gpuFree[e] + held[t][e]
    <3> SUFFICES ASSUME NEW e \in Devices
                 PROVE  gpuFree'[e] + h[e] = gpuFree[e] + held[t][e]
      BY <1>1
    <3>1. gpuFree[e] \in Nat /\ held[t][e] \in Nat
      BY DEF SchedulerInv, TypeInv
    <3>2. /\ h[e] = IF e = d THEN held[t][e] + 1 ELSE held[t][e]
          /\ gpuFree'[e] = IF e = d THEN gpuFree[e] - 1 ELSE gpuFree[e]
      BY DEF TakesSlot, SchedulerInv, TypeInv
    <3> QED
      BY <3>1, <3>2
  <2> QED
    BY <1>1, <2>1, SlotStep DEF SchedulerInv
<1>5. CountInv'
  <2>1. Counted' = Counted
    <3> SUFFICES ASSUME NEW u \in Tasks
                 PROVE  (IF pc'[u] \in {"open", "running"} THEN held'[u] ELSE NoSlots)
                          = (IF pc[u] \in {"open", "running"} THEN held[u] ELSE NoSlots)
      BY DEF Counted
    <3> QED
      BY <1>1
  <2> QED
    BY <2>1 DEF SchedulerInv, CountInv, Taken, TakesSlot, counters
<1> QED
  BY <1>1, <1>2, <1>3, <1>4, <1>5 DEF SchedulerInv

\* A scan that finds a slot takes it; one that does not goes on.
LEMMA TryInv ==
  ASSUME SchedulerInv, NEW t \in Tasks, TryDevice(t)
  PROVE  SchedulerInv'
<1> DEFINE d == Scanned(t)
<1>1. /\ pc[t] = "scan" /\ HeldOk(t) /\ held[t] = NoSlots
      /\ Class[t] = "GPU" /\ Capacity > 0
  BY DEF TryDevice, SchedulerInv, HeldInv, HeldOk, Idle
<1>2. d \in Devices
  <2>1. /\ DeviceCount \in Nat \ {0}
        /\ scan[t].start \in Nat /\ scan[t].offset \in Nat
    BY <1>1, SomeDevice DEF SchedulerInv, TypeInv
  <2>2. \A n \in Nat : n % DeviceCount \in 0..DeviceCount - 1
    BY <2>1
  <2> QED
    BY <2>1, <2>2 DEF Scanned, Devices
<1>3. CASE HasSlot(d)
  <2>1. /\ gpuFree' = [gpuFree EXCEPT ![d] = @ - 1]
        /\ held' = [held EXCEPT ![t][d] = 1]
        /\ pc' = [pc EXCEPT ![t] = "count"]
        /\ UNCHANGED <<cpuFree, gate, nextDevice, counters, scan>>
    BY <1>3 DEF TryDevice, Goto
  <2>2. held' = [held EXCEPT ![t] = Slot(d)]
    BY <1>1, <2>1 DEF Slot
  <2>3. TakesSlot(t, d, Slot(d), "count")
    <3>1. /\ Slot(d) \in [Devices -> Nat] /\ Slot(d)[d] = 1
          /\ \A e \in Devices : e # d => Slot(d)[e] = 0
      BY <1>2, SlotType
    <3>2. \A e \in Devices : held[t][e] = 0
      BY <1>1, NoSlotsType
    <3>3. gpuFree[d] > 0
      BY <1>3 DEF HasSlot
    <3> HIDE DEF d
    <3>4. /\ Slot(d)[d] = held[t][d] + 1
          /\ \A e \in Devices : e # d => Slot(d)[e] = held[t][e]
      BY <1>2, <3>1, <3>2
    <3> QED
      BY <1>2, <2>1, <2>2, <3>1, <3>3, <3>4, Zenon DEF TakesSlot
  <2>4. HeldOk(t)'
    <3>1. pc'[t] = "count" /\ held'[t] = Slot(d) /\ Scanned(t)' = d
      BY <2>1, <2>2 DEF SchedulerInv, TypeInv, Scanned
    <3> HIDE DEF d
    <3> QED
      BY <1>1, <1>2, <3>1 DEF HeldOk, Idle, Admitted, Exclusive
  <2> QED
    BY <1>1, <2>3, <2>4, TakeInv
<1>4. CASE ~HasSlot(d)
  <2>1. /\ scan' = [scan EXCEPT ![t].offset = @ + 1]
        /\ UNCHANGED <<gpuFree, held, pc, cpuFree, gate, nextDevice, counters>>
    BY <1>4 DEF TryDevice
  <2>2. TypeInv'
    BY <2>1 DEF SchedulerInv, TypeInv, counters
  <2>3. HeldOk(t)'
    BY <1>1, <2>1 DEF HeldOk, Idle, Admitted
  <2>4. HeldInv'
    BY <2>1, <2>3, OthersKeep DEF SchedulerInv, TypeInv
  <2>5. GateInv' /\ Counted' = Counted
    BY <2>1 DEF SchedulerInv, GateInv, Gated, Counted
  <2> QED
    BY <2>1, <2>2, <2>4, <2>5, QuietSums DEF SchedulerInv
<1> QED
  BY <1>3, <1>4

\* A drain takes one slot of the first device it misses some of.
LEMMA DrainSlotInv ==
  ASSUME SchedulerInv, NEW t \in Tasks, DrainSlot(t)
  PROVE  /\ SchedulerInv'
         /\ \E d \in Missing(t) : \E h : TakesSlot(t, d, h, "drain")
<1> DEFINE d == Min(Missing(t))
           h == [held[t] EXCEPT ![d] = @ + 1]
<1>1. pc[t] = "drain" /\ HeldOk(t) /\ Missing(t) # {}
  BY DEF DrainSlot, SchedulerInv, HeldInv
<1>2. d \in Missing(t)
  BY <1>1, LeastDevice DEF Missing
<1>3. d \in Devices /\ held[t][d] < DeviceSlots[d]
  BY <1>2 DEF Missing
<1>4. /\ gpuFree[d] > 0
      /\ gpuFree' = [gpuFree EXCEPT ![d] = @ - 1]
      /\ held' = [held EXCEPT ![t][d] = @ + 1]
      /\ UNCHANGED <<pc, cpuFree, gate, nextDevice, counters, scan>>
  BY DEF DrainSlot, HasSlot
<1> HIDE DEF d
<1>5. held[t] \in [Devices -> Nat]
  BY DEF SchedulerInv, TypeInv
<1>6. /\ h \in [Devices -> Nat] /\ h[d] = held[t][d] + 1
      /\ \A e \in Devices : e # d => h[e] = held[t][e]
  BY <1>3, <1>5
<1>7. held' = [held EXCEPT ![t] = h] /\ pc' = [pc EXCEPT ![t] = "drain"]
  BY <1>1, <1>4 DEF SchedulerInv, TypeInv
<1> HIDE DEF h
<1>8. TakesSlot(t, d, h, "drain")
  BY <1>3, <1>4, <1>6, <1>7 DEF TakesSlot
<1>9. HeldOk(t)'
  <2>1. pc'[t] = "drain" /\ held'[t] = h
    BY <1>7 DEF SchedulerInv, TypeInv
  <2>2. \A e \in Devices : h[e] <= DeviceSlots[e]
    <3> SUFFICES ASSUME NEW e \in Devices
                 PROVE  h[e] <= DeviceSlots[e]
      OBVIOUS
    <3>1. held[t][e] <= DeviceSlots[e] /\ held[t][e] \in Nat /\ DeviceSlots[e] \in Nat
      BY <1>1, <1>5, DeviceAssumption DEF HeldOk
    <3> QED
      BY <1>3, <1>6, <3>1
  <2> QED
    BY <1>1, <2>1, <2>2 DEF HeldOk, Idle, Admitted
<1> QED
  BY <1>1, <1>2, <1>8, <1>9, TakeInv

\* A task gives back what it holds: a drain that times out, and a release.
GivesBack(t, to) ==
  /\ gpuFree' = GivenBack(t)
  /\ held' = [held EXCEPT ![t] = NoSlots]
  /\ pc' = [pc EXCEPT ![t] = to]
  /\ UNCHANGED <<cpuFree, nextDevice, counters, scan>>

\* All slots of a task are given back after the counters have lost them.
LEMMA GiveInv ==
  ASSUME SchedulerInv, NEW t \in Tasks, NEW to \in {"failed", "done", "reopen"},
         GivesBack(t, to), pc[t] \in {"drain", "release"}, GateInv',
         to = "reopen" => t \in Exclusive, gate' \in Tasks \union {NoTask}
  PROVE  SchedulerInv'
<1>1. HeldOk(t) /\ Class[t] # "CPU"
  BY DEF SchedulerInv, HeldInv, HeldOk
<1>2. GivenBack(t) \in [Devices -> Nat]
  <2>1. \A d \in Devices : gpuFree[d] + held[t][d] \in Nat
    BY DEF SchedulerInv, TypeInv
  <2> QED
    BY <2>1 DEF GivenBack
<1>3. /\ TypeInv' /\ held'[t] = NoSlots /\ pc'[t] = to
      /\ \A u \in Tasks : u # t => pc'[u] = pc[u] /\ held'[u] = held[u] /\ scan'[u] = scan[u]
  BY <1>2, NoSlotsType DEF SchedulerInv, TypeInv, GivesBack, Labels, counters
<1>4. HeldInv'
  <2>1. HeldOk(t)'
    BY <1>1, <1>3 DEF HeldOk, Idle, Admitted
  <2> QED
    BY <1>3, <2>1, OthersKeep DEF SchedulerInv
<1>5. SlotInv'
  <2>1. \A d \in Devices : gpuFree'[d] + held'[t][d] = gpuFree[d] + held[t][d]
    <3> SUFFICES ASSUME NEW d \in Devices
                 PROVE  gpuFree'[d] + NoSlots[d] = gpuFree[d] + held[t][d]
      BY <1>3
    <3>1. gpuFree'[d] = gpuFree[d] + held[t][d] /\ gpuFree'[d] \in Nat
      BY <1>2 DEF GivesBack, GivenBack
    <3> QED
      BY <3>1, NoSlotsType
  <2> QED
    BY <1>3, <2>1, SlotStep DEF SchedulerInv
<1>6. CountInv'
  <2>1. Counted' = Counted
    <3> SUFFICES ASSUME NEW u \in Tasks
                 PROVE  (IF pc'[u] \in {"open", "running"} THEN held'[u] ELSE NoSlots)
                          = (IF pc[u] \in {"open", "running"} THEN held[u] ELSE NoSlots)
      BY DEF Counted
    <3> QED
      BY <1>3
  <2> QED
    BY <2>1 DEF SchedulerInv, CountInv, Taken, GivesBack, counters
<1> QED
  BY <1>3, <1>4, <1>5, <1>6 DEF SchedulerInv

\* The two steps that give back: a drain that times out, and the release.
LEMMA GiveBackInv ==
  ASSUME SchedulerInv, NEW t \in Tasks, DrainTimesOut(t) \/ ReleaseSlots(t)
  PROVE  SchedulerInv'
<1>1. HeldOk(t) /\ Class[t] \in {"CPU", "GPU", "EXCLUSIVE_GPU"}
  BY ClassAssumption DEF SchedulerInv, HeldInv
<1> DEFINE to == IF pc[t] = "drain" THEN "failed"
                 ELSE IF Class[t] = "GPU" THEN "done" ELSE "reopen"
<1>2. /\ GivesBack(t, to) /\ pc[t] \in {"drain", "release"}
      /\ gate' = IF pc[t] = "drain" THEN NoTask ELSE gate
  BY DEF DrainTimesOut, ReleaseSlots, GivesBack, Goto, GateAfterTimeout
<1>3. /\ to \in {"failed", "done", "reopen"}
      /\ Class[t] # "CPU" /\ (to = "reopen" => t \in Exclusive)
  BY <1>1, <1>2 DEF HeldOk, Exclusive
<1>4. pc'[t] = to /\ \A u \in Tasks : u # t => pc'[u] = pc[u]
  BY <1>2 DEF SchedulerInv, TypeInv, GivesBack
<1>5. GateInv'
  <2>1. CASE pc[t] = "drain"
    <3>1. Gated(t) /\ gate' = NoTask /\ ~Gated(t)'
      BY <1>2, <1>4, <2>1 DEF Gated
    <3> QED
      BY <1>4, <3>1, GateOpens DEF SchedulerInv
  <2>2. CASE pc[t] = "release"
    <3>1. gate' = gate /\ (Gated(t)' <=> Gated(t))
      BY <1>1, <1>2, <1>3, <1>4, <2>2 DEF Gated, Exclusive
    <3> QED
      BY <1>4, <3>1, GateKeeps DEF SchedulerInv
  <2> QED
    BY <1>2, <2>1, <2>2
<1>6. gate' \in Tasks \union {NoTask}
  BY <1>2 DEF SchedulerInv, TypeInv
<1> HIDE DEF to
<1> QED
  BY <1>2, <1>3, <1>5, <1>6, GiveInv

\* What a step does to the counters: they get the slots of a task, or lose them.
LEMMA Raised ==
  ASSUME SchedulerInv, TypeInv', HeldInv', GateInv', NEW t \in Tasks,
         UNCHANGED <<gpuFree, held>>,
         \A u \in Tasks : u # t => pc'[u] = pc[u],
         pc[t] \notin {"open", "running"}, pc'[t] \in {"open", "running"},
         activeTrials' = activeTrials + SlotCount(held[t]),
         \A d \in Devices : activeByDevice'[d] = activeByDevice[d] + held[t][d]
  PROVE  SchedulerInv'
<1>1. SlotInv'
  BY DEF SchedulerInv, SlotInv, Taken
<1>2. Counted[t] = NoSlots /\ Counted'[t] = held[t]
  BY DEF Counted
<1>3. /\ \A d \in Devices : activeByDevice[d] \in Nat /\ held[t][d] \in Nat
      /\ \A d \in Devices : activeByDevice'[d] \in Nat
  BY DEF SchedulerInv, TypeInv
<1>4. \A d \in Devices : activeByDevice'[d] = Taken(Counted', d)
  <2>1. \A d \in Devices :
          activeByDevice'[d] + Counted[t][d] = activeByDevice[d] + Counted'[t][d]
    BY <1>2, <1>3, NoSlotsType
  <2> QED
    BY <2>1, CountStep DEF SchedulerInv
<1>5. Sum(activeByDevice', Devices) = Sum(activeByDevice, Devices) + Sum(held[t], Devices)
  <2> DEFINE before == activeByDevice
             more == held[t]
             after == activeByDevice'
  <2>1. \A d \in Devices : /\ before[d] \in Nat /\ more[d] \in Nat
                           /\ after[d] = before[d] + more[d]
    BY <1>3
  <2> HIDE DEF before, more, after
  <2>2. Sum(after, Devices) = Sum(before, Devices) + Sum(more, Devices)
    BY <2>1, DeviceSums
  <2> QED
    BY <2>2 DEF before, more, after
<1>6. activeTrials' = SlotCount(activeByDevice')
  BY <1>5, CountSlots DEF SchedulerInv, CountInv
<1>7. CountInv'
  BY <1>4, <1>6 DEF CountInv
<1> QED
  BY <1>1, <1>7 DEF SchedulerInv

\* The counters get the slots of the task that was admitted.
LEMMA CountInvStep ==
  ASSUME SchedulerInv, NEW t \in Tasks, CountDevice(t) \/ CountExclusive(t)
  PROVE  SchedulerInv'
<1>1. HeldOk(t)
  BY DEF SchedulerInv, HeldInv
<1>2. held[t] \in [Devices -> Nat] /\ activeByDevice \in [Devices -> Nat]
  BY DEF SchedulerInv, TypeInv
<1>3. CASE CountDevice(t)
  <2> DEFINE d == Scanned(t)
  <2>1. /\ pc[t] = "count" /\ d \in Devices /\ held[t] = Slot(d) /\ Class[t] = "GPU"
        /\ Capacity > 0
    BY <1>1, <1>3 DEF CountDevice, HeldOk
  <2>2. /\ nextDevice' = (d + 1) % DeviceCount
        /\ activeTrials' = activeTrials + 1
        /\ activeByDevice' = [activeByDevice EXCEPT ![d] = @ + 1]
        /\ pc' = [pc EXCEPT ![t] = "open"]
        /\ UNCHANGED <<cpuFree, gpuFree, gate, held, scan>>
    BY <1>3 DEF CountDevice, Goto
  <2> HIDE DEF d
  <2>3. nextDevice' \in Nat
    <3>1. DeviceCount \in Nat \ {0} /\ d \in Nat
      BY <2>1, SomeDevice, DevicesFinite
    <3>2. \A n \in Nat : n % DeviceCount \in Nat
      BY <3>1
    <3> QED
      BY <2>2, <3>1, <3>2
  <2>4. TypeInv' /\ pc'[t] = "open" /\ \A u \in Tasks : u # t => pc'[u] = pc[u]
    BY <2>1, <2>2, <2>3 DEF SchedulerInv, TypeInv, Labels
  <2>5. HeldInv'
    <3>1. HeldOk(t)'
      BY <2>1, <2>2, <2>4 DEF HeldOk, Idle, Admitted, Exclusive
    <3> QED
      BY <2>2, <2>4, <3>1, OthersKeep DEF SchedulerInv
  <2>6. GateInv'
    <3>1. gate' = gate /\ (Gated(t)' <=> Gated(t))
      BY <2>1, <2>2, <2>4 DEF Gated
    <3> QED
      BY <2>4, <3>1, GateKeeps DEF SchedulerInv
  <2>7. SlotCount(held[t]) = 1
    BY <2>1, SlotSum, CountSlots
  <2>8. \A e \in Devices : activeByDevice'[e] = activeByDevice[e] + held[t][e]
    <3> SUFFICES ASSUME NEW e \in Devices
                 PROVE  activeByDevice'[e] = activeByDevice[e] + held[t][e]
      OBVIOUS
    <3>1. held[t][e] = IF e = d THEN 1 ELSE 0
      BY <2>1, SlotType
    <3> QED
      BY <1>2, <2>2, <3>1
  <2> QED
    BY <2>1, <2>2, <2>4, <2>5, <2>6, <2>7, <2>8, Raised
<1>4. CASE CountExclusive(t)
  <2>1. /\ pc[t] = "drain" /\ Missing(t) = {} /\ t \in Exclusive
        /\ activeTrials' = activeTrials + SlotCount(held[t])
        /\ activeByDevice' = [d \in Devices |-> activeByDevice[d] + held[t][d]]
        /\ pc' = [pc EXCEPT ![t] = "running"]
        /\ UNCHANGED <<cpuFree, gpuFree, gate, nextDevice, held, scan>>
    BY <1>1, <1>4 DEF CountExclusive, Goto, HeldOk
  <2>2. SlotCount(held[t]) \in Nat
    BY <1>2, CountSlots, DevicesFinite, SumType
  <2>3. activeByDevice' \in [Devices -> Nat]
    BY <1>2, <2>1
  <2>4. TypeInv' /\ pc'[t] = "running" /\ \A u \in Tasks : u # t => pc'[u] = pc[u]
    BY <2>1, <2>2, <2>3 DEF SchedulerInv, TypeInv, Labels
  <2>5. held[t] = DeviceSlots
    <3>1. \A d \in Devices : held[t][d] = DeviceSlots[d]
      <4> SUFFICES ASSUME NEW d \in Devices
                   PROVE  held[t][d] = DeviceSlots[d]
        OBVIOUS
      <4>1. held[t][d] \in Nat /\ DeviceSlots[d] \in Nat
        BY <1>2, DeviceAssumption
      <4>2. held[t][d] <= DeviceSlots[d] /\ ~(held[t][d] < DeviceSlots[d])
        BY <1>1, <2>1 DEF HeldOk, Missing
      <4> QED
        BY <4>1, <4>2
    <3> QED
      BY <1>2, <3>1, DeviceAssumption
  <2>6. HeldInv'
    <3>1. HeldOk(t)'
      BY <1>1, <2>1, <2>4, <2>5 DEF HeldOk, Idle, Admitted, Exclusive
    <3> QED
      BY <2>1, <2>4, <3>1, OthersKeep DEF SchedulerInv
  <2>7. GateInv'
    <3>1. gate' = gate /\ (Gated(t)' <=> Gated(t))
      BY <2>1, <2>4 DEF Gated
    <3> QED
      BY <2>4, <3>1, GateKeeps DEF SchedulerInv
  <2> QED
    BY <2>1, <2>4, <2>6, <2>7, Raised
<1> QED
  BY <1>3, <1>4

\* The counters lose the slots of the task that is about to release them.
LEMMA UncountInv ==
  ASSUME SchedulerInv, NEW t \in Tasks, Uncount(t)
  PROVE  SchedulerInv'
<1>1. /\ pc[t] = "running" /\ Class[t] \in {"GPU", "EXCLUSIVE_GPU"}
      /\ activeTrials' = NotBelowZero(activeTrials - SlotCount(held[t]))
      /\ activeByDevice' = Lowered(t)
      /\ pc' = [pc EXCEPT ![t] = "release"]
      /\ UNCHANGED <<cpuFree, gpuFree, gate, nextDevice, held, scan>>
  BY ClassAssumption DEF Uncount, Goto
<1>2. HeldOk(t)
  BY DEF SchedulerInv, HeldInv
<1>3. held[t] \in [Devices -> Nat] /\ activeByDevice \in [Devices -> Nat]
  BY DEF SchedulerInv, TypeInv
<1>4. pc'[t] = "release" /\ \A u \in Tasks : u # t => pc'[u] = pc[u]
  BY <1>1 DEF SchedulerInv, TypeInv
<1>5. Counted[t] = held[t] /\ Counted'[t] = NoSlots
  BY <1>1, <1>4 DEF Counted
\* The guard of NotBelowZero never bites.
<1>6. \A d \in Devices : /\ activeByDevice'[d] \in Nat
                         /\ activeByDevice[d] = activeByDevice'[d] + held[t][d]
  <2> SUFFICES ASSUME NEW d \in Devices
               PROVE  /\ activeByDevice'[d] \in Nat
                      /\ activeByDevice[d] = activeByDevice'[d] + held[t][d]
    OBVIOUS
  <2>1. Counted[t][d] <= Taken(Counted, d)
    BY CountedType, TakenTypes DEF SchedulerInv
  <2>2. held[t][d] <= activeByDevice[d]
    BY <1>5, <2>1 DEF SchedulerInv, CountInv
  <2>3. held[t][d] \in Nat /\ activeByDevice[d] \in Nat
    BY <1>3
  <2>4. activeByDevice'[d] = activeByDevice[d] - held[t][d]
    BY <1>1, <2>2, <2>3 DEF Lowered, NotBelowZero
  <2> QED
    BY <2>2, <2>3, <2>4
<1>7. activeByDevice' \in [Devices -> Nat]
  <2>1. activeByDevice' = [d \in Devices |-> activeByDevice'[d]]
    BY <1>1 DEF Lowered
  <2> QED
    BY <1>6, <2>1
<1>8. Sum(activeByDevice, Devices) = Sum(activeByDevice', Devices) + Sum(held[t], Devices)
  <2>1. \A d \in Devices : activeByDevice'[d] \in Nat /\ held[t][d] \in Nat
                             /\ activeByDevice[d] = activeByDevice'[d] + held[t][d]
    BY <1>3, <1>6
  <2> DEFINE after == activeByDevice'
             less == held[t]
             before == activeByDevice
  <2>2. \A d \in Devices : /\ after[d] \in Nat /\ less[d] \in Nat
                           /\ before[d] = after[d] + less[d]
    BY <2>1
  <2> HIDE DEF before, less, after
  <2>3. Sum(before, Devices) = Sum(after, Devices) + Sum(less, Devices)
    BY <2>2, DeviceSums
  <2> QED
    BY <2>3 DEF before, less, after
<1>9. Sum(activeByDevice', Devices) \in Nat /\ Sum(held[t], Devices) \in Nat
  BY <1>3, <1>7, DevicesFinite, SumType
<1>10. activeTrials' = Sum(activeByDevice', Devices)
  <2>1. activeTrials = Sum(activeByDevice, Devices) /\ SlotCount(held[t]) = Sum(held[t], Devices)
    BY CountSlots DEF SchedulerInv, CountInv
  <2> QED
    BY <1>1, <1>8, <1>9, <2>1 DEF NotBelowZero
<1>11. TypeInv'
  BY <1>1, <1>7, <1>9, <1>10 DEF SchedulerInv, TypeInv, Labels
<1>12. HeldInv'
  <2>1. HeldOk(t)'
    BY <1>1, <1>2, <1>4 DEF HeldOk, Idle, Admitted, Exclusive
  <2> QED
    BY <1>1, <1>4, <2>1, OthersKeep DEF SchedulerInv
<1>13. GateInv'
  <2>1. gate' = gate /\ (Gated(t)' <=> Gated(t))
    BY <1>1, <1>4 DEF Gated
  <2> QED
    BY <1>4, <2>1, GateKeeps DEF SchedulerInv
<1>14. SlotInv'
  BY <1>1 DEF SchedulerInv, SlotInv, Taken
<1>15. \A d \in Devices : activeByDevice'[d] = Taken(Counted', d)
  <2>1. \A d \in Devices :
          activeByDevice'[d] + Counted[t][d] = activeByDevice[d] + Counted'[t][d]
    BY <1>3, <1>5, <1>6, NoSlotsType
  <2> QED
    BY <1>1, <1>4, <1>11, <2>1, CountStep DEF SchedulerInv
<1>16. activeTrials' = SlotCount(activeByDevice')
  BY <1>10, CountSlots
<1>17. CountInv'
  BY <1>15, <1>16 DEF CountInv
<1> QED
  BY <1>11, <1>12, <1>13, <1>14, <1>17 DEF SchedulerInv

\* Every step keeps the invariant.
LEMMA SchedulerNext == SchedulerInv /\ [Next]_vars => SchedulerInv'
<1> SUFFICES ASSUME SchedulerInv, [Next]_vars PROVE SchedulerInv'
  OBVIOUS
<1>1. CASE AllEnded \/ UNCHANGED vars
  <2>1. UNCHANGED <<pc, cpuFree, gpuFree, gate, nextDevice, counters, held, scan>>
    BY <1>1 DEF AllEnded, vars, counters
  <2>2. TypeInv' /\ GateInv'
    BY <2>1 DEF counters, SchedulerInv, TypeInv, GateInv, Gated
  <2>3. HeldInv'
    BY <2>1 DEF SchedulerInv, HeldInv, HeldOk, Idle, Admitted, Scanned
  <2>4. Counted' = Counted
    BY <2>1 DEF Counted
  <2> QED
    BY <2>1, <2>2, <2>3, <2>4, QuietSums DEF SchedulerInv
<1>2. CASE \E t \in Tasks : Work(t) \/ TimeOut(t)
  <2>1. PICK t \in Tasks : Work(t) \/ TimeOut(t)
    BY <1>2
  <2> QED
    BY <2>1, QuietInv, TryInv, DrainSlotInv, GiveBackInv, CountInvStep, UncountInv
    DEF Work, TimeOut
<1> QED
  BY <1>1, <1>2 DEF Next

\* The invariant holds for ever.
LEMMA SchedulerAlways == Spec => []SchedulerInv
BY SchedulerInit, SchedulerNext, PTL DEF Spec
-----------------------------------------------------------------------------
(* The theorems.                                                           *)

\* MapThenSumSet over the slots that h says tasks hold on a device.
LEMMA SumOfHeld ==
  ASSUME NEW h, NEW d
  PROVE  MapThenSumSet(LAMBDA t : h[t][d], Tasks) = Taken(h, d)
BY SumOfEntries DEF Taken

(* No path through acquire and release, a timeout in the middle of a drain *)
(* included, loses a slot or gives one back twice; tasks that have ended   *)
(* hold none, and not the gate.                                            *)
THEOREM SlotsAreConserved == Spec => []SlotsConserved
<1>1. SchedulerInv => SlotsConserved
  <2> SUFFICES ASSUME SchedulerInv PROVE SlotsConserved
    OBVIOUS
  <2>1. \A d \in Devices :
          gpuFree[d] + MapThenSumSet(LAMBDA t : held[t][d], Tasks) = DeviceSlots[d]
    BY SumOfHeld DEF SchedulerInv, SlotInv
  <2>2. \A t \in Tasks : pc[t] \in Ended => held[t] = NoSlots /\ gate # t
    BY DEF SchedulerInv, HeldInv, HeldOk, Idle, GateInv, Gated, Ended
  <2> QED
    BY <2>1, <2>2 DEF SlotsConserved
<1> QED
  BY <1>1, SchedulerAlways, PTL

(* The counters of gpu_resource_status never say that more slots are in    *)
(* use than the semaphores gave away, and the total is that of the devices.*)
THEOREM StatusIsWithinSlots == Spec => []StatusWithinSlots
<1>1. SchedulerInv => StatusWithinSlots
  <2> SUFFICES ASSUME SchedulerInv PROVE StatusWithinSlots
    OBVIOUS
  <2>1. ASSUME NEW d \in Devices
        PROVE  activeByDevice[d] <= DeviceSlots[d] - gpuFree[d]
    <3>1. held \in [Tasks -> [Devices -> Nat]] /\ Counted \in [Tasks -> [Devices -> Nat]]
      BY CountedType DEF SchedulerInv, TypeInv
    <3>2. \A t \in Tasks : Counted[t][d] <= held[t][d]
      <4> SUFFICES ASSUME NEW t \in Tasks
                   PROVE  Counted[t][d] <= held[t][d]
        OBVIOUS
      <4>1. Counted[t] = held[t] \/ Counted[t] = NoSlots
        BY CountedType DEF SchedulerInv
      <4>2. held[t][d] \in Nat
        BY <3>1
      <4> QED
        BY <4>1, <4>2, NoSlotsType
    <3>3. Taken(Counted, d) <= Taken(held, d)
      BY <3>1, <3>2, TakenMonotone
    <3>4. /\ gpuFree[d] \in Nat /\ Taken(held, d) \in Nat /\ Taken(Counted, d) \in Nat
          /\ gpuFree[d] + Taken(held, d) = DeviceSlots[d]
          /\ activeByDevice[d] = Taken(Counted, d)
      BY <3>1, TakenTypes DEF SchedulerInv, TypeInv, SlotInv, CountInv
    <3> QED
      BY <3>3, <3>4
  <2> QED
    BY <2>1 DEF StatusWithinSlots, SchedulerInv, CountInv
<1> QED
  BY <1>1, SchedulerAlways, PTL

-----------------------------------------------------------------------------
(* The refinement of SlotAdmission.                                        *)

\* A drain under way counts as nothing granted.
LEMMA GrantedIs ==
  ASSUME NEW t \in Tasks
  PROVE  Granted[t] = IF pc[t] = "drain" /\ Missing(t) # {} THEN NoSlots ELSE held[t]
BY DEF Granted

\* Grants are slots, no more than what is held.
LEMMA GrantedType ==
  ASSUME TypeInv
  PROVE  /\ Granted \in [Tasks -> [Devices -> Nat]]
         /\ \A t \in Tasks, d \in Devices : Granted[t][d] <= held[t][d]
<1> SUFFICES ASSUME NEW t \in Tasks
             PROVE  /\ Granted[t] \in [Devices -> Nat]
                    /\ \A d \in Devices : Granted[t][d] <= held[t][d]
  BY DEF Granted
<1>1. held[t] \in [Devices -> Nat]
  BY DEF TypeInv
<1>2. Granted[t] = NoSlots \/ Granted[t] = held[t]
  BY GrantedIs
<1> QED
  BY <1>1, <1>2, NoSlotsType

\* What SlotAdmission adds up is a sum of grants.
LEMMA AdmissionUsed ==
  ASSUME NEW d
  PROVE  Admission!Used(d) = Taken(Granted, d)
<1>1. Admission!Used(d) = MapThenSumSet(LAMBDA t : Granted[t][d], Tasks)
  BY DEF Admission!Used, Admission!MapThenSumSet, Admission!MapThenFoldSet,
    MapThenSumSet, MapThenFoldSet
<1> QED
  BY <1>1, SumOfHeld

\* No slots are the same in both modules.
LEMMA SameNoSlots == Admission!NoSlots = NoSlots
BY DEF Admission!NoSlots, NoSlots

\* The initial states map to the initial state.
LEMMA AdmissionInit == Init => Admission!Init
<1> SUFFICES ASSUME Init PROVE Admission!Init
  OBVIOUS
<1>1. \A t \in Tasks : Granted[t] = NoSlots
  BY GrantedIs DEF Init
<1> QED
  BY <1>1, SameNoSlots DEF Admission!Init, Granted

\* A step grants or releases the slots of one task, or changes no grant.
LEMMA OthersGranted ==
  ASSUME NEW t \in Tasks,
         \A u \in Tasks : u # t => pc'[u] = pc[u] /\ held'[u] = held[u]
  PROVE  Granted' = [Granted EXCEPT ![t] = Granted'[t]]
<1>1. \A u \in Tasks : u # t => Granted'[u] = Granted[u]
  BY DEF Granted, Missing
<1> QED
  BY <1>1 DEF Granted

\* ... or none changes.
LEMMA SameGranted ==
  ASSUME NEW t \in Tasks, Granted'[t] = Granted[t],
         \A u \in Tasks : u # t => pc'[u] = pc[u] /\ held'[u] = held[u]
  PROVE  UNCHANGED Granted
<1>1. \A u \in Tasks : Granted'[u] = Granted[u]
  BY DEF Granted, Missing
<1> QED
  BY <1>1 DEF Granted

\* A scan that takes a slot grants it: the slots granted, those of a drain left
\* out, are no more than those held.
LEMMA SharedIsGranted ==
  ASSUME SchedulerInv, NEW t \in Tasks, TryDevice(t), HasSlot(Scanned(t))
  PROVE  Admission!Next
<1> DEFINE d == Scanned(t)
<1>1. SchedulerInv'
  BY TryInv
<1>2. /\ pc[t] = "scan" /\ pc' = [pc EXCEPT ![t] = "count"]
      /\ held' = [held EXCEPT ![t][d] = 1] /\ gpuFree[d] > 0 /\ UNCHANGED scan
  BY DEF TryDevice, Goto, HasSlot
<1>3. HeldOk(t) /\ HeldOk(t)'
  BY <1>1 DEF SchedulerInv, HeldInv
<1>4. pc'[t] = "count" /\ \A u \in Tasks : u # t => pc'[u] = pc[u] /\ held'[u] = held[u]
  BY <1>2 DEF SchedulerInv, TypeInv
<1>5. /\ held[t] = NoSlots /\ Class[t] = "GPU"
      /\ d \in Devices /\ held'[t] = Slot(d)
  BY <1>2, <1>3, <1>4 DEF HeldOk, Idle, Scanned
<1> HIDE DEF d
<1>6. Granted[t] = NoSlots /\ Granted'[t] = Slot(d)
  <2>1. Granted'[t] = held'[t]
    BY <1>4 DEF Granted
  <2> QED
    BY <1>2, <1>5, <2>1, GrantedIs
<1>7. Granted' = [Granted EXCEPT ![t][d] = 1]
  <2>1. Granted' = [Granted EXCEPT ![t] = Slot(d)]
    BY <1>4, <1>6, OthersGranted
  <2> QED
    BY <1>6, <2>1 DEF Slot, Granted
<1>8. Admission!Used(d) + 1 <= DeviceSlots[d]
  <2>1. Granted \in [Tasks -> [Devices -> Nat]] /\ held \in [Tasks -> [Devices -> Nat]]
    BY GrantedType DEF SchedulerInv, TypeInv
  <2>2. Taken(Granted, d) <= Taken(held, d)
    BY <1>5, <2>1, GrantedType, TakenMonotone DEF SchedulerInv
  <2>3. /\ Taken(Granted, d) \in Nat /\ Taken(held, d) \in Nat /\ gpuFree[d] \in Nat
        /\ gpuFree[d] + Taken(held, d) = DeviceSlots[d]
    BY <1>5, <2>1, TakenTypes DEF SchedulerInv, TypeInv, SlotInv
  <2> QED
    BY <1>2, <2>2, <2>3, AdmissionUsed
<1>9. Admission!GrantShared(t, d)
  BY <1>5, <1>6, <1>7, <1>8, SameNoSlots DEF Admission!GrantShared
<1> QED
  BY <1>5, <1>9 DEF Admission!Next

\* Who has drained every device has the machine: all other tasks hold nothing.
LEMMA DrainedAlone ==
  ASSUME NEW h \in [Tasks -> [Devices -> Nat]], NEW free \in [Devices -> Nat],
         NEW t \in Tasks,
         \A d \in Devices : free[d] + Taken(h, d) = DeviceSlots[d],
         \A d \in Devices : h[t][d] = DeviceSlots[d]
  PROVE  h[t] = DeviceSlots /\ \A u \in Tasks : u # t => h[u] = NoSlots
<1>1. \A u \in Tasks, d \in Devices : u # t => h[u][d] = 0
  <2> SUFFICES ASSUME NEW u \in Tasks, NEW d \in Devices, u # t
               PROVE  h[u][d] = 0
    OBVIOUS
  <2> DEFINE all == Taken(h, d)
             own == h[t][d]
             other == h[u][d]
             left == free[d]
  <2>1. own + other <= all /\ all \in Nat
    BY TakenTypes, Zenon
  <2>2. left + all = own
    OBVIOUS
  <2>3. left \in Nat /\ other \in Nat /\ own \in Nat
    OBVIOUS
  <2> HIDE DEF all, own, other, left
  <2>4. other = 0
    BY <2>1, <2>2, <2>3
  <2> QED
    BY <2>4 DEF other
<1>2. h[t] = DeviceSlots
  BY DeviceAssumption
<1>3. ASSUME NEW u \in Tasks, u # t
      PROVE  h[u] = NoSlots
  <2>1. h[u] \in [Devices -> Nat] /\ \A d \in Devices : h[u][d] = 0
    BY <1>1, <1>3
  <2> QED
    BY <2>1 DEF NoSlots
<1> QED
  BY <1>2, <1>3

\* The last slot of a drain grants the machine, the earlier ones nothing.
LEMMA DrainIsGranted ==
  ASSUME SchedulerInv, NEW t \in Tasks, DrainSlot(t)
  PROVE  Admission!Next \/ UNCHANGED Granted
<1>1. SchedulerInv' /\ pc[t] = "drain" /\ Missing(t) # {} /\ UNCHANGED pc
  BY DrainSlotInv DEF DrainSlot
<1>2. \A u \in Tasks : u # t => pc'[u] = pc[u] /\ held'[u] = held[u]
  BY <1>1 DEF DrainSlot, SchedulerInv, TypeInv
<1>3. Granted[t] = NoSlots /\ t \in Exclusive
  BY <1>1, GrantedIs DEF SchedulerInv, HeldInv, HeldOk
<1>4. CASE Missing(t)' # {}
  <2>1. Granted'[t] = NoSlots
    BY <1>1, <1>4 DEF Granted
  <2> QED
    BY <1>2, <1>3, <2>1, SameGranted
<1>5. CASE Missing(t)' = {}
  <2>1. held'[t] = DeviceSlots /\ \A u \in Tasks : u # t => held'[u] = NoSlots
    <3>1. /\ held' \in [Tasks -> [Devices -> Nat]] /\ gpuFree' \in [Devices -> Nat]
          /\ HeldOk(t)' /\ pc'[t] = "drain"
          /\ \A d \in Devices : gpuFree'[d] + Taken(held, d)' = DeviceSlots[d]
      BY <1>1 DEF SchedulerInv, TypeInv, HeldInv, SlotInv
    <3>2. \A d \in Devices : gpuFree'[d] + Taken(held', d) = DeviceSlots[d]
      BY <3>1 DEF Taken
    <3>3. \A d \in Devices : held'[t][d] = DeviceSlots[d]
      <4> SUFFICES ASSUME NEW d \in Devices
                   PROVE  held'[t][d] = DeviceSlots[d]
        OBVIOUS
      <4>1. held'[t][d] \in Nat /\ DeviceSlots[d] \in Nat
        BY <3>1, DeviceAssumption
      <4>2. held'[t][d] <= DeviceSlots[d] /\ ~(held'[t][d] < DeviceSlots[d])
        BY <1>5, <3>1 DEF HeldOk, Missing
      <4> QED
        BY <4>1, <4>2
    <3> DEFINE h == held'
               free == gpuFree'
    <3> HIDE DEF h, free
    <3>4. h[t] = DeviceSlots /\ \A u \in Tasks : u # t => h[u] = NoSlots
      BY <3>1, <3>2, <3>3, DrainedAlone DEF h, free
    <3> QED
      BY <3>4 DEF h
  <2>2. \A u \in Tasks : u # t => Granted[u] = NoSlots
    BY <1>2, <2>1, GrantedIs
  <2>3. Granted'[t] = DeviceSlots
    BY <1>1, <1>5, <2>1 DEF Granted
  <2>4. Granted' = [Granted EXCEPT ![t] = DeviceSlots]
    BY <1>2, <2>3, OthersGranted
  <2>5. Admission!GrantExclusive(t)
    BY <1>3, <2>2, <2>4, SameNoSlots DEF Admission!GrantExclusive, Exclusive
  <2> QED
    BY <2>5 DEF Admission!Next
<1> QED
  BY <1>4, <1>5

\* Giving back releases all that was granted, and something was.
LEMMA ReleaseIsReleased ==
  ASSUME SchedulerInv, NEW t \in Tasks, ReleaseSlots(t)
  PROVE  Admission!Next
<1>1. /\ pc[t] = "release" /\ held' = [held EXCEPT ![t] = NoSlots]
      /\ pc' = [pc EXCEPT ![t] = IF Class[t] = "GPU" THEN "done" ELSE "reopen"]
  BY DEF ReleaseSlots, Goto
<1>2. /\ held'[t] = NoSlots /\ pc'[t] # "drain"
      /\ \A u \in Tasks : u # t => pc'[u] = pc[u] /\ held'[u] = held[u]
  BY <1>1 DEF SchedulerInv, TypeInv
<1>3. HeldOk(t) /\ Class[t] \in {"GPU", "EXCLUSIVE_GPU"} /\ Capacity > 0
  BY <1>1, ClassAssumption DEF SchedulerInv, HeldInv, HeldOk
<1>4. Granted[t] = held[t] /\ Granted'[t] = NoSlots
  BY <1>1, <1>2 DEF Granted
<1>5. held[t] # NoSlots
  <2>1. CASE Class[t] = "GPU"
    <3>1. PICK d \in Devices : held[t] = Slot(d)
      BY <1>1, <1>3, <2>1 DEF HeldOk, Admitted
    <3> QED
      BY <3>1, SlotType, NoSlotsType
  <2>2. CASE Class[t] = "EXCLUSIVE_GPU"
    <3>1. held[t] = DeviceSlots
      BY <1>1, <1>3, <2>2 DEF HeldOk, Admitted, Exclusive
    <3>2. PICK d \in Devices : DeviceSlots[d] > 0
      BY <1>3, SomeDevice
    <3> QED
      BY <3>1, <3>2, NoSlotsType
  <2> QED
    BY <1>3, <2>1, <2>2
<1>6. Granted' = [Granted EXCEPT ![t] = NoSlots]
  BY <1>2, <1>4, OthersGranted
<1>7. Admission!Release(t)
  BY <1>4, <1>5, <1>6, SameNoSlots DEF Admission!Release
<1> QED
  BY <1>7 DEF Admission!Next

\* All other steps change no grant.
LEMMA QuietGrants ==
  ASSUME SchedulerInv, NEW t \in Tasks,
         \/ AcquireCpu(t) \/ AcquireFails(t) \/ AcquireGate(t) \/ Rescan(t)
         \/ ScanTimesOut(t) \/ OpenGate(t) \/ FinishCpu(t) \/ ReopenGate(t)
         \/ CountDevice(t) \/ CountExclusive(t) \/ Uncount(t) \/ DrainTimesOut(t)
         \/ TryDevice(t) /\ ~HasSlot(Scanned(t))
  PROVE  UNCHANGED Granted
<1>1. /\ \A u \in Tasks : u # t => pc'[u] = pc[u] /\ held'[u] = held[u]
  BY DEF SchedulerInv, TypeInv, Goto, AcquireCpu, AcquireFails, AcquireGate, Rescan,
    ScanTimesOut, OpenGate, FinishCpu, ReopenGate, CountDevice, CountExclusive,
    Uncount, DrainTimesOut, TryDevice
<1>2. HeldOk(t)
  BY DEF SchedulerInv, HeldInv
<1>3. Granted'[t] = IF pc'[t] = "drain" /\ Missing(t)' # {} THEN NoSlots ELSE held'[t]
  BY DEF Granted
<1>4. Granted'[t] = Granted[t]
  <2>1. CASE DrainTimesOut(t)
    <3>1. pc[t] = "drain" /\ Missing(t) # {} /\ pc'[t] = "failed" /\ held'[t] = NoSlots
      BY <2>1 DEF DrainTimesOut, Goto, SchedulerInv, TypeInv
    <3> QED
      BY <1>3, <3>1, GrantedIs
  <2>2. CASE AcquireGate(t)
    <3>1. held'[t] = NoSlots /\ held[t] = NoSlots
      BY <1>2, <2>2 DEF AcquireGate, HeldOk, Idle
    <3> QED
      BY <1>3, <3>1, GrantedIs
  <2>3. CASE CountExclusive(t)
    <3>1. pc'[t] = "running" /\ Missing(t) = {} /\ held' = held
      BY <2>3 DEF CountExclusive, Goto, SchedulerInv, TypeInv
    <3> QED
      BY <1>3, <3>1, GrantedIs
  <2>4. CASE \/ AcquireCpu(t) \/ AcquireFails(t) \/ Rescan(t) \/ ScanTimesOut(t)
             \/ OpenGate(t) \/ FinishCpu(t) \/ ReopenGate(t)
             \/ CountDevice(t) \/ Uncount(t)
             \/ TryDevice(t) /\ ~HasSlot(Scanned(t))
    <3>1. pc[t] # "drain" /\ pc'[t] # "drain" /\ held' = held
      BY <2>4 DEF AcquireCpu, AcquireFails, Rescan, ScanTimesOut, OpenGate, FinishCpu,
        ReopenGate, CountDevice, Uncount, TryDevice, Goto, SchedulerInv, TypeInv
    <3> QED
      BY <1>3, <3>1, GrantedIs
  <2> QED
    BY <2>1, <2>2, <2>3, <2>4
<1> QED
  BY <1>1, <1>4, SameGranted

\* Every step grants, releases or stutters.
LEMMA AdmissionNext ==
  SchedulerInv /\ [Next]_vars => [Admission!Next]_Granted
<1> SUFFICES ASSUME SchedulerInv, [Next]_vars
             PROVE  Admission!Next \/ UNCHANGED Granted
  OBVIOUS
<1>1. CASE AllEnded \/ UNCHANGED vars
  BY <1>1 DEF AllEnded, vars, Granted, Missing
<1>2. CASE \E t \in Tasks : Work(t) \/ TimeOut(t)
  <2>1. PICK t \in Tasks : Work(t) \/ TimeOut(t)
    BY <1>2
  <2> QED
    BY <2>1, SharedIsGranted, DrainIsGranted, ReleaseIsReleased, QuietGrants
    DEF Work, TimeOut
<1> QED
  BY <1>1, <1>2 DEF Next

(* Semaphores taken one by one, a gate and a scan implement the admission  *)
(* that grants all slots or none, and the machine to one exclusive task.   *)
THEOREM SchedulerImplementsAdmission == Spec => ImplementsAdmission
BY SchedulerAlways, AdmissionInit, AdmissionNext, PTL DEF Spec, ImplementsAdmission, Admission!Spec

-----------------------------------------------------------------------------
(* The broad campaign, which takes its leases from SlotAdmission: children *)
(* stay under leases, and files, rows and the summary agree.  It has tasks,*)
(* classes and lanes of its own.  Where the thread of a task is tells what *)
(* it holds and whether its root process may live; what a task has to show *)
(* when it is idle, and of which revision, is told task by task (TaskOk).  *)

Attended == {"running", "terminating", "killing", "draining", "release"}
Places == {"idle", "planned", "queued", "waiting", "write"} \union Attended
Leased(t) == at[t] \in Attended
Lent == {t \in Matrix : ResourceClass[t] = "CPU" /\ Leased(t)}
Share(t) ==
  [d \in {0} |-> IF ResourceClass[t] = "EXCLUSIVE_GPU" THEN GpuSlots ELSE 1]

PlacesInv ==
  /\ main \in {"down", "plan", "pool", "summarised"}
  /\ head \in Nat /\ since \in Nat /\ since <= head
  /\ at \in [Matrix -> Places]
  /\ root \in [Matrix -> BOOLEAN]
  /\ holding \in [Matrix -> [{0} -> Nat]]
PapersInv ==
  /\ fingerprint \in [Matrix -> Nat \union {None}]
  /\ status \in [Matrix -> Statuses \union {None}]
  /\ row \in [Matrix -> Results \union {None}]
  /\ final \in [Matrix -> Results \union {None}]
LanesInv == lanesFree = Lanes - Cardinality(Lent)
AloneInv ==
  \A t, u \in Matrix :
    /\ ResourceClass[t] = "EXCLUSIVE_GPU" /\ Leased(t)
    /\ ResourceClass[u] # "CPU" /\ Leased(u)
    => t = u

Holds(t) ==
  /\ holding[t] = IF ResourceClass[t] # "CPU" /\ Leased(t) THEN Share(t)
                  ELSE Leases!NoSlots
  /\ root[t] => at[t] \in {"running", "terminating", "killing"}
InPlace(t) ==
  /\ main \in {"down", "summarised"} => at[t] = "idle"
  /\ main = "plan" => at[t] \in {"idle", "planned"}
Shown(t) ==
  main # "down" /\ at[t] = "idle" =>
    /\ row[t] # None
    /\ row[t].status # "SCHEDULER_ERROR" => final[t] = row[t]
Recent(t) ==
  /\ row[t] # None /\ row[t].source # None => row[t].source \in since..head
  /\ at[t] \in Busy => fingerprint[t] \in since..head
TaskOk(t) == Holds(t) /\ InPlace(t) /\ Shown(t) /\ Recent(t)

CampaignInv ==
  /\ PlacesInv /\ PapersInv /\ LanesInv /\ AloneInv
  /\ \A t \in Matrix : TaskOk(t)
  /\ main = "summarised" => summary

\* There are finitely many tasks, and the lanes lent are some of them.
LEMMA LentFinite ==
  /\ IsFiniteSet(Matrix)
  /\ IsFiniteSet(Lent) /\ Cardinality(Lent) \in Nat
<1>1. IsFiniteSet(Matrix)
  BY FS_Interval, CampaignAssumption DEF Matrix
<1>2. Lent \subseteq Matrix
  BY DEF Lent
<1> QED
  BY <1>1, <1>2, FS_Subset, FS_CardinalityType

\* A share of the device is never nothing.
LEMMA ShareIsSome ==
  ASSUME NEW t \in Matrix
  PROVE  /\ Share(t) \in [{0} -> Nat] /\ Share(t)[0] > 0
         /\ Share(t) # Leases!NoSlots
         /\ Leases!NoSlots \in [{0} -> Nat]
         /\ Leases!NoSlots[0] = 0
<1>1. Share(t) \in [{0} -> Nat] /\ Share(t)[0] > 0
  BY CampaignAssumption DEF Share
<1>2. /\ Leases!NoSlots \in [{0} -> Nat]
      /\ Leases!NoSlots[0] = 0
  BY DEF Leases!NoSlots
<1> QED
  BY <1>1, <1>2

\* What one task holds of the device is within what all hold.
LEMMA UsedCoversEach ==
  ASSUME PlacesInv, NEW t \in Matrix
  PROVE  /\ Leases!Used(0) \in Nat
         /\ holding[t][0] <= Leases!Used(0)
<1> DEFINE S == Matrix
           f == [u \in S |-> holding[u][0]]
<1>1. Leases!Used(0) = MapThenSumSet(LAMBDA u : holding[u][0], S)
  BY DEF Leases!Used, Leases!MapThenSumSet,
         Leases!MapThenFoldSet, MapThenSumSet, MapThenFoldSet
<1>2. IsFiniteSet(S) /\ IsFiniteSet(S \ {t})
  BY LentFinite, FS_RemoveElement
<1>3. \A u \in S : holding[u][0] \in Nat /\ f[u] = holding[u][0]
  BY DEF PlacesInv
<1> HIDE DEF S
<1>4. Leases!Used(0) = Sum(f, S)
  BY <1>1, SumOfEntries
<1> HIDE DEF f
<1>5. t \in S
  BY DEF S
<1>6. Sum(f, S) = f[t] + Sum(f, S \ {t})
  BY <1>2, <1>3, <1>5, SumRemove
<1>7. Sum(f, S \ {t}) \in Nat
  BY <1>2, <1>3, SumType
<1> QED
  BY <1>3, <1>4, <1>5, <1>6, <1>7

\* A step that leaves the lanes lent.
LEMMA LanesStay ==
  ASSUME LanesInv, lanesFree' = lanesFree,
         \A t \in Matrix : ResourceClass[t] = "CPU" => (Leased(t)' <=> Leased(t))
  PROVE  LanesInv'
<1>1. Lent' = Lent
  BY DEF Lent
<1> QED
  BY <1>1 DEF LanesInv

\* A step of one task, the places of the others kept, that leases nothing.
LEMMA AloneStays ==
  ASSUME AloneInv, \A t \in Matrix : Leased(t)' => Leased(t)
  PROVE  AloneInv'
BY DEF AloneInv

\* What another task's step leaves alone stays right, on a later revision too.
LEMMA OthersStay ==
  ASSUME NEW u \in Matrix, TaskOk(u),
         main' = main, since' = since, head \in Nat, since \in Nat,
         head' \in Nat, head <= head',
         row[u] # None => row[u].source \in Nat \union {None},
         fingerprint[u] \in Nat \union {None},
         at'[u] = at[u], holding'[u] = holding[u], root'[u] = root[u],
         row'[u] = row[u], final'[u] = final[u], fingerprint'[u] = fingerprint[u]
  PROVE  TaskOk(u)'
<1>1. Holds(u)'
  BY DEF TaskOk, Holds, Leased, Attended, Share, Leases!NoSlots
<1>2. InPlace(u)' /\ Shown(u)'
  BY DEF TaskOk, InPlace, Shown
<1>3. Recent(u)'
  BY DEF TaskOk, Recent, Busy
<1> QED
  BY <1>1, <1>2, <1>3 DEF TaskOk

\* The first state of a campaign that was never started.
LEMMA CampaignBegins ==
  ASSUME CampaignInit
  PROVE  CampaignInv
<1> USE DEF CampaignInit
<1>1. PlacesInv
  BY DEF PlacesInv, Places, NoRoot, Leases!Init, Leases!NoSlots
<1>2. PapersInv
  BY DEF PapersInv, Blank
<1>3. Lent = {}
  BY DEF Lent, Leased, Attended
<1>4. LanesInv
  BY <1>3, FS_EmptySet, CampaignAssumption DEF LanesInv
<1>5. AloneInv
  BY DEF AloneInv, Leased, Attended
<1>6. ASSUME NEW t \in Matrix PROVE TaskOk(t)
  BY DEF TaskOk, Holds, InPlace, Shown, Recent, Leased, Attended, NoRoot, Blank,
         Leases!Init, Busy
<1> QED
  BY <1>1, <1>2, <1>4, <1>5, <1>6 DEF CampaignInv


\* Campaigns whose state but for helpers, session, gpu and bounds is the same.
LEMMA SameCampaign ==
  ASSUME CampaignInv,
         UNCHANGED <<main, head, since, at, lanesFree, holding, fingerprint, status,
                     root, final, row, summary>>
  PROVE  CampaignInv'
<1>1. PlacesInv' /\ PapersInv'
  BY DEF CampaignInv, PlacesInv, PapersInv
<1>2. \A t \in Matrix : Leased(t)' <=> Leased(t)
  BY DEF Leased, Attended
<1>3. LanesInv' /\ AloneInv'
  BY <1>2, LanesStay, AloneStays DEF CampaignInv
<1>4. ASSUME NEW t \in Matrix PROVE TaskOk(t)'
  BY DEF CampaignInv, TaskOk, Holds, InPlace, Shown, Recent, Leased, Attended, Share
<1> QED
  BY <1>1, <1>3, <1>4 DEF CampaignInv

\* A step of one task's thread.
LEMMA OneTask ==
  ASSUME CampaignInv, NEW t \in Matrix,
         main' = main, since' = since, head' = head, summary' = summary,
         \A u \in Matrix : u # t =>
           /\ at'[u] = at[u] /\ holding'[u] = holding[u] /\ root'[u] = root[u]
           /\ row'[u] = row[u] /\ final'[u] = final[u]
           /\ fingerprint'[u] = fingerprint[u],
         PlacesInv', PapersInv', LanesInv', AloneInv', TaskOk(t)'
  PROVE  CampaignInv'
<1>1. ASSUME NEW u \in Matrix PROVE TaskOk(u)'
  <2>1. CASE u = t
    BY <2>1
  <2>2. CASE u # t
    <3>1. TaskOk(u) /\ head \in Nat /\ since \in Nat /\ head <= head
      BY DEF CampaignInv, PlacesInv
    <3>2. /\ row[u] # None => row[u].source \in Nat \union {None}
          /\ fingerprint[u] \in Nat \union {None}
      BY DEF CampaignInv, PapersInv, Results
    <3> QED
      BY <2>2, <3>1, <3>2, OthersStay
  <2> QED
    BY <2>1, <2>2
<1> QED
  BY <1>1 DEF CampaignInv

\* One that neither takes nor gives back a lease.
LEMMA QuietTask ==
  ASSUME CampaignInv, NEW t \in Matrix, NEW p \in Places,
         p \in Attended <=> Leased(t),
         at' = [at EXCEPT ![t] = p],
         UNCHANGED <<main, since, head, summary, lanesFree, holding>>,
         root' \in [Matrix -> BOOLEAN],
         \A u \in Matrix : u # t =>
           /\ root'[u] = root[u] /\ row'[u] = row[u] /\ final'[u] = final[u]
           /\ fingerprint'[u] = fingerprint[u],
         PapersInv', TaskOk(t)'
  PROVE  CampaignInv'
<1>1. PlacesInv'
  BY DEF CampaignInv, PlacesInv
<1>2. at \in [Matrix -> Places]
  BY DEF CampaignInv, PlacesInv
<1>3. \A u \in Matrix : Leased(u)' <=> Leased(u)
  BY <1>2 DEF Leased, Attended
<1>4. LanesInv' /\ AloneInv'
  BY <1>3, LanesStay, AloneStays DEF CampaignInv
<1>5. \A u \in Matrix : u # t => at'[u] = at[u] /\ holding'[u] = holding[u]
  BY <1>2
<1> QED
  BY <1>1, <1>4, <1>5, OneTask

\* A task that is blocked has its row and its FINAL.json at once.
LEMMA BlockKeeps ==
  ASSUME CampaignInv, NEW t \in Matrix, Block(t)
  PROVE  CampaignInv'
<1> USE DEF Block, BlockedFinal, Go, control,
            lanes, child
<1> DEFINE r == [status |-> "BLOCKED_GPU_RESOURCE", source |-> None]
<1>1. r \in Results /\ r # None
  BY CampaignAssumption DEF Results, Statuses
<1>2. /\ final' = [final EXCEPT ![t] = r] /\ row' = [row EXCEPT ![t] = r]
      /\ at' = [at EXCEPT ![t] = "idle"] /\ at[t] = "planned"
  OBVIOUS
<1>3. r.source = None
  OBVIOUS
<1> HIDE DEF r
<1>4. PapersInv'
  BY <1>1, <1>2 DEF CampaignInv, PapersInv
<1>5. at'[t] = "idle" /\ row'[t] = r /\ final'[t] = r
  BY <1>2 DEF CampaignInv, PapersInv, PlacesInv
<1>6. TaskOk(t)'
  BY <1>1, <1>2, <1>3, <1>5
     DEF CampaignInv, TaskOk, Holds, InPlace, Shown, Recent, Leased, Attended, Busy
<1>7. root' \in [Matrix -> BOOLEAN]
  BY DEF CampaignInv, PlacesInv
<1>8. \A u \in Matrix : u # t =>
        /\ root'[u] = root[u] /\ row'[u] = row[u] /\ final'[u] = final[u]
        /\ fingerprint'[u] = fingerprint[u]
  BY <1>2 DEF CampaignInv, PapersInv
<1> QED
  BY <1>2, <1>4, <1>6, <1>7, <1>8, QuietTask DEF Places, Leased, Attended

\* A task is resumed from a FINAL.json of this revision, or reads the revision
\* it runs with.
LEMMA PickKeeps ==
  ASSUME CampaignInv, NEW t \in Matrix, Pick(t)
  PROVE  CampaignInv'
<1> USE DEF Pick, Go, control, lanes, child
<1>1. fingerprint'[t] = head /\ \A u \in Matrix : u # t => fingerprint'[u] = fingerprint[u]
  BY DEF CampaignInv, PapersInv
<1>2. PapersInv'
  BY DEF CampaignInv, PapersInv, PlacesInv
<1>3. root' \in [Matrix -> BOOLEAN] /\ at[t] = "queued"
  BY DEF CampaignInv, PlacesInv
<1>4. CASE Reusable(t) /\ session > 1
  <2>1. /\ row'[t] = final[t] /\ at' = [at EXCEPT ![t] = "idle"] /\ final' = final
        /\ final[t] # None /\ final[t].source = head
        /\ at'[t] = "idle"
        /\ \A u \in Matrix : u # t => row'[u] = row[u]
    BY <1>4 DEF CampaignInv, PapersInv, PlacesInv, Reusable
  <2>2. TaskOk(t)'
    BY <1>3, <2>1 DEF CampaignInv, PlacesInv, TaskOk, Holds, InPlace, Shown, Recent, Leased, Attended,
                      Busy
  <2> QED
    BY <1>1, <1>2, <1>3, <2>1, <2>2, QuietTask DEF Places, Leased, Attended
<1>5. CASE ~(Reusable(t) /\ session > 1)
  <2>1. /\ row' = row /\ at' = [at EXCEPT ![t] = "waiting"]
        /\ at'[t] = "waiting"
        /\ \A u \in Matrix : u # t => final'[u] = final[u]
    BY <1>5 DEF CampaignInv, PapersInv, PlacesInv
  <2>2. TaskOk(t)'
    BY <1>1, <1>3, <2>1 DEF CampaignInv, PlacesInv, TaskOk, Holds, InPlace, Shown, Recent,
                            Leased, Attended, Busy
  <2> QED
    BY <1>1, <1>2, <1>3, <2>1, <2>2, QuietTask DEF Places, Leased, Attended
<1> QED
  BY <1>4, <1>5


\* A thread that is told its lease did not come, and one that writes what came
\* of its task, has a row to show.
LEMMA LeaseTimesOutKeeps ==
  ASSUME CampaignInv, NEW t \in Matrix,
         LeaseTimesOut(t)
  PROVE  CampaignInv'
<1> USE DEF LeaseTimesOut, Go, control, lanes,
            child, SchedulerError
<1> DEFINE r == [status |-> "SCHEDULER_ERROR", source |-> None]
<1>1. r \in Results /\ r # None /\ r.status = "SCHEDULER_ERROR" /\ r.source = None
  BY CampaignAssumption DEF Results, Statuses
<1>2. row' = [row EXCEPT ![t] = r] /\ at' = [at EXCEPT ![t] = "idle"] /\ at[t] = "waiting"
  OBVIOUS
<1> HIDE DEF r
<1>3. PapersInv'
  BY <1>1, <1>2 DEF CampaignInv, PapersInv
<1>4. /\ at'[t] = "idle" /\ row'[t] = r
      /\ \A u \in Matrix : u # t => row'[u] = row[u]
  BY <1>2 DEF CampaignInv, PapersInv, PlacesInv
<1>5. TaskOk(t)'
  BY <1>1, <1>2, <1>4
     DEF CampaignInv, TaskOk, Holds, InPlace, Shown, Recent, Leased, Attended, Busy
<1>6. root' \in [Matrix -> BOOLEAN]
  BY DEF CampaignInv, PlacesInv
<1> QED
  BY <1>2, <1>3, <1>4, <1>5, <1>6, QuietTask DEF Places, Leased, Attended

\* What a thread writes is what it returns, and of the revision it read.
LEMMA WriteFinalKeeps ==
  ASSUME CampaignInv, NEW t \in Matrix,
         WriteFinal(t)
  PROVE  CampaignInv'
<1> USE DEF WriteFinal, Go, control, lanes,
            child, Result
<1> DEFINE r == [status |-> status[t], source |-> fingerprint[t]]
<1>1. r \in Results /\ r # None /\ r.source = fingerprint[t]
  BY CampaignAssumption DEF Results, CampaignInv, PapersInv
<1>2. /\ final' = [final EXCEPT ![t] = r] /\ row' = [row EXCEPT ![t] = r]
      /\ at' = [at EXCEPT ![t] = "idle"] /\ at[t] = "write"
  OBVIOUS
<1> HIDE DEF r
<1>3. PapersInv'
  BY <1>1, <1>2 DEF CampaignInv, PapersInv
<1>4. /\ at'[t] = "idle" /\ row'[t] = r /\ final'[t] = r
      /\ \A u \in Matrix : u # t => row'[u] = row[u] /\ final'[u] = final[u]
  BY <1>2 DEF CampaignInv, PapersInv, PlacesInv
<1>5. TaskOk(t)'
  BY <1>1, <1>2, <1>4
     DEF CampaignInv, TaskOk, Holds, InPlace, Shown, Recent, Leased, Attended, Busy
<1>6. root' \in [Matrix -> BOOLEAN]
  BY DEF CampaignInv, PlacesInv
<1> QED
  BY <1>2, <1>3, <1>4, <1>5, <1>6, QuietTask DEF Places, Leased, Attended

\* The wait for the child, with and without its end: the lease is kept, and
\* the root is gone before the thread drains or releases.
LEMMA WaitKeeps ==
  ASSUME CampaignInv, NEW t \in Matrix,
         \/ Returned(t) \/ TimesOut(t) \/ Terminated(t)
         \/ KillTree(t) \/ KillWaitFails(t) \/ DrainedAtLast(t)
  PROVE  CampaignInv'
<1> USE DEF Go, control, lanes, child, books
<1>1. PICK p \in Attended : at' = [at EXCEPT ![t] = p]
  BY Zenon DEF Returned, TimesOut, Terminated, KillTree, KillWaitFails,
         DrainedAtLast, Settle, Terminating, Attended
<1>2. /\ Leased(t) /\ p \in Places /\ at'[t] = p
      /\ at[t] \in Busy /\ at'[t] \in Busy
  BY <1>1 DEF CampaignInv, PlacesInv, Leased, Places, Attended, Returned, TimesOut,
         Terminated, KillTree, KillWaitFails, DrainedAtLast, Busy
<1>3. /\ root' \in [Matrix -> BOOLEAN]
      /\ \A u \in Matrix : u # t => root'[u] = root[u]
      /\ root'[t] => at'[t] \in {"terminating", "killing"}
  <2>1. CASE KillTree(t)
    BY <2>1 DEF KillTree, CampaignInv, PlacesInv
  <2>2. CASE KillWaitFails(t)
    BY <2>2 DEF KillWaitFails, CampaignInv, PlacesInv
  <2>3. CASE Returned(t) \/ TimesOut(t) \/ Terminated(t) \/ DrainedAtLast(t)
    <3>1. root' = root /\ (root[t] => at[t] \in {"running", "terminating", "killing"})
      BY <2>3 DEF Returned, TimesOut, Terminated,
             DrainedAtLast, CampaignInv, TaskOk, Holds
    <3>2. root[t] => at'[t] \in {"terminating", "killing"}
      BY <2>3, <3>1 DEF Returned, TimesOut, Terminated,
             DrainedAtLast, Drained, Terminating, CampaignInv,
             PlacesInv
    <3> QED
      BY <3>1, <3>2 DEF CampaignInv, PlacesInv
  <2> QED
    BY <2>1, <2>2, <2>3
<1>4. UNCHANGED <<main, since, head, summary, lanesFree, holding, fingerprint, row, final>>
  BY DEF Returned, TimesOut, Terminated, KillTree, KillWaitFails,
         DrainedAtLast
<1>5. status' \in [Matrix -> Statuses \union {None}]
  BY DEF Returned, TimesOut, Terminated, KillTree, KillWaitFails,
         DrainedAtLast, Settle, Statuses, CampaignInv, PapersInv
<1>6. PapersInv'
  BY <1>4, <1>5 DEF CampaignInv, PapersInv
<1>7. TaskOk(t)'
  BY <1>1, <1>2, <1>3, <1>4
     DEF CampaignInv, TaskOk, Holds, InPlace, Shown, Recent, Leased, Attended, Share, Busy
<1> QED
  BY <1>1, <1>2, <1>3, <1>4, <1>6, <1>7, QuietTask

\* The end of a root by itself, and the helpers.
LEMMA ChildrenKeep ==
  ASSUME CampaignInv, NEW t \in Matrix, Children(t)
  PROVE  CampaignInv'
<1> USE DEF control, lanes, books
<1>1. CASE RootEnds(t)
  <2> USE <1>1 DEF RootEnds
  <2>1. /\ at' = [at EXCEPT ![t] = at[t]] /\ at[t] \in Places /\ at'[t] = at[t]
        /\ root' \in [Matrix -> BOOLEAN] /\ ~root'[t]
        /\ \A u \in Matrix : u # t => root'[u] = root[u]
    BY DEF CampaignInv, PlacesInv
  <2>2. PapersInv'
    BY DEF CampaignInv, PapersInv
  <2>3. TaskOk(t)'
    BY <2>1 DEF CampaignInv, TaskOk, Holds, InPlace, Shown, Recent, Leased, Attended, Share
  <2> QED
    BY <2>1, <2>2, <2>3, QuietTask DEF Leased, Attended
<1>2. CASE StartHelper(t) \/ HelperEnds(t) \/ LeftEnds(t)
  BY <1>2, SameCampaign DEF StartHelper, HelperEnds, LeftEnds
<1> QED
  BY <1>1, <1>2 DEF Children

\* Taking a lease: a lane more is lent, or a grant of the admission.
LEMMA LeaseKeeps ==
  ASSUME CampaignInv, NEW t \in Matrix, Lease(t)
  PROVE  CampaignInv'
<1> USE DEF Lease, Go, control, books
<1>1. /\ at[t] = "waiting" /\ ~Leased(t) /\ holding[t] = Leases!NoSlots
      /\ at'[t] = "running" /\ Leased(t)'
      /\ \A u \in Matrix : u # t => at'[u] = at[u] /\ (Leased(u)' <=> Leased(u))
  BY DEF CampaignInv, PlacesInv, Leased, Attended, TaskOk, Holds
<1>2. /\ root' \in [Matrix -> BOOLEAN]
      /\ \A u \in Matrix : u # t => root'[u] = root[u]
  BY DEF CampaignInv, PlacesInv
<1>3. PapersInv'
  BY DEF CampaignInv, PapersInv
<1>4. /\ holding' \in [Matrix -> [{0} -> Nat]]
      /\ holding'[t] = IF ResourceClass[t] # "CPU" THEN Share(t) ELSE Leases!NoSlots
      /\ \A u \in Matrix : u # t => holding'[u] = holding[u]
  <2>1. CASE TakeLane(t)
    BY <1>1, <2>1 DEF TakeLane, CampaignInv, PlacesInv
  <2>2. CASE ResourceClass[t] # "CPU" /\ Leases!GrantShared(t, 0)
    <3>1. /\ holding' = [holding EXCEPT ![t][0] = 1]
          /\ ResourceClass[t] # "EXCLUSIVE_GPU"
      BY <2>2 DEF Leases!GrantShared
    <3>2. holding'[t] = Share(t)
      BY <1>1, <3>1 DEF CampaignInv, PlacesInv, Share, Leases!NoSlots
    <3> QED
      BY <2>2, <3>1, <3>2 DEF CampaignInv, PlacesInv
  <2>3. CASE ResourceClass[t] # "CPU" /\ Leases!GrantExclusive(t)
    <3>1. /\ holding' = [holding EXCEPT ![t] = [d \in {0} |-> GpuSlots]]
          /\ ResourceClass[t] = "EXCLUSIVE_GPU"
      BY <2>3 DEF Leases!GrantExclusive
    <3>2. Share(t) = [d \in {0} |-> GpuSlots] /\ Share(t) \in [{0} -> Nat]
      BY <3>1, ShareIsSome DEF Share
    <3> QED
      BY <2>3, <3>1, <3>2 DEF CampaignInv, PlacesInv
  <2> QED
    BY <2>1, <2>2, <2>3 DEF TakeSlots
<1>5. PlacesInv'
  BY <1>2, <1>4 DEF CampaignInv, PlacesInv, Places, Attended
<1>6. LanesInv'
  <2>1. CASE ResourceClass[t] = "CPU"
    <3>1. Lent' = Lent \union {t} /\ t \notin Lent
      BY <1>1, <2>1 DEF Lent
    <3>2. Cardinality(Lent') = Cardinality(Lent) + 1
      BY <3>1, LentFinite, FS_AddElement
    <3>3. lanesFree' = lanesFree - 1
      BY <2>1 DEF TakeLane, TakeSlots
    <3> QED
      BY <3>2, <3>3, LentFinite, CampaignAssumption DEF CampaignInv, LanesInv
  <2>2. CASE ResourceClass[t] # "CPU"
    <3>1. lanesFree' = lanesFree
      BY <2>2 DEF TakeLane, TakeSlots
    <3> QED
      BY <1>1, <2>2, <3>1, LanesStay DEF CampaignInv
  <2> QED
    BY <2>1, <2>2
<1>7. AloneInv'
  <2>1. SUFFICES ASSUME ResourceClass[t] # "CPU", NEW u \in Matrix, u # t,
                        ResourceClass[u] # "CPU", Leased(u)
                 PROVE  ResourceClass[t] # "EXCLUSIVE_GPU" /\ ResourceClass[u] # "EXCLUSIVE_GPU"
    BY <1>1 DEF CampaignInv, AloneInv
  <2>2. holding[u] = Share(u) /\ Share(u) # Leases!NoSlots
    BY <2>1, ShareIsSome DEF CampaignInv, TaskOk, Holds
  <2>3. Leases!GrantShared(t, 0)
    BY <2>1, <2>2 DEF TakeLane, TakeSlots, Leases!GrantExclusive
  <2>4. ResourceClass[t] # "EXCLUSIVE_GPU" /\ Leases!Used(0) + 1 <= GpuSlots
    BY <2>3 DEF Leases!GrantShared
  <2>5. holding[u][0] <= Leases!Used(0) /\ Leases!Used(0) \in Nat
    BY UsedCoversEach DEF CampaignInv
  <2>6. CASE ResourceClass[u] = "EXCLUSIVE_GPU"
    <3>1. holding[u][0] = GpuSlots /\ GpuSlots \in Nat
      BY <2>2, <2>6, CampaignAssumption DEF Share
    <3> QED
      BY <2>4, <2>5, <3>1
  <2> QED
    BY <2>4, <2>6
<1>8. TaskOk(t)'
  BY <1>1, <1>4 DEF CampaignInv, TaskOk, Holds, InPlace, Shown, Recent, Leased, Attended, Share,
                    Busy
<1> QED
  BY <1>1, <1>2, <1>3, <1>4, <1>5, <1>6, <1>7, <1>8, OneTask

\* Giving it back: the root is gone.
LEMMA ReleaseKeeps ==
  ASSUME CampaignInv, NEW t \in Matrix, Release(t)
  PROVE  CampaignInv'
<1> USE DEF Release, Go, control, child,
            SchedulerError
<1> DEFINE r == [status |-> "SCHEDULER_ERROR", source |-> None]
<1>1. r \in Results /\ r # None /\ r.status = "SCHEDULER_ERROR" /\ r.source = None
  BY CampaignAssumption DEF Results, Statuses
<1>2. \/ row' = [row EXCEPT ![t] = r] /\ at' = [at EXCEPT ![t] = "idle"]
      \/ row' = row /\ at' = [at EXCEPT ![t] = "write"]
  BY Zenon
<1> HIDE DEF r
<1>3. at[t] = "release" /\ Leased(t) /\ ~root[t]
  BY DEF CampaignInv, Leased, Attended, TaskOk, Holds
<1>4. /\ at'[t] \in {"idle", "write"} /\ ~Leased(t)'
      /\ at' \in [Matrix -> Places]
      /\ \A u \in Matrix : u # t => at'[u] = at[u] /\ (Leased(u)' <=> Leased(u))
  BY <1>2 DEF CampaignInv, PlacesInv, Leased, Attended, Places
<1>5. /\ PapersInv' /\ \A u \in Matrix : u # t => row'[u] = row[u]
      /\ at'[t] = "idle" => row'[t] = r
      /\ at'[t] = "write" => row'[t] = row[t]
  BY <1>1, <1>2 DEF CampaignInv, PapersInv, PlacesInv
<1>6. /\ holding' \in [Matrix -> [{0} -> Nat]]
      /\ holding'[t] = Leases!NoSlots
      /\ \A u \in Matrix : u # t => holding'[u] = holding[u]
  <2>1. CASE ResourceClass[t] = "CPU"
    BY <2>1 DEF CampaignInv, PlacesInv, TaskOk, Holds
  <2>2. CASE ResourceClass[t] # "CPU"
    <3>1. /\ holding' = [holding EXCEPT ![t] = Leases!NoSlots]
          /\ Leases!NoSlots \in [{0} -> Nat]
      BY <2>2, ShareIsSome DEF Leases!Release
    <3> QED
      BY <3>1 DEF CampaignInv, PlacesInv
  <2> QED
    BY <2>1, <2>2
<1>7. PlacesInv'
  BY <1>4, <1>6 DEF CampaignInv, PlacesInv
<1>8. LanesInv'
  <2>1. CASE ResourceClass[t] = "CPU"
    <3>1. Lent' = Lent \ {t} /\ t \in Lent
      BY <1>3, <1>4, <2>1 DEF Lent
    <3>2. Cardinality(Lent') = Cardinality(Lent) - 1
      BY <3>1, LentFinite, FS_RemoveElement
    <3>3. lanesFree' = lanesFree + 1
      BY <2>1
    <3> QED
      BY <3>2, <3>3, LentFinite, CampaignAssumption DEF CampaignInv, LanesInv
  <2>2. CASE ResourceClass[t] # "CPU"
    <3>1. lanesFree' = lanesFree
      BY <2>2
    <3> QED
      BY <1>4, <2>2, <3>1, LanesStay DEF CampaignInv
  <2> QED
    BY <2>1, <2>2
<1>9. AloneInv'
  BY <1>3, <1>4, AloneStays DEF CampaignInv
<1>10. TaskOk(t)'
  <2>1. Holds(t)'
    BY <1>3, <1>4, <1>6 DEF Holds
  <2>2. InPlace(t)' /\ main = "pool"
    BY <1>3 DEF CampaignInv, PlacesInv, TaskOk, InPlace
  <2>3. Shown(t)'
    BY <1>1, <1>4, <1>5 DEF Shown
  <2>4. Recent(t)'
    BY <1>1, <1>3, <1>4, <1>5 DEF CampaignInv, TaskOk, Recent, Busy
  <2> QED
    BY <2>1, <2>2, <2>3, <2>4 DEF TaskOk
<1> QED
  BY <1>3, <1>4, <1>5, <1>6, <1>7, <1>8, <1>9, <1>10, OneTask


\* A process that begins finds every lease back, and promises nothing yet.
LEMMA StartKeeps ==
  ASSUME CampaignInv, Start
  PROVE  CampaignInv'
<1> USE DEF Start, lanes, Leave
<1>1. \A t \in Matrix : at[t] = "idle" /\ at'[t] = "planned"
  BY DEF CampaignInv, TaskOk, InPlace
<1>2. \A t \in Matrix : ~Leased(t) /\ ~Leased(t)'
  BY <1>1 DEF Leased, Attended
<1>3. PlacesInv' /\ PapersInv'
  BY DEF CampaignInv, PlacesInv, PapersInv, Places, NoRoot, Blank
<1>4. LanesInv' /\ AloneInv'
  BY <1>2, LanesStay, AloneStays DEF CampaignInv
<1>5. ASSUME NEW t \in Matrix PROVE TaskOk(t)'
  <2>1. row'[t] = None /\ ~root'[t] /\ main' = "plan"
    BY DEF Blank, NoRoot
  <2>2. Holds(t)'
    BY <1>2, <2>1 DEF CampaignInv, TaskOk, Holds
  <2> QED
    BY <1>1, <2>1, <2>2 DEF TaskOk, InPlace, Shown, Recent, Busy
<1> QED
  BY <1>3, <1>4, <1>5 DEF CampaignInv

\* The pool takes what the plan has left; nobody holds anything yet.
LEMMA OpenPoolKeeps ==
  ASSUME CampaignInv, OpenPool
  PROVE  CampaignInv'
<1> USE DEF OpenPool, lanes, child, books
<1>1. \A t \in Matrix :
        /\ at[t] \in {"idle", "planned"}
        /\ at'[t] = IF at[t] = "planned" THEN "queued" ELSE at[t]
  BY DEF CampaignInv, TaskOk, InPlace
<1>2. \A t \in Matrix : ~Leased(t) /\ ~Leased(t)'
  BY <1>1 DEF Leased, Attended
<1>3. PlacesInv' /\ PapersInv'
  BY DEF CampaignInv, PlacesInv, PapersInv, Places
<1>4. LanesInv' /\ AloneInv'
  BY <1>2, LanesStay, AloneStays DEF CampaignInv
<1>5. ASSUME NEW t \in Matrix PROVE TaskOk(t)'
  <2>1. Holds(t)'
    BY <1>1, <1>2 DEF CampaignInv, TaskOk, Holds
  <2> QED
    BY <1>1, <2>1 DEF CampaignInv, TaskOk, InPlace, Shown, Recent, Busy
<1> QED
  BY <1>3, <1>4, <1>5 DEF CampaignInv

\* Every task is idle, so every task has its row.
LEMMA SummariseKeeps ==
  ASSUME CampaignInv, Summarise
  PROVE  CampaignInv'
<1> USE DEF Summarise, lanes, child
<1>1. PlacesInv' /\ PapersInv'
  BY DEF CampaignInv, PlacesInv, PapersInv
<1>2. \A t \in Matrix : Leased(t)' <=> Leased(t)
  BY DEF Leased, Attended
<1>3. LanesInv' /\ AloneInv'
  BY <1>2, LanesStay, AloneStays DEF CampaignInv
<1>4. ASSUME NEW t \in Matrix PROVE TaskOk(t)'
  BY DEF CampaignInv, TaskOk, Holds, InPlace, Shown, Recent, Leased, Attended, Share
<1>5. summary'
  BY DEF CampaignInv, TaskOk, Shown
<1> QED
  BY <1>1, <1>3, <1>4, <1>5 DEF CampaignInv

\* A process that is killed takes its scheduler with it: all leases are new.
LEMMA KilledKeeps ==
  ASSUME CampaignInv, Killed
  PROVE  CampaignInv'
<1> USE DEF Killed, Leave, books
<1>1. \A t \in Matrix : at'[t] = "idle" /\ ~Leased(t)'
  BY DEF Leased, Attended
<1>2. PlacesInv' /\ PapersInv'
  BY DEF CampaignInv, PlacesInv, PapersInv, Places, NoRoot, Leases!NoSlots
<1>3. Lent' = {}
  BY <1>1 DEF Lent
<1>4. LanesInv'
  BY <1>3, FS_EmptySet, CampaignAssumption DEF LanesInv
<1>5. AloneInv'
  BY <1>1 DEF AloneInv
<1>6. ASSUME NEW t \in Matrix PROVE TaskOk(t)'
  <2>1. holding'[t] = Leases!NoSlots /\ ~root'[t]
    BY DEF NoRoot
  <2>2. (Leases!NoSlots)' = Leases!NoSlots
    BY DEF Leases!NoSlots
  <2>3. Holds(t)'
    BY <1>1, <2>1, <2>2 DEF Holds
  <2> QED
    BY <1>1, <2>3 DEF CampaignInv, TaskOk, InPlace, Shown, Recent, Busy
<1> QED
  BY <1>2, <1>4, <1>5, <1>6 DEF CampaignInv

\* A later revision leaves what was recent recent.
LEMMA CommitKeeps ==
  ASSUME CampaignInv, Commit
  PROVE  CampaignInv'
<1> USE DEF Commit, lanes, child, books
<1>1. head \in Nat /\ since \in Nat /\ head' \in Nat /\ head <= head' /\ since <= head
  BY DEF CampaignInv, PlacesInv
<1>2. PlacesInv' /\ PapersInv'
  BY <1>1 DEF CampaignInv, PlacesInv, PapersInv
<1>3. \A t \in Matrix : Leased(t)' <=> Leased(t)
  BY DEF Leased, Attended
<1>4. LanesInv' /\ AloneInv'
  BY <1>3, LanesStay, AloneStays DEF CampaignInv
<1>5. ASSUME NEW t \in Matrix PROVE TaskOk(t)'
  <2>1. /\ TaskOk(t)
        /\ row[t] # None => row[t].source \in Nat \union {None}
        /\ fingerprint[t] \in Nat \union {None}
    BY DEF CampaignInv, PapersInv, Results
  <2> QED
    BY <1>1, <2>1, OthersStay
<1> QED
  BY <1>2, <1>4, <1>5 DEF CampaignInv

\* Every step of the campaign keeps the invariant.
LEMMA CampaignGoesOn ==
  ASSUME CampaignInv, [CampaignNext]_campaignVars
  PROVE  CampaignInv'
<1>1. CASE Start
  BY <1>1, StartKeeps
<1>2. CASE Main
  BY <1>2, OpenPoolKeeps, SummariseKeeps, BlockKeeps DEF Main
<1>3. CASE Killed
  BY <1>3, KilledKeeps
<1>4. CASE Commit
  BY <1>4, CommitKeeps
<1>5. ASSUME NEW t \in Matrix, Thread(t) PROVE CampaignInv'
  BY <1>5, PickKeeps, LeaseKeeps, LeaseTimesOutKeeps, WaitKeeps, ReleaseKeeps,
     WriteFinalKeeps DEF Thread
<1>6. ASSUME NEW t \in Matrix, Children(t) PROVE CampaignInv'
  BY <1>6, ChildrenKeep
<1>7. CASE UNCHANGED campaignVars
  BY <1>7, SameCampaign
     DEF campaignVars, control, lanes, child, books
<1> QED
  BY <1>1, <1>2, <1>3, <1>4, <1>5, <1>6, <1>7 DEF CampaignNext

\* The invariant holds throughout every campaign.
LEMMA CampaignAlways == CampaignSpec => []CampaignInv
<1>1. CampaignInit => CampaignInv
  BY CampaignBegins
<1>2. CampaignInv /\ [CampaignNext]_campaignVars => CampaignInv'
  BY CampaignGoesOn
<1> QED
  BY <1>1, <1>2, PTL DEF CampaignSpec

\* A root that was given up is that of a task which has reported, or is about
\* to report, that its scheduling failed.
GivenUpOk(t) ==
  t \in givenUp =>
    /\ at[t] \in {"release", "idle"} /\ status[t] = "SCHEDULER_ERROR"
    /\ at[t] = "idle" => row[t].status = "SCHEDULER_ERROR"
GivenUpInv == givenUp \subseteq Matrix /\ \A t \in Matrix : GivenUpOk(t)

\* What another task's step, or a child's, leaves alone.
LEMMA OthersGivenUp ==
  ASSUME GivenUpInv, NEW t \in Matrix, givenUp' \subseteq givenUp \union {t},
         \A u \in Matrix : u # t => at'[u] = at[u] /\ status'[u] = status[u] /\ row'[u] = row[u],
         GivenUpOk(t)'
  PROVE  GivenUpInv'
<1>1. givenUp' \subseteq Matrix
  BY DEF GivenUpInv
<1>2. ASSUME NEW u \in Matrix, u # t PROVE GivenUpOk(u)'
  BY <1>2 DEF GivenUpInv, GivenUpOk
<1> QED
  BY <1>1, <1>2 DEF GivenUpInv

\* A thread gives a root up as it settles on SCHEDULER_ERROR, and shows that
\* when it has released the lease; no other step of it meets such a task.
LEMMA ThreadGivesUp ==
  ASSUME CampaignInv, GivenUpInv, NEW t \in Matrix, Thread(t)
  PROVE  GivenUpInv'
<1> USE DEF Go, child, books
<1>1. /\ at \in [Matrix -> Places]
      /\ status \in [Matrix -> Statuses \union {None}]
      /\ row \in [Matrix -> Results \union {None}]
  BY DEF CampaignInv, PlacesInv, PapersInv
<1>2. GivenUpOk(t)
  BY DEF GivenUpInv
<1>3. CASE KillWaitFails(t)
  <2>1. /\ at' = [at EXCEPT ![t] = "release"] /\ row' = row
        /\ status' = [status EXCEPT ![t] = "SCHEDULER_ERROR"]
        /\ givenUp' = givenUp \union {t}
    BY <1>3 DEF KillWaitFails, Settle
  <2>2. GivenUpOk(t)'
    BY <1>1, <2>1 DEF GivenUpOk
  <2> QED
    BY <1>1, <2>1, <2>2, OthersGivenUp
<1>4. CASE Release(t)
  <2>1. at[t] = "release" /\ status' = status /\ givenUp' = givenUp
    BY <1>4 DEF Release
  <2>2. CASE status[t] = "SCHEDULER_ERROR"
    <3>1. /\ at' = [at EXCEPT ![t] = "idle"]
          /\ row' = [row EXCEPT ![t] = [status |-> "SCHEDULER_ERROR", source |-> None]]
      BY <1>4, <2>2 DEF Release, SchedulerError
    <3>2. at'[t] = "idle" /\ row'[t].status = "SCHEDULER_ERROR"
      BY <1>1, <3>1
    <3>3. GivenUpOk(t)'
      BY <2>1, <2>2, <3>2 DEF GivenUpOk
    <3> QED
      BY <1>1, <2>1, <3>1, <3>3, OthersGivenUp
  <2>3. CASE status[t] # "SCHEDULER_ERROR"
    <3>1. at' = [at EXCEPT ![t] = "write"] /\ row' = row
      BY <1>4, <2>3 DEF Release
    <3>2. GivenUpOk(t)'
      BY <1>2, <2>1, <2>3 DEF GivenUpOk
    <3> QED
      BY <1>1, <2>1, <3>1, <3>2, OthersGivenUp
  <2> QED
    BY <2>2, <2>3
<1>5. CASE \/ Pick(t) \/ Lease(t) \/ LeaseTimesOut(t) \/ Returned(t) \/ TimesOut(t)
           \/ Terminated(t) \/ KillTree(t) \/ DrainedAtLast(t) \/ WriteFinal(t)
  <2>1. at[t] \notin {"release", "idle"} /\ givenUp' = givenUp
    BY <1>5 DEF Pick, Lease, LeaseTimesOut, Returned, TimesOut, Terminated, KillTree,
                DrainedAtLast, WriteFinal
  <2>2. \E p : at' = [at EXCEPT ![t] = p]
    BY <1>5, Zenon DEF Pick, Lease, LeaseTimesOut, Returned, TimesOut, Terminated, KillTree,
                       DrainedAtLast, WriteFinal, Settle
  <2>3. status' = status \/ \E s : status' = [status EXCEPT ![t] = s]
    BY <1>5, Zenon DEF Pick, Lease, LeaseTimesOut, Returned, TimesOut, Terminated, KillTree,
                       DrainedAtLast, WriteFinal, Settle
  <2>4. row' = row \/ \E r : row' = [row EXCEPT ![t] = r]
    BY <1>5, Zenon DEF Pick, Lease, LeaseTimesOut, Returned, TimesOut, Terminated, KillTree,
                       DrainedAtLast, WriteFinal, SchedulerError
  <2>5. \A u \in Matrix : u # t => at'[u] = at[u] /\ status'[u] = status[u] /\ row'[u] = row[u]
    BY <1>1, <2>2, <2>3, <2>4
  <2>6. GivenUpOk(t)'
    BY <1>2, <2>1 DEF GivenUpOk
  <2> QED
    BY <2>1, <2>5, <2>6, OthersGivenUp
<1> QED
  BY <1>3, <1>4, <1>5 DEF Thread

\* Every step of the campaign keeps that; a process that begins or is killed
\* has no children of its own.
LEMMA GivesUpGoesOn ==
  ASSUME CampaignInv, GivenUpInv, [CampaignNext]_campaignVars
  PROVE  GivenUpInv'
<1>1. CASE Start \/ Killed
  BY <1>1 DEF Start, Killed, Leave, GivenUpInv, GivenUpOk
<1>2. CASE OpenPool
  <2>1. /\ UNCHANGED <<givenUp, status, row>>
        /\ at' = [u \in Matrix |-> IF at[u] = "planned" THEN "queued" ELSE at[u]]
    BY <1>2 DEF OpenPool, child, books
  <2> QED
    BY <2>1 DEF GivenUpInv, GivenUpOk
<1>3. ASSUME NEW t \in Matrix, Block(t) PROVE GivenUpInv'
  <2>1. /\ at[t] = "planned" /\ UNCHANGED <<givenUp, status>>
        /\ at' = [at EXCEPT ![t] = "idle"]
        /\ row' = [row EXCEPT ![t] = [status |-> "BLOCKED_GPU_RESOURCE", source |-> None]]
    BY <1>3 DEF Block, Go, child
  <2>2. \A u \in Matrix : u # t => at'[u] = at[u] /\ status'[u] = status[u] /\ row'[u] = row[u]
    BY <2>1 DEF CampaignInv, PlacesInv, PapersInv
  <2>3. t \notin givenUp
    BY <2>1 DEF GivenUpInv, GivenUpOk
  <2> QED
    BY <2>1, <2>2, <2>3, OthersGivenUp DEF GivenUpOk
<1>4. ASSUME NEW t \in Matrix, Thread(t) PROVE GivenUpInv'
  BY <1>4, ThreadGivesUp
<1>5. CASE \/ Summarise \/ Commit \/ UNCHANGED campaignVars
           \/ \E t \in Matrix : Children(t)
  <2>1. UNCHANGED <<at, status, row>> /\ givenUp' \subseteq givenUp
    BY <1>5 DEF Summarise, Commit, campaignVars, child, books, Children, StartHelper,
                RootEnds, HelperEnds, LeftEnds
  <2> QED
    BY <2>1 DEF GivenUpInv, GivenUpOk
<1> QED
  BY <1>1, <1>2, <1>3, <1>4, <1>5 DEF CampaignNext, Main

LEMMA GivesUpAlways == CampaignSpec => []GivenUpInv
<1>1. CampaignInit => GivenUpInv
  BY DEF CampaignInit, GivenUpInv, GivenUpOk
<1>2. CampaignInv /\ GivenUpInv /\ [CampaignNext]_campaignVars => GivenUpInv'
  BY GivesUpGoesOn
<1> QED
  BY <1>1, <1>2, CampaignAlways, PTL DEF CampaignSpec

\* Until its root process is gone a child of the running campaign has its
\* lease: CPU children fit the lanes, and an exclusive child is alone on the
\* GPU, through time outs and kills, for any tasks, classes, workers, lanes and
\* slots.  Only a root that outlives SIGKILL and the second grace period loses
\* it, and its task shows a SCHEDULER_ERROR, never a TIMEOUT or a result.
THEOREM ChildrenAreUnderLeases == CampaignSpec => []RootsUnderLeases
<1>1. CampaignInv /\ GivenUpInv => RootsUnderLeases
  <2> SUFFICES ASSUME CampaignInv, GivenUpInv PROVE RootsUnderLeases
    OBVIOUS
  <2> DEFINE Roots == {t \in Matrix : root[t] /\ ResourceClass[t] = "CPU"}
  <2>1. \A t \in Matrix : root[t] => Leased(t)
    BY DEF CampaignInv, TaskOk, Holds, Leased, Attended
  <2>2. Roots \subseteq Lent
    BY <2>1 DEF Lent
  <2>3. Cardinality(Roots) <= Cardinality(Lent) /\ Cardinality(Roots) \in Nat
    BY <2>2, LentFinite, FS_Subset, FS_CardinalityType
  <2>4. Cardinality(Roots) <= Lanes - lanesFree
    BY <2>3, LentFinite, CampaignAssumption DEF CampaignInv, LanesInv
  <2>5. ASSUME NEW t \in Matrix, root[t], ResourceClass[t] # "CPU"
        PROVE  /\ holding[t] # Leases!NoSlots
               /\ ResourceClass[t] = "EXCLUSIVE_GPU" =>
                    \A u \in Matrix : root[u] /\ ResourceClass[u] # "CPU" => u = t
    <3>1. holding[t] = Share(t)
      BY <2>1, <2>5 DEF CampaignInv, TaskOk, Holds
    <3> QED
      BY <2>1, <2>5, <3>1, ShareIsSome DEF CampaignInv, AloneInv
  <2>6. \A t \in givenUp :
          /\ at[t] \in {"release", "idle"} /\ status[t] = "SCHEDULER_ERROR"
          /\ at[t] = "idle" => row[t].status = "SCHEDULER_ERROR"
    BY DEF GivenUpInv, GivenUpOk
  <2> QED
    BY <2>4, <2>5, <2>6 DEF RootsUnderLeases
<1> QED
  BY <1>1, CampaignAlways, GivesUpAlways, PTL

\* A campaign that is over has a row for every task, and what it left in the
\* FINAL.json of a task that ran, was blocked or was resumed is that row,
\* however often earlier processes were killed.
THEOREM SummaryAgrees == CampaignSpec => []SummaryIsTrue
<1>1. CampaignInv => SummaryIsTrue
  BY DEF CampaignInv, TaskOk, InPlace, Shown, SummaryIsTrue
<1> QED
  BY <1>1, CampaignAlways, PTL

\* No campaign reports a result of a revision that was gone when it started,
\* whatever FINAL.json files it found and however the source moves under it.
THEOREM SourceIsRecent == CampaignSpec => []ReportsThisSource
<1>1. CampaignInv => ReportsThisSource
  BY DEF CampaignInv, TaskOk, Recent, ReportsThisSource
<1> QED
  BY <1>1, CampaignAlways, PTL
=============================================================================

------------------------- MODULE RunLifecycleProofs -------------------------
(***************************************************************************)
(* Proofs about RunLifecycle for any number of workers, services and runs, *)
(* any phases, keys, hashes and bounds.                                    *)
(***************************************************************************)
EXTENDS RunLifecycle, WellFoundedInduction, TLAPS

(* A rule of the matrix names phases, statuses and commands of the         *)
(* contract.                                                               *)
LEMMA RulesAreTyped ==
  \A r \in TRANSITION_RULES :
    /\ r.from_phase \in RunPhase /\ r.to_phase \in RunPhase
    /\ r.from_status \in RunStatus /\ r.to_status \in RunStatus
    /\ r.command_type \in RunCommandType
<1> SUFFICES ASSUME NEW p \in RunPhase \ {COMPLETE}, NEW r \in RulesFrom(p)
             PROVE  /\ r.from_phase \in RunPhase /\ r.to_phase \in RunPhase
                    /\ r.from_status \in RunStatus /\ r.to_status \in RunStatus
                    /\ r.command_type \in RunCommandType
  BY DEF TRANSITION_RULES
<1>1. p + 1 \in RunPhase
  BY CompleteAssumption DEF RunPhase, PLAN
<1>2. CASE r \in { Rule(p, "RUNNING", o[1], p, o[2]) : o \in Outcomes }
  BY <1>2 DEF Rule, Outcomes, RunStatus, RunCommandType
<1>3. CASE r \in { Rule(p, s, "CANCEL", p, "CANCELLED") : s \in Cancellable }
  BY <1>3 DEF Rule, Cancellable, RunStatus, RunCommandType
<1>4. CASE r = SucceedRule(p)
  BY <1>1, <1>4 DEF SucceedRule, Rule, RunStatus, RunCommandType
<1>5. CASE r \in { Rule(p, "PENDING", "START", p, "RUNNING"),
                   Rule(p, "RETRYABLE_FAILURE", "RETRY", p, "RUNNING"),
                   Rule(p, "BLOCKED", "RESUME", p, "RUNNING"),
                   Rule(p, "TIMED_OUT", "RESUME", p, "RUNNING") }
  BY <1>5 DEF Rule, RunStatus, RunCommandType
<1>6. QED
  BY <1>2, <1>3, <1>4, <1>5 DEF RulesFrom

(* The command a client builds, its payload and its effective key are      *)
(* typed.                                                                  *)
LEMMA ClientCommandsAreTyped ==
  ASSUME NEW w \in Workers, NEW c \in ClientCommands(w)
  PROVE  c \in Command
BY CommandTypesAssumption, BoundAssumption DEF ClientCommands, Command

LEMMA KeysAreTyped ==
  ASSUME NEW c \in Command
  PROVE  semantic_command_payload(c) \in Key /\ effective_idempotency_key(c) \in Key
BY DEF Command, Key, semantic_command_payload, effective_idempotency_key

LEMMA InitialAggregateIsTyped == InitialAggregate \in Aggregate
BY CompleteAssumption
   DEF InitialAggregate, Aggregate, NoOutputs, Outputs, RunPhase, PLAN, RunStatus

LEMMA EventsAreTyped ==
  ASSUME NEW agg \in Aggregate, NEW c \in Command, NEW rule \in decide(agg, c),
         NEW at \in Nat, NEW sealed \in Outputs
  PROVE  /\ build_event(agg, c, rule, at, sealed) \in Event
         /\ new_aggregate(agg, build_event(agg, c, rule, at, sealed)) \in Aggregate
<1>1. rule \in TRANSITION_RULES
  BY DEF decide, MatrixRules
<1>2. /\ rule.to_phase \in RunPhase /\ rule.to_status \in RunStatus
      /\ effective_idempotency_key(c) \in Key
  BY <1>1, RulesAreTyped, KeysAreTyped
<1>3. build_event(agg, c, rule, at, sealed) \in Event
  BY <1>2 DEF build_event, Event, Aggregate, Command
<1>4. merge_outputs(agg.outputs, sealed) \in Outputs
  BY DEF merge_outputs, Outputs, Aggregate
<1>5. QED
  BY <1>2, <1>3, <1>4 DEF new_aggregate, build_event, Aggregate, EventHash

-----------------------------------------------------------------------------
(* Type correctness.                                                       *)

LEMMA TypeInit == Init => TypeOK
<1> SUFFICES ASSUME Init PROVE TypeOK
  OBVIOUS
<1>1. aggregate \in [Runs -> Aggregate]
  BY InitialAggregateIsTyped DEF Init
<1>2. events \in [Runs -> Seq(Event)]
  BY DEF Init
<1>3. \A k \in DOMAIN idempotency : k \in Key /\ idempotency[k] \in IdempotencyRecord
  BY DEF Init
<1>4. keeper \in [Workers -> Keeper]
  BY DEF Init, Keeper
<1>5. /\ leases \in [Runs -> Lease \cup {NoLease}]
      /\ fencing \in [Runs -> Nat]
      /\ now \in Nat
      /\ serviceLock \in [Services -> Workers \cup {NoWorker}]
      /\ pc \in [Workers -> Places]
      /\ job \in [Workers -> Job \cup {NoJob}]
      /\ \A w \in Workers : pc[w] # "idle" => job[w] \in Job
      /\ tokens \in [Workers -> [Runs -> Nat]]
  BY DEF Init, Places
<1>6. QED
  BY <1>1, <1>2, <1>3, <1>4, <1>5 DEF TypeOK

(* A step of execute that returns or raises leaves the service typed.      *)
LEMMA ReturnIsTyped ==
  ASSUME TypeOK, NEW w \in Workers, Return(w)
  PROVE  /\ serviceLock' \in [Services -> Workers \cup {NoWorker}]
         /\ pc' \in [Workers -> Places]
         /\ job' \in [Workers -> Job \cup {NoJob}]
         /\ \A v \in Workers : pc'[v] # "idle" => job'[v] \in Job
BY ServiceAssumption DEF TypeOK, Return, Places

\* Nor does one that decides.
LEMMA DecideIsTyped ==
  ASSUME TypeOK, NEW w \in Workers, pc[w] # "idle", NEW read \in Aggregate,
         Decide(w, read)
  PROVE  /\ serviceLock' \in [Services -> Workers \cup {NoWorker}]
         /\ pc' \in [Workers -> Places]
         /\ job' \in [Workers -> Job \cup {NoJob}]
         /\ \A v \in Workers : pc'[v] # "idle" => job'[v] \in Job
<1> DEFINE decided == [job[w] EXCEPT !.aggregate = read, !.at = now]
<1>1. CASE Return(w)
  BY <1>1, ReturnIsTyped
<1>2. CASE /\ pc' = [pc EXCEPT ![w] = "effect"]
           /\ job' = [job EXCEPT ![w] = decided]
           /\ UNCHANGED serviceLock
  <2>1. job[w] \in Job /\ now \in Nat
    BY DEF TypeOK
  <2>2. decided \in Job
    BY <2>1 DEF Job
  <2> HIDE DEF decided
  <2> QED  BY <1>2, <2>2 DEF TypeOK, Places
<1> QED  BY <1>1, <1>2 DEF Decide

LEMMA TypeStep == TypeOK /\ [Next]_vars => TypeOK'
<1> SUFFICES ASSUME TypeOK, [Next]_vars PROVE TypeOK'
  OBVIOUS
<1> USE DEF vars, repository, leaseVars, serviceVars
<1>1. ASSUME NEW w \in Workers, NEW c \in ClientCommands(w), Lookup(w, c)
      PROVE  TypeOK'
  <2> DEFINE key == effective_idempotency_key(c)
             local == [command |-> c, aggregate |-> InitialAggregate, at |-> 0,
                       sealed |-> NoOutputs, duplicates |-> 0]
  <2>1. c \in Command
    BY ClientCommandsAreTyped
  <2>2. local \in Job
    BY <2>1, InitialAggregateIsTyped DEF Job, NoOutputs, Outputs
  <2>3. serviceLock' \in [Services -> Workers \cup {NoWorker}]
    BY <1>1, ServiceAssumption DEF TypeOK, Lookup, TakeLock
  <2>4. CASE /\ pc' = [pc EXCEPT ![w] = "read"]
             /\ job' = [job EXCEPT ![w] = local]
    <3> HIDE DEF local
    <3> QED  BY <1>1, <2>2, <2>3, <2>4 DEF TypeOK, Lookup, Places
  <2>5. CASE /\ key \in DOMAIN idempotency
             /\ pc' = [pc EXCEPT ![w] = "duplicate"]
             /\ job' = [job EXCEPT ![w] =
                          [local EXCEPT !.duplicates = idempotency[key].duplicates]]
    <3>1. idempotency[key].duplicates \in Nat
      BY <2>5 DEF TypeOK, IdempotencyRecord
    <3>2. [local EXCEPT !.duplicates = idempotency[key].duplicates] \in Job
      BY <2>2, <3>1 DEF Job
    <3> HIDE DEF local, key
    <3> QED  BY <1>1, <2>3, <2>5, <3>2 DEF TypeOK, Lookup, Places
  <2> QED  BY <1>1, <2>4, <2>5 DEF Lookup
<1>2. ASSUME NEW w \in Workers, ReturnDuplicate(w) PROVE TypeOK'
  <2> DEFINE key == effective_idempotency_key(job[w].command)
  <2>1. job[w].duplicates + 1 \in Nat
    <3>1. pc[w] = "duplicate"
      BY <1>2 DEF ReturnDuplicate
    <3>2. job[w] \in Job
      BY <3>1 DEF TypeOK
    <3> QED  BY <3>2 DEF Job
  <2>2. \A k \in DOMAIN idempotency' : k \in Key /\ idempotency'[k] \in IdempotencyRecord
    BY <1>2, <2>1 DEF TypeOK, ReturnDuplicate, IdempotencyRecord
  <2> QED  BY <1>2, <2>2, ReturnIsTyped DEF TypeOK, ReturnDuplicate
<1>3. ASSUME NEW w \in Workers, Read(w) \/ AssertLease(w) \/ AssertToken(w) PROVE TypeOK'
  <2> DEFINE c == job[w].command
             reading == [job[w] EXCEPT !.aggregate = aggregate[c.run]]
  <2>1. /\ pc[w] # "idle" /\ job[w] \in Job /\ job[w].aggregate \in Aggregate
        /\ aggregate[c.run] \in Aggregate
        /\ UNCHANGED <<repository, leaseVars, now>>
    <3>1. pc[w] # "idle" /\ UNCHANGED <<repository, leaseVars, now>>
      BY <1>3 DEF Read, AssertLease, AssertToken
    <3>2. job[w] \in Job
      BY <3>1 DEF TypeOK
    <3> QED  BY <3>1, <3>2 DEF TypeOK, Job, Command
  <2>2. reading \in Job
    BY <2>1 DEF Job
  <2>3. CASE Return(w)
    BY <2>1, <2>3, ReturnIsTyped DEF TypeOK
  <2>4. CASE \E read \in Aggregate : Decide(w, read)
    BY <2>1, <2>4, DecideIsTyped DEF TypeOK
  <2>5. CASE /\ pc' = [pc EXCEPT ![w] = "lease"]
             /\ job' = [job EXCEPT ![w] = reading]
             /\ UNCHANGED serviceLock
    <3> HIDE DEF reading
    <3> QED  BY <2>1, <2>2, <2>5 DEF TypeOK, Places
  <2>6. CASE pc' = [pc EXCEPT ![w] = "fence"] /\ UNCHANGED <<serviceLock, job>>
    BY <2>1, <2>6 DEF TypeOK, Places
  <2>7. \/ Return(w) \/ \E read \in Aggregate : Decide(w, read)
        \/ /\ pc' = [pc EXCEPT ![w] = "lease"]
           /\ job' = [job EXCEPT ![w] = reading]
           /\ UNCHANGED serviceLock
        \/ pc' = [pc EXCEPT ![w] = "fence"] /\ UNCHANGED <<serviceLock, job>>
    BY <1>3, <2>1, Zenon DEF Read, AssertLease, AssertToken
  <2> QED  BY <2>3, <2>4, <2>5, <2>6, <2>7
<1>4. ASSUME NEW w \in Workers, SkipEffect(w) PROVE TypeOK'
  BY <1>4 DEF TypeOK, SkipEffect, Places
<1>5. ASSUME NEW w \in Workers, NEW sealed \in Outputs, HandlerReturns(w, sealed)
      PROVE  TypeOK'
  <2>1. CASE Return(w)
    BY <1>5, <2>1, ReturnIsTyped DEF TypeOK, HandlerReturns
  <2>2. CASE /\ pc' = [pc EXCEPT ![w] = "commit"]
             /\ job' = [job EXCEPT ![w].sealed = sealed]
             /\ UNCHANGED serviceLock
    <3>1. [job[w] EXCEPT !.sealed = sealed] \in Job
      BY <1>5 DEF TypeOK, HandlerReturns, Job
    <3> QED  BY <1>5, <2>2, <3>1 DEF TypeOK, HandlerReturns, Places
  <2> QED  BY <1>5, <2>1, <2>2 DEF HandlerReturns
<1>6. ASSUME NEW w \in Workers, HandlerRaises(w) PROVE TypeOK'
  BY <1>6, ReturnIsTyped DEF TypeOK, HandlerRaises
<1>7. ASSUME NEW w \in Workers, Commit(w) PROVE TypeOK'
  <2> DEFINE c == job[w].command
             agg == job[w].aggregate
  <2>1. /\ c \in Command /\ agg \in Aggregate
        /\ job[w].at \in Nat /\ job[w].sealed \in Outputs
    BY <1>7 DEF TypeOK, Commit, Job
  <2>2. CASE UNCHANGED repository
    BY <1>7, <2>2, ReturnIsTyped DEF TypeOK, Commit
  <2>3. ASSUME NEW rule \in decide(agg, c),
               NEW e, e = build_event(agg, c, rule, job[w].at, job[w].sealed),
               events' = [events EXCEPT ![c.run] = Append(@, e)],
               aggregate' = [aggregate EXCEPT ![c.run] = new_aggregate(agg, e)],
               idempotency' =
                 [k \in DOMAIN idempotency \cup {e.key} |->
                    IF k = e.key
                    THEN [payload |-> semantic_command_payload(c), duplicates |-> 0]
                    ELSE idempotency[k]]
        PROVE  TypeOK'
    <3>1. e \in Event /\ new_aggregate(agg, e) \in Aggregate
      BY <2>1, <2>3, EventsAreTyped
    <3>2. c.run \in Runs
      BY <2>1 DEF Command
    <3>3. events' \in [Runs -> Seq(Event)]
      BY <2>3, <3>1, <3>2 DEF TypeOK
    <3>4. aggregate' \in [Runs -> Aggregate]
      BY <2>3, <3>1, <3>2 DEF TypeOK
    <3>5. e.key \in Key /\ semantic_command_payload(c) \in Key
      BY <2>1, <3>1, KeysAreTyped DEF Event
    <3>6. [payload |-> semantic_command_payload(c), duplicates |-> 0] \in IdempotencyRecord
      BY <3>5 DEF IdempotencyRecord
    <3>7. \A k \in DOMAIN idempotency' : k \in Key /\ idempotency'[k] \in IdempotencyRecord
      BY <2>3, <3>5, <3>6 DEF TypeOK
    <3> QED  BY <1>7, <3>3, <3>4, <3>7, ReturnIsTyped DEF TypeOK, Commit
  <2> HIDE DEF c, agg
  <2> QED  BY <1>7, <2>2, <2>3 DEF Commit, c, agg
<1>8. ASSUME NEW w \in Workers, NEW run \in Runs, AcquireCheck(w, run) PROVE TypeOK'
  BY <1>8 DEF TypeOK, AcquireCheck, Keeper
<1>9. ASSUME NEW w \in Workers, NEW run \in Runs, RenewCheck(w, run) PROVE TypeOK'
  <2>1. leases[run].token \in Nat \ {0}
    BY <1>9 DEF TypeOK, RenewCheck, live_owner, Lease
  <2> QED  BY <1>9, <2>1 DEF TypeOK, RenewCheck, Keeper
<1>10. ASSUME NEW w \in Workers, AcquireToken(w) PROVE TypeOK'
  <2>1. keeper[w].run \in Runs /\ keeper[w].time \in Nat
    BY <1>10 DEF TypeOK, AcquireToken, Keeper, KeeperIdle
  <2>2. NextToken(keeper[w].run) \in Nat \ {0}
    BY <2>1 DEF TypeOK, NextToken
  <2> QED  BY <1>10, <2>1, <2>2 DEF TypeOK, AcquireToken, Keeper
<1>11. ASSUME NEW w \in Workers, AcquireSave(w) PROVE TypeOK'
  <2>1. /\ keeper[w].run \in Runs /\ keeper[w].time \in Nat
        /\ keeper[w].token \in Nat \ {0}
    BY <1>11 DEF TypeOK, AcquireSave, Keeper, KeeperIdle
  <2>2. [owner |-> w, expires_at |-> keeper[w].time + TTL, token |-> keeper[w].token]
          \in Lease
    BY <2>1, BoundAssumption DEF Lease
  <2> QED  BY <1>11, <2>1, <2>2 DEF TypeOK, AcquireSave, save_lease, Keeper
<1>12. ASSUME NEW w \in Workers, RenewSave(w) PROVE TypeOK'
  <2>1. /\ keeper[w].run \in Runs /\ keeper[w].time \in Nat
        /\ keeper[w].token \in Nat \ {0}
    BY <1>12 DEF TypeOK, RenewSave, Keeper, KeeperIdle
  <2>2. ASSUME NEW time \in keeper[w].time .. now
        PROVE  [owner |-> w, expires_at |-> time + TTL, token |-> keeper[w].token]
                 \in Lease
    BY <2>1, BoundAssumption DEF Lease, TypeOK
  <2> QED  BY <1>12, <2>1, <2>2 DEF TypeOK, RenewSave, save_lease, Keeper
<1>13. CASE Tick
  BY <1>13 DEF TypeOK, Tick
<1>14. CASE UNCHANGED vars
  BY <1>14 DEF TypeOK
<1>15. QED
  BY <1>1, <1>2, <1>3, <1>4, <1>5, <1>6, <1>7, <1>8, <1>9, <1>10, <1>11, <1>12, <1>13,
     <1>14
  DEF Next, Execute, KeepLease

(* Every reachable state is typed.                                         *)
THEOREM TypeCorrect == Spec => []TypeOK
BY TypeInit, TypeStep, PTL DEF Spec

-----------------------------------------------------------------------------
(* Fencing tokens.                                                         *)

(* TokensUnique is not inductive: a heartbeat puts the token of the stored *)
(* lease into its worker's hands, so nobody but the owner may hold it.     *)
TokenInv ==
  \A r \in Runs :
    /\ \A v, w \in Workers : v # w => (TokensOf(v, r) \cap TokensOf(w, r)) \subseteq {0}
    /\ \A w \in Workers : \A t \in TokensOf(w, r) : t <= fencing[r]
    /\ leases[r] # NoLease =>
         /\ leases[r].token <= fencing[r]
         /\ \A v \in Workers : v # leases[r].owner => leases[r].token \notin TokensOf(v, r)

(* A fencing counter bounds the tokens of the log, which never go back.    *)
LogInv ==
  /\ FencedLog
  /\ \A r \in Runs : \A i \in 1..Len(events[r]) : events[r][i].token <= fencing[r]

(* A worker inside execute holds its service's lock, and until its commit  *)
(* nobody of its service has committed its key.                            *)
SingleService == \A v, w \in Workers : ServiceOf[v] = ServiceOf[w]

LockInv ==
  \A w \in Workers :
    /\ pc[w] # "idle" => serviceLock[ServiceOf[w]] = w
    /\ pc[w] \notin {"idle", "duplicate"} =>
         effective_idempotency_key(job[w].command) \notin DOMAIN idempotency

(* The aggregate a worker has read is the current one, or older than it:   *)
(* no two aggregates of a run have the same revision.  What is about to be *)
(* committed contradicts no output of that aggregate.                      *)
HasRead(w) == pc[w] \in {"lease", "fence", "effect", "commit"}
SnapshotInv ==
  \A w \in Workers : HasRead(w) =>
    LET current == aggregate[job[w].command.run]
        read == job[w].aggregate
    IN  /\ read.revision <= current.revision
        /\ read.revision = current.revision => read = current
        /\ ~ MergeConflict(read.outputs, job[w].sealed)

Undecided(w) == pc[w] \in {"read", "lease", "fence"}
UnsealedInv == \A w \in Workers : Undecided(w) => job[w].sealed = NoOutputs

(* The service changes no lease and the lease manager nothing but leases;  *)
(* only a commit writes an aggregate, an event or a new key.               *)
LEMMA ExecuteKeepsLeases ==
  ASSUME NEW w \in Workers, Execute(w)
  PROVE  UNCHANGED leaseVars
BY DEF Execute, Lookup, ReturnDuplicate, Read, AssertLease, AssertToken,
       Decide, SkipEffect, HandlerReturns,
       HandlerRaises, Commit

LEMMA KeepLeaseKeepsService ==
  ASSUME NEW w \in Workers, KeepLease(w)
  PROVE  UNCHANGED <<repository, serviceVars>>
BY DEF KeepLease, AcquireCheck, AcquireToken, AcquireSave, RenewCheck, RenewSave

LEMMA OnlyCommitWrites ==
  ASSUME [Next]_vars
  PROVE  \/ \E w \in Workers : Commit(w)
         \/ UNCHANGED <<aggregate, events>> /\ DOMAIN idempotency' = DOMAIN idempotency
<1>1. ASSUME NEW w \in Workers, Execute(w), ~ Commit(w)
      PROVE  UNCHANGED <<aggregate, events>> /\ DOMAIN idempotency' = DOMAIN idempotency
  BY <1>1 DEF Execute, Lookup, ReturnDuplicate, Read, AssertLease, AssertToken,
       Decide, SkipEffect, HandlerReturns,
              HandlerRaises, repository
<1>2. ASSUME NEW w \in Workers, KeepLease(w) PROVE UNCHANGED repository
  BY <1>2, KeepLeaseKeepsService
<1>3. QED
  BY <1>1, <1>2 DEF Next, Tick, vars, repository

(* A commit that is allowed appends one event to the log of its run.       *)
Appended(w, e) ==
  LET c == job[w].command
      agg == job[w].aggregate
  IN  /\ c \in Command /\ agg \in Aggregate
      /\ \E rule \in decide(agg, c) :
           e = build_event(agg, c, rule, job[w].at, job[w].sealed)
      /\ CommitAllowed(c, e)
      /\ events' = [events EXCEPT ![c.run] = Append(@, e)]
      /\ aggregate' = [aggregate EXCEPT ![c.run] = new_aggregate(agg, e)]
      /\ DOMAIN idempotency' = DOMAIN idempotency \cup {e.key}

LEMMA CommitAppends ==
  ASSUME TypeOK, NEW w \in Workers, Commit(w)
  PROVE  UNCHANGED repository \/ \E e \in Event : Appended(w, e)
<1> DEFINE c == job[w].command
           agg == job[w].aggregate
<1>1. job[w] \in Job
  BY DEF TypeOK, Commit
<1>2. /\ c \in Command /\ agg \in Aggregate
      /\ job[w].at \in Nat /\ job[w].sealed \in Outputs
  BY <1>1 DEF Job
<1>3. ASSUME NEW rule \in decide(agg, c)
      PROVE  build_event(agg, c, rule, job[w].at, job[w].sealed) \in Event
  BY <1>2, EventsAreTyped
<1> HIDE DEF c, agg
<1>4. QED
  BY <1>2, <1>3 DEF Commit, Appended, c, agg

-----------------------------------------------------------------------------
(* TokensUnique.                                                           *)

LEMMA TokensTyped ==
  ASSUME TypeOK, NEW w \in Workers, NEW r \in Runs
  PROVE  TokensOf(w, r) \subseteq Nat
<1>1. keeper[w] \in Keeper /\ tokens[w][r] \in Nat
  BY DEF TypeOK
<1>2. keeper[w].at \in {"save", "renew"} => keeper[w].token \in Nat
  BY <1>1 DEF Keeper, KeeperIdle
<1>3. QED
  BY <1>1, <1>2 DEF TokensOf

LEMMA TokenInit == Init => TokenInv
BY DEF Init, TokenInv, TokensOf, KeeperIdle

LEMMA TokenStep == TypeOK /\ TokenInv /\ [Next]_vars => TokenInv'
<1> SUFFICES ASSUME TypeOK, TokenInv, [Next]_vars PROVE TokenInv'
  OBVIOUS
<1>1. CASE UNCHANGED leaseVars
  <2>1. \A v \in Workers, r \in Runs : TokensOf(v, r)' = TokensOf(v, r)
    BY <1>1 DEF leaseVars, TokensOf
  <2>2. UNCHANGED <<leases, fencing>>
    BY <1>1 DEF leaseVars
  <2> QED  BY <2>1, <2>2 DEF TokenInv
<1>2. ASSUME NEW w \in Workers, NEW run \in Runs, AcquireCheck(w, run)
      PROVE  TokenInv'
  <2>1. \A v \in Workers, r \in Runs : TokensOf(v, r)' \subseteq TokensOf(v, r)
    BY <1>2 DEF TypeOK, AcquireCheck, TokensOf
  <2>2. UNCHANGED <<leases, fencing>>
    BY <1>2 DEF AcquireCheck
  <2> QED  BY <2>1, <2>2 DEF TokenInv
<1>3. ASSUME NEW w \in Workers, AcquireToken(w) PROVE TokenInv'
  <2> DEFINE run == keeper[w].run
             new == fencing[run] + 1
  <2>1. run \in Runs
    BY <1>3 DEF AcquireToken, TypeOK, Keeper, KeeperIdle
  <2>2. /\ fencing' = [fencing EXCEPT ![run] = new]
        /\ keeper'[w].at = "save" /\ keeper'[w].run = run /\ keeper'[w].token = new
        /\ \A v \in Workers : v # w => keeper'[v] = keeper[v]
        /\ UNCHANGED <<leases, tokens>>
    BY <1>3 DEF AcquireToken, NextToken, TypeOK
  <2>3. \A v \in Workers, r \in Runs :
          TokensOf(v, r)' \subseteq IF v = w /\ r = run THEN TokensOf(v, r) \cup {new}
                                   ELSE TokensOf(v, r)
    BY <2>2 DEF TokensOf
  <2>4. \A r \in Runs : fencing[r] \in Nat
    BY DEF TypeOK
  <2>5. \A v \in Workers, r \in Runs : \A t \in TokensOf(v, r) : t \in Nat /\ t <= fencing[r]
    BY TokensTyped DEF TokenInv
  <2>6. \A r \in Runs : leases[r] # NoLease => leases[r].token \in Nat
    BY DEF TypeOK, Lease
  <2>7. \A r \in Runs : fencing'[r] = IF r = run THEN new ELSE fencing[r]
    BY <2>2 DEF TypeOK
  <2> SUFFICES ASSUME NEW r \in Runs
               PROVE  /\ \A u, v \in Workers :
                           u # v => (TokensOf(u, r) \cap TokensOf(v, r))' \subseteq {0}
                      /\ \A v \in Workers : \A t \in TokensOf(v, r)' : t <= fencing'[r]
                      /\ leases'[r] # NoLease =>
                           /\ leases'[r].token <= fencing'[r]
                           /\ \A v \in Workers : v # leases'[r].owner =>
                                leases'[r].token \notin TokensOf(v, r)'
    BY DEF TokenInv
  <2> HIDE DEF run
  <2>8. \A v \in Workers : \A t \in TokensOf(v, r)' : t <= fencing'[r]
    BY <2>1, <2>3, <2>4, <2>5, <2>7
  <2>9. \A u, v \in Workers : u # v => (TokensOf(u, r) \cap TokensOf(v, r))' \subseteq {0}
    <3> SUFFICES ASSUME NEW u \in Workers, NEW v \in Workers, u # v,
                        NEW t \in TokensOf(u, r)', t \in TokensOf(v, r)'
                 PROVE  t = 0
      OBVIOUS
    <3>1. t \in TokensOf(u, r) /\ t \in TokensOf(v, r)
      BY <2>1, <2>3, <2>4, <2>5
    <3> QED  BY <3>1 DEF TokenInv
  <2>10. leases'[r] # NoLease =>
           /\ leases'[r].token <= fencing'[r]
           /\ \A v \in Workers : v # leases'[r].owner =>
                leases'[r].token \notin TokensOf(v, r)'
    BY <2>1, <2>2, <2>3, <2>4, <2>6, <2>7 DEF TokenInv
  <2> QED  BY <2>8, <2>9, <2>10
<1>4. ASSUME NEW w \in Workers, NEW run \in Runs, NEW token \in Nat \ {0},
             NEW expiry, token \in TokensOf(w, run),
             save_lease(run, [owner |-> w, expires_at |-> expiry, token |-> token]),
             \A v \in Workers, r \in Runs : TokensOf(v, r)' \subseteq TokensOf(v, r)
      PROVE  TokenInv'
  <2>1. token <= fencing[run]
    BY <1>4 DEF TokenInv
  <2>2. fencing' = fencing
    BY <1>4, <2>1 DEF save_lease, TypeOK
  <2>3. \A v \in Workers : v # w => token \notin TokensOf(v, run)
    BY <1>4 DEF TokenInv
  <2>4. \A r \in Runs : leases'[r] = IF r = run
                         THEN [owner |-> w, expires_at |-> expiry, token |-> token]
                         ELSE leases[r]
    BY <1>4 DEF save_lease, TypeOK
  <2>5. ASSUME NEW r \in Runs, leases'[r] # NoLease
        PROVE  /\ leases'[r].token <= fencing'[r]
               /\ \A v \in Workers : v # leases'[r].owner =>
                    leases'[r].token \notin TokensOf(v, r)'
    <3>1. CASE r = run
      <4>1. leases'[r].token = token /\ leases'[r].owner = w
        BY <2>4, <3>1
      <4> QED  BY <1>4, <2>1, <2>2, <2>3, <3>1, <4>1
    <3>2. CASE r # run
      BY <1>4, <2>2, <2>4, <2>5, <3>2 DEF TokenInv
    <3> QED  BY <3>1, <3>2
  <2>6. \A r \in Runs :
          /\ \A u, v \in Workers :
               u # v => (TokensOf(u, r) \cap TokensOf(v, r))' \subseteq {0}
          /\ \A v \in Workers : \A t \in TokensOf(v, r)' : t <= fencing'[r]
    BY <1>4, <2>2 DEF TokenInv
  <2> QED  BY <2>5, <2>6 DEF TokenInv
<1>5. ASSUME NEW w \in Workers, AcquireSave(w) PROVE TokenInv'
  <2>1. /\ keeper[w].run \in Runs /\ keeper[w].token \in Nat \ {0}
        /\ keeper[w].token \in TokensOf(w, keeper[w].run)
    BY <1>5 DEF AcquireSave, TypeOK, Keeper, KeeperIdle, TokensOf
  <2>2. \A v \in Workers, r \in Runs : TokensOf(v, r)' \subseteq TokensOf(v, r)
    BY <1>5, <2>1 DEF AcquireSave, TypeOK, KeeperIdle, TokensOf
  <2> QED  BY <1>4, <1>5, <2>1, <2>2 DEF AcquireSave
<1>6. ASSUME NEW w \in Workers, NEW run \in Runs, RenewCheck(w, run) PROVE TokenInv'
  <2>1. /\ leases[run] # NoLease /\ leases[run].owner = w
        /\ keeper'[w].run = run /\ keeper'[w].token = leases[run].token
        /\ \A v \in Workers : v # w => keeper'[v] = keeper[v]
        /\ UNCHANGED <<leases, fencing, tokens>>
    BY <1>6 DEF RenewCheck, live_owner, TypeOK
  <2>2. \A v \in Workers, r \in Runs :
          TokensOf(v, r)' \subseteq IF v = w /\ r = run
                                   THEN TokensOf(v, r) \cup {leases[run].token}
                                   ELSE TokensOf(v, r)
    BY <2>1 DEF TokensOf
  <2> QED  BY <2>1, <2>2 DEF TokenInv
<1>7. ASSUME NEW w \in Workers, RenewSave(w) PROVE TokenInv'
  <2>1. /\ keeper[w].run \in Runs /\ keeper[w].token \in Nat \ {0}
        /\ keeper[w].token \in TokensOf(w, keeper[w].run)
    BY <1>7 DEF RenewSave, TypeOK, Keeper, KeeperIdle, TokensOf
  <2>2. \A v \in Workers, r \in Runs : TokensOf(v, r)' \subseteq TokensOf(v, r)
    BY <1>7 DEF RenewSave, TypeOK, KeeperIdle, TokensOf
  <2> QED  BY <1>4, <1>7, <2>1, <2>2 DEF RenewSave
<1>8. QED
  BY <1>1, <1>2, <1>3, <1>5, <1>6, <1>7, ExecuteKeepsLeases
  DEF Next, Tick, KeepLease, vars, leaseVars

(* However acquirers and heartbeats race, no fencing token of a run is in  *)
(* the hands of two workers or above the counter.                          *)
THEOREM TokensAreUnique == Spec => []TokensUnique
<1>1. TokenInv => TokensUnique
  BY DEF TokenInv, TokensUnique
<1>2. QED
  BY <1>1, TypeInit, TypeStep, TokenInit, TokenStep, PTL DEF Spec

-----------------------------------------------------------------------------
(* The fenced log.                                                         *)

LEMMA CountersGrow ==
  ASSUME TypeOK, [Next]_vars, NEW r \in Runs
  PROVE  fencing'[r] >= fencing[r]
<1>0. fencing \in [Runs -> Nat]
  BY DEF TypeOK
<1>1. CASE UNCHANGED leaseVars
  BY <1>0, <1>1 DEF leaseVars
<1>2. ASSUME NEW w \in Workers, AcquireToken(w) PROVE fencing'[r] >= fencing[r]
  BY <1>0, <1>2 DEF AcquireToken, NextToken
<1>3. ASSUME NEW run \in Runs, NEW lease \in Lease, save_lease(run, lease)
      PROVE  fencing'[r] >= fencing[r]
  BY <1>0, <1>3 DEF save_lease, Lease
<1>4. ASSUME NEW w \in Workers, AcquireSave(w) \/ RenewSave(w)
      PROVE  fencing'[r] >= fencing[r]
  <2>1. /\ keeper[w].run \in Runs /\ keeper[w].time \in Nat
        /\ keeper[w].token \in Nat \ {0}
    BY <1>4 DEF TypeOK, AcquireSave, RenewSave, Keeper, KeeperIdle
  <2>2. ASSUME NEW time \in keeper[w].time .. now
        PROVE  [owner |-> w, expires_at |-> time + TTL, token |-> keeper[w].token]
                 \in Lease
    BY <2>1, BoundAssumption DEF Lease, TypeOK
  <2>3. [owner |-> w, expires_at |-> keeper[w].time + TTL, token |-> keeper[w].token]
          \in Lease
    BY <2>1, BoundAssumption DEF Lease
  <2> QED  BY <1>3, <1>4, <2>1, <2>2, <2>3 DEF AcquireSave, RenewSave
<1>5. QED
  BY <1>0, <1>1, <1>2, <1>4, ExecuteKeepsLeases
  DEF Next, Tick, KeepLease, AcquireCheck, RenewCheck, vars, leaseVars

LEMMA LogInit == Init => LogInv
BY DEF Init, LogInv, FencedLog

LEMMA LogStep == TypeOK /\ LogInv /\ [Next]_vars => LogInv'
<1> SUFFICES ASSUME TypeOK, LogInv, [Next]_vars PROVE LogInv'
  OBVIOUS
<1>1. \A r \in Runs : fencing[r] \in Nat /\ fencing'[r] \in Nat /\ fencing'[r] >= fencing[r]
  BY CountersGrow, TypeStep DEF TypeOK
<1>2. ASSUME NEW r \in Runs, NEW i \in 1..Len(events[r]) PROVE events[r][i].token \in Nat
  <2>1. events[r] \in Seq(Event)
    BY DEF TypeOK
  <2>2. events[r][i] \in Event
    BY <2>1
  <2> QED  BY <2>2 DEF Event
<1>3. CASE UNCHANGED events
  <2>1. FencedLog'
    BY <1>3 DEF LogInv, FencedLog
  <2>2. \A r \in Runs : \A i \in 1..Len(events[r]) : events[r][i].token <= fencing'[r]
    BY <1>1, <1>2 DEF LogInv
  <2> QED  BY <1>3, <2>1, <2>2 DEF LogInv
<1>4. ASSUME NEW w \in Workers, Commit(w), events' # events PROVE LogInv'
  <2>1. PICK e \in Event : Appended(w, e)
    BY <1>4, CommitAppends DEF repository
  <2> DEFINE run == job[w].command.run
  <2>2. run \in Runs /\ e.token = job[w].command.token
    BY <2>1 DEF Appended, Command, build_event
  <2>3. e.token = 0 \/ e.token = fencing[run]
    BY <2>1, <2>2 DEF Appended, CommitAllowed
  <2>4. events' = [events EXCEPT ![run] = Append(@, e)]
    BY <2>1 DEF Appended
  <2> HIDE DEF run
  <2>5. \A r \in Runs : events[r] \in Seq(Event)
    BY DEF TypeOK
  <2>6. \A r \in Runs : r # run => events'[r] = events[r]
    BY <2>2, <2>4 DEF TypeOK
  <2>7. /\ Len(events'[run]) = Len(events[run]) + 1
        /\ \A i \in 1..Len(events[run]) : events'[run][i] = events[run][i]
        /\ events'[run][Len(events[run]) + 1] = e
    <3>1. events'[run] = Append(events[run], e)
      BY <2>2, <2>4 DEF TypeOK
    <3> QED  BY <2>2, <2>5, <3>1
  <2>8. ASSUME NEW r \in Runs, NEW i \in 1..Len(events'[r])
        PROVE  events'[r][i].token <= fencing'[r]
    <3>1. CASE r # run
      BY <1>1, <1>2, <2>6, <3>1 DEF LogInv
    <3>2. CASE r = run /\ i \in 1..Len(events[run])
      BY <1>1, <1>2, <2>7, <3>2 DEF LogInv
    <3>3. CASE r = run /\ i = Len(events[run]) + 1
      BY <1>1, <2>3, <2>7, <3>3
    <3> QED  BY <2>2, <2>5, <2>7, <3>1, <3>2, <3>3
  <2>9. ASSUME NEW r \in Runs, NEW i \in 1..Len(events'[r]), NEW j \in 1..Len(events'[r]),
               i < j, events'[r][i].token # 0, events'[r][j].token # 0
        PROVE  events'[r][i].token <= events'[r][j].token
    <3>1. CASE r # run
      BY <2>6, <2>9, <3>1 DEF LogInv, FencedLog
    <3>2. CASE r = run /\ j \in 1..Len(events[run])
      <4>1. i \in 1..Len(events[run])
        BY <2>9, <3>2
      <4> QED  BY <2>2, <2>7, <2>9, <3>2, <4>1 DEF LogInv, FencedLog
    <3>3. CASE r = run /\ j = Len(events[run]) + 1
      <4>1. i \in 1..Len(events[run])
        BY <2>2, <2>5, <2>9, <3>3
      <4> QED  BY <2>2, <2>3, <2>7, <2>9, <3>3, <4>1 DEF LogInv
    <3> QED  BY <2>2, <2>5, <2>7, <3>1, <3>2, <3>3
  <2> QED  BY <2>8, <2>9 DEF LogInv, FencedLog
<1>5. QED
  BY <1>3, <1>4, OnlyCommitWrites

(* Leased events of a run are logged in the order of their fencing tokens. *)
THEOREM LogIsFenced == Spec => []FencedLog
<1>1. LogInv => FencedLog
  BY DEF LogInv
<1>2. QED
  BY <1>1, TypeInit, TypeStep, LogInit, LogStep, PTL DEF Spec

(* Once a worker has acquired a lease of a run, an older lease commits     *)
(* nothing to it.                                                          *)
THEOREM TakeoverFences == Spec => NoMutationAfterTakeover
<1> DEFINE Fenced == \A r \in Runs :
             Len(events'[r]) > Len(events[r]) =>
               LET token == events'[r][Len(events'[r])].token
               IN  token # 0 => \A w \in Workers : tokens[w][r] <= token
<1>1. TypeOK /\ TokenInv /\ [Next]_vars => [Fenced]_vars
  <2> SUFFICES ASSUME TypeOK, TokenInv, [Next]_vars,
                      NEW r \in Runs, Len(events'[r]) > Len(events[r]),
                      events'[r][Len(events'[r])].token # 0, NEW v \in Workers
               PROVE  tokens[v][r] <= events'[r][Len(events'[r])].token
    OBVIOUS
  <2>1. events[r] \in Seq(Event) /\ events' # events
    BY DEF TypeOK
  <2>2. PICK w \in Workers : Commit(w)
    BY <2>1, OnlyCommitWrites
  <2>3. PICK e \in Event : Appended(w, e)
    BY <2>1, <2>2, CommitAppends DEF repository
  <2>4. job[w].command.run = r /\ events'[r] = Append(events[r], e)
    BY <2>1, <2>3 DEF Appended, TypeOK, Command
  <2>5. events'[r][Len(events'[r])] = e
    BY <2>1, <2>4
  <2>6. e.token # 0 /\ e.token = job[w].command.token
    BY <2>3, <2>5 DEF Appended, build_event
  <2>7. e.token = fencing[r]
    BY <2>3, <2>4, <2>6 DEF Appended, CommitAllowed
  <2>8. tokens[v][r] <= fencing[r]
    BY DEF TokenInv, TokensOf
  <2> QED  BY <2>5, <2>7, <2>8
<1>2. QED
  BY <1>1, TypeInit, TypeStep, TokenInit, TokenStep, PTL
  DEF Spec, NoMutationAfterTakeover

-----------------------------------------------------------------------------
(* Idempotency keys.                                                       *)

LEMMA KeyInit == Init => KeyCommittedOnce
BY DEF Init, KeyCommittedOnce

LEMMA KeyStep == TypeOK /\ KeyCommittedOnce /\ [Next]_vars => KeyCommittedOnce'
<1> SUFFICES ASSUME TypeOK, KeyCommittedOnce, [Next]_vars PROVE KeyCommittedOnce'
  OBVIOUS
<1>1. CASE UNCHANGED events /\ DOMAIN idempotency' = DOMAIN idempotency
  BY <1>1 DEF KeyCommittedOnce
<1>2. ASSUME NEW w \in Workers, NEW e \in Event, Appended(w, e) PROVE KeyCommittedOnce'
  <2> DEFINE run == job[w].command.run
             last == Len(events[run]) + 1
  <2>1. /\ run \in Runs /\ e.key \notin DOMAIN idempotency
        /\ DOMAIN idempotency' = DOMAIN idempotency \cup {e.key}
    BY <1>2 DEF Appended, Command, CommitAllowed
  <2>2. \A r \in Runs : events[r] \in Seq(Event)
    BY DEF TypeOK
  <2>3. events'[run] = Append(events[run], e) /\ \A r \in Runs : r # run => events'[r] = events[r]
    BY <1>2, <2>1 DEF Appended, TypeOK
  <2> HIDE DEF run
  <2>4. \A r \in Runs : Len(events'[r]) = IF r = run THEN last ELSE Len(events[r])
    BY <2>1, <2>2, <2>3
  <2>5. \A r \in Runs : \A i \in 1..Len(events[r]) :
          events'[r][i] = events[r][i] /\ events[r][i].key \in DOMAIN idempotency
    BY <2>1, <2>2, <2>3 DEF KeyCommittedOnce
  <2>6. events'[run][last] = e /\ Len(events[run]) \in Nat
    BY <2>1, <2>2, <2>3
  <2>7. ASSUME NEW r \in Runs, NEW s \in Runs,
               NEW i \in 1..Len(events'[r]), NEW j \in 1..Len(events'[s]),
               events'[r][i].key = events'[s][j].key
        PROVE  r = s /\ i = j
    <3>1. \A q \in Runs : \A k \in 1..Len(events'[q]) :
            k \in 1..Len(events[q]) \/ (q = run /\ k = last)
      BY <2>4, <2>6
    <3>2. \A q \in Runs : \A k \in 1..Len(events[q]) : events'[q][k].key # e.key
      BY <2>1, <2>5
    <3>3. CASE i \in 1..Len(events[r]) /\ j \in 1..Len(events[s])
      <4>1. events[r][i].key = events[s][j].key
        BY <2>5, <2>7, <3>3
      <4> QED  BY <3>3, <4>1 DEF KeyCommittedOnce
    <3>4. CASE r = run /\ i = last
      <4>1. events'[s][j].key = e.key
        BY <2>6, <2>7, <3>4
      <4> QED  BY <3>1, <3>2, <3>4, <4>1
    <3>5. CASE s = run /\ j = last
      <4>1. events'[r][i].key = e.key
        BY <2>6, <2>7, <3>5
      <4> QED  BY <3>1, <3>2, <3>5, <4>1
    <3> QED  BY <3>1, <3>3, <3>4, <3>5
  <2>8. DOMAIN idempotency' =
          UNION { { events'[r][i].key : i \in 1..Len(events'[r]) } : r \in Runs }
    <3>1. \A k \in DOMAIN idempotency :
            \E r \in Runs : \E i \in 1..Len(events'[r]) : k = events'[r][i].key
      <4> SUFFICES ASSUME NEW k \in DOMAIN idempotency
                   PROVE  \E r \in Runs : \E i \in 1..Len(events'[r]) : k = events'[r][i].key
        OBVIOUS
      <4>0. PICK r \in Runs : \E i \in 1..Len(events[r]) : k = events[r][i].key
        BY DEF KeyCommittedOnce
      <4>1. PICK i \in 1..Len(events[r]) : k = events[r][i].key
        BY <4>0
      <4>2. i \in 1..Len(events'[r])
        BY <2>4, <2>6
      <4> QED  BY <2>5, <4>1, <4>2
    <3>2. last \in 1..Len(events'[run])
      BY <2>1, <2>4, <2>6
    <3>3. \A r \in Runs : \A i \in 1..Len(events'[r]) :
            events'[r][i].key \in DOMAIN idempotency \cup {e.key}
      BY <2>4, <2>5, <2>6
    <3> QED  BY <2>1, <2>6, <3>1, <3>2, <3>3
  <2> QED  BY <2>7, <2>8 DEF KeyCommittedOnce
<1>3. QED
  BY <1>1, <1>2, OnlyCommitWrites, CommitAppends DEF repository

(* No two events of any runs carry the same idempotency key.               *)
THEOREM KeysAreCommittedOnce == Spec => []KeyCommittedOnce
BY TypeInit, TypeStep, KeyInit, KeyStep, PTL DEF Spec

-----------------------------------------------------------------------------
(* Duplicates within one service.                                          *)

LEMMA LockInit == Init => LockInv
BY DEF Init, LockInv

LEMMA LockStep ==
  ASSUME SingleService
  PROVE  TypeOK /\ LockInv /\ [Next]_vars => LockInv'
<1> SUFFICES ASSUME TypeOK, LockInv, [Next]_vars PROVE LockInv'
  OBVIOUS
<1>1. CASE UNCHANGED <<repository, serviceVars>>
  BY <1>1 DEF LockInv, repository, serviceVars
<1>2. ASSUME NEW w \in Workers, Execute(w) PROVE LockInv'
  <2>1. \A v \in Workers : v # w => pc[v] = "idle"
    <3>1. CASE pc[w] # "idle"
      BY <3>1 DEF LockInv, SingleService
    <3>2. CASE pc[w] = "idle"
      <4>1. LockIsFree(w)
        BY <1>2, <3>2 DEF Execute, Lookup, ReturnDuplicate, Read, AssertLease, AssertToken,
       Decide, SkipEffect, HandlerReturns, HandlerRaises, Commit
      <4>2. NoWorker \notin Workers
        BY NullAssumption
      <4> QED  BY <4>1, <4>2 DEF LockIsFree, LockInv, SingleService
    <3> QED  BY <3>1, <3>2
  <2>2. \A v \in Workers : v # w => pc'[v] = "idle"
    BY <1>2, <2>1 DEF TypeOK, Execute, Lookup, ReturnDuplicate, Read, AssertLease, AssertToken,
       Decide, SkipEffect, HandlerReturns, HandlerRaises, Commit, Return
  <2>3. CASE Return(w)
    BY <2>2, <2>3 DEF LockInv, Return, TypeOK
  <2>4. ASSUME NEW c \in ClientCommands(w), Lookup(w, c)
        PROVE  /\ serviceLock'[ServiceOf[w]] = w
               /\ pc'[w] \notin {"idle", "duplicate"} =>
                    effective_idempotency_key(job'[w].command) \notin DOMAIN idempotency'
    <3>1. serviceLock'[ServiceOf[w]] = w
      BY <2>4, ServiceAssumption DEF Lookup, TakeLock, TypeOK
    <3>2. CASE pc' = [pc EXCEPT ![w] = "duplicate"]
      BY <3>1, <3>2 DEF TypeOK
    <3>3. CASE effective_idempotency_key(c) \notin DOMAIN idempotency
      <4>1. job'[w].command = c
        BY <2>4, <3>3 DEF Lookup, TypeOK
      <4>2. idempotency' = idempotency
        BY <2>4 DEF Lookup, repository
      <4> QED  BY <3>1, <3>3, <4>1, <4>2
    <3> QED  BY <2>4, <3>1, <3>2, <3>3 DEF Lookup
  <2>5. ASSUME \/ Read(w) \/ AssertLease(w) \/ AssertToken(w) \/ SkipEffect(w)
               \/ \E sealed \in Outputs : HandlerReturns(w, sealed),
               ~ Return(w)
        PROVE  /\ serviceLock' = serviceLock /\ idempotency' = idempotency
               /\ pc[w] \notin {"idle", "duplicate"}
               /\ job'[w].command = job[w].command
    <3>1. /\ serviceLock' = serviceLock /\ idempotency' = idempotency
          /\ pc[w] \notin {"idle", "duplicate"}
      BY <2>5 DEF Read, AssertLease, AssertToken, Decide, SkipEffect, HandlerReturns,
                  repository
    <3>2. job[w] \in Job
      BY <3>1 DEF TypeOK
    <3>3. \A a, t, o : /\ [job[w] EXCEPT !.aggregate = a, !.at = t].command = job[w].command
                       /\ [job[w] EXCEPT !.aggregate = a].command = job[w].command
                       /\ [job[w] EXCEPT !.sealed = o].command = job[w].command
      BY <3>2 DEF Job
    <3>4. ASSUME Read(w) \/ AssertLease(w) \/ AssertToken(w)
          PROVE  job'[w].command = job[w].command
      <4>1. \/ \E a : \/ job' = [job EXCEPT ![w] = [job[w] EXCEPT !.aggregate = a]]
                     \/ job' = [job EXCEPT ![w] = [job[w] EXCEPT !.aggregate = a, !.at = now]]
            \/ job' = job
        BY <2>5, <3>4, Zenon DEF Read, AssertLease, AssertToken, Decide
      <4>2. job \in [Workers -> Job \cup {NoJob}]
        BY DEF TypeOK
      <4>3. \/ job'[w] = job[w]
            \/ \E a : \/ job'[w] = [job[w] EXCEPT !.aggregate = a]
                     \/ job'[w] = [job[w] EXCEPT !.aggregate = a, !.at = now]
        BY <4>1, <4>2
      <4>4. CASE job'[w] = job[w]
        BY <4>4
      <4>5. ASSUME NEW a, \/ job'[w] = [job[w] EXCEPT !.aggregate = a]
                          \/ job'[w] = [job[w] EXCEPT !.aggregate = a, !.at = now]
            PROVE  job'[w].command = job[w].command
        BY <3>2, <4>5 DEF Job
      <4> QED  BY <4>3, <4>4, <4>5
    <3>5. ASSUME SkipEffect(w) PROVE job'[w].command = job[w].command
      BY <3>5 DEF SkipEffect
    <3>6. ASSUME NEW sealed \in Outputs, HandlerReturns(w, sealed)
          PROVE  job'[w].command = job[w].command
      <4>1. job' = [job EXCEPT ![w] = [job[w] EXCEPT !.sealed = sealed]]
        BY <2>5, <3>6 DEF HandlerReturns
      <4>2. job \in [Workers -> Job \cup {NoJob}]
        BY DEF TypeOK
      <4> QED  BY <3>3, <4>1, <4>2
    <3> QED  BY <2>5, <3>1, <3>4, <3>5, <3>6
  <2>6. CASE ~ Return(w) /\ \E c \in ClientCommands(w) : Lookup(w, c)
    BY <2>2, <2>4, <2>6 DEF LockInv
  <2>7. CASE ~ Return(w) /\ ~ \E c \in ClientCommands(w) : Lookup(w, c)
    <3>1. \/ Read(w) \/ AssertLease(w) \/ AssertToken(w) \/ SkipEffect(w)
          \/ \E sealed \in Outputs : HandlerReturns(w, sealed)
      BY <1>2, <2>7 DEF Execute, ReturnDuplicate, HandlerRaises, Commit
    <3> QED  BY <2>2, <2>5, <2>7, <3>1 DEF LockInv
  <2> QED  BY <2>3, <2>6, <2>7
<1>3. QED
  BY <1>1, <1>2, KeepLeaseKeepsService DEF Next, Tick, vars, repository, serviceVars

(* When all workers call one service, a handler only ever runs for a key   *)
(* that nobody has committed.                                              *)
THEOREM NoHandlerRunsAfterCommit ==
  ASSUME SingleService
  PROVE  Spec => []NoHandlerAfterCommit
<1>1. LockInv => NoHandlerAfterCommit
  BY DEF LockInv, NoHandlerAfterCommit
<1>2. QED
  BY <1>1, TypeInit, TypeStep, LockInit, LockStep, PTL DEF Spec

-----------------------------------------------------------------------------
(* What a commit overwrites.                                               *)

LEMMA SnapshotInit == Init => SnapshotInv /\ UnsealedInv
BY DEF Init, SnapshotInv, UnsealedInv, HasRead, Undecided

(* What a decision takes into the handler: the aggregate of that moment,   *)
(* or the one read before the lease was asserted.                          *)
DecidesOn(w, read) ==
  /\ \/ pc[w] = "read" /\ read = aggregate[job[w].command.run]
     \/ pc[w] = "fence" /\ read = job[w].aggregate
  /\ job'[w] = [job[w] EXCEPT !.aggregate = read, !.at = now]

(* How a step of execute that does not return moves its worker.            *)
LEMMA ExecuteMoves ==
  ASSUME TypeOK, NEW w \in Workers, Execute(w), ~ Return(w)
  PROVE  /\ UNCHANGED aggregate
         /\ \A v \in Workers : v # w => pc'[v] = pc[v] /\ job'[v] = job[v]
         /\ \/ pc'[w] = "duplicate"
            \/ pc'[w] = "read" /\ job'[w].sealed = NoOutputs
            \/ /\ pc[w] = "read" /\ pc'[w] = "lease" /\ job[w] \in Job
               /\ job'[w] = [job[w] EXCEPT !.aggregate = aggregate[job[w].command.run]]
            \/ /\ pc[w] = "lease" /\ pc'[w] = "fence" /\ job'[w] = job[w]
            \/ /\ pc'[w] = "effect" /\ job[w] \in Job
               /\ \E read : DecidesOn(w, read)
            \/ /\ pc[w] = "effect" /\ pc'[w] = "commit" /\ job'[w] = job[w]
            \/ /\ pc[w] = "effect" /\ pc'[w] = "commit" /\ job[w] \in Job
               /\ \E sealed \in Outputs :
                    /\ ~ MergeConflict(job[w].aggregate.outputs, sealed)
                    /\ job'[w] = [job[w] EXCEPT !.sealed = sealed]
<1>1. /\ pc \in [Workers -> Places]
      /\ job \in [Workers -> Job \cup {NoJob}]
      /\ pc[w] # "idle" => job[w] \in Job
  BY DEF TypeOK
<1>2. ASSUME NEW c \in ClientCommands(w), Lookup(w, c)
      PROVE  /\ UNCHANGED aggregate
             /\ \A v \in Workers : v # w => pc'[v] = pc[v] /\ job'[v] = job[v]
             /\ \/ pc'[w] = "duplicate"
                \/ pc'[w] = "read" /\ job'[w].sealed = NoOutputs
  BY <1>1, <1>2 DEF Lookup, repository
<1>3. ASSUME Read(w)
      PROVE  /\ UNCHANGED aggregate
             /\ \A v \in Workers : v # w => pc'[v] = pc[v] /\ job'[v] = job[v]
             /\ job[w] \in Job
             /\ \/ /\ pc[w] = "read" /\ pc'[w] = "lease"
                   /\ job'[w] = [job[w] EXCEPT !.aggregate = aggregate[job[w].command.run]]
                \/ pc'[w] = "effect" /\ \E read : DecidesOn(w, read)
  BY <1>1, <1>3 DEF Read, Decide, DecidesOn, repository
<1>8. ASSUME AssertLease(w) \/ AssertToken(w)
      PROVE  /\ UNCHANGED aggregate
             /\ \A v \in Workers : v # w => pc'[v] = pc[v] /\ job'[v] = job[v]
             /\ job[w] \in Job
             /\ \/ pc[w] = "lease" /\ pc'[w] = "fence" /\ job'[w] = job[w]
                \/ pc'[w] = "effect" /\ \E read : DecidesOn(w, read)
  BY <1>1, <1>8 DEF AssertLease, AssertToken, Decide, DecidesOn, repository
<1>4. ASSUME SkipEffect(w)
      PROVE  /\ UNCHANGED aggregate
             /\ \A v \in Workers : v # w => pc'[v] = pc[v] /\ job'[v] = job[v]
             /\ pc[w] = "effect" /\ pc'[w] = "commit" /\ job'[w] = job[w]
  BY <1>1, <1>4 DEF SkipEffect, repository
<1>5. ASSUME NEW sealed \in Outputs, HandlerReturns(w, sealed)
      PROVE  /\ UNCHANGED aggregate
             /\ \A v \in Workers : v # w => pc'[v] = pc[v] /\ job'[v] = job[v]
             /\ pc[w] = "effect" /\ pc'[w] = "commit" /\ job[w] \in Job
             /\ ~ MergeConflict(job[w].aggregate.outputs, sealed)
             /\ job'[w] = [job[w] EXCEPT !.sealed = sealed]
  BY <1>1, <1>5 DEF HandlerReturns, repository
<1>6. ~ ReturnDuplicate(w) /\ ~ HandlerRaises(w) /\ ~ Commit(w)
  BY DEF ReturnDuplicate, HandlerRaises, Commit
<1>7. QED
  BY <1>2, <1>3, <1>4, <1>5, <1>6, <1>8 DEF Execute

\* SnapshotInv and UnsealedInv of one worker.
SnapshotOf(w) ==
  /\ HasRead(w) =>
       LET current == aggregate[job[w].command.run]
           read == job[w].aggregate
       IN  /\ read.revision <= current.revision
           /\ read.revision = current.revision => read = current
           /\ ~ MergeConflict(read.outputs, job[w].sealed)
  /\ Undecided(w) => job[w].sealed = NoOutputs

LEMMA SnapshotStep ==
  TypeOK /\ SnapshotInv /\ UnsealedInv /\ [Next]_vars => SnapshotInv' /\ UnsealedInv'
<1> SUFFICES ASSUME TypeOK, SnapshotInv, UnsealedInv, [Next]_vars, NEW v \in Workers
             PROVE  SnapshotOf(v)'
  BY DEF SnapshotInv, UnsealedInv, SnapshotOf, HasRead, Undecided
<1>1. SnapshotOf(v)
  BY DEF SnapshotInv, UnsealedInv, SnapshotOf, HasRead, Undecided
<1>2. CASE UNCHANGED <<aggregate, pc, job>>
  BY <1>1, <1>2 DEF SnapshotOf, HasRead, Undecided
<1>3. ASSUME NEW w \in Workers, Execute(w), ~ Return(w) PROVE SnapshotOf(v)'
  <2>1. CASE v # w
    BY <1>1, <1>3, <2>1, ExecuteMoves DEF SnapshotOf, HasRead, Undecided
  <2>2. CASE v = w /\ pc'[w] \in {"duplicate", "read"}
    BY <1>3, <2>2, ExecuteMoves DEF SnapshotOf, HasRead, Undecided
  <2>3. ASSUME v = w, pc[w] = "read", pc'[w] \in {"lease", "effect"}, job[w] \in Job,
               NEW time,
               \/ job'[w] = [job[w] EXCEPT !.aggregate = aggregate[job[w].command.run]]
               \/ job'[w] = [job[w] EXCEPT !.aggregate = aggregate[job[w].command.run],
                                          !.at = time],
               UNCHANGED aggregate
        PROVE  SnapshotOf(v)'
    <3>1. /\ job'[w].command = job[w].command /\ job'[w].sealed = job[w].sealed
          /\ job'[w].aggregate = aggregate[job[w].command.run]
      BY <2>3 DEF Job
    <3>3. aggregate[job[w].command.run].revision \in Nat
      BY <2>3 DEF TypeOK, Job, Command, Aggregate
    <3>4. job[w].sealed = NoOutputs
      BY <1>1, <2>3 DEF SnapshotOf, HasRead, Undecided
    <3>5. ~ MergeConflict(aggregate[job[w].command.run].outputs, NoOutputs)
      BY DEF MergeConflict, NoOutputs
    <3> QED  BY <2>3, <3>1, <3>3, <3>4, <3>5 DEF SnapshotOf, HasRead, Undecided
  <2>6. ASSUME v = w, pc[w] = "lease", pc'[w] = "fence", job'[w] = job[w],
               UNCHANGED aggregate
        PROVE  SnapshotOf(v)'
    BY <1>1, <2>6 DEF SnapshotOf, HasRead, Undecided
  <2>7. ASSUME v = w, pc[w] = "fence", pc'[w] = "effect", job[w] \in Job,
               job'[w] = [job[w] EXCEPT !.aggregate = job[w].aggregate, !.at = now],
               UNCHANGED aggregate
        PROVE  SnapshotOf(v)'
    <3>1. /\ job'[w].command = job[w].command /\ job'[w].sealed = job[w].sealed
          /\ job'[w].aggregate = job[w].aggregate
      BY <2>7 DEF Job
    <3> QED  BY <1>1, <2>7, <3>1 DEF SnapshotOf, HasRead, Undecided
  <2>4. ASSUME v = w, pc[w] = "effect", pc'[w] = "commit", job'[w] = job[w],
               UNCHANGED aggregate
        PROVE  SnapshotOf(v)'
    BY <1>1, <2>4 DEF SnapshotOf, HasRead, Undecided
  <2>8. ASSUME v = w, pc'[w] = "effect", job[w] \in Job, NEW read, DecidesOn(w, read),
               UNCHANGED aggregate
        PROVE  SnapshotOf(v)'
    <3>1. CASE pc[w] = "read" /\ read = aggregate[job[w].command.run]
      BY <2>3, <2>8, <3>1 DEF DecidesOn
    <3>2. CASE pc[w] = "fence" /\ read = job[w].aggregate
      BY <2>7, <2>8, <3>2 DEF DecidesOn
    <3> QED  BY <2>8, <3>1, <3>2 DEF DecidesOn
  <2>5. ASSUME NEW sealed \in Outputs, v = w, pc[w] = "effect", pc'[w] = "commit",
               job[w] \in Job, ~ MergeConflict(job[w].aggregate.outputs, sealed),
               job'[w] = [job[w] EXCEPT !.sealed = sealed], UNCHANGED aggregate
        PROVE  SnapshotOf(v)'
    <3>1. /\ job'[w].command = job[w].command /\ job'[w].sealed = sealed
          /\ job'[w].aggregate = job[w].aggregate
      BY <2>5 DEF Job
    <3> QED  BY <1>1, <2>5, <3>1 DEF SnapshotOf, HasRead, Undecided
  <2>9. CASE v = w
    <3>1. /\ UNCHANGED aggregate
          /\ \/ pc'[w] \in {"duplicate", "read"}
             \/ /\ pc[w] = "read" /\ pc'[w] = "lease" /\ job[w] \in Job
                /\ job'[w] = [job[w] EXCEPT !.aggregate = aggregate[job[w].command.run]]
             \/ pc[w] = "lease" /\ pc'[w] = "fence" /\ job'[w] = job[w]
             \/ pc'[w] = "effect" /\ job[w] \in Job /\ \E read : DecidesOn(w, read)
             \/ pc[w] = "effect" /\ pc'[w] = "commit" /\ job'[w] = job[w]
             \/ /\ pc[w] = "effect" /\ pc'[w] = "commit" /\ job[w] \in Job
                /\ \E sealed \in Outputs :
                     /\ ~ MergeConflict(job[w].aggregate.outputs, sealed)
                     /\ job'[w] = [job[w] EXCEPT !.sealed = sealed]
      BY <1>3, ExecuteMoves
    <3> QED  BY <2>2, <2>3, <2>4, <2>5, <2>6, <2>8, <2>9, <3>1
  <2> QED  BY <2>1, <2>9
<1>4. ASSUME NEW w \in Workers, Return(w), UNCHANGED aggregate PROVE SnapshotOf(v)'
  BY <1>1, <1>4 DEF Return, TypeOK, SnapshotOf, HasRead, Undecided
<1>5. ASSUME NEW w \in Workers, Return(w), NEW e \in Event, Appended(w, e)
      PROVE  SnapshotOf(v)'
  <2> DEFINE run == job[w].command.run
  <2>1. CASE v = w
    BY <1>5, <2>1 DEF Return, TypeOK, SnapshotOf, HasRead, Undecided
  <2>2. CASE v # w /\ ~ HasRead(v)
    BY <1>1, <1>5, <2>2 DEF Return, TypeOK, SnapshotOf, HasRead, Undecided
  <2>3. CASE v # w /\ HasRead(v)
    <3>1. pc'[v] = pc[v] /\ job'[v] = job[v]
      BY <1>5, <2>3 DEF Return, TypeOK
    <3>2. run \in Runs /\ job[v] \in Job
      BY <1>5, <2>3 DEF Appended, Command, TypeOK, HasRead
    <3>3. job[v].command.run \in Runs /\ job[v].aggregate.revision \in Nat
      BY <3>2 DEF Job, Command, Aggregate
    <3>4. aggregate'[run].revision = aggregate[run].revision + 1
      BY <1>5, <3>2 DEF Appended, CommitAllowed, new_aggregate, TypeOK
    <3>5. aggregate[run].revision \in Nat
      BY <3>2 DEF TypeOK, Aggregate
    <3>6. CASE job[v].command.run = run
      BY <1>1, <2>3, <3>1, <3>3, <3>4, <3>5, <3>6 DEF SnapshotOf, HasRead, Undecided
    <3>7. CASE job[v].command.run # run
      <4>1. aggregate'[job[v].command.run] = aggregate[job[v].command.run]
        BY <1>5, <3>2, <3>3, <3>7 DEF Appended, TypeOK
      <4> QED  BY <1>1, <2>3, <3>1, <4>1 DEF SnapshotOf, HasRead, Undecided
    <3> QED  BY <3>6, <3>7
  <2> QED  BY <2>1, <2>2, <2>3
<1>6. ASSUME NEW w \in Workers, Execute(w), Return(w) PROVE SnapshotOf(v)'
  <2>1. CASE Commit(w)
    BY <1>4, <1>5, <1>6, <2>1, CommitAppends DEF repository
  <2>2. CASE ~ Commit(w)
    <3>1. UNCHANGED aggregate
      BY <1>6, <2>2 DEF Execute, Lookup, ReturnDuplicate, Read, AssertLease, AssertToken,
       Decide, SkipEffect, HandlerReturns, HandlerRaises, repository
    <3> QED  BY <1>4, <1>6, <3>1
  <2> QED  BY <2>1, <2>2
<1>7. QED
  BY <1>2, <1>3, <1>6, KeepLeaseKeepsService
  DEF Next, Tick, vars, repository, serviceVars

\* An allowed commit was decided on the aggregate it replaces.
LEMMA CommitSeesCurrent ==
  ASSUME TypeOK, SnapshotInv, NEW w \in Workers, Commit(w), NEW e \in Event, Appended(w, e)
  PROVE  /\ job[w].aggregate = aggregate[job[w].command.run]
         /\ ~ is_terminal(job[w].aggregate)
         /\ ~ MergeConflict(job[w].aggregate.outputs, job[w].sealed)
         /\ aggregate'[job[w].command.run].outputs =
              merge_outputs(job[w].aggregate.outputs, job[w].sealed)
<1> DEFINE c == job[w].command
<1>1. /\ c.run \in Runs /\ job[w].aggregate.revision \in Nat
      /\ aggregate[c.run].revision \in Nat
  BY DEF Appended, Command, Aggregate, TypeOK
<1>2. job[w].aggregate.revision = aggregate[c.run].revision
  BY <1>1 DEF Appended, CommitAllowed, build_event
<1>3. job[w].aggregate = aggregate[c.run] /\ ~ MergeConflict(job[w].aggregate.outputs, job[w].sealed)
  BY <1>2 DEF SnapshotInv, HasRead, Commit
<1>4. ~ is_terminal(job[w].aggregate)
  BY DEF Appended, decide
<1>5. aggregate'[c.run].outputs = merge_outputs(job[w].aggregate.outputs, job[w].sealed)
  BY <1>1 DEF Appended, TypeOK, new_aggregate, build_event
<1>6. QED
  BY <1>3, <1>4, <1>5

(* A run that has ended keeps its aggregate and its log, whatever handlers *)
(* of earlier commands are still running.                                  *)
THEOREM EndedRunsStay == Spec => TerminalIsFinal
<1> DEFINE Final == \A r \in Runs : is_terminal(aggregate[r]) =>
                      aggregate'[r] = aggregate[r] /\ events'[r] = events[r]
<1>1. TypeOK /\ SnapshotInv /\ [Next]_vars => [Final]_vars
  <2> SUFFICES ASSUME TypeOK, SnapshotInv, [Next]_vars,
                      NEW r \in Runs, is_terminal(aggregate[r])
               PROVE  aggregate'[r] = aggregate[r] /\ events'[r] = events[r]
    OBVIOUS
  <2>1. CASE UNCHANGED <<aggregate, events>>
    BY <2>1
  <2>2. ASSUME NEW w \in Workers, Commit(w), NEW e \in Event, Appended(w, e)
        PROVE  aggregate'[r] = aggregate[r] /\ events'[r] = events[r]
    <3>1. job[w].command.run # r
      BY <2>2, CommitSeesCurrent
    <3> QED  BY <2>2, <3>1 DEF Appended, TypeOK
  <2> QED  BY <2>1, <2>2, OnlyCommitWrites, CommitAppends DEF repository
<1>2. QED
  BY <1>1, TypeInit, TypeStep, SnapshotInit, SnapshotStep, PTL DEF Spec, TerminalIsFinal

(* No commit changes the hash of an output that is sealed.                 *)
THEOREM SealedOutputsStay == Spec => SealedIsImmutable
<1> DEFINE Kept == \A r \in Runs, n \in Names : aggregate[r].outputs[n] # NoHash =>
                     aggregate'[r].outputs[n] = aggregate[r].outputs[n]
<1>1. TypeOK /\ SnapshotInv /\ [Next]_vars => [Kept]_vars
  <2> SUFFICES ASSUME TypeOK, SnapshotInv, [Next]_vars,
                      NEW r \in Runs, NEW n \in Names, aggregate[r].outputs[n] # NoHash
               PROVE  aggregate'[r].outputs[n] = aggregate[r].outputs[n]
    OBVIOUS
  <2>1. CASE UNCHANGED aggregate
    BY <2>1
  <2>2. ASSUME NEW w \in Workers, Commit(w), NEW e \in Event, Appended(w, e)
        PROVE  aggregate'[r].outputs[n] = aggregate[r].outputs[n]
    <3>1. CASE job[w].command.run # r
      BY <2>2, <3>1 DEF Appended, TypeOK
    <3>2. CASE job[w].command.run = r
      <4> DEFINE existing == job[w].aggregate.outputs
                 added == job[w].sealed
      <4>1. /\ existing = aggregate[r].outputs /\ ~ MergeConflict(existing, added)
            /\ aggregate'[r].outputs = merge_outputs(existing, added)
        BY <2>2, <3>2, CommitSeesCurrent
      <4> HIDE DEF existing, added
      <4>2. merge_outputs(existing, added)[n] = existing[n]
        BY <4>1 DEF MergeConflict, merge_outputs
      <4> QED  BY <4>1, <4>2
    <3> QED  BY <3>1, <3>2
  <2> QED  BY <2>1, <2>2, OnlyCommitWrites, CommitAppends DEF repository
<1>2. QED
  BY <1>1, TypeInit, TypeStep, SnapshotInit, SnapshotStep, PTL DEF Spec, SealedIsImmutable

-----------------------------------------------------------------------------
(* The log and what it replays to.                                         *)

\* A non-empty set of numbers has a least one.
LEMMA LeastNumber ==
  ASSUME NEW T \in SUBSET Nat, T # {}
  PROVE  \E n \in T : \A m \in T : n <= m
<1> DEFINE R == OpToRel(<, Nat)
<1>1. \A n, m \in Nat : n < m => <<n, m>> \in R
  BY DEF OpToRel
<1>2. IsWellFoundedOn(R, Nat)
  BY NatLessThanWellFounded
<1> HIDE DEF R
<1>3. PICK n \in T : \A m \in T : ~(<<m, n>> \in R)
  BY <1>2, WFMin
<1>4. \A m \in T : n <= m
  <2> SUFFICES ASSUME NEW m \in T PROVE n <= m
    OBVIOUS
  <2>1. n \in Nat /\ m \in Nat
    OBVIOUS
  <2>2. ~(m < n)
    BY <1>1, <1>3, <2>1, Zenon
  <2> QED  BY <2>1, <2>2
<1>5. QED
  BY <1>4

\* The first of n events that seals a name.
Seals(log, n, name, i) ==
  /\ i \in 1..n /\ log[i].sealed[name] # NoHash
  /\ \A j \in 1..(i - 1) : log[j].sealed[name] = NoHash

\* What the replay has of an output: nothing, or the hash of its first seal.
LEMMA ReplayedIs ==
  ASSUME NEW log, NEW n \in Nat, NEW name \in Names
  PROVE  \/ /\ \A i \in 1..n : log[i].sealed[name] = NoHash
            /\ ReplayedOutputs(log, n)[name] = NoHash
         \/ \E i : /\ Seals(log, n, name, i)
                   /\ ReplayedOutputs(log, n)[name] = log[i].sealed[name]
<1>1. CASE \A i \in 1..n : log[i].sealed[name] = NoHash
  BY <1>1 DEF ReplayedOutputs
<1>2. CASE ~ \A i \in 1..n : log[i].sealed[name] = NoHash
  <2> DEFINE T == {i \in 1..n : log[i].sealed[name] # NoHash}
             Q(i) == /\ log[i].sealed[name] # NoHash
                     /\ \A j \in 1..(i - 1) : log[j].sealed[name] = NoHash
             first == CHOOSE i \in 1..n : Q(i)
  <2>1. T # {} /\ T \in SUBSET Nat
    BY <1>2
  <2>2. PICK i \in T : \A j \in T : i <= j
    <3> HIDE DEF T
    <3> QED  BY <2>1, LeastNumber
  <2>3. i \in 1..n /\ Q(i)
    <3>1. ASSUME NEW j \in 1..(i - 1) PROVE log[j].sealed[name] = NoHash
      <4>1. j \in 1..n /\ ~(i <= j)
        BY <2>2
      <4> QED  BY <2>2, <4>1
    <3> QED  BY <2>2, <3>1
  <2>4. first \in 1..n /\ Q(first)
    <3> HIDE DEF Q
    <3> QED  BY <2>3
  <2>5. ReplayedOutputs(log, n)[name] = log[first].sealed[name]
    BY <1>2 DEF ReplayedOutputs
  <2>6. Seals(log, n, name, first)
    <3> HIDE DEF first
    <3> QED  BY <2>4 DEF Seals
  <2> QED  BY <2>5, <2>6
<1>3. QED
  BY <1>1, <1>2

\* There is but one first.
LEMMA SealsOnce ==
  ASSUME NEW log, NEW n \in Nat, NEW m \in Nat, NEW name, NEW i, NEW k,
         Seals(log, n, name, i), Seals(log, m, name, k)
  PROVE  i = k
BY DEF Seals

\* An event more does not change what the events before it replay to.
LEMMA ReplayKeeps ==
  ASSUME NEW log \in Seq(Event), NEW e \in Event, NEW n \in 0..Len(log)
  PROVE  ReplayedOutputs(Append(log, e), n) = ReplayedOutputs(log, n)
<1> DEFINE after == Append(log, e)
<1>1. n \in Nat /\ \A i \in 1..n : after[i] = log[i]
  OBVIOUS
<1> HIDE DEF after
<1>2. ASSUME NEW name \in Names
      PROVE  ReplayedOutputs(after, n)[name] = ReplayedOutputs(log, n)[name]
  <2>1. CASE \A i \in 1..n : log[i].sealed[name] = NoHash
    <3>1. \A i \in 1..n : after[i].sealed[name] = NoHash
      BY <1>1, <2>1
    <3> QED  BY <1>1, <2>1, <3>1, ReplayedIs DEF Seals
  <2>2. CASE ~ \A i \in 1..n : log[i].sealed[name] = NoHash
    <3>1. PICK i : /\ Seals(log, n, name, i)
                   /\ ReplayedOutputs(log, n)[name] = log[i].sealed[name]
      BY <1>1, <2>2, ReplayedIs
    <3>2. ~ \A k \in 1..n : after[k].sealed[name] = NoHash
      BY <1>1, <2>2
    <3>3. PICK k : /\ Seals(after, n, name, k)
                   /\ ReplayedOutputs(after, n)[name] = after[k].sealed[name]
      BY <1>1, <3>2, ReplayedIs
    <3>4. Seals(log, n, name, k)
      BY <1>1, <3>3 DEF Seals
    <3>5. i = k /\ k \in 1..n
      BY <1>1, <3>1, <3>4, SealsOnce DEF Seals
    <3> QED  BY <1>1, <3>1, <3>3, <3>5
  <2> QED  BY <2>1, <2>2
<1>3. /\ ReplayedOutputs(after, n) = [name \in Names |-> ReplayedOutputs(after, n)[name]]
      /\ ReplayedOutputs(log, n) = [name \in Names |-> ReplayedOutputs(log, n)[name]]
  BY DEF ReplayedOutputs
<1>4. QED
  BY <1>2, <1>3 DEF after

\* An event that contradicts nothing is merged.
LEMMA ReplayMerges ==
  ASSUME NEW log \in Seq(Event), NEW e \in Event,
         ~ MergeConflict(ReplayedOutputs(log, Len(log)), e.sealed)
  PROVE  ReplayedOutputs(Append(log, e), Len(log) + 1) =
           merge_outputs(ReplayedOutputs(log, Len(log)), e.sealed)
<1> DEFINE after == Append(log, e)
           n == Len(log)
<1>1. n \in Nat /\ (\A i \in 1..n : after[i] = log[i]) /\ after[n + 1] = e
  OBVIOUS
<1> HIDE DEF after, n
<1>2. ASSUME NEW name \in Names
      PROVE  ReplayedOutputs(after, n + 1)[name] =
               merge_outputs(ReplayedOutputs(log, n), e.sealed)[name]
  <2> DEFINE old == ReplayedOutputs(log, n)[name]
             new == ReplayedOutputs(after, n + 1)[name]
  <2>1. merge_outputs(ReplayedOutputs(log, n), e.sealed)[name] =
          IF e.sealed[name] # NoHash THEN e.sealed[name] ELSE old
    BY DEF merge_outputs
  <2>2. old # NoHash /\ e.sealed[name] # NoHash => old = e.sealed[name]
    BY DEF MergeConflict, n
  <2>3. n + 1 \in Nat /\ \A i : i \in 1..(n + 1) <=> i \in 1..n \/ i = n + 1
    BY <1>1
  <2>4. CASE \A i \in 1..n : log[i].sealed[name] = NoHash
    <3>1. old = NoHash
      BY <1>1, <2>4, ReplayedIs DEF Seals
    <3>2. CASE e.sealed[name] = NoHash
      <4>1. \A i \in 1..(n + 1) : after[i].sealed[name] = NoHash
        BY <1>1, <2>3, <2>4, <3>2
      <4>2. new = NoHash
        BY <2>3, <4>1, ReplayedIs DEF Seals
      <4> QED  BY <2>1, <3>1, <3>2, <4>2
    <3>3. CASE e.sealed[name] # NoHash
      <4>1. ~ \A i \in 1..(n + 1) : after[i].sealed[name] = NoHash
        BY <1>1, <2>3, <3>3
      <4>2. PICK i : Seals(after, n + 1, name, i) /\ new = after[i].sealed[name]
        BY <2>3, <4>1, ReplayedIs
      <4>3. i = n + 1
        BY <1>1, <2>3, <2>4, <4>2 DEF Seals
      <4> QED  BY <1>1, <2>1, <3>3, <4>2, <4>3
    <3> QED  BY <3>2, <3>3
  <2>5. CASE ~ \A i \in 1..n : log[i].sealed[name] = NoHash
    <3>1. PICK i : Seals(log, n, name, i) /\ old = log[i].sealed[name]
      BY <1>1, <2>5, ReplayedIs
    <3>2. i \in 1..n /\ old # NoHash
      BY <3>1 DEF Seals
    <3>3. Seals(after, n + 1, name, i)
      <4>1. \A j \in 1..(i - 1) : j \in 1..n
        BY <1>1, <3>2
      <4> QED  BY <1>1, <2>3, <3>1, <4>1 DEF Seals
    <3>4. ~ \A k \in 1..(n + 1) : after[k].sealed[name] = NoHash
      BY <3>3 DEF Seals
    <3>5. PICK k : Seals(after, n + 1, name, k) /\ new = after[k].sealed[name]
      BY <2>3, <3>4, ReplayedIs
    <3>6. i = k
      BY <2>3, <3>3, <3>5, SealsOnce
    <3>7. new = old
      BY <1>1, <3>1, <3>2, <3>5, <3>6
    <3> QED  BY <2>1, <2>2, <3>2, <3>7
  <2> QED  BY <2>4, <2>5
<1>3. /\ ReplayedOutputs(after, n + 1) =
           [name \in Names |-> ReplayedOutputs(after, n + 1)[name]]
      /\ merge_outputs(ReplayedOutputs(log, n), e.sealed) =
           [name \in Names |-> merge_outputs(ReplayedOutputs(log, n), e.sealed)[name]]
  BY DEF ReplayedOutputs, merge_outputs
<1>4. QED
  BY <1>2, <1>3 DEF after, n

\* The clock passes over what has been read of it: a decision on the current
\* aggregate is not older than the last event.
LastAt(log) == IF Len(log) = 0 THEN 0 ELSE log[Len(log)].at
TimeOf(w) ==
  pc[w] \in {"effect", "commit"} =>
    LET run == job[w].command.run
    IN  /\ job[w].at <= now
        /\ job[w].aggregate.revision = aggregate[run].revision =>
             LastAt(events[run]) <= job[w].at
TimeInv ==
  /\ \A r \in Runs : LastAt(events[r]) <= now
  /\ \A w \in Workers : TimeOf(w)

LEMMA TimeTyped ==
  ASSUME NEW log \in Seq(Event)
  PROVE  /\ LastAt(log) \in Nat
         /\ \A e \in Event : LastAt(Append(log, e)) = e.at
<1>1. LastAt(log) \in Nat
  <2>1. CASE Len(log) = 0
    BY <2>1 DEF LastAt
  <2>2. CASE Len(log) # 0
    <3>1. log[Len(log)] \in Event
      BY <2>2
    <3> QED  BY <2>2, <3>1 DEF LastAt, Event
  <2> QED  BY <2>1, <2>2
<1>2. ASSUME NEW e \in Event PROVE LastAt(Append(log, e)) = e.at
  <2>1. Len(Append(log, e)) = Len(log) + 1 /\ Append(log, e)[Len(log) + 1] = e
        /\ Len(log) \in Nat
    OBVIOUS
  <2> QED  BY <2>1 DEF LastAt
<1>3. QED
  BY <1>1, <1>2

\* A step that commits nothing moves the logs not, and the clock forward.
LEMMA NothingCommitted ==
  ASSUME NEW w \in Workers, Execute(w)
  PROVE  /\ UNCHANGED now
         /\ ~ Commit(w) => UNCHANGED <<aggregate, events>>
BY DEF Execute, Lookup, ReturnDuplicate, Read, AssertLease, AssertToken,
       Decide, SkipEffect, HandlerReturns,
       HandlerRaises, Commit, repository

LEMMA TimeInit == Init => TimeInv
BY BoundAssumption DEF Init, TimeInv, TimeOf, LastAt

\* The log ends no later than now, and a decision on the present aggregate is
\* no older than the end of the log.
LEMMA TimeStep ==
  TypeOK /\ SnapshotInv /\ TimeInv /\ [Next]_vars => TimeInv'
<1> SUFFICES ASSUME TypeOK, SnapshotInv, TimeInv, [Next]_vars PROVE TimeInv'
  OBVIOUS
<1>1. now \in Nat /\ \A r \in Runs : events[r] \in Seq(Event) /\ LastAt(events[r]) \in Nat
  BY TimeTyped DEF TypeOK
<1>2. CASE UNCHANGED <<aggregate, events, pc, job>> /\ now' \in Nat /\ now <= now'
  <2>1. \A r \in Runs : LastAt(events'[r]) <= now'
    BY <1>1, <1>2 DEF TimeInv
  <2>2. ASSUME NEW v \in Workers, pc[v] \in {"effect", "commit"}
        PROVE  job[v].at \in Nat
    BY <2>2 DEF TypeOK, Job
  <2>3. \A v \in Workers : TimeOf(v)'
    BY <1>1, <1>2, <2>2 DEF TimeInv, TimeOf
  <2> QED  BY <2>1, <2>3 DEF TimeInv
<1>3. ASSUME NEW w \in Workers, Execute(w), ~ Return(w) PROVE TimeInv'
  <2>1. UNCHANGED <<aggregate, events, now>>
    BY <1>3, NothingCommitted DEF Commit
  <2>2. ASSUME NEW v \in Workers PROVE TimeOf(v)'
    <3>1. TimeOf(v)
      BY DEF TimeInv
    <3>2. CASE v # w
      <4>1. pc'[v] = pc[v] /\ job'[v] = job[v]
        BY <1>3, <3>2, ExecuteMoves
      <4> QED  BY <2>1, <3>1, <4>1 DEF TimeOf
    <3>3. CASE v = w /\ pc'[w] \in {"duplicate", "read", "lease", "fence"}
      BY <3>3 DEF TimeOf
    <3>4. ASSUME v = w, job[w] \in Job, NEW read,
                 job'[w] = [job[w] EXCEPT !.aggregate = read, !.at = now]
          PROVE  TimeOf(v)'
      <4>1. job'[w].command = job[w].command /\ job'[w].at = now /\ job[w].command.run \in Runs
        BY <3>4 DEF Job, Command
      <4> QED  BY <1>1, <2>1, <3>4, <4>1 DEF TimeOf, TimeInv
    <3>5. ASSUME v = w, pc[w] = "effect", job'[w] = job[w] PROVE TimeOf(v)'
      BY <2>1, <3>1, <3>5 DEF TimeOf
    <3>6. ASSUME v = w, pc[w] = "effect", job[w] \in Job, NEW sealed \in Outputs,
                 job'[w] = [job[w] EXCEPT !.sealed = sealed]
          PROVE  TimeOf(v)'
      <4>1. /\ job'[w].command = job[w].command /\ job'[w].at = job[w].at
            /\ job'[w].aggregate = job[w].aggregate
        BY <3>6 DEF Job
      <4> QED  BY <2>1, <3>1, <3>6, <4>1 DEF TimeOf
    <3> QED  BY <1>3, <3>2, <3>3, <3>4, <3>5, <3>6, ExecuteMoves DEF DecidesOn
  <2> QED  BY <2>1, <2>2 DEF TimeInv
<1>4. ASSUME NEW w \in Workers, Return(w), UNCHANGED <<aggregate, events, now>>
      PROVE  TimeInv'
  <2>1. ASSUME NEW v \in Workers PROVE TimeOf(v)'
    <3>1. CASE v = w
      BY <1>4, <3>1 DEF Return, TypeOK, TimeOf
    <3>2. CASE v # w
      <4>1. pc'[v] = pc[v] /\ job'[v] = job[v] /\ TimeOf(v)
        BY <1>4, <3>2 DEF Return, TypeOK, TimeInv
      <4> QED  BY <1>4, <4>1 DEF TimeOf
    <3> QED  BY <3>1, <3>2
  <2> QED  BY <1>4, <2>1 DEF TimeInv
<1>5. ASSUME NEW w \in Workers, Commit(w), NEW e \in Event, Appended(w, e), UNCHANGED now
      PROVE  TimeInv'
  <2> DEFINE run == job[w].command.run
  <2>1. run \in Runs /\ e.at = job[w].at /\ aggregate[run].revision \in Nat
    BY <1>5 DEF Appended, Command, build_event, TypeOK, Aggregate
  <2>2. /\ events'[run] = Append(events[run], e)
        /\ aggregate'[run].revision = aggregate[run].revision + 1
        /\ \A r \in Runs : r # run =>
             events'[r] = events[r] /\ aggregate'[r] = aggregate[r]
    <3>1. /\ events' = [events EXCEPT ![run] = Append(@, e)]
          /\ aggregate' = [aggregate EXCEPT ![run] = new_aggregate(job[w].aggregate, e)]
          /\ e.sequence = aggregate[run].revision + 1
      BY <1>5 DEF Appended, CommitAllowed
    <3> QED  BY <2>1, <3>1 DEF TypeOK, new_aggregate
  <2>3. job[w].at <= now
    BY <1>5 DEF TimeInv, TimeOf, Commit
  <2> HIDE DEF run
  <2>4. \A r \in Runs : LastAt(events'[r]) <= now'
    BY <1>1, <1>5, <2>1, <2>2, <2>3, TimeTyped DEF TimeInv
  <2>5. ASSUME NEW v \in Workers PROVE TimeOf(v)'
    <3>1. CASE v = w
      BY <1>5, <3>1 DEF Commit, Return, TypeOK, TimeOf
    <3>2. CASE v # w /\ pc[v] \notin {"effect", "commit"}
      BY <1>5, <3>2 DEF Commit, Return, TypeOK, TimeOf
    <3>3. CASE v # w /\ pc[v] \in {"effect", "commit"}
      <4>1. pc'[v] = pc[v] /\ job'[v] = job[v] /\ TimeOf(v)
        BY <1>5, <3>3 DEF Commit, Return, TypeOK, TimeInv
      <4>2. job[v] \in Job
        BY <3>3 DEF TypeOK
      <4>3. job[v].command.run \in Runs /\ job[v].aggregate.revision \in Nat
        BY <4>2 DEF Job, Command, Aggregate
      <4>4. job[v].aggregate.revision <= aggregate[job[v].command.run].revision
        BY <3>3 DEF SnapshotInv, HasRead
      <4>5. CASE job[v].command.run = run
        BY <1>5, <2>1, <2>2, <3>3, <4>1, <4>3, <4>4, <4>5 DEF TimeOf
      <4>6. CASE job[v].command.run # run
        BY <1>5, <2>2, <3>3, <4>1, <4>3, <4>6 DEF TimeOf
      <4> QED  BY <4>5, <4>6
    <3> QED  BY <3>1, <3>2, <3>3
  <2> QED  BY <2>4, <2>5 DEF TimeInv
<1>6. ASSUME NEW w \in Workers, Execute(w), Return(w) PROVE TimeInv'
  <2>1. UNCHANGED now
    BY <1>6, NothingCommitted
  <2>2. CASE Commit(w)
    BY <1>4, <1>5, <1>6, <2>1, <2>2, CommitAppends DEF repository
  <2>3. CASE ~ Commit(w)
    BY <1>4, <1>6, <2>1, <2>3, NothingCommitted
  <2> QED  BY <2>2, <2>3
<1>7. ASSUME NEW w \in Workers, KeepLease(w) PROVE TimeInv'
  <2>1. UNCHANGED now
    BY <1>7 DEF KeepLease, AcquireCheck, AcquireToken, AcquireSave, RenewCheck, RenewSave
  <2> QED  BY <1>1, <1>2, <1>7, <2>1, KeepLeaseKeepsService DEF repository, serviceVars
<1>8. CASE Tick
  BY <1>1, <1>2, <1>8 DEF Tick, repository, serviceVars
<1>9. CASE UNCHANGED vars
  BY <1>1, <1>2, <1>9 DEF vars, repository, serviceVars
<1>10. QED
  BY <1>3, <1>6, <1>7, <1>8, <1>9 DEF Next

LEMMA ReplayInit == Init => ReplayMatchesAggregate
<1> SUFFICES ASSUME Init, NEW r \in Runs
             PROVE  verify_event_chain(events[r]) /\ replay_events(events[r]) = aggregate[r]
  BY DEF ReplayMatchesAggregate
<1>1. events[r] = << >> /\ aggregate[r] = InitialAggregate
  BY DEF Init
<1>2. QED
  BY <1>1 DEF verify_event_chain, replay_events

\* What a log says of its last event.
LEMMA LogEnds ==
  ASSUME NEW log \in Seq(Event), NEW agg, verify_event_chain(log),
         replay_events(log) = agg
  PROVE  /\ agg.revision = Len(log)
         /\ agg.outputs = ReplayedOutputs(log, Len(log))
         /\ Len(log) = 0 => agg = InitialAggregate
         /\ Len(log) # 0 => /\ agg.phase = log[Len(log)].phase
                            /\ agg.status = log[Len(log)].status
                            /\ agg.head = EventHash(log[Len(log)])
<1>1. CASE log = << >>
  <2>1. ReplayedOutputs(log, 0) = NoOutputs
    BY DEF ReplayedOutputs, NoOutputs
  <2>2. agg = InitialAggregate /\ Len(log) = 0
    BY <1>1 DEF replay_events
  <2> QED  BY <2>1, <2>2 DEF InitialAggregate
<1>2. CASE log # << >>
  <2>1. Len(log) \in 1..Len(log) /\ Len(log) # 0
    BY <1>2
  <2>2. log[Len(log)].sequence = Len(log)
    BY <2>1 DEF verify_event_chain
  <2> QED  BY <1>2, <2>1, <2>2 DEF replay_events
<1>3. QED
  BY <1>1, <1>2

\* An event decided on what the log replays to, and no older than its end.
LEMMA ChainAppend ==
  ASSUME NEW log \in Seq(Event), NEW e \in Event, NEW agg, verify_event_chain(log),
         replay_events(log) = agg, e.sequence = agg.revision + 1,
         e.previous = agg.head, LastAt(log) <= e.at,
         \E r \in MatrixRules(agg.phase, agg.status, e.type) :
           e.phase = r.to_phase /\ e.status = r.to_status,
         ~ MergeConflict(agg.outputs, e.sealed)
  PROVE  /\ verify_event_chain(Append(log, e))
         /\ replay_events(Append(log, e)) = new_aggregate(agg, e)
<1> DEFINE after == Append(log, e)
           n == Len(log)
<1>1. /\ n \in Nat /\ (\A i \in 1..n : after[i] = log[i]) /\ after[n + 1] = e
      /\ Len(after) = n + 1 /\ after # << >>
  OBVIOUS
<1>2. \A i \in 0..n : ReplayedOutputs(after, i) = ReplayedOutputs(log, i)
  BY ReplayKeeps
<1>3. /\ agg.revision = n /\ agg.outputs = ReplayedOutputs(log, n)
      /\ n = 0 => agg = InitialAggregate
      /\ n # 0 => /\ agg.phase = log[n].phase /\ agg.status = log[n].status
                  /\ agg.head = EventHash(log[n])
  BY LogEnds
<1>4. ReplayedOutputs(after, n + 1) = merge_outputs(agg.outputs, e.sealed)
  BY <1>3, ReplayMerges
<1>5. LastAt(log) = IF n = 0 THEN 0 ELSE log[n].at
  BY DEF LastAt
<1> HIDE DEF after, n
<1>6. verify_event_chain(after)
  <2> SUFFICES ASSUME NEW i \in 1..(n + 1)
               PROVE  LET f == after[i]
                          prior == IF i = 1
                                   THEN [phase |-> PLAN, status |-> "PENDING",
                                         head |-> NoHead, at |-> 0]
                                   ELSE [phase |-> after[i - 1].phase,
                                         status |-> after[i - 1].status,
                                         head |-> EventHash(after[i - 1]),
                                         at |-> after[i - 1].at]
                      IN  /\ f.sequence = i
                          /\ f.previous = prior.head
                          /\ f.at >= prior.at
                          /\ \E r \in MatrixRules(prior.phase, prior.status, f.type) :
                               f.phase = r.to_phase /\ f.status = r.to_status
                          /\ ~ MergeConflict(ReplayedOutputs(after, i - 1), f.sealed)
    BY <1>1 DEF verify_event_chain
  <2>1. CASE i \in 1..n
    <3>1. after[i] = log[i] /\ (i # 1 => after[i - 1] = log[i - 1])
      BY <1>1, <2>1
    <3>2. ReplayedOutputs(after, i - 1) = ReplayedOutputs(log, i - 1)
      BY <1>1, <1>2, <2>1
    <3>3. i \in 1..Len(log)
      BY <2>1 DEF n
    <3> QED  BY <3>1, <3>2, <3>3 DEF verify_event_chain
  <2>2. CASE i = n + 1
    <3>1. i - 1 = n /\ ReplayedOutputs(after, n) = agg.outputs /\ after[i] = e
      BY <1>1, <1>2, <1>3, <2>2
    <3>2. e.sequence = n + 1
      BY <1>3
    <3>3. CASE n = 0
      <4>1. /\ agg.phase = PLAN /\ agg.status = "PENDING" /\ agg.head = NoHead
            /\ LastAt(log) = 0 /\ i = 1
        BY <1>3, <1>5, <2>2, <3>3 DEF InitialAggregate
      <4> QED  BY <3>1, <3>2, <3>3, <4>1
    <3>4. CASE n # 0
      <4>1. /\ after[n] = log[n] /\ i # 1
        BY <1>1, <2>2, <3>4
      <4>2. LastAt(log) = log[n].at /\ log[n].at <= e.at
        BY <1>5, <3>4
      <4> QED  BY <1>3, <3>1, <3>2, <3>4, <4>1, <4>2, <2>2
    <3> QED  BY <3>3, <3>4
  <2> QED  BY <1>1, <2>1, <2>2
<1>7. replay_events(after) = new_aggregate(agg, e)
  BY <1>1, <1>4 DEF replay_events, new_aggregate
<1>8. QED
  BY <1>6, <1>7 DEF after

\* A commit appends the one event that leads from the stored aggregate to the
\* new one; every other step leaves log and aggregate alone.
LEMMA ReplayStep ==
  TypeOK /\ SnapshotInv /\ TimeInv /\ ReplayMatchesAggregate /\ [Next]_vars
    => ReplayMatchesAggregate'
<1> SUFFICES ASSUME TypeOK, SnapshotInv, TimeInv, ReplayMatchesAggregate, [Next]_vars,
                    NEW r \in Runs
             PROVE  verify_event_chain(events'[r]) /\ replay_events(events'[r]) = aggregate'[r]
  BY DEF ReplayMatchesAggregate
<1>1. verify_event_chain(events[r]) /\ replay_events(events[r]) = aggregate[r]
  BY DEF ReplayMatchesAggregate
<1>2. CASE UNCHANGED <<aggregate, events>>
  BY <1>1, <1>2
<1>3. ASSUME NEW w \in Workers, Commit(w), NEW e \in Event, Appended(w, e)
      PROVE  verify_event_chain(events'[r]) /\ replay_events(events'[r]) = aggregate'[r]
  <2> DEFINE run == job[w].command.run
             agg == job[w].aggregate
  <2>1. CASE run # r
    <3>1. events'[r] = events[r] /\ aggregate'[r] = aggregate[r]
      BY <1>3, <2>1 DEF Appended, TypeOK
    <3> QED  BY <1>1, <3>1
  <2>2. CASE run = r
    <3>1. agg = aggregate[r] /\ ~ MergeConflict(agg.outputs, job[w].sealed)
      BY <1>3, <2>2, CommitSeesCurrent
    <3>2. events'[r] = Append(events[r], e) /\ aggregate'[r] = new_aggregate(agg, e)
      BY <1>3, <2>2 DEF Appended, TypeOK
    <3>3. PICK rule \in decide(agg, job[w].command) :
            e = build_event(agg, job[w].command, rule, job[w].at, job[w].sealed)
      BY <1>3 DEF Appended
    <3>4. rule \in MatrixRules(agg.phase, agg.status, job[w].command.type)
      BY <3>3 DEF decide
    <3>5. /\ e.sequence = agg.revision + 1 /\ e.previous = agg.head /\ e.at = job[w].at
          /\ e.sealed = job[w].sealed /\ e.type = job[w].command.type
          /\ e.phase = rule.to_phase /\ e.status = rule.to_status
      BY <3>3 DEF build_event
    <3>6. LastAt(events[r]) <= e.at
      BY <1>3, <2>2, <3>1, <3>5 DEF TimeInv, TimeOf, Commit
    <3>7. events[r] \in Seq(Event)
      BY DEF TypeOK
    <3> HIDE DEF agg
    <3> QED  BY <1>1, <3>1, <3>2, <3>4, <3>5, <3>6, <3>7, ChainAppend
  <2> QED  BY <2>1, <2>2
<1>4. QED
  BY <1>2, <1>3, OnlyCommitWrites, CommitAppends DEF repository

(* The log of every run verifies and replays to its stored aggregate       *)
(* (events.py, replay.py): gap-free, chained, in time order, by rules of   *)
(* the matrix, with no output sealed twice to different hashes.            *)
THEOREM LogReplays == Spec => []ReplayMatchesAggregate
BY TypeInit, TypeStep, SnapshotInit, SnapshotStep, TimeInit, TimeStep, ReplayInit,
   ReplayStep, PTL DEF Spec
=============================================================================

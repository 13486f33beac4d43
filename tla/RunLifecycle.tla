---------------------------- MODULE RunLifecycle ----------------------------
(***************************************************************************)
(* The command service that drives the lifecycle of forecast runs          *)
(* (run_lifecycle/service.py), the repository it commits to                *)
(* (repository.py) and the lease manager beside it (lease.py).             *)
(*                                                                         *)
(* A worker is a process with two threads of control: one calls            *)
(* LifecycleService.execute, the other LeaseManager.acquire and renew      *)
(* (heartbeat) under the worker's owner and lease identifiers.  Every call *)
(* of the repository is atomic under the repository's lock; execute as a   *)
(* whole runs under the lock of its service; nothing spans the repository  *)
(* calls of the lease manager.  A step below is what happens between two   *)
(* points at which another thread can run.                                 *)
(*                                                                         *)
(* A sha256 stands for its content: a semantic command payload is a record,*)
(* and an event hash is the event's position and idempotency key, which    *)
(* tell two events of one run apart.                                       *)
(***************************************************************************)
EXTENDS RunTransitions, Sequences, FiniteSets

CONSTANTS
  Workers,          \* processes that execute commands and keep leases
  Services,         \* LifecycleService instances over the one repository
  ServiceOf,        \* the service each worker calls
  LeaseUsers,       \* the workers that take leases
  Runs,             \* run identifiers
  CommandTypes,     \* the commands clients of this instance issue
  Names,            \* names of outputs a handler can seal
  Hashes,           \* hashes of sealed outputs
  DeclaredKeys,     \* idempotency keys a client may declare
  TTL,              \* time to live of a lease
  NoHash, NoKey, NoHead, NoWorker, NoLease, NoJob

CONSTANTS           \* bounds of a checked instance
  MaxRevision, MaxTime, MaxToken, MaxDuplicates

ASSUME ServiceAssumption == ServiceOf \in [Workers -> Services]
ASSUME LeaseUserAssumption == LeaseUsers \subseteq Workers
ASSUME CommandTypesAssumption == CommandTypes \subseteq RunCommandType
ASSUME NullAssumption == NoHash \notin Hashes /\ NoKey \notin DeclaredKeys
                         /\ NoWorker \notin Workers
ASSUME BoundAssumption == /\ MaxRevision \in Nat /\ MaxTime \in Nat
                          /\ MaxToken \in Nat /\ MaxDuplicates \in Nat
                          /\ TTL \in Nat \ {0}

VARIABLES
  aggregate,     \* repository: the current RunAggregate of each run
  events,        \* repository: the event log of each run
  idempotency,   \* repository: record by effective idempotency key
  leases,        \* repository: the stored lease of each run
  fencing,       \* repository: the fencing counter of each run
  now,           \* the clock
  serviceLock,   \* the worker that holds each service's lock
  pc,            \* where a worker is inside execute
  job,           \* the local variables of that execute
  keeper,        \* where a worker is inside acquire or renew, and its locals
  tokens         \* the fencing token of the last lease a worker acquired

repository == <<aggregate, events, idempotency>>
leaseVars == <<leases, fencing, keeper, tokens>>
serviceVars == <<serviceLock, pc, job>>
vars == <<repository, leaseVars, serviceVars, now>>

-----------------------------------------------------------------------------
(* Commands, keys and sealed outputs.                                      *)

Outputs == [Names -> Hashes \cup {NoHash}]
NoOutputs == [n \in Names |-> NoHash]

Command == [run: Runs, type: RunCommandType, phase: RunPhase,
            expected_revision: Nat, requested: SUBSET Names,
            declared: DeclaredKeys \cup {NoKey}, token: Nat]

semantic_command_payload(c) ==
  [run |-> c.run, type |-> c.type, phase |-> c.phase,
   expected_revision |-> c.expected_revision, requested |-> c.requested]

effective_idempotency_key(c) ==
  IF c.declared = NoKey THEN semantic_command_payload(c) ELSE c.declared

already_sealed(agg, c) ==
  c.requested # {} /\ \A n \in c.requested : agg.outputs[n] # NoHash

ConflictIgnored(existing, added) == FALSE   \* faulty form of the next definition
MergeConflict(existing, added) ==
  \E n \in Names : existing[n] # NoHash /\ added[n] # NoHash /\ existing[n] # added[n]

merge_outputs(existing, added) ==
  [n \in Names |-> IF added[n] # NoHash THEN added[n] ELSE existing[n]]

EventHash(e) == <<e.sequence, e.key>>

InitialAggregate ==
  [phase |-> PLAN, status |-> "PENDING", revision |-> 0, head |-> NoHead,
   outputs |-> NoOutputs]

(* build_event.  The token is not part of the code's event: it records the *)
(* fencing token the command carried, 0 for none.                          *)
build_event(agg, c, rule, at, sealed) ==
  [sequence |-> agg.revision + 1, type |-> c.type,
   phase |-> rule.to_phase, status |-> rule.to_status,
   key |-> effective_idempotency_key(c), at |-> at, previous |-> agg.head,
   sealed |-> sealed, token |-> c.token]

new_aggregate(agg, e) ==
  [phase |-> e.phase, status |-> e.status, revision |-> e.sequence,
   head |-> EventHash(e), outputs |-> merge_outputs(agg.outputs, e.sealed)]

-----------------------------------------------------------------------------
(* LifecycleService.execute                                                *)

\* The service lock is free for w, or becomes free when w returns or raises.
LockIgnored(w) == TRUE   \* faulty form of the next definition
LockIsFree(w) == serviceLock[ServiceOf[w]] = NoWorker
TakeLock(w) == serviceLock' = [serviceLock EXCEPT ![ServiceOf[w]] = w]
Return(w) ==
  /\ serviceLock' = [serviceLock EXCEPT ![ServiceOf[w]] = NoWorker]
  /\ pc' = [pc EXCEPT ![w] = "idle"]
  /\ job' = [job EXCEPT ![w] = NoJob]

(* A client addresses a state of the run it has read or, before it has the *)
(* answer to its last command, one it expects; a phase the run did not     *)
(* have at a revision it had is always rejected.                           *)
PhaseAt(run, rev) == IF rev = 0 THEN PLAN ELSE events[run][rev].phase

ClientCommands(w) ==
  { c \in [run: Runs, type: CommandTypes, phase: RunPhase,
           expected_revision: 0..(MaxRevision - 1), requested: SUBSET Names,
           declared: DeclaredKeys \cup {NoKey}, token: 0..MaxToken] :
      /\ c.expected_revision <= Len(events[c.run])
           => c.phase = PhaseAt(c.run, c.expected_revision)
      /\ c.token \in {0, tokens[w][c.run]} }

(* Entry: the lock is taken and the idempotency key looked up.  A key that *)
(* was declared for another payload is a conflict and raises.              *)
Lookup(w, c) ==
  LET key == effective_idempotency_key(c)
      local == [command |-> c, aggregate |-> InitialAggregate, at |-> 0,
                sealed |-> NoOutputs, duplicates |-> 0]
  IN  /\ pc[w] = "idle" /\ LockIsFree(w)
      /\ TakeLock(w)
      /\ \/ /\ key \notin DOMAIN idempotency
            /\ pc' = [pc EXCEPT ![w] = "read"]
            /\ job' = [job EXCEPT ![w] = local]
         \/ /\ key \in DOMAIN idempotency
            /\ idempotency[key].payload = semantic_command_payload(c)
            /\ idempotency[key].duplicates < MaxDuplicates
            /\ pc' = [pc EXCEPT ![w] = "duplicate"]
            /\ job' = [job EXCEPT ![w] =
                         [local EXCEPT !.duplicates = idempotency[key].duplicates]]
      /\ UNCHANGED <<repository, leaseVars, now>>

(* _return_duplicate: the record read at entry is written back with one    *)
(* more observation.                                                       *)
ReturnDuplicate(w) ==
  LET key == effective_idempotency_key(job[w].command)
  IN  /\ pc[w] = "duplicate"
      /\ idempotency' = [idempotency EXCEPT ![key].duplicates = job[w].duplicates + 1]
      /\ Return(w)
      /\ UNCHANGED <<aggregate, events, leaseVars, now>>

\* The transition is decided on what was read of the run, and the time of the
\* event taken.
Decide(w, read) ==
  IF decide(read, job[w].command) # {}
  THEN /\ pc' = [pc EXCEPT ![w] = "effect"]
       /\ job' = [job EXCEPT ![w] = [@ EXCEPT !.aggregate = read, !.at = now]]
       /\ UNCHANGED serviceLock
  ELSE Return(w)

\* The aggregate is read.  A command without a lease is decided in the same step:
\* only the clock is read after, and a commit of others in between has this one
\* refused.
Read(w) ==
  LET c == job[w].command
  IN  /\ pc[w] = "read"
      /\ IF c.token = 0 THEN Decide(w, aggregate[c.run])
         ELSE /\ pc' = [pc EXCEPT ![w] = "lease"]
              /\ job' = [job EXCEPT ![w].aggregate = aggregate[c.run]]
              /\ UNCHANGED serviceLock
      /\ UNCHANGED <<repository, leaseVars, now>>

\* _require_live_owner.  A worker stands for its owner and lease identifiers.
live_owner(w, run) ==
  leases[run] # NoLease /\ leases[run].owner = w /\ now < leases[run].expires_at

\* assert_mutation_allowed: the stored lease is one call of the repository and
\* the fencing counter another; the lease may be taken over in between.
AssertLease(w) ==
  LET c == job[w].command
  IN  /\ pc[w] = "lease"
      /\ IF live_owner(w, c.run) /\ c.token = leases[c.run].token
         THEN pc' = [pc EXCEPT ![w] = "fence"] /\ UNCHANGED <<serviceLock, job>>
         ELSE Return(w)
      /\ UNCHANGED <<repository, leaseVars, now>>

AssertToken(w) ==
  LET c == job[w].command
  IN  /\ pc[w] = "fence"
      /\ IF c.token = fencing[c.run] THEN Decide(w, job[w].aggregate) ELSE Return(w)
      /\ UNCHANGED <<repository, leaseVars, now>>

\* The requested outputs are all sealed already, or there is no handler.
SkipEffect(w) ==
  /\ pc[w] = "effect"
  /\ pc' = [pc EXCEPT ![w] = "commit"]
  /\ UNCHANGED <<repository, leaseVars, serviceLock, job, now>>

\* The handler returns what it sealed; an output sealed before with another
\* hash makes _merge_outputs raise.
HandlerReturns(w, sealed) ==
  LET c == job[w].command
      existing == job[w].aggregate.outputs
  IN  /\ pc[w] = "effect"
      /\ ~ already_sealed(job[w].aggregate, c)
      /\ IF MergeConflict(existing, sealed)
         THEN Return(w)
         ELSE /\ pc' = [pc EXCEPT ![w] = "commit"]
              /\ job' = [job EXCEPT ![w].sealed = sealed]
              /\ UNCHANGED serviceLock
      /\ UNCHANGED <<repository, leaseVars, now>>

HandlerRaises(w) ==
  /\ pc[w] = "effect"
  /\ ~ already_sealed(job[w].aggregate, job[w].command)
  /\ Return(w)
  /\ UNCHANGED <<repository, leaseVars, now>>

\* Faulty forms of the next definition, for the mutants.
CommitAllowedUnfenced(c, e) ==
  /\ aggregate[c.run].revision = c.expected_revision
  /\ e.previous = aggregate[c.run].head
  /\ e.key \notin DOMAIN idempotency
CommitAllowedAtAnyRevision(c, e) ==
  e.key \notin DOMAIN idempotency /\ (c.token # 0 => c.token = fencing[c.run])
CommitAllowedForAnyKey(c, e) ==
  /\ aggregate[c.run].revision = c.expected_revision
  /\ e.previous = aggregate[c.run].head
  /\ c.token # 0 => c.token = fencing[c.run]

\* The checks of commit_command, in the repository's lock.
CommitAllowed(c, e) ==
  /\ aggregate[c.run].revision = c.expected_revision
  /\ e.sequence = aggregate[c.run].revision + 1
  /\ e.previous = aggregate[c.run].head
  /\ e.key \notin DOMAIN idempotency
  /\ c.token # 0 => c.token = fencing[c.run]

\* The event is built from the aggregate that was decided on and committed
\* with the new aggregate and the idempotency record, or commit_command raises.
Commit(w) ==
  LET c == job[w].command
      agg == job[w].aggregate
  IN  /\ pc[w] = "commit"
      /\ \E rule \in decide(agg, c) :
           LET e == build_event(agg, c, rule, job[w].at, job[w].sealed)
           IN  IF CommitAllowed(c, e)
               THEN /\ events' = [events EXCEPT ![c.run] = Append(@, e)]
                    /\ aggregate' = [aggregate EXCEPT ![c.run] = new_aggregate(agg, e)]
                    /\ idempotency' =
                         [k \in DOMAIN idempotency \cup {e.key} |->
                            IF k = e.key
                            THEN [payload |-> semantic_command_payload(c),
                                  duplicates |-> 0]
                            ELSE idempotency[k]]
               ELSE UNCHANGED repository
      /\ Return(w)
      /\ UNCHANGED <<leaseVars, now>>

-----------------------------------------------------------------------------
(* LeaseManager.acquire and renew                                          *)

KeeperIdle == [at |-> "idle"]

\* The clock is read, then the stored lease: an unexpired one raises.
AcquireCheck(w, run) ==
  /\ w \in LeaseUsers /\ keeper[w] = KeeperIdle
  /\ leases[run] # NoLease => now >= leases[run].expires_at
  /\ keeper' = [keeper EXCEPT ![w] = [at |-> "token", run |-> run, time |-> now]]
  /\ UNCHANGED <<repository, serviceVars, leases, fencing, tokens, now>>

TokenNotAdvanced(run) == fencing[run]   \* faulty form of the next definition
NextToken(run) == fencing[run] + 1

AcquireToken(w) ==
  /\ keeper[w].at = "token"
  /\ LET run == keeper[w].run
         token == NextToken(run)
     IN  /\ token <= MaxToken
         /\ fencing' = [fencing EXCEPT ![run] = token]
         /\ keeper' = [keeper EXCEPT ![w] =
                         [at |-> "save", run |-> run, time |-> keeper[w].time,
                          token |-> token]]
  /\ UNCHANGED <<repository, serviceVars, leases, tokens, now>>

\* Faulty form of the next definition: the counter follows the saved lease back.
SaveOverCounter(run, lease) ==
  /\ leases' = [leases EXCEPT ![run] = lease]
  /\ fencing' = [fencing EXCEPT ![run] = lease.token]

save_lease(run, lease) ==
  /\ leases' = [leases EXCEPT ![run] = lease]
  /\ fencing' = [fencing EXCEPT ![run] = IF lease.token > @ THEN lease.token ELSE @]

AcquireSave(w) ==
  /\ keeper[w].at = "save"
  /\ save_lease(keeper[w].run,
                [owner |-> w, expires_at |-> keeper[w].time + TTL,
                 token |-> keeper[w].token])
  /\ tokens' = [tokens EXCEPT ![w][keeper[w].run] = keeper[w].token]
  /\ keeper' = [keeper EXCEPT ![w] = KeeperIdle]
  /\ UNCHANGED <<repository, serviceVars, now>>

RenewCheck(w, run) ==
  /\ w \in LeaseUsers /\ keeper[w] = KeeperIdle
  /\ live_owner(w, run)
  /\ keeper' = [keeper EXCEPT ![w] =
                  [at |-> "renew", run |-> run, time |-> now, token |-> leases[run].token]]
  /\ UNCHANGED <<repository, serviceVars, leases, fencing, tokens, now>>

\* The new expiry counts from a second reading of the clock, no older than
\* the one of the ownership check.
RenewSave(w) ==
  /\ keeper[w].at = "renew"
  /\ \E time \in keeper[w].time .. now :
       save_lease(keeper[w].run,
                  [owner |-> w, expires_at |-> time + TTL, token |-> keeper[w].token])
  /\ keeper' = [keeper EXCEPT ![w] = KeeperIdle]
  /\ UNCHANGED <<repository, serviceVars, tokens, now>>

Tick ==
  /\ now < MaxTime
  /\ now' = now + 1
  /\ UNCHANGED <<repository, leaseVars, serviceVars>>

-----------------------------------------------------------------------------
Init ==
  /\ aggregate = [r \in Runs |-> InitialAggregate]
  /\ events = [r \in Runs |-> << >>]
  /\ idempotency = << >>
  /\ leases = [r \in Runs |-> NoLease]
  /\ fencing = [r \in Runs |-> 0]
  /\ now = 0
  /\ serviceLock = [s \in Services |-> NoWorker]
  /\ pc = [w \in Workers |-> "idle"]
  /\ job = [w \in Workers |-> NoJob]
  /\ keeper = [w \in Workers |-> KeeperIdle]
  /\ tokens = [w \in Workers |-> [r \in Runs |-> 0]]

Execute(w) ==
  \/ \E c \in ClientCommands(w) : Lookup(w, c)
  \/ ReturnDuplicate(w)
  \/ Read(w) \/ AssertLease(w) \/ AssertToken(w)
  \/ SkipEffect(w)
  \/ \E sealed \in Outputs : HandlerReturns(w, sealed)
  \/ HandlerRaises(w)
  \/ Commit(w)

KeepLease(w) ==
  \/ \E run \in Runs : AcquireCheck(w, run) \/ RenewCheck(w, run)
  \/ AcquireToken(w)
  \/ AcquireSave(w)
  \/ RenewSave(w)

Next == Tick \/ \E w \in Workers : Execute(w) \/ KeepLease(w)

Spec == Init /\ [][Next]_vars

-----------------------------------------------------------------------------
(* Types                                                                   *)

Key == DeclaredKeys \cup [run: Runs, type: RunCommandType, phase: RunPhase,
                          expected_revision: Nat, requested: SUBSET Names]

Aggregate == [phase: RunPhase, status: RunStatus, revision: Nat,
              head: {NoHead} \cup (Nat \X Key), outputs: Outputs]

Event == [sequence: Nat, type: RunCommandType, phase: RunPhase,
          status: RunStatus, key: Key, at: Nat,
          previous: {NoHead} \cup (Nat \X Key), sealed: Outputs, token: Nat]

Lease == [owner: Workers, expires_at: Nat, token: Nat \ {0}]

Job == [command: Command, aggregate: Aggregate, at: Nat, sealed: Outputs,
        duplicates: Nat]

Keeper == {KeeperIdle}
          \cup [at: {"token"}, run: Runs, time: Nat]
          \cup [at: {"save", "renew"}, run: Runs, time: Nat, token: Nat \ {0}]

IdempotencyRecord == [payload: Key, duplicates: Nat]

Places == {"idle", "duplicate", "read", "lease", "fence", "effect", "commit"}

(* Every variable has the shape of the contract models: revisions and times*)
(* are not negative, a stored lease and a lease in the making carry a      *)
(* positive fencing token, and a worker inside execute has its locals.     *)
TypeOK ==
  /\ aggregate \in [Runs -> Aggregate]
  /\ events \in [Runs -> Seq(Event)]
  /\ \A k \in DOMAIN idempotency : k \in Key /\ idempotency[k] \in IdempotencyRecord
  /\ leases \in [Runs -> Lease \cup {NoLease}]
  /\ fencing \in [Runs -> Nat]
  /\ now \in Nat
  /\ serviceLock \in [Services -> Workers \cup {NoWorker}]
  /\ pc \in [Workers -> Places]
  /\ job \in [Workers -> Job \cup {NoJob}]
  /\ \A w \in Workers : pc[w] # "idle" => job[w] \in Job
  /\ keeper \in [Workers -> Keeper]
  /\ tokens \in [Workers -> [Runs -> Nat]]

-----------------------------------------------------------------------------
(* Replay (events.py, replay.py): what the log of a run says of the run.   *)

\* The outputs the first n events seal, the first binding of a name kept.
ReplayedOutputs(log, n) ==
  [name \in Names |->
     IF \E i \in 1..n : log[i].sealed[name] # NoHash
     THEN LET first == CHOOSE i \in 1..n :
                         /\ log[i].sealed[name] # NoHash
                         /\ \A j \in 1..(i - 1) : log[j].sealed[name] = NoHash
          IN  log[first].sealed[name]
     ELSE NoHash]

verify_event_chain(log) ==
  \A i \in 1..Len(log) :
    LET e == log[i]
        prior == IF i = 1
                 THEN [phase |-> PLAN, status |-> "PENDING", head |-> NoHead, at |-> 0]
                 ELSE [phase |-> log[i - 1].phase, status |-> log[i - 1].status,
                       head |-> EventHash(log[i - 1]), at |-> log[i - 1].at]
    IN  /\ e.sequence = i
        /\ e.previous = prior.head
        /\ e.at >= prior.at
        /\ \E r \in MatrixRules(prior.phase, prior.status, e.type) :
             e.phase = r.to_phase /\ e.status = r.to_status
        /\ ~ MergeConflict(ReplayedOutputs(log, i - 1), e.sealed)

replay_events(log) ==
  IF log = << >> THEN InitialAggregate
  ELSE LET last == log[Len(log)]
       IN  [phase |-> last.phase, status |-> last.status, revision |-> last.sequence,
            head |-> EventHash(last), outputs |-> ReplayedOutputs(log, Len(log))]

-----------------------------------------------------------------------------
(* Safety                                                                  *)

(* The log of every run passes verify_event_chain (gap-free, chained, times*)
(* not going back, only matrix transitions, no sealed output regenerated   *)
(* with another hash) and its replay is the stored aggregate, whatever     *)
(* services and handlers raced to commit.                                  *)
ReplayMatchesAggregate ==
  \A r \in Runs : /\ verify_event_chain(events[r])
                  /\ replay_events(events[r]) = aggregate[r]

(* An idempotency key is committed at most once over all runs and services,*)
(* and there is a record for exactly the keys of committed events.         *)
KeyCommittedOnce ==
  /\ \A r, s \in Runs : \A i \in 1..Len(events[r]), j \in 1..Len(events[s]) :
       events[r][i].key = events[s][j].key => r = s /\ i = j
  /\ DOMAIN idempotency =
       UNION { { events[r][i].key : i \in 1..Len(events[r]) } : r \in Runs }

\* Every token worker w holds or is about to hold for run r.
TokensOf(w, r) ==
  {tokens[w][r]} \cup (IF keeper[w].at \in {"save", "renew"} /\ keeper[w].run = r
                       THEN {keeper[w].token} ELSE {})

(* However acquirers and heartbeats race, no two workers are ever given the*)
(* same fencing token of a run, and no token exceeds the counter that a    *)
(* commit is checked against.                                              *)
TokensUnique ==
  \A r \in Runs :
    /\ \A v, w \in Workers : v # w => (TokensOf(v, r) \cap TokensOf(w, r)) \subseteq {0}
    /\ \A w \in Workers : \A t \in TokensOf(w, r) : t <= fencing[r]
    /\ leases[r] # NoLease => leases[r].token <= fencing[r]

(* The leased events of a run carry tokens that never go back: a worker    *)
(* whose lease was taken over while its handler ran adds nothing to the log*)
(* after an event of the new owner.                                        *)
FencedLog ==
  \A r \in Runs : \A i, j \in 1..Len(events[r]) :
    i < j /\ events[r][i].token # 0 /\ events[r][j].token # 0
      => events[r][i].token <= events[r][j].token

(* A mutation under a lease never lands once another worker has taken the  *)
(* lease over, even if its own lease was live when the handler started.    *)
NoMutationAfterTakeover ==
  [][\A r \in Runs :
       Len(events'[r]) > Len(events[r]) =>
         LET token == events'[r][Len(events'[r])].token
         IN  token # 0 => \A w \in Workers : tokens[w][r] <= token]_vars

(* A worker inside a handler works on a key nobody has committed: a        *)
(* duplicate command never reaches its handler again after its commit.  It *)
(* is the promise of execute within one service instance.                  *)
NoHandlerAfterCommit ==
  \A w \in Workers :
    pc[w] \in {"effect", "commit"} =>
      effective_idempotency_key(job[w].command) \notin DOMAIN idempotency

(* A run that was cancelled, failed for good or completed stays as it is,  *)
(* also when the handler of an earlier command of another service is still *)
(* running at that moment.                                                 *)
TerminalIsFinal ==
  [][\A r \in Runs : is_terminal(aggregate[r]) =>
       aggregate'[r] = aggregate[r] /\ events'[r] = events[r]]_vars

(* A sealed output keeps its hash for the rest of the run.                 *)
SealedIsImmutable ==
  [][\A r \in Runs, n \in Names : aggregate[r].outputs[n] # NoHash =>
       aggregate'[r].outputs[n] = aggregate[r].outputs[n]]_vars

-----------------------------------------------------------------------------
(* What the documents say and the code does not do                         *)

(* SPECIFICATION.md: an unexpired lease cannot be taken over.              *)
UnexpiredLeaseKept ==
  [][\A r \in Runs : leases[r] # NoLease /\ now < leases[r].expires_at =>
       leases'[r].owner = leases[r].owner]_vars
=============================================================================

------------------------- MODULE RegistryTransaction -------------------------
(***************************************************************************)
(* The three file registries campaigns commit to with a compare and swap:  *)
(*   P19  autogluon_campaign/registry_transaction.py, the model registry;  *)
(*   P8   sktime_campaign/registry_transaction.py, the model registry;     *)
(*   P9   sktime_campaign/deployment_canary.py, the canary slot.           *)
(* Each is one JSON document, replaced atomically by a process that holds  *)
(* an flock on a file beside it; a process then writes an evidence         *)
(* directory and verifies it.  Operators are processes that run a request, *)
(* die, and run the very same request again with a fresh directory.        *)
(*                                                                         *)
(* The document is its history; its hash stands for the whole history      *)
(* (every record seals its predecessor), so a request names the history it *)
(* expects.  A binding is the subject of the last record's authorization.  *)
(* The run is part of the record in P19 only; P8 and P9 never compare it.  *)
(***************************************************************************)
EXTENDS Integers, Sequences, FiniteSets

CONSTANTS Operators, Bootstrappers, Auths, Nonces,
          Subject,        \* the model an authorization registers
          MaxTries,       \* bound on the invocations of one operator
          NoOne

ASSUME TransactionAssumption ==
  /\ MaxTries \in Nat /\ NoOne \notin Operators
  /\ DOMAIN Subject = Auths

Backends == {"P8", "P9", "P19"}
Entries == [auth : Auths, nonce : Nonces, run : Operators, over : Nat]
Requests == [auth : Auths, nonce : Nonces, run : Operators,
             expected : Seq(Entries)]

VARIABLES
  backend,       \* which of the three registries this is
  present,       \* whether the document exists
  history,       \* its history
  lock,          \* who holds the flock
  boot,          \* the step each bootstrapping process is at
  phase,         \* the step each operator is at, or how its invocation ended
  request,       \* the request each operator runs, again and again
  inWindow,      \* whether committed_at lies in the authorization's window
  pre,           \* pre_state, as read under the lock
  record,        \* the history record written, or found
  wrote,         \* registry_write_executed
  tries,
  evidence       \* the complete evidence directories, each its invocation's own

documents == <<present, history>>
invocation == <<inWindow, pre, record, wrote, tries>>
vars == <<backend, present, history, lock, boot, phase, request, inWindow, pre,
          record, wrote, tries, evidence>>

Resting == {"ready", "certified", "stale", "refused", "mismatch", "unverified",
            "crashed"}
Holding == {"locked", "replace", "confirm"}
Active == Holding \union {"waiting", "compare", "publish", "verify"}

\* The record a request is committed as.
EntryOf(r) ==
  [auth |-> r.auth, nonce |-> r.nonce, run |-> r.run, over |-> Len(r.expected)]

Post(p) == IF wrote[p] THEN Append(pre[p], record[p]) ELSE pre[p]

\* The history t begins with the history s.
Begins(s, t) == Len(s) <= Len(t) /\ \A i \in 1..Len(s) : s[i] = t[i]

Goto(p, step) == phase' = [phase EXCEPT ![p] = step]

Init ==
  /\ backend \in Backends
  /\ present = FALSE /\ history = << >> /\ lock = NoOne
  /\ boot = [b \in Bootstrappers |-> "idle"]
  /\ phase = [p \in Operators |-> "new"]
  /\ request = [p \in Operators |-> NoOne]
  /\ inWindow = [p \in Operators |-> FALSE]
  /\ pre = [p \in Operators |-> << >>]
  /\ record = [p \in Operators |-> NoOne]
  /\ wrote = [p \in Operators |-> FALSE]
  /\ tries = [p \in Operators |-> 0]
  /\ evidence = {}

(* ------------------------------- bootstrap ------------------------------ *)

\* bootstrap_registry takes no lock: the document is looked for, and later
\* put in place whatever is there by then.
FindNoDocument(b) ==
  /\ boot[b] = "idle" /\ ~present
  /\ boot' = [boot EXCEPT ![b] = "create"]
  /\ UNCHANGED <<backend, documents, lock, phase, request, invocation, evidence>>

CreateDocument(b) ==
  /\ boot[b] = "create"
  /\ boot' = [boot EXCEPT ![b] = "done"]
  /\ present' = TRUE /\ history' = << >>
  /\ UNCHANGED <<backend, lock, phase, request, invocation, evidence>>

(* ------------------------------- requests ------------------------------- *)

\* A reviewed request names the state its author saw; another operator may be
\* handed the same one.
Prepare(p) ==
  /\ phase[p] = "new"
  /\ \/ /\ present
        /\ \E a \in Auths, n \in Nonces :
             request' = [request EXCEPT ![p] =
               [auth |-> a, nonce |-> n, run |-> p, expected |-> history]]
     \/ \E q \in Operators :
          /\ phase[q] # "new"
          /\ request' = [request EXCEPT ![p] = request[q]]
  /\ Goto(p, "ready")
  /\ UNCHANGED <<backend, documents, lock, boot, invocation, evidence>>

\* committed_at_utc is an argument.  Only P9 looks at the clock before it
\* takes the lock, so also for an exact retry.
Start(p) ==
  /\ phase[p] \in Resting /\ tries[p] < MaxTries
  /\ tries' = [tries EXCEPT ![p] = @ + 1]
  /\ \E ok \in BOOLEAN :
       /\ inWindow' = [inWindow EXCEPT ![p] = ok]
       /\ Goto(p, IF backend = "P9" /\ ~ok THEN "refused" ELSE "waiting")
  /\ UNCHANGED <<backend, documents, lock, boot, request, pre, record, wrote,
                 evidence>>

(* ---------------------------- under the lock ---------------------------- *)

Acquire(p) ==
  /\ phase[p] = "waiting" /\ lock = NoOne
  /\ lock' = p
  /\ Goto(p, "locked")
  /\ UNCHANGED <<backend, documents, boot, request, invocation, evidence>>

UsesAuth(i, r) == history[i].auth = r.auth
UsesNonce(i, r) == history[i].nonce = r.nonce

\* The record a request is an exact retry of: P19 compares the whole request,
\* P8 the authorization and the nonce, P9 those of the active canary.
IsRetry(i, r) ==
  /\ UsesAuth(i, r) /\ UsesNonce(i, r)
  /\ backend = "P19" => /\ history[i] = EntryOf(r)
                        /\ Begins(r.expected, history)
                        /\ \A j \in DOMAIN history :
                             UsesAuth(j, r) \/ UsesNonce(j, r) => j = i
  /\ backend = "P9" => i = Len(history)

Retries(r) == {i \in DOMAIN history : IsRetry(i, r)}

\* What is refused before, and what after the compare and swap.  P9 allows one
\* canary, and nothing takes it away again.
RefusedFirst(p) ==
  \/ ~present
  \/ backend = "P19" /\ (\/ ~inWindow[p]
                         \/ \E i \in DOMAIN history :
                              UsesAuth(i, request[p]) \/ UsesNonce(i, request[p]))
  \/ backend = "P8" /\ \E i \in DOMAIN history : UsesAuth(i, request[p])
RefusedLater(p) ==
  \/ backend = "P8" /\ (\/ ~inWindow[p]
                        \/ \E i \in DOMAIN history : UsesNonce(i, request[p]))
  \/ backend = "P9" /\ history # << >>

\* Mutant of IsStale.
SameGeneration(p) == Len(request[p].expected) > Len(history)

IsStale(p) == request[p].expected # history

AfterLock == IF backend = "P19" THEN "compare" ELSE "publish"

\* Mutant of Unlock.
KeepLock == UNCHANGED lock

Unlock == lock' = NoOne

Replay(p) ==
  /\ Retries(request[p]) # {}
  /\ \E i \in Retries(request[p]) :
       record' = [record EXCEPT ![p] = history[i]]
  /\ wrote' = [wrote EXCEPT ![p] = FALSE]
  /\ Unlock
  /\ Goto(p, AfterLock)

Refuse(p) ==
  /\ Retries(request[p]) = {}
  /\ \/ RefusedFirst(p) /\ Goto(p, "refused")
     \/ ~RefusedFirst(p) /\ IsStale(p) /\ Goto(p, "stale")
     \/ ~RefusedFirst(p) /\ ~IsStale(p) /\ RefusedLater(p) /\ Goto(p, "refused")
  /\ Unlock
  /\ UNCHANGED <<record, wrote>>

Accept(p) ==
  /\ Retries(request[p]) = {}
  /\ ~RefusedFirst(p) /\ ~IsStale(p) /\ ~RefusedLater(p)
  /\ record' = [record EXCEPT ![p] = EntryOf(request[p])]
  /\ wrote' = [wrote EXCEPT ![p] = TRUE]
  /\ Goto(p, "replace")
  /\ UNCHANGED lock

\* The document is read once; everything decided comes from that copy.
Decide(p) ==
  /\ phase[p] = "locked"
  /\ pre' = [pre EXCEPT ![p] = history]
  /\ Replay(p) \/ Refuse(p) \/ Accept(p)
  /\ UNCHANGED <<backend, documents, boot, request, inWindow, tries, evidence>>

\* os.replace of the synced temporary file.
Replace(p) ==
  /\ phase[p] = "replace"
  /\ present' = TRUE /\ history' = Post(p)
  /\ Goto(p, "confirm")
  /\ UNCHANGED <<backend, lock, boot, request, invocation, evidence>>

Confirm(p) ==
  /\ phase[p] = "confirm"
  /\ Unlock
  /\ Goto(p, IF history = Post(p) THEN AfterLock ELSE "mismatch")
  /\ UNCHANGED <<backend, documents, boot, request, invocation, evidence>>

(* ---------------------------- after the lock ---------------------------- *)

\* Mutant of Compared.
MovedOnIsStale(p) == IF history = Post(p) THEN "publish" ELSE "stale"

Compared(p) == IF history = Post(p) THEN "publish" ELSE "mismatch"

\* P19 reads the document again, without the lock.
Compare(p) ==
  /\ phase[p] = "compare"
  /\ Goto(p, Compared(p))
  /\ UNCHANGED <<backend, documents, lock, boot, request, invocation, evidence>>

\* Mutant of Claim: a replay shows the commit it found as its own.
ClaimsTheCommit(p) ==
  [operator |-> p, try |-> tries[p], record |-> record[p], wrote |-> TRUE,
   pre |-> SubSeq(Post(p), 1, record[p].over),
   post |-> SubSeq(Post(p), 1, record[p].over + 1)]

\* What the directory of this invocation says.  The output must be a new or an
\* empty directory, so no two invocations share one.
Claim(p) ==
  [operator |-> p, try |-> tries[p], record |-> record[p], wrote |-> wrote[p],
   pre |-> pre[p], post |-> Post(p)]

\* The directory is complete once its SHA256SUMS is written, the last file.
Publish(p) ==
  /\ phase[p] = "publish"
  /\ evidence' = evidence \union {Claim(p)}
  /\ Goto(p, "verify")
  /\ UNCHANGED <<backend, documents, lock, boot, request, invocation>>

\* verify_registry_transaction, verify_p8 and verify_p9 want the post state to
\* be bound to the subject of the request; P8 wants its last record, too.
Verifies(p) ==
  LET last == Post(p)[Len(Post(p))]
  IN  /\ Subject[last.auth] = Subject[request[p].auth]
      /\ backend = "P8" => last = record[p]

Verify(p) ==
  /\ phase[p] = "verify"
  /\ Goto(p, IF Verifies(p) THEN "certified" ELSE "unverified")
  /\ UNCHANGED <<backend, documents, lock, boot, request, invocation, evidence>>

\* The kernel drops the flock of a dead process.
Crash(p) ==
  /\ phase[p] \in Active
  /\ lock' = IF lock = p THEN NoOne ELSE lock
  /\ Goto(p, "crashed")
  /\ UNCHANGED <<backend, documents, boot, request, invocation, evidence>>

(* ---------------------------- specification ----------------------------- *)

Work(p) ==
  Decide(p) \/ Replace(p) \/ Confirm(p) \/ Compare(p) \/ Publish(p) \/ Verify(p)

Next ==
  \/ \E b \in Bootstrappers : FindNoDocument(b) \/ CreateDocument(b)
  \/ \E p \in Operators : \/ Prepare(p) \/ Start(p) \/ Acquire(p) \/ Crash(p)
                          \/ Work(p)

Safety == Init /\ [][Next]_vars

\* A live process takes its next step; flock wakes its waiters in turn.
Fairness == \A p \in Operators : WF_vars(Work(p)) /\ SF_vars(Acquire(p))

Spec == Safety /\ Fairness

(* ------------------------------ properties ------------------------------ *)

\* The type invariant.
TypeOK ==
  /\ backend \in Backends /\ present \in BOOLEAN /\ history \in Seq(Entries)
  /\ lock \in Operators \union {NoOne}
  /\ boot \in [Bootstrappers -> {"idle", "create", "done"}]
  /\ phase \in [Operators -> Active \union Resting \union {"new"}]
  /\ request \in [Operators -> Requests \union {NoOne}]
  /\ \A p \in Operators : phase[p] # "new" => request[p] \in Requests
  /\ record \in [Operators -> Entries \union {NoOne}]
  /\ \A p \in Operators : phase[p] = "replace" => record[p] \in Entries
  /\ inWindow \in [Operators -> BOOLEAN] /\ wrote \in [Operators -> BOOLEAN]
  /\ pre \in [Operators -> Seq(Entries)]
  /\ tries \in [Operators -> 0..MaxTries]

Register ==
  INSTANCE CasRegister WITH ledger <- history, Runs <- Operators,
                            certified <- {e.record : e \in evidence}

\* The lock, the compare and swap and the two ledgers make the file the
\* register it is meant to be, through crashes, retries and handed over
\* requests: no generation is lost, none is appended to a state its author
\* had not seen, and nothing is certified that is not in the ledger.
ImplementsRegister == Register!Spec

\* A published directory tells the truth for good: its post state remains part
\* of the history, and of all the directories that operators publish for one
\* record, each by an invocation of its own, a single one claims to have
\* written it (registry_write_executed), over the state it shows as the one
\* before.
EvidenceIsTrue ==
  \A e \in evidence :
    /\ Begins(e.post, history)
    /\ e.wrote => /\ e.post = Append(e.pre, e.record)
                  /\ \A f \in evidence :
                       f.wrote /\ f.record = e.record => f = e

\* Whoever is told that a request is stale may forget it: it is not in the
\* ledger, and the state it names never comes back, so neither the operator nor
\* one it was handed to ever gets it in.
StaleStaysOut ==
  \A p \in Operators, i \in DOMAIN history :
    phase[p] = "stale" => history[i] # EntryOf(request[p])

\* Every invocation returns, whatever the others do: nobody who dies or fails
\* leaves the lock behind.
InvocationsReturn ==
  \A p \in Operators : phase[p] = "waiting" ~> phase[p] \in Resting

\* docs/autogluon/P19_REGISTRY_TRANSACTION.md: "If evidence publication fails
\* after a registry commit, an exact retry with a fresh empty evidence directory
\* recreates evidence".
RetryRecreatesEvidence ==
  \A p \in Operators :
    backend = "P19" /\ phase[p] = "unverified" =>
      \A i \in DOMAIN history : history[i] # EntryOf(request[p])
=============================================================================

---------------------------- MODULE WebhookStore ----------------------------
(***************************************************************************)
(* The durable delivery store of src/src/loto/github_webhooks/store.py:    *)
(* deliveries, the outbox rows their handlers work from, dead letters and  *)
(* the status history.  Each method is one BEGIN IMMEDIATE transaction,    *)
(* so one action.  The workers that call it are external: they claim,      *)
(* answer late, die with claims in hand, and share one clock.              *)
(*                                                                         *)
(* Timestamps are kept relative to that clock: `wait` is what is left      *)
(* until available_at, `age` the time since locked_at (kept up to the      *)
(* first value older than the lease).                                      *)
(***************************************************************************)
EXTENDS Integers, Sequences, FiniteSets, SequencesExt, FiniteSetsExt

CONSTANTS Deliveries, Payloads, Workers,
          Handlers,       \* dispatch_handlers: a sequence of distinct handlers
          MaxAttempts, BaseBackoff, MaxBackoff,
          Lease,          \* now - before, where the sweep is called
          MaxBatch,       \* bound on the limit of a claim_ready call
          MaxSweeps,      \* bound on the sweeps that find something
          NotStored, NoOne

ASSUME PolicyAssumption ==
  /\ MaxAttempts \in 1..20 /\ BaseBackoff \in 1..3600
  /\ MaxBackoff \in BaseBackoff..86400
  /\ Handlers \in Seq(Range(Handlers)) /\ Handlers # << >> /\ IsInjective(Handlers)
  /\ Lease \in Nat /\ MaxSweeps \in Nat /\ MaxBatch \in 1..100
ASSUME NotStoredAssumption ==
  NotStored \notin [payload : Payloads, status : {"QUEUED", "PROCESSED", "DEAD_LETTER"}]

VARIABLES
  delivery,      \* github_webhook_deliveries: payload hash and status
  outbox,        \* github_webhook_outbox; the id of a row is its index
  deadLetters,   \* github_webhook_dead_letters: row id and attempt
  history,       \* github_webhook_status_history: <<from, to>> per delivery
  claims,        \* the HandlerClaims workers have in hand
  sweeps         \* sweeps so far that found something

vars == <<delivery, outbox, deadLetters, history, claims, sweeps>>

Stored == {d \in Deliveries : delivery[d] # NotStored}
RowsOf(d) == {i \in DOMAIN outbox : outbox[i].delivery = d}
LockedBy(row, w) == row.status = "PROCESSING" /\ row.locked_by = w
Unlocked(row, status, wait) ==
  [row EXCEPT !.status = status, !.wait = wait, !.age = 0, !.locked_by = NoOne]

(* ------------------------------ operations ------------------------------ *)

\* The answers DUPLICATE (same hash) and CONFLICT change nothing.
Accept(d) == delivery[d] = NotStored
NewRows(d) ==
  [k \in DOMAIN Handlers |->
     [delivery |-> d, handler |-> Handlers[k], status |-> "PENDING",
      attempt |-> 0, wait |-> 0, age |-> 0, locked_by |-> NoOne]]
store_delivery(d, p) ==
  /\ Accept(d)
  /\ delivery' = [delivery EXCEPT ![d] = [payload |-> p, status |-> "QUEUED"]]
  /\ history' = [history EXCEPT ![d] = << <<NotStored, "QUEUED">> >>]
  /\ outbox' = outbox \o NewRows(d)
  /\ UNCHANGED <<deadLetters, claims, sweeps>>

Ready(row) == row.status \in {"PENDING", "RETRY"} /\ row.wait = 0

\* ORDER BY id LIMIT limit.
FirstReady(limit) ==
  {i \in DOMAIN outbox :
     /\ Ready(outbox[i])
     /\ Cardinality({j \in 1..i : Ready(outbox[j])}) <= limit}

claim_ready(w, limit) ==
  LET ids == FirstReady(limit)
  IN  /\ ids # {}
      /\ outbox' = [i \in DOMAIN outbox |->
                      IF i \notin ids THEN outbox[i]
                      ELSE [outbox[i] EXCEPT !.status = "PROCESSING",
                              !.attempt = @ + 1, !.age = 0, !.locked_by = w]]
      /\ claims' = claims \union
                     {[id |-> i, attempt |-> outbox'[i].attempt, worker |-> w]
                        : i \in ids}
      /\ UNCHANGED <<delivery, deadLetters, history, sweeps>>

\* _retry_delay_seconds, in whole units of the clock: at most a tenth more
\* than the doubled base, and never more than the maximum.
Delays(attempt) ==
  LET base == Min({MaxBackoff, BaseBackoff * 2^(attempt - 1)})
  IN  {Min({MaxBackoff, base + jitter}) : jitter \in 0..((base + 9) \div 10)}

\* Mutant of Owns.
RowExists(c) == c.id \in DOMAIN outbox

\* complete_claim knows the row by id and its owner by name: the attempt of
\* the claim is not compared, and a claim that is refused is raised to the
\* worker and dropped.
Owns(c) == LockedBy(outbox[c.id], c.worker)

\* Mutant of Record.
FromQueued(d, status) ==
  /\ delivery' = [delivery EXCEPT ![d].status = status]
  /\ history' = [history EXCEPT ![d] = Append(@, <<"QUEUED", status>>)]

Record(d, status) ==
  /\ delivery' = [delivery EXCEPT ![d].status = status]
  /\ history' = [history EXCEPT ![d] = Append(@, <<delivery[d].status, status>>)]

\* Mutant of AllSucceeded.
NoneUnfinished(d, rows) ==
  \A i \in DOMAIN rows :
    rows[i].delivery = d => rows[i].status \in {"SUCCEEDED", "DEAD_LETTER"}

AllSucceeded(d, rows) ==
  \A i \in DOMAIN rows : rows[i].delivery = d => rows[i].status = "SUCCEEDED"

Succeed(i) ==
  LET d == outbox[i].delivery
  IN  /\ outbox' = [outbox EXCEPT ![i] = Unlocked(@, "SUCCEEDED", 0)]
      /\ IF AllSucceeded(d, outbox') THEN Record(d, "PROCESSED")
                                     ELSE UNCHANGED <<delivery, history>>
      /\ UNCHANGED deadLetters

MayRetry(i) == outbox[i].attempt < MaxAttempts

RetryLater(i) ==
  /\ MayRetry(i)
  /\ \E delay \in Delays(outbox[i].attempt) :
       outbox' = [outbox EXCEPT ![i] = Unlocked(@, "RETRY", delay)]
  /\ UNCHANGED <<delivery, history, deadLetters>>

DeadLetter(i) ==
  /\ outbox' = [outbox EXCEPT ![i] = Unlocked(@, "DEAD_LETTER", 0)]
  /\ deadLetters' = IF \E l \in deadLetters : l.id = i THEN deadLetters
                    ELSE deadLetters \union
                           {[id |-> i, attempt |-> outbox[i].attempt]}
  /\ Record(outbox[i].delivery, "DEAD_LETTER")

complete_claim(c) ==
  /\ c \in claims /\ Owns(c)
  /\ claims' = claims \ {c}
  /\ \/ Succeed(c.id)
     \/ RetryLater(c.id)          \* a transient failure
     \/ DeadLetter(c.id)          \* a permanent one, or the last attempt
  /\ UNCHANGED sweeps

RefuseClaim(c) ==
  /\ c \in claims /\ ~Owns(c)
  /\ claims' = claims \ {c}
  /\ UNCHANGED <<delivery, outbox, deadLetters, history, sweeps>>

\* Mutant of Expired.
ExhaustedNotRecovered(row) ==
  row.status = "PROCESSING" /\ row.age > Lease /\ row.attempt < MaxAttempts

Expired(row) == row.status = "PROCESSING" /\ row.age > Lease
\* Mutant of Recovered.
AttemptGivenBack(row) == [Unlocked(row, "RETRY", 0) EXCEPT !.attempt = @ - 1]

Recovered(row) == Unlocked(row, "RETRY", 0)
recover_processing ==
  /\ sweeps < MaxSweeps
  /\ \E i \in DOMAIN outbox : Expired(outbox[i])
  /\ outbox' = [i \in DOMAIN outbox |-> IF Expired(outbox[i])
                                        THEN Recovered(outbox[i]) ELSE outbox[i]]
  /\ sweeps' = sweeps + 1
  /\ UNCHANGED <<delivery, deadLetters, history, claims>>

(* --------------------- the workers and their clock ---------------------- *)

WorkerCrash(w) ==
  /\ \E c \in claims : c.worker = w
  /\ claims' = {c \in claims : c.worker # w}
  /\ UNCHANGED <<delivery, outbox, deadLetters, history, sweeps>>

Later(row) ==
  CASE row.status = "PROCESSING" -> [row EXCEPT !.age = Min({@ + 1, Lease + 1})]
    [] row.status = "RETRY"      -> [row EXCEPT !.wait = Max({@ - 1, 0})]
    [] OTHER                     -> row
Tick ==
  /\ outbox' = [i \in DOMAIN outbox |-> Later(outbox[i])]
  /\ outbox' # outbox
  /\ UNCHANGED <<delivery, deadLetters, history, claims, sweeps>>

Init ==
  /\ delivery = [d \in Deliveries |-> NotStored]
  /\ outbox = << >> /\ deadLetters = {} /\ claims = {} /\ sweeps = 0
  /\ history = [d \in Deliveries |-> << >>]

Claim == \E w \in Workers, limit \in 1..MaxBatch : claim_ready(w, limit)
Answer(w, i) ==
  \E c \in claims : /\ c.worker = w /\ c.id = i
                    /\ complete_claim(c) \/ RefuseClaim(c)

Next ==
  \/ \E d \in Deliveries, p \in Payloads : store_delivery(d, p)
  \/ Claim
  \/ \E c \in claims : complete_claim(c) \/ RefuseClaim(c)
  \/ recover_processing
  \/ \E w \in Workers : WorkerCrash(w)
  \/ Tick

Spec == Init /\ [][Next]_vars

\* A pool of workers that keeps claiming and answers what it claimed, and a
\* sweep that keeps being called.  Nothing is assumed of a worker's crashes.
FairSpec ==
  /\ Spec
  /\ WF_vars(Claim) /\ WF_vars(recover_processing) /\ WF_vars(Tick)
  /\ \A w \in Workers, i \in 1..(Cardinality(Deliveries) * Len(Handlers)) :
       WF_vars(Answer(w, i))

(* ------------------------------ properties ------------------------------ *)

\* The status a delivery shows is the sum of its handlers: processed when
\* every handler succeeded, dead when one is dead, whatever the order in
\* which workers of the same delivery answer (complete_claim, 393-438); and
\* exactly the rows that gave up have a dead letter, with the attempt they gave
\* up at (329-355, 442-457).
DeliveryMatchesOutbox ==
  /\ \A d \in Stored :
       LET statuses == {outbox[i].status : i \in RowsOf(d)}
       IN  delivery[d].status = IF statuses = {"SUCCEEDED"} THEN "PROCESSED"
                                ELSE IF "DEAD_LETTER" \in statuses THEN "DEAD_LETTER"
                                ELSE "QUEUED"
  /\ deadLetters = {[id |-> i, attempt |-> outbox[i].attempt] :
                      i \in {k \in DOMAIN outbox : outbox[k].status = "DEAD_LETTER"}}

\* The audit history of a delivery starts at its acceptance, every entry
\* leaves the status the one before it reached, and the last is the status
\* the delivery has (the inserts at 175-191, 373-391 and 421-438).
HistoryIsAChain ==
  \A d \in Deliveries :
    LET h == history[d]
    IN  /\ (h = << >>) <=> (d \notin Stored)
        /\ h # << >> => Last(h)[2] = delivery[d].status
        /\ \A k \in 2..Len(h) : h[k][1] = h[k - 1][2]

\* Two claims are never handed out for the same attempt of a row, also when
\* a worker lost the row to the sweep and another took it: the attempt is
\* what side effects and the retry jitter are told apart by (230-256, and
\* "without deleting ... attempt count", REQUIREMENTS.md:48).
AttemptsAreDistinct ==
  \A c, e \in claims : c.id = e.id /\ c.attempt = e.attempt => c = e

\* A handler that succeeded or was given up never runs again for the
\* delivery, whoever still holds a claim of it and however late it answers.
FinishedRowsStay ==
  [][\A i \in DOMAIN outbox :
       outbox[i].status \in {"SUCCEEDED", "DEAD_LETTER"}
         => outbox'[i] = outbox[i]]_vars

\* A stored delivery is eventually processed or dead, though workers die
\* with its rows in hand: unless every sweep the bound allows was used up.
DeliverySettles ==
  \A d \in Deliveries :
    d \in Stored ~> \/ d \in Stored
                         /\ delivery[d].status \in {"PROCESSED", "DEAD_LETTER"}
                    \/ sweeps = MaxSweeps

\* "Permanent failures and attempt exhaustion become dead letters" (docs/
\* github_webhooks/ARCHITECTURE.md:62): a row that used its attempts is not
\* waiting for another.
ExhaustionIsDeadLetter ==
  \A i \in DOMAIN outbox :
    outbox[i].status = "RETRY" => outbox[i].attempt < MaxAttempts

=============================================================================

-------------------------- MODULE WebhookStoreProofs --------------------------
(***************************************************************************)
(* Proofs about WebhookStore for any deliveries, handlers, workers, policy *)
(* and lease: what a delivery shows is what its handlers did, its history  *)
(* is a chain, an attempt is handed out once, and what is finished stays.  *)
(*                                                                         *)
(* The argument: a step moves rows that are not finished, never back to an *)
(* earlier attempt; only the last success and a dead letter touch a        *)
(* delivery, and both move its row and its status in one transaction.      *)
(***************************************************************************)
EXTENDS WebhookStore, TLAPS

Statuses == {"QUEUED", "PROCESSED", "DEAD_LETTER"}
Kept == [payload : Payloads, status : Statuses]
Finished == {"SUCCEEDED", "DEAD_LETTER"}
Unfinished == {"PENDING", "PROCESSING", "RETRY"}
Rows == [delivery : Deliveries, handler : Range(Handlers),
         status : Finished \union Unfinished, attempt : Nat, wait : Nat, age : Nat,
         locked_by : Workers \union {NoOne}]

TypeInv ==
  /\ delivery \in [Deliveries -> Kept \union {NotStored}]
  /\ outbox \in Seq(Rows)
  /\ history \in [Deliveries -> Seq((Statuses \union {NotStored}) \X Statuses)]
  /\ claims \subseteq [id : DOMAIN outbox, attempt : Nat, worker : Workers]
  /\ sweeps \in Nat

RowInv ==
  \A i \in DOMAIN outbox :
    /\ outbox[i].delivery \in Stored
    /\ outbox[i].status = "PROCESSING" => outbox[i].attempt >= 1

SumInv ==
  \A d \in Stored :
    /\ RowsOf(d) # {}
    /\ delivery[d].status = "PROCESSED" <=>
         \A i \in RowsOf(d) : outbox[i].status = "SUCCEEDED"
    /\ delivery[d].status = "DEAD_LETTER" <=>
         \E i \in RowsOf(d) : outbox[i].status = "DEAD_LETTER"

LetterInv ==
  deadLetters = {[id |-> i, attempt |-> outbox[i].attempt] :
                   i \in {k \in DOMAIN outbox : outbox[k].status = "DEAD_LETTER"}}

\* No worker holds an attempt that its row has not reached.
AttemptInv == \A c \in claims : c.attempt <= outbox[c.id].attempt

StoreInv ==
  /\ TypeInv /\ RowInv /\ SumInv /\ LetterInv /\ HistoryIsAChain
  /\ AttemptInv /\ AttemptsAreDistinct

-----------------------------------------------------------------------------
(* Rows                                                                    *)

LEMMA PairMinMax ==
  ASSUME NEW a \in Nat, NEW b \in Int
  PROVE  Min({b, a}) \in {a, b} /\ Min({a, b}) \in {a, b}
         /\ Max({b, a}) \in {a, b} /\ Max({b, a}) \in Nat
BY DEF Min, Max

LEMMA PowerIsNat ==
  ASSUME NEW n \in 0..18
  PROVE  2^n \in Nat
<1>1. /\ 2^0 \in Nat /\ 2^1 \in Nat /\ 2^2 \in Nat /\ 2^3 \in Nat /\ 2^4 \in Nat
      /\ 2^5 \in Nat /\ 2^6 \in Nat /\ 2^7 \in Nat /\ 2^8 \in Nat /\ 2^9 \in Nat
      /\ 2^10 \in Nat /\ 2^11 \in Nat /\ 2^12 \in Nat /\ 2^13 \in Nat /\ 2^14 \in Nat
      /\ 2^15 \in Nat /\ 2^16 \in Nat /\ 2^17 \in Nat /\ 2^18 \in Nat
  OBVIOUS
<1>2. n \in {0, 1, 2, 3, 4, 5, 6, 7, 8, 9, 10, 11, 12, 13, 14, 15, 16, 17, 18}
  OBVIOUS
<1> QED
  BY <1>1, <1>2, Zenon

\* _retry_delay_seconds is a number of seconds for every attempt that is retried.
LEMMA DelaysAreNat ==
  ASSUME NEW attempt \in 1..19
  PROVE  Delays(attempt) \subseteq Nat
<1>0. MaxBackoff \in Nat /\ BaseBackoff \in Nat
  <2>1. BaseBackoff \in 1..3600 /\ MaxBackoff \in BaseBackoff..86400
    BY PolicyAssumption
  <2>2. BaseBackoff \in Nat
    BY <2>1
  <2> QED
    BY <2>1, <2>2
<1>1. 2^(attempt - 1) \in Nat
  <2>1. attempt - 1 \in 0..18
    OBVIOUS
  <2> QED
    BY <2>1, PowerIsNat
<1> DEFINE base == Min({MaxBackoff, BaseBackoff * 2^(attempt - 1)})
<1>2. base \in Nat
  <2>1. ASSUME NEW power \in Nat
        PROVE  MaxBackoff \in Nat /\ BaseBackoff * power \in Nat
    BY <1>0
  <2> QED
    BY <1>1, <2>1, PairMinMax
<1>3. \A jitter \in 0..((base + 9) \div 10) : Min({MaxBackoff, base + jitter}) \in Nat
  <2> HIDE DEF base
  <2> SUFFICES ASSUME NEW jitter \in 0..((base + 9) \div 10)
               PROVE  Min({MaxBackoff, base + jitter}) \in Nat
    OBVIOUS
  <2>1. jitter \in Nat
    <3> DEFINE top == (base + 9) \div 10
    <3>1. top \in Int
      BY <1>2
    <3>2. jitter \in 0..top
      OBVIOUS
    <3> HIDE DEF top
    <3> QED
      BY <3>1, <3>2
  <2>2. base + jitter \in Nat
    BY <1>2, <2>1
  <2> QED
    BY <1>0, <2>2, PairMinMax
<1> QED
  BY <1>3 DEF Delays

LEMMA UnlockedRow ==
  ASSUME NEW row \in Rows, NEW status \in Finished \union Unfinished, NEW n \in Nat
  PROVE  LET new == Unlocked(row, status, n)
         IN  /\ new \in Rows /\ new.delivery = row.delivery /\ new.status = status
             /\ new.attempt = row.attempt
BY DEF Unlocked, Rows

ClaimedRow(row, w) ==
  [row EXCEPT !.status = "PROCESSING", !.attempt = @ + 1, !.age = 0, !.locked_by = w]

LEMMA ClaimedRowMeans ==
  ASSUME NEW row \in Rows, NEW w \in Workers
  PROVE  /\ ClaimedRow(row, w) \in Rows
         /\ ClaimedRow(row, w).delivery = row.delivery
         /\ ClaimedRow(row, w).status = "PROCESSING"
         /\ ClaimedRow(row, w).attempt = row.attempt + 1
<1>1. row.attempt + 1 \in Nat /\ "PROCESSING" \in Finished \union Unfinished
  BY DEF Rows, Unfinished
<1>2. \A n \in Nat, status \in Finished \union Unfinished :
        LET new == [row EXCEPT !.status = status, !.attempt = n, !.age = 0, !.locked_by = w]
        IN  /\ new \in Rows /\ new.delivery = row.delivery
            /\ new.status = status /\ new.attempt = n
  BY DEF Rows
<1> QED
  BY <1>1, <1>2 DEF ClaimedRow

LEMMA LaterRow ==
  ASSUME NEW row \in Rows
  PROVE  /\ Later(row) \in Rows
         /\ Later(row).delivery = row.delivery /\ Later(row).status = row.status
         /\ Later(row).attempt = row.attempt
         /\ row.status \notin Unfinished => Later(row) = row
<1>1. CASE row.status = "PROCESSING"
  <2>1. Min({row.age + 1, Lease + 1}) \in Nat
    <3>1. row.age + 1 \in Nat /\ Lease + 1 \in Nat
      BY PolicyAssumption DEF Rows
    <3> QED
      BY <3>1, PairMinMax
  <2> QED
    BY <1>1, <2>1 DEF Later, Rows, Unfinished
<1>2. CASE row.status = "RETRY"
  <2>1. Max({row.wait - 1, 0}) \in Nat
    <3>1. row.wait - 1 \in Int
      BY DEF Rows
    <3> QED
      BY <3>1, PairMinMax
  <2> QED
    BY <1>2, <2>1 DEF Later, Rows, Unfinished
<1> QED
  BY <1>1, <1>2 DEF Later

LEMMA RowTypes ==
  ASSUME StoreInv, NEW i \in DOMAIN outbox
  PROVE  /\ outbox[i] \in Rows /\ outbox[i].attempt \in Nat
         /\ outbox[i].status \in Finished \union Unfinished
<1>1. outbox[i] \in Rows
  BY DEF StoreInv, TypeInv
<1> QED
  BY <1>1 DEF Rows

-----------------------------------------------------------------------------
(* Steps that finish nothing                                               *)

\* Rows that are not finished move on among themselves, none of them back to
\* an earlier attempt, and deliveries and dead letters are left alone.
Quiet ==
  /\ UNCHANGED <<delivery, deadLetters, history>>
  /\ outbox' \in Seq(Rows) /\ DOMAIN outbox' = DOMAIN outbox
  /\ \A i \in DOMAIN outbox :
       /\ outbox'[i].delivery = outbox[i].delivery
       /\ outbox'[i].attempt >= outbox[i].attempt
       /\ outbox[i].status \in Finished => outbox'[i] = outbox[i]
       /\ outbox[i].status \in Unfinished => outbox'[i].status \in Unfinished
       /\ outbox'[i].status = "PROCESSING" => outbox'[i].attempt >= 1

LEMMA QuietKeeps ==
  ASSUME StoreInv, Quiet
  PROVE  RowInv' /\ SumInv' /\ LetterInv' /\ HistoryIsAChain'
<1>1. Stored' = Stored
  BY DEF Quiet, Stored
<1>2. \A d : RowsOf(d)' = RowsOf(d)
  BY DEF Quiet, RowsOf
<1>3. \A i \in DOMAIN outbox : outbox[i].status \in Finished \union Unfinished
  BY RowTypes
<1>4. \A i \in DOMAIN outbox :
        /\ outbox'[i].status = "SUCCEEDED" <=> outbox[i].status = "SUCCEEDED"
        /\ outbox'[i].status = "DEAD_LETTER" <=> outbox[i].status = "DEAD_LETTER"
        /\ outbox[i].status = "DEAD_LETTER" => outbox'[i].attempt = outbox[i].attempt
  BY <1>3 DEF Quiet, Finished, Unfinished
<1>5. RowInv'
  BY <1>1 DEF RowInv, Quiet, StoreInv
<1>6. SumInv'
  <2>1. \A d, i : i \in RowsOf(d) => i \in DOMAIN outbox
    BY DEF RowsOf
  <2> QED
    BY <1>1, <1>2, <1>4, <2>1 DEF SumInv, StoreInv, Quiet
<1>7. LetterInv'
  <2>1. {k \in DOMAIN outbox' : outbox'[k].status = "DEAD_LETTER"}
          = {k \in DOMAIN outbox : outbox[k].status = "DEAD_LETTER"}
    BY <1>4 DEF Quiet
  <2> QED
    BY <1>4, <2>1 DEF LetterInv, StoreInv, Quiet
<1>8. HistoryIsAChain'
  BY <1>1 DEF HistoryIsAChain, StoreInv, Quiet
<1> QED
  BY <1>5, <1>6, <1>7, <1>8

-----------------------------------------------------------------------------
(* Actions                                                                 *)

Same == UNCHANGED <<delivery, outbox, deadLetters, history>>

LEMMA SameIsQuiet ==
  ASSUME StoreInv, Same
  PROVE  Quiet
BY RowTypes DEF Same, Quiet, StoreInv, TypeInv, RowInv

LEMMA ClaimStep ==
  ASSUME StoreInv, NEW w \in Workers, NEW limit, claim_ready(w, limit)
  PROVE  /\ Quiet /\ UNCHANGED sweeps
         /\ \E ids \in SUBSET DOMAIN outbox :
              /\ \A i \in ids : outbox'[i].attempt > outbox[i].attempt
              /\ claims' = claims \union
                   {[id |-> i, attempt |-> outbox'[i].attempt, worker |-> w] : i \in ids}
<1> DEFINE ids == FirstReady(limit)
<1>1. ids \subseteq DOMAIN outbox /\ \A i \in ids : outbox[i].status \in {"PENDING", "RETRY"}
  BY DEF FirstReady, Ready
<1>2. /\ outbox' = [i \in DOMAIN outbox |->
                    IF i \notin ids THEN outbox[i] ELSE ClaimedRow(outbox[i], w)]
      /\ UNCHANGED <<delivery, deadLetters, history, sweeps>>
      /\ claims' = claims \union
           {[id |-> i, attempt |-> outbox'[i].attempt, worker |-> w] : i \in ids}
  BY DEF claim_ready, ClaimedRow
<1> HIDE DEF ids
<1>3. \A i \in DOMAIN outbox : outbox[i] \in Rows /\ outbox[i].attempt \in Nat
  BY RowTypes
<1>4. outbox' \in Seq(Rows) /\ DOMAIN outbox' = DOMAIN outbox
  <2>1. \A i \in DOMAIN outbox :
          (IF i \notin ids THEN outbox[i] ELSE ClaimedRow(outbox[i], w)) \in Rows
    BY <1>3, ClaimedRowMeans
  <2>2. DOMAIN outbox = 1..Len(outbox) /\ Len(outbox) \in Nat
    BY DEF StoreInv, TypeInv
  <2> QED
    BY <1>2, <2>1, <2>2
<1>5. \A i \in DOMAIN outbox :
        /\ i \notin ids => outbox'[i] = outbox[i]
        /\ i \in ids => /\ outbox'[i].delivery = outbox[i].delivery
                        /\ outbox'[i].status = "PROCESSING"
                        /\ outbox'[i].attempt = outbox[i].attempt + 1
  BY <1>2, <1>3, ClaimedRowMeans
<1>6. Quiet
  BY <1>1, <1>2, <1>3, <1>4, <1>5 DEF Quiet, Finished, Unfinished, StoreInv, RowInv
<1>7. \A i \in ids : outbox'[i].attempt > outbox[i].attempt
  BY <1>1, <1>3, <1>5
<1> QED
  BY <1>1, <1>2, <1>6, <1>7

LEMMA RetryIsQuiet ==
  ASSUME StoreInv, NEW i \in DOMAIN outbox, outbox[i].status = "PROCESSING", RetryLater(i)
  PROVE  Quiet
<1>1. outbox[i] \in Rows /\ outbox[i].attempt \in Nat
  BY RowTypes
<1>2. outbox[i].attempt \in 1..19
  <2>1. MaxAttempts \in 1..20
    BY PolicyAssumption
  <2>2. outbox[i].attempt < MaxAttempts /\ outbox[i].attempt >= 1
    BY DEF RetryLater, MayRetry, StoreInv, RowInv
  <2> QED
    BY <1>1, <2>1, <2>2
<1>3. PICK delay \in Nat : outbox' = [outbox EXCEPT ![i] = Unlocked(@, "RETRY", delay)]
  BY <1>2, DelaysAreNat DEF RetryLater
<1>4. LET new == Unlocked(outbox[i], "RETRY", delay)
      IN  /\ new \in Rows /\ new.delivery = outbox[i].delivery /\ new.status = "RETRY"
          /\ new.attempt = outbox[i].attempt
  BY <1>1, UnlockedRow DEF Unfinished
<1>5. outbox' \in Seq(Rows) /\ DOMAIN outbox' = DOMAIN outbox
  BY <1>3, <1>4 DEF StoreInv, TypeInv
<1>6. /\ outbox'[i] = Unlocked(outbox[i], "RETRY", delay)
      /\ \A k \in DOMAIN outbox : k # i => outbox'[k] = outbox[k]
  BY <1>3 DEF StoreInv, TypeInv
<1>7. \A k \in DOMAIN outbox : outbox[k].attempt \in Nat
  BY RowTypes
<1> QED
  BY <1>4, <1>5, <1>6, <1>7 DEF RetryLater, Quiet, Finished, Unfinished, StoreInv, RowInv

LEMMA SweepIsQuiet ==
  ASSUME StoreInv, recover_processing
  PROVE  Quiet /\ UNCHANGED claims /\ sweeps' \in Nat
<1>1. outbox' = [i \in DOMAIN outbox |->
                   IF Expired(outbox[i]) THEN Recovered(outbox[i]) ELSE outbox[i]]
  BY DEF recover_processing
<1>2. \A i \in DOMAIN outbox : outbox[i] \in Rows /\ outbox[i].attempt \in Nat
  BY RowTypes
<1>3. ASSUME NEW row \in Rows
      PROVE  /\ Recovered(row) \in Rows /\ Recovered(row).delivery = row.delivery
             /\ Recovered(row).status = "RETRY" /\ Recovered(row).attempt = row.attempt
  <2>1. "RETRY" \in Finished \union Unfinished /\ 0 \in Nat
    BY DEF Unfinished
  <2> QED
    BY <2>1, UnlockedRow DEF Recovered
<1>4. outbox' \in Seq(Rows) /\ DOMAIN outbox' = DOMAIN outbox
  BY <1>1, <1>2, <1>3 DEF StoreInv, TypeInv
<1>5. \A i \in DOMAIN outbox :
        \/ outbox'[i] = outbox[i]
        \/ /\ outbox[i].status = "PROCESSING" /\ outbox'[i].status = "RETRY"
           /\ outbox'[i].delivery = outbox[i].delivery
           /\ outbox'[i].attempt = outbox[i].attempt
  BY <1>1, <1>2, <1>3 DEF Expired
<1> QED
  BY <1>2, <1>4, <1>5
  DEF recover_processing, Quiet, Finished, Unfinished, StoreInv, RowInv, TypeInv

LEMMA TickIsQuiet ==
  ASSUME StoreInv, Tick
  PROVE  Quiet
<1>1. outbox' = [i \in DOMAIN outbox |-> Later(outbox[i])]
  BY DEF Tick
<1>2. \A i \in DOMAIN outbox : outbox[i] \in Rows /\ outbox[i].attempt \in Nat
  BY RowTypes
<1>3. outbox' \in Seq(Rows) /\ DOMAIN outbox' = DOMAIN outbox
  BY <1>1, <1>2, LaterRow DEF StoreInv, TypeInv
<1> QED
  BY <1>1, <1>2, <1>3, LaterRow DEF Tick, Quiet, Finished, Unfinished, StoreInv, RowInv

-----------------------------------------------------------------------------
(* Steps that finish a row                                                 *)

\* Row i, which was in hand, is finished with that status and its attempt.
Finishes(i, status) ==
  /\ i \in DOMAIN outbox /\ outbox[i].status = "PROCESSING"
  /\ outbox' \in Seq(Rows) /\ DOMAIN outbox' = DOMAIN outbox
  /\ outbox'[i].status = status /\ outbox'[i].delivery = outbox[i].delivery
  /\ outbox'[i].attempt = outbox[i].attempt
  /\ \A k \in DOMAIN outbox : k # i => outbox'[k] = outbox[k]

LEMMA FinishesRow ==
  ASSUME StoreInv, NEW i \in DOMAIN outbox, outbox[i].status = "PROCESSING",
         NEW status \in Finished,
         outbox' = [outbox EXCEPT ![i] = Unlocked(@, status, 0)]
  PROVE  Finishes(i, status)
<1>1. outbox[i] \in Rows
  BY DEF StoreInv, TypeInv
<1>2. LET new == Unlocked(outbox[i], status, 0)
      IN  /\ new \in Rows /\ new.delivery = outbox[i].delivery /\ new.status = status
          /\ new.attempt = outbox[i].attempt
  BY <1>1, UnlockedRow
<1>3. outbox' \in Seq(Rows) /\ DOMAIN outbox' = DOMAIN outbox
  BY <1>2 DEF StoreInv, TypeInv
<1>4. /\ outbox'[i] = Unlocked(outbox[i], status, 0)
      /\ \A k \in DOMAIN outbox : k # i => outbox'[k] = outbox[k]
  BY DEF StoreInv, TypeInv
<1> QED
  BY <1>2, <1>3, <1>4 DEF Finishes

\* The inserts into the status history.
LEMMA RecordKeepsChain ==
  ASSUME TypeInv, HistoryIsAChain, NEW d \in Stored, NEW status \in Statuses, Record(d, status)
  PROVE  /\ HistoryIsAChain'
         /\ delivery' \in [Deliveries -> Kept \union {NotStored}]
         /\ history' \in [Deliveries -> Seq((Statuses \union {NotStored}) \X Statuses)]
         /\ Stored' = Stored /\ delivery'[d].status = status
         /\ \A e \in Stored : e # d => delivery'[e] = delivery[e]
<1>1. d \in Deliveries /\ delivery[d] \in Kept
  BY DEF Stored, TypeInv
<1>2. [delivery[d] EXCEPT !.status = status] \in Kept
  BY <1>1 DEF Kept
<1>3. [delivery[d] EXCEPT !.status = status].status = status
  BY <1>1 DEF Kept
<1>4. /\ delivery'[d] = [delivery[d] EXCEPT !.status = status]
      /\ \A e \in Deliveries : e # d => delivery'[e] = delivery[e]
      /\ delivery' \in [Deliveries -> Kept \union {NotStored}]
  BY <1>1, <1>2 DEF Record, TypeInv
<1>5. \A k \in Kept : k # NotStored
  BY NotStoredAssumption DEF Kept, Statuses
<1>6. Stored' = Stored
  BY <1>1, <1>2, <1>4, <1>5 DEF Stored
<1> DEFINE Entries == (Statuses \union {NotStored}) \X Statuses
           entry == <<delivery[d].status, status>>
<1>7. entry \in Entries /\ entry[1] = delivery[d].status /\ entry[2] = status
  BY <1>1 DEF Kept
<1>8. /\ history'[d] = Append(history[d], entry)
      /\ \A e \in Deliveries : e # d => history'[e] = history[e]
  BY <1>1 DEF Record, TypeInv
<1>9. history' \in [Deliveries -> Seq(Entries)]
  <2> HIDE DEF entry
  <2>1. history[d] \in Seq(Entries)
    BY <1>1 DEF TypeInv
  <2>2. Append(history[d], entry) \in Seq(Entries)
    BY <1>7, <2>1
  <2>3. history' = [history EXCEPT ![d] = Append(history[d], entry)]
    BY <1>1 DEF Record, entry
  <2> QED
    BY <1>1, <2>2, <2>3 DEF TypeInv
<1>10. HistoryIsAChain'
  <2> SUFFICES ASSUME NEW e \in Deliveries
               PROVE  LET h == history'[e]
                      IN  /\ (h = << >>) <=> (e \notin Stored')
                          /\ h # << >> => Last(h)[2] = delivery'[e].status
                          /\ \A k \in 2..Len(h) : h[k][1] = h[k - 1][2]
    BY DEF HistoryIsAChain
  <2>1. CASE e # d
    BY <1>4, <1>6, <1>8, <2>1 DEF HistoryIsAChain
  <2>2. CASE e = d
    <3> DEFINE g == history[d]
    <3>1. g \in Seq(Entries) /\ g # << >>
      BY <1>1 DEF TypeInv, HistoryIsAChain
    <3>2. Last(g)[2] = delivery[d].status /\ \A k \in 2..Len(g) : g[k][1] = g[k - 1][2]
      BY <1>1, <3>1 DEF HistoryIsAChain
    <3> HIDE DEF g, entry, Entries
    <3> DEFINE h == Append(g, entry)
    <3>3. /\ h # << >> /\ Len(h) = Len(g) + 1 /\ h[Len(g) + 1] = entry
          /\ \A k \in 1..Len(g) : h[k] = g[k]
          /\ Len(g) \in Nat /\ Len(g) >= 1
      <4>1. Len(g) \in Nat /\ Len(g) >= 1 /\ DOMAIN g = 1..Len(g)
        BY <3>1
      <4>2. Len(h) = Len(g) + 1 /\ h[Len(g) + 1] = entry
        BY <1>7, <3>1
      <4>3. \A k \in 1..Len(g) : h[k] = g[k]
        BY <1>7, <3>1
      <4>4. h # << >>
        BY <4>1, <4>2
      <4> QED
        BY <4>1, <4>2, <4>3, <4>4
    <3>4. Last(h) = entry
      BY <3>3 DEF Last
    <3>5. \A k \in 2..Len(h) : h[k][1] = h[k - 1][2]
      <4> SUFFICES ASSUME NEW k \in 2..Len(h)
                   PROVE  h[k][1] = h[k - 1][2]
        OBVIOUS
      <4>1. CASE k \in 2..Len(g)
        <5>1. k - 1 \in 1..Len(g) /\ k \in 1..Len(g)
          BY <3>3, <4>1
        <5> QED
          BY <3>2, <3>3, <4>1, <5>1
      <4>2. CASE k = Len(g) + 1
        <5>1. h[k] = entry /\ h[k - 1] = Last(g)
          BY <3>3, <4>2 DEF Last
        <5> QED
          BY <1>7, <3>2, <5>1
      <4> QED
        BY <3>3, <4>1, <4>2
    <3> HIDE DEF h
    <3>6. history'[e] = h
      BY <1>8, <2>2 DEF g, h
    <3>7. e \in Stored' /\ delivery'[e].status = status
      BY <1>3, <1>4, <1>6, <2>2
    <3> QED
      BY <1>7, <3>3, <3>4, <3>5, <3>6, <3>7
  <2> QED
    BY <2>1, <2>2
<1> QED
  BY <1>1, <1>3, <1>4, <1>6, <1>9, <1>10 DEF Stored

LEMMA SucceedStep ==
  ASSUME StoreInv, NEW i \in DOMAIN outbox, outbox[i].status = "PROCESSING", Succeed(i)
  PROVE  /\ Finishes(i, "SUCCEEDED")
         /\ delivery' \in [Deliveries -> Kept \union {NotStored}]
         /\ history' \in [Deliveries -> Seq((Statuses \union {NotStored}) \X Statuses)]
         /\ RowInv' /\ SumInv' /\ LetterInv' /\ HistoryIsAChain'
<1> DEFINE d == outbox[i].delivery
<1>1. Finishes(i, "SUCCEEDED")
  BY FinishesRow DEF Succeed, Finished
<1>2. d \in Stored /\ \A k \in DOMAIN outbox : outbox[k].delivery \in Stored
  BY DEF StoreInv, RowInv
<1>3. \A e : RowsOf(e)' = RowsOf(e)
  BY <1>1 DEF Finishes, RowsOf
<1>4. i \in RowsOf(d) /\ \A e, k : k \in RowsOf(e) => k \in DOMAIN outbox
  BY DEF RowsOf
<1>5. ~ \A k \in RowsOf(d) : outbox[k].status = "SUCCEEDED"
  BY <1>4
<1>6. \A e : e # d => i \notin RowsOf(e)
  BY DEF RowsOf
<1>7. \A e : /\ (\E k \in RowsOf(e) : outbox'[k].status = "DEAD_LETTER")
                <=> (\E k \in RowsOf(e) : outbox[k].status = "DEAD_LETTER")
             /\ e # d => ((\A k \in RowsOf(e) : outbox'[k].status = "SUCCEEDED")
                           <=> (\A k \in RowsOf(e) : outbox[k].status = "SUCCEEDED"))
  BY <1>1, <1>4, <1>6 DEF Finishes
<1>8. AllSucceeded(d, outbox') <=> \A k \in RowsOf(d) : outbox'[k].status = "SUCCEEDED"
  BY <1>3 DEF AllSucceeded, RowsOf
<1>9. LetterInv'
  <2>1. {k \in DOMAIN outbox' : outbox'[k].status = "DEAD_LETTER"}
          = {k \in DOMAIN outbox : outbox[k].status = "DEAD_LETTER"}
    BY <1>1 DEF Finishes
  <2>2. \A k \in DOMAIN outbox : outbox'[k].attempt = outbox[k].attempt
    BY <1>1 DEF Finishes
  <2>3. UNCHANGED deadLetters
    BY DEF Succeed
  <2> QED
    BY <2>1, <2>2, <2>3 DEF LetterInv, StoreInv
<1> HIDE DEF d
<1>10. CASE AllSucceeded(d, outbox')
  <2>1. Record(d, "PROCESSED") /\ "PROCESSED" \in Statuses
    BY <1>10 DEF Succeed, Statuses, d
  <2>2. /\ HistoryIsAChain'
        /\ delivery' \in [Deliveries -> Kept \union {NotStored}]
        /\ history' \in [Deliveries -> Seq((Statuses \union {NotStored}) \X Statuses)]
        /\ Stored' = Stored /\ delivery'[d].status = "PROCESSED"
        /\ \A e \in Stored : e # d => delivery'[e] = delivery[e]
    BY <1>2, <2>1, RecordKeepsChain DEF StoreInv
  <2>3. SumInv'
    <3> SUFFICES ASSUME NEW e \in Stored
                 PROVE  /\ RowsOf(e) # {}
                        /\ delivery'[e].status = "PROCESSED" <=>
                             \A k \in RowsOf(e) : outbox'[k].status = "SUCCEEDED"
                        /\ delivery'[e].status = "DEAD_LETTER" <=>
                             \E k \in RowsOf(e) : outbox'[k].status = "DEAD_LETTER"
      BY <1>3, <2>2 DEF SumInv
    <3>1. CASE e = d
      BY <1>4, <1>8, <1>10, <2>2, <3>1
    <3>2. CASE e # d
      BY <1>7, <2>2, <3>2 DEF SumInv, StoreInv
    <3> QED
      BY <3>1, <3>2
  <2>4. RowInv'
    BY <1>1, <1>2, <2>2 DEF Finishes, RowInv, StoreInv
  <2> QED
    BY <1>1, <1>9, <2>2, <2>3, <2>4
<1>11. CASE ~ AllSucceeded(d, outbox')
  <2>1. UNCHANGED <<delivery, history>> /\ Stored' = Stored
    BY <1>11 DEF Succeed, Stored, d
  <2>2. SumInv'
    <3> SUFFICES ASSUME NEW e \in Stored
                 PROVE  /\ RowsOf(e) # {}
                        /\ delivery[e].status = "PROCESSED" <=>
                             \A k \in RowsOf(e) : outbox'[k].status = "SUCCEEDED"
                        /\ delivery[e].status = "DEAD_LETTER" <=>
                             \E k \in RowsOf(e) : outbox'[k].status = "DEAD_LETTER"
      BY <1>3, <2>1 DEF SumInv
    <3>1. (\A k \in RowsOf(e) : outbox'[k].status = "SUCCEEDED")
            <=> (\A k \in RowsOf(e) : outbox[k].status = "SUCCEEDED")
      BY <1>5, <1>7, <1>8, <1>11
    <3> QED
      BY <1>7, <3>1 DEF SumInv, StoreInv
  <2>3. RowInv'
    BY <1>1, <1>2, <2>1 DEF Finishes, RowInv, StoreInv
  <2>4. HistoryIsAChain'
    BY <2>1 DEF HistoryIsAChain, StoreInv
  <2> QED
    BY <1>1, <1>9, <2>1, <2>2, <2>3, <2>4 DEF StoreInv, TypeInv
<1> QED
  BY <1>10, <1>11

LEMMA DeadLetterStep ==
  ASSUME StoreInv, NEW i \in DOMAIN outbox, outbox[i].status = "PROCESSING", DeadLetter(i)
  PROVE  /\ Finishes(i, "DEAD_LETTER")
         /\ delivery' \in [Deliveries -> Kept \union {NotStored}]
         /\ history' \in [Deliveries -> Seq((Statuses \union {NotStored}) \X Statuses)]
         /\ RowInv' /\ SumInv' /\ LetterInv' /\ HistoryIsAChain'
<1> DEFINE d == outbox[i].delivery
<1>1. Finishes(i, "DEAD_LETTER")
  BY FinishesRow DEF DeadLetter, Finished
<1>2. d \in Stored /\ \A k \in DOMAIN outbox : outbox[k].delivery \in Stored
  BY DEF StoreInv, RowInv
<1>3. \A e : RowsOf(e)' = RowsOf(e)
  BY <1>1 DEF Finishes, RowsOf
<1>4. i \in RowsOf(d) /\ \A e, k : k \in RowsOf(e) => k \in DOMAIN outbox
  BY DEF RowsOf
<1>5. \A e : e # d => i \notin RowsOf(e)
  BY DEF RowsOf
<1>6. ASSUME NEW e, e # d
      PROVE  \A k \in RowsOf(e) : outbox'[k] = outbox[k]
  BY <1>1, <1>4, <1>5, <1>6 DEF Finishes
<1>7. outbox'[i].status = "DEAD_LETTER"
  BY <1>1 DEF Finishes
<1>8. LetterInv'
  <2>1. \A l \in deadLetters : l.id # i
    BY DEF StoreInv, LetterInv
  <2>2. deadLetters' = deadLetters \union {[id |-> i, attempt |-> outbox[i].attempt]}
    BY <2>1 DEF DeadLetter
  <2>3. {k \in DOMAIN outbox' : outbox'[k].status = "DEAD_LETTER"}
          = {k \in DOMAIN outbox : outbox[k].status = "DEAD_LETTER"} \union {i}
    BY <1>1 DEF Finishes
  <2>4. \A k \in DOMAIN outbox : outbox'[k].attempt = outbox[k].attempt
    BY <1>1 DEF Finishes
  <2> QED
    BY <2>2, <2>3, <2>4 DEF LetterInv, StoreInv
<1> HIDE DEF d
<1>9. Record(d, "DEAD_LETTER") /\ "DEAD_LETTER" \in Statuses
  BY DEF DeadLetter, Statuses, d
<1>10. /\ HistoryIsAChain'
       /\ delivery' \in [Deliveries -> Kept \union {NotStored}]
       /\ history' \in [Deliveries -> Seq((Statuses \union {NotStored}) \X Statuses)]
       /\ Stored' = Stored /\ delivery'[d].status = "DEAD_LETTER"
       /\ \A e \in Stored : e # d => delivery'[e] = delivery[e]
  BY <1>2, <1>9, RecordKeepsChain DEF StoreInv
<1>11. SumInv'
  <2> SUFFICES ASSUME NEW e \in Stored
               PROVE  /\ RowsOf(e) # {}
                      /\ delivery'[e].status = "PROCESSED" <=>
                           \A k \in RowsOf(e) : outbox'[k].status = "SUCCEEDED"
                      /\ delivery'[e].status = "DEAD_LETTER" <=>
                           \E k \in RowsOf(e) : outbox'[k].status = "DEAD_LETTER"
    BY <1>3, <1>10 DEF SumInv
  <2>1. CASE e = d
    BY <1>4, <1>7, <1>10, <2>1
  <2>2. CASE e # d
    <3>1. delivery'[e] = delivery[e] /\ \A k \in RowsOf(e) : outbox'[k] = outbox[k]
      BY <1>6, <1>10, <2>2
    <3> QED
      BY <3>1 DEF SumInv, StoreInv
  <2> QED
    BY <2>1, <2>2
<1>12. RowInv'
  BY <1>1, <1>2, <1>10 DEF Finishes, RowInv, StoreInv
<1> QED
  BY <1>1, <1>8, <1>10, <1>11, <1>12

-----------------------------------------------------------------------------
(* A delivery is stored                                                    *)

LEMMA NewRowsType ==
  ASSUME NEW d \in Deliveries
  PROVE  /\ NewRows(d) \in Seq(Rows) /\ NewRows(d) # << >>
         /\ \A k \in 1..Len(NewRows(d)) : /\ NewRows(d)[k].delivery = d
                                         /\ NewRows(d)[k].status = "PENDING"
<1>1. Handlers \in Seq(Range(Handlers)) /\ Handlers # << >>
  BY PolicyAssumption
<1>2. Len(Handlers) \in Nat \ {0} /\ DOMAIN Handlers = 1..Len(Handlers)
  BY <1>1
<1>3. ASSUME NEW k \in DOMAIN Handlers
      PROVE  NewRows(d)[k] \in Rows /\ NewRows(d)[k].delivery = d
             /\ NewRows(d)[k].status = "PENDING"
  BY <1>1, <1>3 DEF NewRows, Rows, Unfinished
<1>4. NewRows(d) = [k \in 1..Len(Handlers) |-> NewRows(d)[k]]
  BY <1>2 DEF NewRows
<1>5. NewRows(d) \in Seq(Rows) /\ Len(NewRows(d)) = Len(Handlers)
  BY <1>2, <1>3, <1>4
<1> QED
  BY <1>2, <1>3, <1>5

LEMMA StoreStep ==
  ASSUME StoreInv, NEW d \in Deliveries, NEW p \in Payloads, store_delivery(d, p)
  PROVE  StoreInv'
<1> DEFINE rows == NewRows(d)
           Entries == (Statuses \union {NotStored}) \X Statuses
<1>1. /\ rows \in Seq(Rows) /\ Len(rows) \in Nat /\ Len(rows) > 0
      /\ \A k \in 1..Len(rows) : rows[k].delivery = d /\ rows[k].status = "PENDING"
  BY NewRowsType
<1> HIDE DEF rows
<1>2. outbox' = outbox \o rows /\ outbox \in Seq(Rows) /\ Len(outbox) \in Nat
  BY DEF store_delivery, rows, StoreInv, TypeInv
<1>3. /\ outbox' \in Seq(Rows) /\ Len(outbox') = Len(outbox) + Len(rows)
      /\ DOMAIN outbox = 1..Len(outbox) /\ DOMAIN outbox' = 1..Len(outbox')
  BY <1>1, <1>2
<1>4. \A i \in DOMAIN outbox : i \in DOMAIN outbox' /\ outbox'[i] = outbox[i]
  BY <1>1, <1>2, <1>3
<1>5. \A i \in DOMAIN outbox' : i \notin DOMAIN outbox =>
        outbox'[i].delivery = d /\ outbox'[i].status = "PENDING"
  BY <1>1, <1>2, <1>3
<1>6. Len(outbox) + 1 \in DOMAIN outbox' \ DOMAIN outbox
  BY <1>1, <1>2, <1>3
<1>7. d \notin Stored
  BY DEF store_delivery, Accept, Stored
<1> DEFINE new == [payload |-> p, status |-> "QUEUED"]
<1>8. new \in Kept /\ new # NotStored
  BY NotStoredAssumption DEF Kept, Statuses
<1>9. /\ delivery' \in [Deliveries -> Kept \union {NotStored}]
      /\ delivery'[d] = new /\ \A e \in Deliveries : e # d => delivery'[e] = delivery[e]
  BY <1>8 DEF store_delivery, StoreInv, TypeInv
<1>10. Stored' = Stored \union {d}
  BY <1>8, <1>9 DEF Stored
<1>11. /\ history' \in [Deliveries -> Seq(Entries)]
       /\ history'[d] = << <<NotStored, "QUEUED">> >>
       /\ \A e \in Deliveries : e # d => history'[e] = history[e]
  <2>1. << <<NotStored, "QUEUED">> >> \in Seq(Entries)
    BY DEF Statuses
  <2> QED
    BY <2>1 DEF store_delivery, StoreInv, TypeInv
<1>12. \A e \in Stored : RowsOf(e)' = RowsOf(e)
  BY <1>3, <1>4, <1>5, <1>7 DEF RowsOf
<1>13. \A i \in DOMAIN outbox : outbox[i].delivery \in Stored
  BY DEF StoreInv, RowInv
<1>14. SumInv'
  <2> SUFFICES ASSUME NEW e \in Stored \union {d}
               PROVE  /\ RowsOf(e)' # {}
                      /\ delivery'[e].status = "PROCESSED" <=>
                           \A k \in RowsOf(e)' : outbox'[k].status = "SUCCEEDED"
                      /\ delivery'[e].status = "DEAD_LETTER" <=>
                           \E k \in RowsOf(e)' : outbox'[k].status = "DEAD_LETTER"
    BY <1>10 DEF SumInv
  <2>1. CASE e = d
    <3>1. delivery'[e].status = "QUEUED"
      BY <1>9, <2>1
    <3>2. \A k \in RowsOf(d)' : outbox'[k].status = "PENDING"
      BY <1>4, <1>5, <1>7, <1>13 DEF RowsOf
    <3>3. Len(outbox) + 1 \in RowsOf(d)'
      BY <1>5, <1>6 DEF RowsOf
    <3> QED
      BY <2>1, <3>1, <3>2, <3>3
  <2>2. CASE e \in Stored
    <3>1. RowsOf(e)' = RowsOf(e) /\ delivery'[e] = delivery[e]
      BY <1>7, <1>9, <1>12, <2>2 DEF Stored
    <3>2. \A k \in RowsOf(e) : outbox'[k] = outbox[k]
      BY <1>4 DEF RowsOf
    <3> QED
      BY <2>2, <3>1, <3>2 DEF SumInv, StoreInv
  <2> QED
    BY <2>1, <2>2
<1>15. LetterInv'
  <2>1. {k \in DOMAIN outbox' : outbox'[k].status = "DEAD_LETTER"}
          = {k \in DOMAIN outbox : outbox[k].status = "DEAD_LETTER"}
    BY <1>4, <1>5
  <2> QED
    BY <1>4, <2>1 DEF LetterInv, StoreInv, store_delivery
<1>16. HistoryIsAChain'
  <2> SUFFICES ASSUME NEW e \in Deliveries
               PROVE  LET h == history'[e]
                      IN  /\ (h = << >>) <=> (e \notin Stored')
                          /\ h # << >> => Last(h)[2] = delivery'[e].status
                          /\ \A k \in 2..Len(h) : h[k][1] = h[k - 1][2]
    BY DEF HistoryIsAChain
  <2>1. CASE e = d
    <3> DEFINE h == << <<NotStored, "QUEUED">> >>
    <3>1. Len(h) = 1 /\ h[1] = <<NotStored, "QUEUED">> /\ h # << >>
      OBVIOUS
    <3>2. Last(h)[2] = "QUEUED"
      BY <3>1 DEF Last
    <3>3. history'[e] = h /\ e \in Stored' /\ delivery'[e].status = "QUEUED"
      BY <1>9, <1>10, <1>11, <2>1
    <3>4. 2..Len(h) = {}
      BY <3>1
    <3> HIDE DEF h
    <3> QED
      BY <3>1, <3>2, <3>3, <3>4
  <2>2. CASE e # d
    <3>1. history'[e] = history[e]
      BY <1>11, <2>2
    <3>2. (e \in Stored') <=> e \in Stored
      BY <1>10, <2>2
    <3>3. delivery'[e] = delivery[e]
      BY <1>9, <2>2
    <3>4. LET h == history[e]
          IN  /\ (h = << >>) <=> (e \notin Stored)
              /\ h # << >> => Last(h)[2] = delivery[e].status
              /\ \A k \in 2..Len(h) : h[k][1] = h[k - 1][2]
      BY DEF HistoryIsAChain, StoreInv
    <3> QED
      BY <3>1, <3>2, <3>3, <3>4
  <2> QED
    BY <2>1, <2>2
<1>17. RowInv'
  BY <1>4, <1>5, <1>10 DEF RowInv, StoreInv
<1>18. UNCHANGED <<claims, sweeps>>
  BY DEF store_delivery
<1>19. AttemptInv' /\ AttemptsAreDistinct'
  BY <1>4, <1>18 DEF AttemptInv, AttemptsAreDistinct, StoreInv, TypeInv
<1>20. TypeInv'
  BY <1>3, <1>4, <1>9, <1>11, <1>18 DEF TypeInv, StoreInv
<1> QED
  BY <1>14, <1>15, <1>16, <1>17, <1>19, <1>20 DEF StoreInv

-----------------------------------------------------------------------------
(* Every step                                                              *)

\* Rows are kept, in their place, for their delivery, and do not lose attempts.
RowsGoOn ==
  \A i \in DOMAIN outbox :
    /\ i \in DOMAIN outbox' /\ outbox'[i].attempt >= outbox[i].attempt
    /\ outbox[i].status \in Finished => outbox'[i] = outbox[i]

LEMMA QuietGoesOn ==
  ASSUME Quiet
  PROVE  RowsGoOn
BY DEF Quiet, RowsGoOn

LEMMA FinishGoesOn ==
  ASSUME StoreInv, NEW i, NEW status, Finishes(i, status)
  PROVE  RowsGoOn
BY RowTypes DEF Finishes, RowsGoOn, Finished

LEMMA StoreGoesOn ==
  ASSUME StoreInv, NEW d \in Deliveries, NEW p, store_delivery(d, p)
  PROVE  RowsGoOn
<1>1. outbox \in Seq(Rows) /\ NewRows(d) \in Seq(Rows) /\ outbox' = outbox \o NewRows(d)
  BY NewRowsType DEF store_delivery, StoreInv, TypeInv
<1>2. \A i \in DOMAIN outbox : i \in DOMAIN outbox' /\ outbox'[i] = outbox[i]
  BY <1>1
<1> QED
  BY <1>2, RowTypes DEF RowsGoOn

\* A claim answered or dropped is gone, and no other comes.
LEMMA ClaimsStay ==
  ASSUME StoreInv, RowsGoOn, outbox' \in Seq(Rows), claims' \subseteq claims
  PROVE  /\ AttemptInv' /\ AttemptsAreDistinct'
         /\ claims' \subseteq [id : DOMAIN outbox', attempt : Nat, worker : Workers]
<1>1. \A c \in claims : c \in [id : DOMAIN outbox, attempt : Nat, worker : Workers]
  BY DEF StoreInv, TypeInv
<1>2. \A c \in claims' : c \in [id : DOMAIN outbox', attempt : Nat, worker : Workers]
  BY <1>1 DEF RowsGoOn
<1>3. \A i \in DOMAIN outbox : outbox[i].attempt \in Nat /\ outbox'[i].attempt \in Nat
  <2>1. \A i \in DOMAIN outbox : i \in DOMAIN outbox'
    BY DEF RowsGoOn
  <2>2. \A i \in DOMAIN outbox : outbox'[i] \in Rows
    BY <2>1
  <2> QED
    BY <2>2, RowTypes DEF Rows
<1>4. AttemptInv'
  BY <1>1, <1>3 DEF AttemptInv, StoreInv, RowsGoOn
<1> QED
  BY <1>2, <1>4 DEF AttemptsAreDistinct, StoreInv

LEMMA ClaimKeeps ==
  ASSUME StoreInv, NEW w \in Workers, NEW limit, claim_ready(w, limit)
  PROVE  /\ AttemptInv' /\ AttemptsAreDistinct'
         /\ claims' \subseteq [id : DOMAIN outbox', attempt : Nat, worker : Workers]
<1>1. Quiet
  BY ClaimStep
<1>2. PICK ids \in SUBSET DOMAIN outbox :
        /\ \A i \in ids : outbox'[i].attempt > outbox[i].attempt
        /\ claims' = claims \union
             {[id |-> i, attempt |-> outbox'[i].attempt, worker |-> w] : i \in ids}
  BY ClaimStep
<1>3. \A i \in DOMAIN outbox : /\ outbox[i].attempt \in Nat /\ outbox'[i].attempt \in Nat
                              /\ i \in DOMAIN outbox'
                              /\ outbox'[i].attempt >= outbox[i].attempt
  <2>1. \A i \in DOMAIN outbox : outbox[i] \in Rows /\ outbox'[i] \in Rows
    BY <1>1, RowTypes DEF Quiet
  <2> QED
    BY <1>1, <2>1 DEF Quiet, Rows
<1>4. \A c \in claims : /\ c \in [id : DOMAIN outbox, attempt : Nat, worker : Workers]
                       /\ c.attempt <= outbox[c.id].attempt
  BY DEF StoreInv, TypeInv, AttemptInv
<1>5. \A c \in claims' :
        \/ c \in claims
        \/ /\ c.id \in ids /\ c.attempt = outbox'[c.id].attempt
           /\ c = [id |-> c.id, attempt |-> c.attempt, worker |-> w]
  BY <1>2
<1>6. AttemptInv'
  BY <1>3, <1>4, <1>5 DEF AttemptInv
<1>7. \A c \in claims' : c \in [id : DOMAIN outbox', attempt : Nat, worker : Workers]
  BY <1>3, <1>4, <1>5
<1>8. \A c \in claims : c.id \in ids => c.attempt < outbox'[c.id].attempt
  BY <1>2, <1>3, <1>4
<1>9. \A c, e \in claims' : c.id = e.id /\ c.attempt = e.attempt => c = e
  <2> SUFFICES ASSUME NEW c \in claims', NEW e \in claims', c.id = e.id, c.attempt = e.attempt
               PROVE  c = e
    OBVIOUS
  <2>1. CASE c \in claims /\ e \in claims
    BY <2>1 DEF StoreInv, AttemptsAreDistinct
  <2>2. CASE c \in claims /\ e \notin claims
    <3>1. e.id \in ids /\ e.attempt = outbox'[e.id].attempt
      BY <1>5, <2>2
    <3>2. c.attempt \in Nat /\ c.attempt < outbox'[c.id].attempt
      BY <1>4, <1>8, <2>2, <3>1
    <3> QED
      BY <3>1, <3>2
  <2>3. CASE c \notin claims /\ e \in claims
    <3>1. c.id \in ids /\ c.attempt = outbox'[c.id].attempt
      BY <1>5, <2>3
    <3>2. e.attempt \in Nat /\ e.attempt < outbox'[e.id].attempt
      BY <1>4, <1>8, <2>3, <3>1
    <3> QED
      BY <3>1, <3>2
  <2>4. CASE c \notin claims /\ e \notin claims
    BY <1>5, <2>4
  <2> QED
    BY <2>1, <2>2, <2>3, <2>4
<1> QED
  BY <1>6, <1>7, <1>9 DEF AttemptsAreDistinct

LEMMA StoreInit == Init => StoreInv
<1> SUFFICES ASSUME Init PROVE StoreInv
  OBVIOUS
<1>1. Stored = {} /\ DOMAIN outbox = {} /\ outbox \in Seq(Rows)
  BY DEF Init, Stored
<1>2. TypeInv
  BY <1>1 DEF Init, TypeInv
<1>3. LetterInv
  BY <1>1 DEF Init, LetterInv
<1>4. HistoryIsAChain
  BY <1>1 DEF Init, HistoryIsAChain
<1> QED
  BY <1>1, <1>2, <1>3, <1>4
  DEF StoreInv, Init, RowInv, SumInv, AttemptInv, AttemptsAreDistinct

\* A step that finishes nothing preserves the invariant and lets rows go on.
LEMMA QuietStep ==
  ASSUME StoreInv, Quiet, claims' \subseteq claims, sweeps' \in Nat
  PROVE  StoreInv' /\ RowsGoOn
<1>1. RowsGoOn
  BY QuietGoesOn
<1>2. AttemptInv' /\ AttemptsAreDistinct'
      /\ claims' \subseteq [id : DOMAIN outbox', attempt : Nat, worker : Workers]
  BY <1>1, ClaimsStay DEF Quiet
<1>3. TypeInv'
  BY <1>2 DEF TypeInv, StoreInv, Quiet
<1> QED
  BY <1>1, <1>2, <1>3, QuietKeeps DEF StoreInv

LEMMA AnswerStep ==
  ASSUME StoreInv, NEW c \in claims, complete_claim(c)
  PROVE  StoreInv' /\ RowsGoOn
<1>1. c.id \in DOMAIN outbox /\ outbox[c.id].status = "PROCESSING"
  BY DEF complete_claim, Owns, LockedBy, StoreInv, TypeInv
<1>2. claims' \subseteq claims /\ UNCHANGED sweeps
  BY DEF complete_claim
<1>3. CASE RetryLater(c.id)
  BY <1>1, <1>2, <1>3, RetryIsQuiet, QuietStep DEF StoreInv, TypeInv
<1>4. ASSUME NEW status \in Finished, Finishes(c.id, status),
             delivery' \in [Deliveries -> Kept \union {NotStored}],
             history' \in [Deliveries -> Seq((Statuses \union {NotStored}) \X Statuses)],
             RowInv', SumInv', LetterInv', HistoryIsAChain'
      PROVE  StoreInv' /\ RowsGoOn
  <2>1. RowsGoOn /\ outbox' \in Seq(Rows)
    BY <1>4, FinishGoesOn DEF Finishes
  <2>2. AttemptInv' /\ AttemptsAreDistinct'
        /\ claims' \subseteq [id : DOMAIN outbox', attempt : Nat, worker : Workers]
    BY <1>2, <2>1, ClaimsStay
  <2>3. TypeInv'
    BY <1>2, <1>4, <2>1, <2>2 DEF TypeInv, StoreInv
  <2> QED
    BY <1>4, <2>1, <2>2, <2>3 DEF StoreInv
<1>5. CASE Succeed(c.id)
  BY <1>1, <1>4, <1>5, SucceedStep DEF Finished
<1>6. CASE DeadLetter(c.id)
  BY <1>1, <1>4, <1>6, DeadLetterStep DEF Finished
<1> QED
  BY <1>3, <1>5, <1>6 DEF complete_claim

LEMMA StoreNext ==
  ASSUME StoreInv, [Next]_vars
  PROVE  StoreInv' /\ RowsGoOn
<1>0. sweeps \in Nat
  BY DEF StoreInv, TypeInv
<1>1. ASSUME NEW d \in Deliveries, NEW p \in Payloads, store_delivery(d, p)
      PROVE  StoreInv' /\ RowsGoOn
  BY <1>1, StoreStep, StoreGoesOn
<1>2. CASE Claim
  <2>1. PICK w \in Workers, limit \in 1..MaxBatch : claim_ready(w, limit)
    BY <1>2 DEF Claim
  <2>2. Quiet /\ UNCHANGED sweeps
    BY <2>1, ClaimStep
  <2>3. AttemptInv' /\ AttemptsAreDistinct'
        /\ claims' \subseteq [id : DOMAIN outbox', attempt : Nat, worker : Workers]
    BY <2>1, ClaimKeeps
  <2>4. TypeInv'
    BY <2>2, <2>3 DEF TypeInv, StoreInv, Quiet
  <2> QED
    BY <2>2, <2>3, <2>4, QuietKeeps, QuietGoesOn DEF StoreInv
<1>3. ASSUME NEW c \in claims, complete_claim(c)
      PROVE  StoreInv' /\ RowsGoOn
  BY <1>3, AnswerStep
<1>4. CASE recover_processing
  BY <1>4, SweepIsQuiet, QuietStep
<1>5. CASE Tick
  BY <1>0, <1>5, TickIsQuiet, QuietStep DEF Tick
<1>6. ASSUME Same, claims' \subseteq claims, UNCHANGED sweeps
      PROVE  StoreInv' /\ RowsGoOn
  BY <1>0, <1>6, SameIsQuiet, QuietStep
<1>7. ASSUME NEW c \in claims, RefuseClaim(c)
      PROVE  StoreInv' /\ RowsGoOn
  BY <1>6, <1>7 DEF RefuseClaim, Same
<1>8. ASSUME NEW w \in Workers, WorkerCrash(w)
      PROVE  StoreInv' /\ RowsGoOn
  BY <1>6, <1>8 DEF WorkerCrash, Same
<1>9. CASE UNCHANGED vars
  BY <1>6, <1>9 DEF vars, Same
<1> QED
  BY <1>1, <1>2, <1>3, <1>4, <1>5, <1>7, <1>8, <1>9 DEF Next

LEMMA StoreAlways == Spec => []StoreInv
BY StoreInit, StoreNext, PTL DEF Spec

-----------------------------------------------------------------------------
(* In whatever order and however late workers answer, a delivery shows     *)
(* what its rows did, and the dead letters are those of the rows that gave *)
(* up, at the attempt they gave up at.                                     *)
THEOREM DeliveriesMatch == Spec => []DeliveryMatchesOutbox
<1>1. ASSUME StoreInv PROVE DeliveryMatchesOutbox
  <2>1. ASSUME NEW d \in Stored
        PROVE  LET statuses == {outbox[i].status : i \in RowsOf(d)}
               IN  delivery[d].status = IF statuses = {"SUCCEEDED"} THEN "PROCESSED"
                                        ELSE IF "DEAD_LETTER" \in statuses THEN "DEAD_LETTER"
                                        ELSE "QUEUED"
    <3> DEFINE statuses == {outbox[i].status : i \in RowsOf(d)}
    <3>1. delivery[d].status \in Statuses
      <4>1. delivery[d] \in Kept
        BY <1>1 DEF StoreInv, TypeInv, Stored
      <4> QED
        BY <4>1 DEF Kept
    <3>2. RowsOf(d) # {}
      BY <1>1 DEF StoreInv, SumInv
    <3>3. statuses = {"SUCCEEDED"} <=> \A i \in RowsOf(d) : outbox[i].status = "SUCCEEDED"
      BY <3>2
    <3>4. "DEAD_LETTER" \in statuses <=> \E i \in RowsOf(d) : outbox[i].status = "DEAD_LETTER"
      OBVIOUS
    <3> HIDE DEF statuses
    <3>5. delivery[d].status = IF statuses = {"SUCCEEDED"} THEN "PROCESSED"
                               ELSE IF "DEAD_LETTER" \in statuses THEN "DEAD_LETTER"
                               ELSE "QUEUED"
      BY <1>1, <3>1, <3>3, <3>4 DEF StoreInv, SumInv, Statuses
    <3> QED
      BY <3>5 DEF statuses
  <2> QED
    BY <1>1, <2>1 DEF DeliveryMatchesOutbox, StoreInv, LetterInv
<1> QED
  BY <1>1, StoreAlways, PTL

(* The history of every delivery is one chain from its acceptance to the   *)
(* status it has.                                                          *)
THEOREM HistoriesAreChains == Spec => []HistoryIsAChain
<1>1. StoreInv => HistoryIsAChain
  BY DEF StoreInv
<1> QED
  BY <1>1, StoreAlways, PTL

(* No two claims in workers' hands are for the same attempt of a row,      *)
(* whoever crashed and whatever the sweep took back.                       *)
THEOREM AttemptsHandedOutOnce == Spec => []AttemptsAreDistinct
<1>1. StoreInv => AttemptsAreDistinct
  BY DEF StoreInv
<1> QED
  BY <1>1, StoreAlways, PTL

(* A row that succeeded or was given up is never touched again, by late    *)
(* answers, sweeps or claims.                                              *)
THEOREM FinishedForGood == Spec => FinishedRowsStay
<1>1. ASSUME StoreInv, [Next]_vars
      PROVE  \A i \in DOMAIN outbox :
               outbox[i].status \in {"SUCCEEDED", "DEAD_LETTER"} => outbox'[i] = outbox[i]
  BY <1>1, StoreNext DEF RowsGoOn, Finished
<1>2. StoreInv /\ [Next]_vars =>
        [\A i \in DOMAIN outbox :
           outbox[i].status \in {"SUCCEEDED", "DEAD_LETTER"} => outbox'[i] = outbox[i]]_vars
  BY <1>1
<1> QED
  BY <1>2, StoreAlways, PTL DEF Spec, FinishedRowsStay
===============================================================================

---------------------- MODULE RegistryTransactionProofs ----------------------
(***************************************************************************)
(* Proofs about RegistryTransaction for any number of operators, requests, *)
(* authorizations, nonces and retries, and all three registries, under the *)
(* one assumption the code leaves to its users: a registry is bootstrapped *)
(* by one process.                                                         *)
(***************************************************************************)
EXTENDS RegistryTransaction, TLAPS

OneBootstrapper == \A b, c \in Bootstrappers : b = c

(* ------------------------ the inductive invariant ----------------------- *)

LockInv == \A p \in Operators : phase[p] \in Holding <=> lock = p

BootInv ==
  /\ ~present => history = << >>
  /\ \A b \in Bootstrappers : boot[b] = "create" => ~present

LedgerInv ==
  /\ \A i, j \in DOMAIN history :
       i # j => /\ history[i].auth # history[j].auth
                /\ history[i].nonce # history[j].nonce
  /\ backend = "P9" => Len(history) <= 1

RequestInv ==
  \A p \in Operators : phase[p] # "new" =>
    Begins(request[p].expected, history)

Fresh(r) == \A i \in DOMAIN history : ~UsesAuth(i, r) /\ ~UsesNonce(i, r)

AcceptInv ==
  \A p \in Operators : phase[p] = "replace" =>
    /\ present /\ wrote[p] /\ pre[p] = history
    /\ record[p] = EntryOf(request[p]) /\ request[p].expected = history
    /\ Fresh(request[p])
    /\ backend = "P9" => history = << >>

Written(p) ==
  /\ Post(p) \in Seq(Entries) /\ record[p] \in Entries
  /\ Begins(Post(p), history)
  /\ \E i \in 1..Len(Post(p)) : Post(p)[i] = record[p]

WrittenInv ==
  \A p \in Operators :
    phase[p] \in {"confirm", "compare", "publish"} => Written(p)

StaleInv ==
  \A p \in Operators : phase[p] = "stale" =>
    /\ Len(request[p].expected) < Len(history)
    /\ \A i \in DOMAIN history : history[i] # EntryOf(request[p])

Claims == [operator : Operators, try : 0..MaxTries, record : Entries,
           wrote : BOOLEAN, pre : Seq(Entries), post : Seq(Entries)]

EvidenceInv ==
  \A e \in evidence :
    /\ e \in Claims /\ Begins(e.post, history)
    /\ \E i \in 1..Len(e.post) : e.post[i] = e.record
    /\ e.wrote => e.post = Append(e.pre, e.record)

\* The operators that have written their record and not yet published so.
Writes(p) == phase[p] \in {"confirm", "compare", "publish"} /\ wrote[p]

OnceInv ==
  /\ \A p \in Operators, e \in evidence :
       Writes(p) /\ e.wrote => e.record # record[p]
  /\ \A p, q \in Operators :
       p # q /\ Writes(p) /\ Writes(q) => record[p] # record[q]
  /\ \A e, f \in evidence : e.wrote /\ f.wrote /\ f.record = e.record => f = e

Inv == /\ TypeOK /\ LockInv /\ BootInv /\ LedgerInv /\ RequestInv /\ AcceptInv
       /\ WrittenInv /\ StaleInv /\ EvidenceInv /\ OnceInv

(* ------------------------------- histories ------------------------------ *)

(* An entry is a record of the ledger's type.                              *)
LEMMA EntriesAreTyped ==
  ASSUME NEW r \in Requests PROVE EntryOf(r) \in Entries
BY DEF Requests, Entries, EntryOf

(* A history begins with itself, and with what one it begins with begins   *)
(* with.                                                                   *)
LEMMA BeginsIsAnOrder ==
  ASSUME NEW S, NEW s \in Seq(S), NEW t \in Seq(S), NEW u \in Seq(S)
  PROVE  Begins(s, s) /\ (Begins(s, t) /\ Begins(t, u) => Begins(s, u))
BY DEF Begins

(* An appended history begins with the one it was appended to.             *)
LEMMA BeginsAppend ==
  ASSUME NEW S, NEW s \in Seq(S), NEW e \in S
  PROVE  Begins(s, Append(s, e))
BY DEF Begins

(* Of two histories of one length, one that begins with the other is it.   *)
LEMMA BeginsWhole ==
  ASSUME NEW S, NEW s \in Seq(S), NEW t \in Seq(S), Begins(s, t),
         ~ (Len(s) < Len(t))
  PROVE  s = t
<1>1. Len(s) = Len(t) /\ \A i \in 1..Len(s) : s[i] = t[i]
  BY DEF Begins
<1>2. QED
  BY <1>1

(* ---------------------------- type correctness -------------------------- *)

LEMMA TypeInit == Init => TypeOK
<1> SUFFICES ASSUME Init PROVE TypeOK
  OBVIOUS
<1>1. /\ history \in Seq(Entries) /\ pre \in [Operators -> Seq(Entries)]
      /\ tries \in [Operators -> 0..MaxTries]
  BY TransactionAssumption DEF Init
<1>2. /\ phase \in [Operators -> Active \union Resting \union {"new"}]
      /\ \A p \in Operators : phase[p] = "new"
  BY DEF Init
<1>3. /\ present \in BOOLEAN /\ inWindow \in [Operators -> BOOLEAN]
      /\ wrote \in [Operators -> BOOLEAN]
  BY DEF Init
<1>4. /\ backend \in Backends /\ lock \in Operators \union {NoOne}
      /\ boot \in [Bootstrappers -> {"idle", "create", "done"}]
      /\ request \in [Operators -> Requests \union {NoOne}]
      /\ record \in [Operators -> Entries \union {NoOne}]
  BY DEF Init
<1>5. QED
  BY <1>1, <1>2, <1>3, <1>4 DEF TypeOK

LEMMA TypeNext == TypeOK /\ [Next]_vars => TypeOK'
<1> SUFFICES ASSUME TypeOK, [Next]_vars PROVE TypeOK'
  OBVIOUS
<1> USE TransactionAssumption
<1>1. ASSUME NEW b \in Bootstrappers, FindNoDocument(b) PROVE TypeOK'
  BY <1>1 DEF FindNoDocument, TypeOK, documents, invocation
<1>2. ASSUME NEW b \in Bootstrappers, CreateDocument(b) PROVE TypeOK'
  BY <1>2 DEF CreateDocument, TypeOK, invocation
<1>3. ASSUME NEW p \in Operators, Prepare(p) PROVE TypeOK'
  <2>1. \E r \in Requests : request' = [request EXCEPT ![p] = r]
    <3>1. CASE \E a \in Auths, n \in Nonces :
                 request' = [request EXCEPT ![p] =
                   [auth |-> a, nonce |-> n, run |-> p, expected |-> history]]
      BY <3>1 DEF TypeOK, Requests
    <3>2. CASE \E q \in Operators :
                 phase[q] # "new" /\ request' = [request EXCEPT ![p] = request[q]]
      BY <3>2 DEF TypeOK
    <3>3. QED
      BY <1>3, <3>1, <3>2 DEF Prepare
  <2>2. QED
    BY <1>3, <2>1 DEF Prepare, Goto, TypeOK, documents, invocation, Resting
<1>4. ASSUME NEW p \in Operators, Start(p) PROVE TypeOK'
  <2>1. tries' \in [Operators -> 0..MaxTries]
    BY <1>4 DEF Start, TypeOK
  <2>2. QED
    BY <1>4, <2>1 DEF Start, Goto, TypeOK, documents, Resting, Active, Holding
<1>5. ASSUME NEW p \in Operators, Acquire(p) PROVE TypeOK'
  BY <1>5 DEF Acquire, Goto, TypeOK, documents, invocation, Resting, Active, Holding
<1>6. ASSUME NEW p \in Operators, Crash(p) PROVE TypeOK'
  BY <1>6 DEF Crash, Goto, TypeOK, documents, invocation, Resting, Active, Holding
<1>7. ASSUME NEW p \in Operators, Decide(p) PROVE TypeOK'
  <2>1. lock' \in Operators \union {NoOne}
    BY <1>7 DEF Decide, Replay, Refuse, Accept, Unlock, TypeOK
  <2>2. \E s \in Active \union Resting : phase' = [phase EXCEPT ![p] = s]
    BY <1>7 DEF Decide, Replay, Refuse, Accept, Goto, AfterLock, Active, Holding, Resting
  <2>3. request[p] \in Requests
    BY <1>7 DEF Decide, TypeOK
  <2>4. record' \in [Operators -> Entries \union {NoOne}] /\ wrote' \in [Operators -> BOOLEAN]
    <3>1. CASE Replay(p)
      <4>1. PICK i \in Retries(request[p]) : record' = [record EXCEPT ![p] = history[i]]
        BY <3>1 DEF Replay
      <4>2. history[i] \in Entries
        BY <4>1 DEF Retries, TypeOK
      <4>3. QED
        BY <3>1, <4>1, <4>2 DEF Replay, TypeOK
    <3>2. CASE Refuse(p)
      BY <3>2 DEF Refuse, TypeOK
    <3>3. CASE Accept(p)
      BY <3>3, <2>3, EntriesAreTyped DEF Accept, TypeOK
    <3>4. QED
      BY <1>7, <3>1, <3>2, <3>3 DEF Decide
  <2>5. pre' \in [Operators -> Seq(Entries)]
    BY <1>7 DEF Decide, TypeOK
  <2>6. phase' \in [Operators -> Active \union Resting \union {"new"}]
        /\ \A q \in Operators : phase'[q] # "new" => phase[q] # "new"
    BY <1>7, <2>2 DEF Decide, TypeOK, Resting, Active, Holding
  <2>7. \A q \in Operators : phase'[q] = "replace" => record'[q] \in Entries
    <3>1. CASE Replay(p) \/ Refuse(p)
      BY <3>1, <1>7, <2>4 DEF Replay, Refuse, Goto, AfterLock, TypeOK
    <3>2. CASE Accept(p)
      BY <3>2, <1>7, <2>3, EntriesAreTyped DEF Accept, Goto, TypeOK
    <3>3. QED
      BY <1>7, <3>1, <3>2 DEF Decide
  <2>8. QED
    BY <1>7, <2>1, <2>4, <2>5, <2>6, <2>7 DEF Decide, TypeOK, documents
<1>8. ASSUME NEW p \in Operators, Replace(p) PROVE TypeOK'
  <2>1. Post(p) \in Seq(Entries)
    BY <1>8 DEF Replace, Post, TypeOK
  <2>2. QED
    BY <1>8, <2>1 DEF Replace, Goto, TypeOK, invocation, Resting, Active, Holding
<1>9. ASSUME NEW p \in Operators, Confirm(p) PROVE TypeOK'
  BY <1>9 DEF Confirm, Unlock, AfterLock, Goto, TypeOK, documents, invocation,
              Resting, Active, Holding
<1>10. ASSUME NEW p \in Operators, Compare(p) \/ Publish(p) \/ Verify(p)
       PROVE  TypeOK'
  BY <1>10 DEF Compare, Compared, Publish, Verify, Goto, TypeOK, documents,
               invocation, Resting, Active, Holding
<1>11. CASE UNCHANGED vars
  BY <1>11 DEF vars, TypeOK
<1>12. QED
  BY <1>1, <1>2, <1>3, <1>4, <1>5, <1>6, <1>7, <1>8, <1>9, <1>10, <1>11
     DEF Next, Work
LEMMA InvInit == Init => Inv
<1> SUFFICES ASSUME Init PROVE Inv
  OBVIOUS
<1>1. \A p \in Operators : phase[p] = "new"
  BY DEF Init
<1>2. LockInv
  BY <1>1, TransactionAssumption DEF LockInv, Holding, Init
<1>3. RequestInv /\ AcceptInv /\ WrittenInv /\ StaleInv
  BY <1>1 DEF RequestInv, AcceptInv, WrittenInv, StaleInv
<1>4. BootInv
  BY DEF BootInv, Init
<1>5. LedgerInv /\ EvidenceInv
  BY DEF LedgerInv, EvidenceInv, Init
<1>7. OnceInv
  BY <1>1 DEF OnceInv, Writes, Init
<1>6. QED
  BY TypeInit, <1>2, <1>3, <1>4, <1>5, <1>7 DEF Inv

-----------------------------------------------------------------------------
(* What a step does to the document: bootstrapping makes an empty one where *)
(* there is none, a replacement appends the accepted record, and every other *)
(* step leaves it alone.                                                     *)

LEMMA ReplaceAppends ==
  ASSUME Inv, NEW p \in Operators, Replace(p)
  PROVE  /\ present /\ present' /\ Fresh(request[p])
         /\ EntryOf(request[p]) \in Entries /\ record[p] = EntryOf(request[p])
         /\ request[p] \in Requests /\ request[p].expected = history
         /\ history' = Append(history, EntryOf(request[p]))
         /\ backend = "P9" => history = << >>
<1>1. phase[p] = "replace" /\ request[p] \in Requests
  BY DEF Replace, Inv, TypeOK
<1>2. /\ present /\ wrote[p] /\ pre[p] = history
      /\ record[p] = EntryOf(request[p]) /\ request[p].expected = history
      /\ Fresh(request[p]) /\ (backend = "P9" => history = << >>)
  BY <1>1 DEF Inv, AcceptInv
<1>3. Post(p) = Append(history, EntryOf(request[p]))
  BY <1>2 DEF Post
<1>4. QED
  BY <1>1, <1>2, <1>3, EntriesAreTyped DEF Replace

LEMMA CreateKeeps ==
  ASSUME Inv, NEW b \in Bootstrappers, CreateDocument(b)
  PROVE  ~present /\ present' /\ UNCHANGED history
BY DEF CreateDocument, Inv, BootInv

Untouched == UNCHANGED <<backend, present, history>>

LEMMA DocumentSteps ==
  ASSUME Inv, [Next]_vars
  PROVE  \/ Untouched
         \/ \E b \in Bootstrappers : CreateDocument(b)
         \/ \E p \in Operators : Replace(p)
BY DEF Next, Work, Untouched, FindNoDocument, Prepare, Start, Acquire, Crash,
       Decide, Confirm, Compare, Publish, Verify, documents, vars

LEMMA HistoryGrows ==
  ASSUME Inv, [Next]_vars
  PROVE  /\ history \in Seq(Entries) /\ history' \in Seq(Entries)
         /\ Begins(history, history') /\ backend' = backend
<1>0. history \in Seq(Entries)
  BY DEF Inv, TypeOK
<1>1. CASE Untouched
  BY <1>0, <1>1, BeginsIsAnOrder DEF Untouched
<1>2. CASE \E b \in Bootstrappers : CreateDocument(b)
  BY <1>0, <1>2, BeginsIsAnOrder, CreateKeeps DEF CreateDocument
<1>3. ASSUME NEW p \in Operators, Replace(p)
      PROVE  /\ history' \in Seq(Entries) /\ Begins(history, history')
             /\ backend' = backend
  <2>1. /\ EntryOf(request[p]) \in Entries
        /\ history' = Append(history, EntryOf(request[p]))
    BY <1>3, ReplaceAppends
  <2>2. QED
    BY <1>0, <1>3, <2>1, BeginsAppend DEF Replace
<1>4. QED
  BY <1>0, <1>1, <1>2, <1>3, DocumentSteps

-----------------------------------------------------------------------------
(* The inductive steps, one conjunct at a time.                            *)

LEMMA LockNext == Inv /\ [Next]_vars => LockInv'
<1> SUFFICES ASSUME Inv, [Next]_vars PROVE LockInv'
  OBVIOUS
<1> USE TransactionAssumption DEF Inv, LockInv, TypeOK
<1>1. ASSUME NEW b \in Bootstrappers, FindNoDocument(b) \/ CreateDocument(b)
      PROVE  LockInv'
  BY <1>1 DEF FindNoDocument, CreateDocument
<1>2. ASSUME NEW p \in Operators, Prepare(p) \/ Start(p) PROVE LockInv'
  <2>1. phase[p] \notin Holding
    BY <1>2 DEF Prepare, Start, Resting, Holding
  <2>2. lock' = lock
    BY <1>2 DEF Prepare, Start
  <2>3. \E s \in Resting \union {"waiting"} : phase' = [phase EXCEPT ![p] = s]
    BY <1>2 DEF Prepare, Start, Goto, Resting
  <2>4. QED
    BY <2>1, <2>2, <2>3 DEF Resting, Holding
<1>3. ASSUME NEW p \in Operators, Acquire(p) PROVE LockInv'
  BY <1>3 DEF Acquire, Goto, Holding
<1>4. ASSUME NEW p \in Operators, Crash(p) PROVE LockInv'
  BY <1>4 DEF Crash, Goto, Holding
<1>5. ASSUME NEW p \in Operators, Decide(p) PROVE LockInv'
  <2>1. CASE Replay(p) \/ Refuse(p)
    BY <1>5, <2>1 DEF Decide, Replay, Refuse, Unlock, Goto, AfterLock, Holding
  <2>2. CASE Accept(p)
    BY <1>5, <2>2 DEF Decide, Accept, Goto, Holding
  <2>3. QED
    BY <1>5, <2>1, <2>2 DEF Decide
<1>6. ASSUME NEW p \in Operators, Replace(p) PROVE LockInv'
  BY <1>6 DEF Replace, Goto, Holding
<1>7. ASSUME NEW p \in Operators, Confirm(p) PROVE LockInv'
  BY <1>7 DEF Confirm, Unlock, AfterLock, Goto, Holding
<1>8. ASSUME NEW p \in Operators, Compare(p) \/ Publish(p) \/ Verify(p)
      PROVE  LockInv'
  BY <1>8 DEF Compare, Compared, Publish, Verify, Goto, Holding
<1>9. CASE UNCHANGED vars
  BY <1>9 DEF vars
<1>10. QED
  BY <1>1, <1>2, <1>3, <1>4, <1>5, <1>6, <1>7, <1>8, <1>9 DEF Next, Work

LEMMA BootNext == OneBootstrapper /\ Inv /\ [Next]_vars => BootInv'
<1> SUFFICES ASSUME OneBootstrapper, Inv, [Next]_vars PROVE BootInv'
  OBVIOUS
<1>1. ASSUME NEW b \in Bootstrappers, FindNoDocument(b) PROVE BootInv'
  BY <1>1 DEF FindNoDocument, documents, Inv, BootInv, TypeOK
<1>2. ASSUME NEW b \in Bootstrappers, CreateDocument(b) PROVE BootInv'
  BY <1>2 DEF CreateDocument, OneBootstrapper, Inv, BootInv, TypeOK
<1>3. ASSUME NEW p \in Operators, Replace(p) PROVE BootInv'
  BY <1>3, ReplaceAppends DEF Replace, Inv, BootInv
<1>4. CASE UNCHANGED <<present, history, boot>>
  BY <1>4 DEF Inv, BootInv
<1>5. QED
  BY <1>1, <1>2, <1>3, <1>4
     DEF Next, Work, Prepare, Start, Acquire, Crash, Decide, Confirm, Compare,
         Publish, Verify, documents, vars

LEMMA LedgerNext == Inv /\ [Next]_vars => LedgerInv'
<1> SUFFICES ASSUME Inv, [Next]_vars PROVE LedgerInv'
  OBVIOUS
<1>1. ASSUME NEW p \in Operators, Replace(p) PROVE LedgerInv'
  <2>1. /\ Fresh(request[p]) /\ EntryOf(request[p]) \in Entries
        /\ request[p] \in Requests
        /\ history' = Append(history, EntryOf(request[p]))
        /\ backend = "P9" => history = << >>
    BY <1>1, ReplaceAppends
  <2>2. history \in Seq(Entries) /\ backend' = backend
    BY <1>1, HistoryGrows
  <2>3. ASSUME NEW i \in DOMAIN history', NEW j \in DOMAIN history', i # j
        PROVE  /\ history'[i].auth # history'[j].auth
               /\ history'[i].nonce # history'[j].nonce
    <3>1. \A k \in DOMAIN history :
            /\ history'[k] = history[k]
            /\ history[k].auth # EntryOf(request[p]).auth
            /\ history[k].nonce # EntryOf(request[p]).nonce
      BY <2>1, <2>2 DEF Fresh, UsesAuth, UsesNonce, EntryOf
    <3>2. /\ history'[Len(history) + 1] = EntryOf(request[p])
          /\ DOMAIN history = 1..Len(history)
          /\ DOMAIN history' = 1..(Len(history) + 1) /\ Len(history) \in Nat
      BY <2>1, <2>2
    <3>3. CASE i \in DOMAIN history /\ j \in DOMAIN history
      BY <2>3, <3>1, <3>3 DEF Inv, LedgerInv
    <3>4. CASE i = Len(history) + 1 /\ j \in DOMAIN history
      BY <3>1, <3>2, <3>4
    <3>5. CASE j = Len(history) + 1 /\ i \in DOMAIN history
      BY <3>1, <3>2, <3>5
    <3>6. QED
      BY <2>3, <3>2, <3>3, <3>4, <3>5
  <2>4. backend' = "P9" => Len(history') <= 1
    BY <2>1, <2>2
  <2>5. QED
    BY <2>3, <2>4 DEF LedgerInv
<1>2. CASE \E b \in Bootstrappers : CreateDocument(b)
  BY <1>2, CreateKeeps DEF CreateDocument, Inv, LedgerInv
<1>3. CASE Untouched
  BY <1>3 DEF Untouched, Inv, LedgerInv
<1>4. QED
  BY <1>1, <1>2, <1>3, DocumentSteps
LEMMA RequestNext == Inv /\ [Next]_vars => RequestInv'
<1> SUFFICES ASSUME Inv, [Next]_vars, NEW p \in Operators, phase'[p] # "new"
             PROVE  Begins(request'[p].expected, history')
  BY DEF RequestInv
<1>1. /\ history \in Seq(Entries) /\ history' \in Seq(Entries)
      /\ Begins(history, history')
  BY HistoryGrows
<1>2. CASE phase[p] # "new" /\ request'[p] = request[p]
  <2>1. Begins(request[p].expected, history) /\ request[p].expected \in Seq(Entries)
    BY <1>2 DEF Inv, RequestInv, TypeOK, Requests
  <2>2. QED
    BY <1>1, <1>2, <2>1, BeginsIsAnOrder
<1>3. CASE Prepare(p)
  <2>1. /\ request'[p].expected \in Seq(Entries)
        /\ Begins(request'[p].expected, history)
    <3>1. CASE \E a \in Auths, n \in Nonces :
                 request' = [request EXCEPT ![p] =
                   [auth |-> a, nonce |-> n, run |-> p, expected |-> history]]
      BY <1>1, <3>1, BeginsIsAnOrder DEF Inv, TypeOK
    <3>2. CASE \E q \in Operators :
                 phase[q] # "new" /\ request' = [request EXCEPT ![p] = request[q]]
      BY <3>2 DEF Inv, TypeOK, RequestInv, Requests
    <3>3. QED
      BY <1>3, <3>1, <3>2 DEF Prepare
  <2>2. QED
    BY <1>1, <2>1, BeginsIsAnOrder
<1>4. ASSUME NEW q \in Operators, q # p, Prepare(q)
      PROVE  phase[p] # "new" /\ request'[p] = request[p]
  <2>1. phase'[p] = phase[p]
    BY <1>4 DEF Prepare, Goto, Inv, TypeOK
  <2>2. request'[p] = request[p]
    BY <1>4 DEF Prepare, Inv, TypeOK
  <2>3. QED
    BY <2>1, <2>2
<1>5. ASSUME NEW q \in Operators, Start(q) \/ Acquire(q) \/ Crash(q) \/ Work(q)
      PROVE  phase[p] # "new" /\ request'[p] = request[p]
  <2>1. request' = request
    BY <1>5 DEF Start, Acquire, Crash, Work, Decide, Replace, Confirm, Compare,
                Publish, Verify
  <2>2. phase[q] # "new"
    BY <1>5 DEF Start, Acquire, Crash, Work, Decide, Replace, Confirm, Compare,
                Publish, Verify, Resting, Active, Holding
  <2>3. \E s : phase' = [phase EXCEPT ![q] = s]
    BY <1>5 DEF Start, Acquire, Crash, Work, Decide, Replay, Refuse, Accept,
                Replace, Confirm, Compare, Publish, Verify, Goto
  <2>4. QED
    BY <2>1, <2>2, <2>3 DEF Inv, TypeOK
<1>6. CASE (\E b \in Bootstrappers : FindNoDocument(b) \/ CreateDocument(b))
           \/ UNCHANGED vars
  BY <1>2, <1>6 DEF FindNoDocument, CreateDocument, vars
<1>7. QED
  BY <1>2, <1>3, <1>4, <1>5, <1>6 DEF Next

(* What a step keeps of an operator that is not the one to move.           *)
LEMMA OthersKeep ==
  ASSUME Inv, NEW p \in Operators, NEW q \in Operators, q # p,
         Prepare(p) \/ Start(p) \/ Acquire(p) \/ Crash(p) \/ Work(p)
  PROVE  /\ phase'[q] = phase[q] /\ request'[q] = request[q] /\ pre'[q] = pre[q]
         /\ record'[q] = record[q] /\ wrote'[q] = wrote[q]
<1> USE DEF Inv, TypeOK, Goto, documents, invocation
<1>1. CASE Prepare(p)
  BY <1>1 DEF Prepare
<1>2. CASE Start(p) \/ Acquire(p) \/ Crash(p)
  BY <1>2 DEF Start, Acquire, Crash
<1>3. CASE Decide(p)
  <2>1. pre'[q] = pre[q] /\ request' = request
    BY <1>3 DEF Decide
  <2>2. phase'[q] = phase[q] /\ record'[q] = record[q] /\ wrote'[q] = wrote[q]
    BY <1>3 DEF Decide, Replay, Refuse, Accept
  <2>3. QED
    BY <2>1, <2>2
<1>4. CASE Replace(p) \/ Confirm(p) \/ Compare(p) \/ Publish(p) \/ Verify(p)
  BY <1>4 DEF Replace, Confirm, Compare, Publish, Verify
<1>5. QED
  BY <1>1, <1>2, <1>3, <1>4 DEF Work

(* A step that leaves a decision in hand neither decides it anew.          *)
LEMMA OwnStepsKeep ==
  ASSUME Inv, NEW p \in Operators,
         Prepare(p) \/ Start(p) \/ Acquire(p) \/ Crash(p) \/ Work(p), ~Decide(p)
  PROVE  /\ phase'[p] # "replace" /\ phase'[p] # "stale"
         /\ phase'[p] = "confirm" => Replace(p)
         /\ phase'[p] \in {"compare", "publish"} => phase[p] \in {"confirm", "compare"}
         /\ pre'[p] = pre[p] /\ record'[p] = record[p] /\ wrote'[p] = wrote[p]
BY DEF Inv, TypeOK, Goto, documents, invocation, Prepare, Start, Acquire, Crash,
       Work, Replace, Confirm, AfterLock, Compare, Compared, Publish, Verify

LEMMA AcceptNext == Inv /\ [Next]_vars => AcceptInv'
<1> SUFFICES ASSUME Inv, [Next]_vars, NEW q \in Operators, phase'[q] = "replace"
             PROVE  (/\ present /\ wrote[q] /\ pre[q] = history
                     /\ record[q] = EntryOf(request[q])
                     /\ request[q].expected = history
                     /\ Fresh(request[q])
                     /\ backend = "P9" => history = << >>)'
  BY DEF AcceptInv
<1>1. CASE phase[q] = "replace" /\ Untouched /\ request'[q] = request[q]
           /\ pre'[q] = pre[q] /\ record'[q] = record[q] /\ wrote'[q] = wrote[q]
  BY <1>1 DEF Inv, AcceptInv, Untouched, Fresh, UsesAuth, UsesNonce
<1>2. ASSUME NEW p \in Operators, q # p,
             Prepare(p) \/ Start(p) \/ Acquire(p) \/ Crash(p) \/ Work(p)
      PROVE  phase[q] = "replace" /\ Untouched /\ request'[q] = request[q]
             /\ pre'[q] = pre[q] /\ record'[q] = record[q] /\ wrote'[q] = wrote[q]
  <2>1. phase[q] = "replace"
    BY <1>2, OthersKeep
  <2>2. ~Replace(p)
    BY <1>2, <2>1, TransactionAssumption DEF Replace, Inv, LockInv, Holding
  <2>3. Untouched
    BY <1>2, <2>2 DEF Prepare, Start, Acquire, Crash, Work, Decide, Confirm,
                      Compare, Publish, Verify, documents, Untouched
  <2>4. QED
    BY <1>2, <2>1, <2>3, OthersKeep
<1>3. ASSUME Prepare(q) \/ Start(q) \/ Acquire(q) \/ Crash(q) \/ Work(q)
      PROVE  Decide(q)
  BY <1>3, OwnStepsKeep
<1>4. ASSUME Decide(q)
      PROVE  (/\ present /\ wrote[q] /\ pre[q] = history
              /\ record[q] = EntryOf(request[q])
              /\ request[q].expected = history
              /\ Fresh(request[q])
              /\ backend = "P9" => history = << >>)'
  <2>1. Accept(q)
    BY <1>4 DEF Decide, Replay, Refuse, Goto, AfterLock, Inv, TypeOK
  <2>2. /\ present /\ request[q].expected = history
        /\ backend = "P9" => history = << >>
    BY <2>1 DEF Accept, RefusedFirst, IsStale, RefusedLater
  <2>3. Fresh(request[q])
    BY <2>1 DEF Accept, RefusedFirst, RefusedLater, Fresh, Inv, TypeOK, Backends
  <2>4. /\ wrote'[q] /\ pre'[q] = history /\ record'[q] = EntryOf(request[q])
        /\ request' = request /\ Untouched
    BY <1>4, <2>1 DEF Decide, Accept, documents, Untouched, Inv, TypeOK
  <2>5. QED
    BY <2>2, <2>3, <2>4 DEF Untouched, Fresh, UsesAuth, UsesNonce
<1>5. ASSUME NEW b \in Bootstrappers, FindNoDocument(b)
      PROVE  phase[q] = "replace" /\ Untouched /\ request'[q] = request[q]
             /\ pre'[q] = pre[q] /\ record'[q] = record[q] /\ wrote'[q] = wrote[q]
  BY <1>5 DEF FindNoDocument, documents, invocation, Untouched
<1>6. ASSUME NEW b \in Bootstrappers, CreateDocument(b) PROVE FALSE
  BY <1>6, CreateKeeps DEF CreateDocument, Inv, AcceptInv
<1>7. QED
  BY <1>1, <1>2, <1>3, <1>4, <1>5, <1>6 DEF Next, vars, Untouched
LEMMA WrittenNext == Inv /\ [Next]_vars => WrittenInv'
<1> SUFFICES ASSUME Inv, [Next]_vars, NEW q \in Operators,
                    phase'[q] \in {"confirm", "compare", "publish"}
             PROVE  Written(q)'
  BY DEF WrittenInv
<1>0. /\ history \in Seq(Entries) /\ history' \in Seq(Entries)
      /\ Begins(history, history')
  BY HistoryGrows
<1>1. CASE /\ phase[q] \in {"confirm", "compare", "publish"}
           /\ pre'[q] = pre[q] /\ record'[q] = record[q] /\ wrote'[q] = wrote[q]
  <2>1. Written(q)
    BY <1>1 DEF Inv, WrittenInv
  <2>2. Post(q)' = Post(q) /\ record'[q] = record[q]
    BY <1>1 DEF Post
  <2>3. Begins(Post(q), history')
    BY <1>0, <2>1, BeginsIsAnOrder DEF Written
  <2>4. QED
    BY <2>1, <2>2, <2>3 DEF Written
<1>2. ASSUME NEW p \in Operators, q # p,
             Prepare(p) \/ Start(p) \/ Acquire(p) \/ Crash(p) \/ Work(p)
      PROVE  /\ phase[q] \in {"confirm", "compare", "publish"}
             /\ pre'[q] = pre[q] /\ record'[q] = record[q] /\ wrote'[q] = wrote[q]
  BY <1>2, OthersKeep
<1>3. ASSUME Decide(q) PROVE Written(q)'
  <2>1. Replay(q)
    BY <1>3 DEF Decide, Refuse, Accept, Goto, Inv, TypeOK
  <2>2. PICK i \in Retries(request[q]) : record' = [record EXCEPT ![q] = history[i]]
    BY <2>1 DEF Replay
  <2>3. i \in 1..Len(history) /\ record'[q] = history[i]
    BY <1>0, <2>2 DEF Retries, Inv, TypeOK
  <2>4. Post(q)' = history /\ history' = history
    BY <1>3, <2>1 DEF Decide, Replay, Post, documents, Inv, TypeOK
  <2>5. QED
    BY <1>0, <2>3, <2>4 DEF Written
<1>4. ASSUME Replace(q) PROVE Written(q)'
  <2>1. /\ record[q] = EntryOf(request[q]) /\ EntryOf(request[q]) \in Entries
        /\ history' = Append(history, EntryOf(request[q]))
    BY <1>4, ReplaceAppends
  <2>2. Post(q)' = history' /\ record'[q] = record[q]
    BY <1>4 DEF Replace, Post, invocation
  <2>3. Begins(history', history')
    BY <1>0, BeginsIsAnOrder
  <2>4. Len(history) + 1 \in 1..Len(history')
        /\ history'[Len(history) + 1] = EntryOf(request[q])
    BY <1>0, <2>1
  <2>5. QED
    BY <1>0, <2>1, <2>2, <2>3, <2>4 DEF Written
<1>5. ASSUME Prepare(q) \/ Start(q) \/ Acquire(q) \/ Crash(q) \/ Work(q),
             ~Decide(q), ~Replace(q)
      PROVE  /\ phase[q] \in {"confirm", "compare", "publish"}
             /\ pre'[q] = pre[q] /\ record'[q] = record[q] /\ wrote'[q] = wrote[q]
  BY <1>5, OwnStepsKeep
<1>6. ASSUME NEW b \in Bootstrappers, FindNoDocument(b) \/ CreateDocument(b)
      PROVE  /\ phase[q] \in {"confirm", "compare", "publish"}
             /\ pre'[q] = pre[q] /\ record'[q] = record[q] /\ wrote'[q] = wrote[q]
  BY <1>6 DEF FindNoDocument, CreateDocument, invocation
<1>7. QED
  BY <1>1, <1>2, <1>3, <1>4, <1>5, <1>6 DEF Next, vars

LEMMA StaleNext == Inv /\ [Next]_vars => StaleInv'
<1> SUFFICES ASSUME Inv, [Next]_vars, NEW q \in Operators, phase'[q] = "stale"
             PROVE  (/\ Len(request[q].expected) < Len(history)
                     /\ \A i \in DOMAIN history : history[i] # EntryOf(request[q]))'
  BY DEF StaleInv
<1>0. history \in Seq(Entries)
  BY DEF Inv, TypeOK
<1>1. CASE phase[q] = "stale" /\ request'[q] = request[q]
  <2>1. /\ Len(request[q].expected) < Len(history)
        /\ \A i \in DOMAIN history : history[i] # EntryOf(request[q])
        /\ request[q].expected \in Seq(Entries)
    BY <1>1 DEF Inv, StaleInv, TypeOK, Requests
  <2>2. CASE history' = history
    BY <1>1, <2>1, <2>2
  <2>3. ASSUME NEW p \in Operators, Replace(p)
        PROVE  /\ Len(request[q].expected) < Len(history')
               /\ \A i \in DOMAIN history' : history'[i] # EntryOf(request[q])
    <3>1. /\ history' = Append(history, EntryOf(request[p]))
          /\ EntryOf(request[p]) \in Entries /\ request[p].expected = history
      BY <2>3, ReplaceAppends
    <3>2. EntryOf(request[p]) # EntryOf(request[q])
      BY <1>0, <2>1, <3>1 DEF EntryOf
    <3>3. QED
      BY <1>0, <2>1, <3>1, <3>2
  <2>4. QED
    BY <1>1, <2>2, <2>3, DocumentSteps, CreateKeeps DEF Untouched
<1>2. ASSUME NEW p \in Operators, q # p,
             Prepare(p) \/ Start(p) \/ Acquire(p) \/ Crash(p) \/ Work(p)
      PROVE  phase[q] = "stale" /\ request'[q] = request[q]
  BY <1>2, OthersKeep
<1>3. ASSUME Prepare(q) \/ Start(q) \/ Acquire(q) \/ Crash(q) \/ Work(q)
      PROVE  Decide(q)
  BY <1>3, OwnStepsKeep
<1>4. ASSUME Decide(q)
      PROVE  (/\ Len(request[q].expected) < Len(history)
              /\ \A i \in DOMAIN history : history[i] # EntryOf(request[q]))'
  <2>1. /\ Retries(request[q]) = {} /\ ~RefusedFirst(q) /\ IsStale(q)
        /\ phase[q] # "new"
    BY <1>4 DEF Decide, Replay, Refuse, Accept, Goto, AfterLock, Inv, TypeOK
  <2>2. /\ request[q] \in Requests /\ request[q].expected \in Seq(Entries)
        /\ Begins(request[q].expected, history)
    BY <2>1 DEF Inv, RequestInv, TypeOK, Requests
  <2>3. Len(request[q].expected) < Len(history)
    BY <1>0, <2>1, <2>2, BeginsWhole DEF IsStale
  <2>4. \A i \in DOMAIN history : history[i] # EntryOf(request[q])
    <3>1. SUFFICES ASSUME NEW i \in DOMAIN history, history[i] = EntryOf(request[q])
                   PROVE  FALSE
      OBVIOUS
    <3>2. UsesAuth(i, request[q]) /\ UsesNonce(i, request[q])
      BY <3>1 DEF EntryOf, UsesAuth, UsesNonce
    <3>3. backend = "P9"
      BY <2>1, <3>2 DEF RefusedFirst, Inv, TypeOK, Backends
    <3>4. i = Len(history)
      BY <1>0, <3>1, <3>3 DEF Inv, LedgerInv
    <3>5. IsRetry(i, request[q])
      BY <3>2, <3>3, <3>4 DEF IsRetry
    <3>6. QED
      BY <2>1, <3>1, <3>5 DEF Retries
  <2>5. history' = history /\ request' = request
    BY <1>4 DEF Decide, documents
  <2>6. QED
    BY <2>3, <2>4, <2>5
<1>5. ASSUME NEW b \in Bootstrappers, FindNoDocument(b) \/ CreateDocument(b)
      PROVE  phase[q] = "stale" /\ request'[q] = request[q]
  BY <1>5 DEF FindNoDocument, CreateDocument
<1>6. QED
  BY <1>1, <1>2, <1>3, <1>4, <1>5 DEF Next, vars

LEMMA EvidenceNext == Inv /\ [Next]_vars => EvidenceInv'
<1> SUFFICES ASSUME Inv, [Next]_vars, NEW e \in evidence'
             PROVE  /\ e \in Claims /\ Begins(e.post, history')
                    /\ \E i \in 1..Len(e.post) : e.post[i] = e.record
                    /\ e.wrote => e.post = Append(e.pre, e.record)
  BY DEF EvidenceInv
<1>0. /\ history \in Seq(Entries) /\ history' \in Seq(Entries)
      /\ Begins(history, history')
  BY HistoryGrows
<1>1. CASE e \in evidence
  BY <1>0, <1>1, BeginsIsAnOrder DEF Inv, EvidenceInv, Claims
<1>2. ASSUME NEW p \in Operators, Publish(p), e = Claim(p)
      PROVE  /\ e \in Claims /\ Begins(e.post, history')
             /\ \E i \in 1..Len(e.post) : e.post[i] = e.record
             /\ e.wrote => e.post = Append(e.pre, e.record)
  <2>1. Written(p) /\ history' = history
    BY <1>2 DEF Publish, Inv, WrittenInv, documents
  <2>2. e \in Claims
    BY <1>2, <2>1 DEF Claim, Claims, Written, Inv, TypeOK
  <2>3. QED
    BY <1>2, <2>1, <2>2 DEF Claim, Written, Post
<1>3. evidence' = evidence \/ \E p \in Operators : Publish(p)
  BY DEF Next, Work, FindNoDocument, CreateDocument, Prepare, Start, Acquire,
         Crash, Decide, Replace, Confirm, Compare, Verify, vars
<1>4. QED
  BY <1>1, <1>2, <1>3 DEF Publish

(* Only the replacement of the document makes an operator one that wrote.  *)
LEMMA WritesKept ==
  ASSUME Inv, [Next]_vars, NEW q \in Operators, Writes(q)'
  PROVE  Replace(q) \/ (Writes(q) /\ record'[q] = record[q])
<1>1. CASE /\ phase[q] \in {"confirm", "compare", "publish"}
           /\ record'[q] = record[q] /\ wrote'[q] = wrote[q]
  BY <1>1 DEF Writes
<1>2. ASSUME NEW p \in Operators, q # p,
             Prepare(p) \/ Start(p) \/ Acquire(p) \/ Crash(p) \/ Work(p)
      PROVE  /\ phase[q] \in {"confirm", "compare", "publish"}
             /\ record'[q] = record[q] /\ wrote'[q] = wrote[q]
  BY <1>2, OthersKeep DEF Writes
<1>3. ASSUME Decide(q) PROVE FALSE
  <2>1. ~Replay(q)
    BY DEF Replay, Writes, Inv, TypeOK
  <2>2. phase'[q] \notin {"confirm", "compare", "publish"}
    BY <1>3, <2>1 DEF Decide, Refuse, Accept, Goto, Inv, TypeOK
  <2>3. QED
    BY <2>2 DEF Writes
<1>4. ASSUME Prepare(q) \/ Start(q) \/ Acquire(q) \/ Crash(q) \/ Work(q),
             ~Decide(q), ~Replace(q)
      PROVE  /\ phase[q] \in {"confirm", "compare", "publish"}
             /\ record'[q] = record[q] /\ wrote'[q] = wrote[q]
  BY <1>4, OwnStepsKeep DEF Writes
<1>5. ASSUME NEW b \in Bootstrappers, FindNoDocument(b) \/ CreateDocument(b)
      PROVE  /\ phase[q] \in {"confirm", "compare", "publish"}
             /\ record'[q] = record[q] /\ wrote'[q] = wrote[q]
  BY <1>5 DEF FindNoDocument, CreateDocument, invocation, Writes
<1>6. CASE UNCHANGED vars
  BY <1>6 DEF vars, Writes
<1>7. QED
  BY <1>1, <1>2, <1>3, <1>4, <1>5, <1>6 DEF Next

(* What claims to be written is in the history.                            *)
LEMMA WrittenIsInHistory ==
  ASSUME Inv
  PROVE  /\ \A q \in Operators :
              Writes(q) => \E i \in DOMAIN history : history[i] = record[q]
         /\ \A e \in evidence :
              \E i \in DOMAIN history : history[i] = e.record
<1>0. history \in Seq(Entries)
  BY DEF Inv, TypeOK
<1>1. ASSUME NEW q \in Operators, Writes(q)
      PROVE  \E i \in DOMAIN history : history[i] = record[q]
  BY <1>0, <1>1 DEF Inv, WrittenInv, Written, Writes, Begins
<1>2. ASSUME NEW e \in evidence
      PROVE  \E i \in DOMAIN history : history[i] = e.record
  BY <1>0, <1>2 DEF Inv, EvidenceInv, Claims, Begins
<1>3. QED
  BY <1>1, <1>2

(* A record is written once: it was in no history before, so whoever else  *)
(* has written, and every directory, is about another one.                 *)
LEMMA OnceNext == Inv /\ [Next]_vars => OnceInv'
<1> SUFFICES ASSUME Inv, [Next]_vars PROVE OnceInv'
  OBVIOUS
<1>0. OnceInv
  BY DEF Inv
<1>1. ASSUME NEW p \in Operators, Replace(p) PROVE OnceInv'
  <2>1. /\ Fresh(request[p]) /\ record[p] = EntryOf(request[p])
        /\ record' = record /\ evidence' = evidence
    BY <1>1, ReplaceAppends DEF Replace, invocation
  <2>2. \A i \in DOMAIN history : history[i] # record[p]
    BY <2>1 DEF Fresh, UsesAuth, EntryOf
  <2>3. /\ \A q \in Operators : Writes(q) => record[q] # record[p]
        /\ \A e \in evidence : e.record # record[p]
    BY <2>2, WrittenIsInHistory
  <2>4. \A q \in Operators : Writes(q)' => q = p \/ Writes(q)
    BY <1>1 DEF Replace, Goto, invocation, Writes, Inv, TypeOK
  <2>5. QED
    BY <1>0, <2>1, <2>3, <2>4 DEF OnceInv
<1>2. ASSUME NEW p \in Operators, Publish(p) PROVE OnceInv'
  <2>1. /\ record' = record /\ evidence' = evidence \union {Claim(p)}
        /\ Claim(p).record = record[p] /\ (Claim(p).wrote <=> Writes(p))
    BY <1>2 DEF Publish, invocation, Claim, Writes
  <2>2. \A q \in Operators : Writes(q)' => q # p /\ Writes(q)
    BY <1>2 DEF Publish, Goto, invocation, Writes, Inv, TypeOK
  <2>3. \A e \in evidence, q \in Operators :
          Writes(q) /\ e.wrote => e.record # record[q]
    BY <1>0 DEF OnceInv
  <2>4. \A q \in Operators :
          q # p /\ Writes(q) /\ Writes(p) => record[p] # record[q]
    BY <1>0 DEF OnceInv
  <2>5. \A e \in evidence', q \in Operators :
          Writes(q)' /\ e.wrote => e.record # record'[q]
    BY <2>1, <2>2, <2>3, <2>4
  <2>6. \A e, f \in evidence' :
          e.wrote /\ f.wrote /\ f.record = e.record => f = e
    BY <1>0, <2>1, <2>3 DEF OnceInv
  <2>7. \A q, r \in Operators :
          q # r /\ Writes(q)' /\ Writes(r)' => record'[q] # record'[r]
    BY <1>0, <2>1, <2>2 DEF OnceInv
  <2>8. QED
    BY <2>5, <2>6, <2>7 DEF OnceInv
<1>3. ASSUME ~ (\E p \in Operators : Replace(p) \/ Publish(p)) PROVE OnceInv'
  <2>1. evidence' = evidence
    BY <1>3 DEF Next, Work, FindNoDocument, CreateDocument, Prepare, Start,
                Acquire, Crash, Decide, Confirm, Compare, Verify, vars
  <2>2. \A q \in Operators : Writes(q)' => Writes(q) /\ record'[q] = record[q]
    BY <1>3, WritesKept
  <2>3. QED
    BY <1>0, <2>1, <2>2 DEF OnceInv
<1>4. QED
  BY <1>1, <1>2, <1>3

(* The invariant is inductive where one process bootstraps.                *)
LEMMA InvNext == OneBootstrapper /\ Inv /\ [Next]_vars => Inv'
<1>1. Inv /\ [Next]_vars => TypeOK'
  BY TypeNext DEF Inv
<1>2. QED
  BY <1>1, LockNext, BootNext, LedgerNext, RequestNext, AcceptNext, WrittenNext,
     StaleNext, EvidenceNext, OnceNext DEF Inv

LEMMA InvHolds == ASSUME OneBootstrapper PROVE Safety => []Inv
<1>1. Inv /\ [Next]_vars => Inv'
  BY InvNext
<1>2. QED
  BY InvInit, <1>1, PTL DEF Safety

-----------------------------------------------------------------------------
(* The results.                                                            *)

(* Type correctness, with no assumption on bootstrapping.                  *)
THEOREM RegistryTyped == Safety => []TypeOK
BY TypeInit, TypeNext, PTL DEF Safety

(* Published evidence tells the truth, for good, and a commit is claimed   *)
(* by the directory of one invocation at most.                             *)
THEOREM EvidenceTrue == ASSUME OneBootstrapper PROVE Safety => []EvidenceIsTrue
<1>1. Inv => EvidenceIsTrue
  BY DEF Inv, EvidenceInv, OnceInv, EvidenceIsTrue
<1>2. QED
  BY <1>1, InvHolds, PTL

(* A request refused as stale never enters the ledger.                     *)
THEOREM StaleForGood == ASSUME OneBootstrapper PROVE Safety => []StaleStaysOut
<1>1. Inv => StaleStaysOut
  BY DEF Inv, StaleInv, StaleStaysOut
<1>2. QED
  BY <1>1, InvHolds, PTL

(* The file, its lock and its ledgers implement the register.              *)
LEMMA RegisterInit == Init => Register!Init
BY DEF Init, Register!Init

LEMMA RegisterNext ==
  Inv /\ [Next]_vars => [Register!Next]_(Register!vars)
<1> SUFFICES ASSUME Inv, [Next]_vars
             PROVE  Register!Next \/ UNCHANGED Register!vars
  OBVIOUS
<1> DEFINE certified == {e.record : e \in evidence}
<1>1. ASSUME NEW p \in Operators, Replace(p) PROVE Register!Next
  <2>1. /\ present /\ present' /\ Fresh(request[p])
        /\ request[p] \in Requests /\ request[p].expected = history
        /\ history' = Append(history, EntryOf(request[p]))
    BY <1>1, ReplaceAppends
  <2>2. /\ request[p].auth \in Auths /\ request[p].nonce \in Nonces
        /\ request[p].run \in Operators
    BY <2>1 DEF Requests
  <2>3. ~Register!Consumed(request[p].auth, request[p].nonce)
    BY <2>1 DEF Register!Consumed, Fresh, UsesAuth, UsesNonce
  <2>4. certified' = certified /\ present' = present
    BY <1>1, <2>1 DEF Replace, Inv, TypeOK
  <2>5. Register!Commit(request[p].auth, request[p].nonce, request[p].run)
    BY <2>1, <2>3, <2>4 DEF Register!Commit, EntryOf
  <2>6. QED
    BY <2>2, <2>5 DEF Register!Next
<1>2. ASSUME NEW b \in Bootstrappers, CreateDocument(b) PROVE Register!Next
  BY <1>2, CreateKeeps DEF CreateDocument, Register!Next, Register!Bootstrap
<1>3. ASSUME NEW p \in Operators, Publish(p) PROVE Register!Next
  <2>1. Written(p)
    BY <1>3 DEF Publish, Inv, WrittenInv
  <2>2. PICK i \in DOMAIN history : history[i] = record[p]
    BY <2>1 DEF Written, Begins, Inv, TypeOK
  <2>3. certified' = certified \union {history[i]}
    <3>1. evidence' = evidence \union {Claim(p)} /\ Claim(p).record = history[i]
      BY <1>3, <2>2 DEF Publish, Claim
    <3>2. QED
      BY <3>1
  <2>4. QED
    BY <1>3, <2>3 DEF Publish, documents, Register!Next, Register!Certify
<1>4. CASE Untouched /\ evidence' = evidence
  BY <1>4 DEF Untouched, Register!vars
<1>5. evidence' = evidence \/ \E p \in Operators : Publish(p)
  BY DEF Next, Work, FindNoDocument, CreateDocument, Prepare, Start, Acquire,
         Crash, Decide, Replace, Confirm, Compare, Verify, vars
<1>6. QED
  BY <1>1, <1>2, <1>3, <1>4, <1>5, DocumentSteps

\* With one bootstrapping process each of the three file registries is a
\* compare-and-swap register: os.replace under the flock appends one entry to
\* the state its author saw, and nothing else in a transaction changes it.
THEOREM RegistryImplementsRegister ==
  ASSUME OneBootstrapper PROVE Safety => ImplementsRegister
BY RegisterInit, RegisterNext, InvHolds, PTL
   DEF ImplementsRegister, Register!Spec, Safety
=============================================================================

------------------------ MODULE DownstreamCommitProofs ------------------------
(***************************************************************************)
(* Proofs about DownstreamCommit for any committers, snapshots, order of   *)
(* steps, and any deaths, interrupts and failing steps: nothing is created *)
(* twice, one snapshot is published, a receipt is earned, and the journal  *)
(* does not regress.                                                       *)
(*                                                                         *)
(* The argument: the lock makes journal, evidence and receipt those of one *)
(* process at a time, whose memory is the journal; the journal is of one   *)
(* commit for ever, and what it says has succeeded is an initial segment   *)
(* of the steps, each of which has left evidence of that commit.           *)
(***************************************************************************)
EXTENDS DownstreamCommit, TLAPS

InStep == {"ensuring", "making", "repairing", "ensured", "failed"}
Working == InStep \union {"stepping", "closing"}
Holding == Working \union {"locked", "exiting"}
Labels == Holding \union {"idle", "prepared", "replaying", "locking"}
Answers == {"none", "receipt", "conflict", "retryable"}

TypeInv ==
  /\ artifacts \in Snapshots
  /\ lock \in Committers \union {Nobody, Left}
  /\ journal \in Journals \union {NoFile}
  /\ receipt \in Snapshots \union {NoFile}
  /\ evidence \in [Steps -> [Snapshots -> Evidence]]
  /\ copies \in [Steps -> [Snapshots -> Nat]]
  /\ pc \in [Committers -> Labels]
  /\ prepared \in [Committers -> Snapshots]
  /\ memory \in [Committers -> Journals \union {NoFile}]
  /\ answer \in [Committers -> Answers]

LockInv == \A p \in Committers : pc[p] \in Holding => lock = p

\* Whoever works on the commit it prepared has the journal in memory, and its
\* place in a step says what the step has left.
WorkInv ==
  \A p \in Committers :
    /\ pc[p] \in Working => /\ memory[p] = journal /\ journal # NoFile
                            /\ journal.commit = prepared[p]
    /\ pc[p] \in InStep => ~ Done(journal)
    /\ pc[p] = "making" => evidence[Cursor(p)][prepared[p]] = "absent"
    /\ pc[p] \in {"repairing", "ensured"} => evidence[Cursor(p)][prepared[p]] # "absent"

AnswerInv ==
  \A p \in Committers :
    pc[p] \in {"closing", "replaying"} \/ answer[p] = "receipt" => receipt = prepared[p]

\* What has succeeded is an initial segment of the steps.
Frontier(j) == \E n \in 0..Len(STEP_ORDER) :
                 \A k \in Steps : j.steps[k] = "SUCCEEDED" <=> k <= n

JournalInv ==
  journal # NoFile =>
    /\ Frontier(journal)
    /\ \A k \in Steps : journal.steps[k] = "SUCCEEDED" => evidence[k][journal.commit] # "absent"

EvidenceInv ==
  \A k \in Steps, c \in Snapshots :
    evidence[k][c] # "absent" => journal # NoFile /\ journal.commit = c

CopiesInv ==
  \A k \in Steps, c \in Snapshots :
    copies[k][c] = IF evidence[k][c] = "absent" THEN 0 ELSE 1

ReceiptInv ==
  receipt # NoFile => journal # NoFile /\ journal.commit = receipt /\ Done(journal)

CommitInv ==
  /\ TypeInv /\ LockInv /\ WorkInv /\ AnswerInv /\ JournalInv /\ EvidenceInv /\ CopiesInv
  /\ ReceiptInv

-----------------------------------------------------------------------------
(* Journals                                                                *)

StepStatuses == {"PENDING", "RUNNING", "SUCCEEDED", "FAILED"}
Statuses == {"PREPARED", "IN_PROGRESS", "RETRY_REQUIRED", "COMMITTED"}

LEMMA StepsAreNumbered ==
  Steps = 1..Len(STEP_ORDER) /\ Len(STEP_ORDER) \in Nat
BY StepsAssumption DEF Steps

LEMMA CursorMeans ==
  ASSUME NEW p \in Committers, Frontier(memory[p]), ~ Done(memory[p])
  PROVE  /\ Cursor(p) \in Steps
         /\ \A k \in Steps : memory[p].steps[k] = "SUCCEEDED" <=> k < Cursor(p)
<1>1. PICK n \in 0..Len(STEP_ORDER) :
        \A k \in Steps : memory[p].steps[k] = "SUCCEEDED" <=> k <= n
  BY DEF Frontier
<1>2. PICK m \in Steps : memory[p].steps[m] # "SUCCEEDED"
  BY DEF Done
<1>3. n + 1 \in Steps /\ \A i \in 1..((n + 1) - 1) : i \in Steps /\ i <= n
  BY <1>1, <1>2, StepsAreNumbered
<1>4. n + 1 \in Steps /\ memory[p].steps[n + 1] # "SUCCEEDED"
      /\ \A i \in 1..((n + 1) - 1) : memory[p].steps[i] = "SUCCEEDED"
  BY <1>1, <1>3
<1>5. /\ Cursor(p) \in Steps /\ memory[p].steps[Cursor(p)] # "SUCCEEDED"
      /\ \A i \in 1..(Cursor(p) - 1) : memory[p].steps[i] = "SUCCEEDED"
  BY <1>4, Zenon DEF Cursor
<1>6. Cursor(p) = n + 1
  <2>1. Cursor(p) > n
    BY <1>1, <1>5, StepsAreNumbered
  <2>2. ~ Cursor(p) > n + 1
    <3>1. Cursor(p) > n + 1 => n + 1 \in 1..(Cursor(p) - 1)
      BY <1>5, StepsAreNumbered
    <3> QED
      BY <1>4, <1>5, <3>1
  <2> QED
    BY <1>5, <2>1, <2>2, StepsAreNumbered
<1> QED
  BY <1>1, <1>5, <1>6, StepsAreNumbered

LEMMA CursorStays ==
  ASSUME NEW p \in Committers, memory'[p] = memory[p]
  PROVE  Cursor(p)' = Cursor(p)
BY DEF Cursor

LEMMA StepSet ==
  ASSUME NEW j \in Journals, NEW k \in Steps, NEW status \in StepStatuses
  PROVE  LET new == [j EXCEPT !.steps[k] = status]
         IN  /\ new \in Journals /\ new.commit = j.commit /\ new.steps[k] = status
             /\ \A i \in Steps : i # k => new.steps[i] = j.steps[i]
BY DEF Journals, Steps, StepStatuses

LEMMA StepFailed ==
  ASSUME NEW j \in Journals, NEW k \in Steps
  PROVE  /\ FailedStep(j, k) \in Journals /\ FailedStep(j, k).commit = j.commit
         /\ FailedStep(j, k).steps[k] = "FAILED"
         /\ \A i \in Steps : i # k => FailedStep(j, k).steps[i] = j.steps[i]
BY DEF Journals, Steps, FailedStep

LEMMA StatusSet ==
  ASSUME NEW j \in Journals, NEW status \in Statuses
  PROVE  LET new == [j EXCEPT !.status = status]
         IN  new \in Journals /\ new.commit = j.commit /\ new.steps = j.steps
BY DEF Journals, Statuses

LEMMA InitialState ==
  ASSUME NEW c \in Snapshots
  PROVE  /\ _initial_state(c) \in Journals /\ _initial_state(c).commit = c
         /\ \A k \in Steps : _initial_state(c).steps[k] = "PENDING"
BY DEF Journals, Steps, _initial_state

LEMMA FrontierSame ==
  ASSUME NEW j, NEW new, Frontier(j),
         \A k \in Steps : new.steps[k] = "SUCCEEDED" <=> j.steps[k] = "SUCCEEDED"
  PROVE  Frontier(new)
BY DEF Frontier

-----------------------------------------------------------------------------
(* Kinds of steps                                                          *)

LEMMA HolderAlone ==
  ASSUME LockInv, NEW p \in Committers, pc[p] \in Holding
  PROVE  \A q \in Committers : q # p => pc[q] \notin Holding
BY DEF LockInv

\* The holder of the lock saves a journal of its commit.
LEMMA Saved ==
  ASSUME CommitInv, NEW p \in Committers, pc[p] \in Holding,
         NEW j \in Journals, Save(p, j), j.commit = prepared[p],
         journal # NoFile => journal.commit = prepared[p],
         Frontier(j), receipt # NoFile => Done(j),
         \A k \in Steps : j.steps[k] = "SUCCEEDED" => evidence[k][prepared[p]] # "absent",
         UNCHANGED <<artifacts, lock, receipt, systems, prepared>>,
         NEW label \in {"stepping", "ensuring", "exiting"}, Goto(p, label),
         label = "ensuring" => ~ Done(j),
         NEW a \in Answers, answer' = [answer EXCEPT ![p] = a],
         a = "receipt" => receipt = prepared[p]
  PROVE  CommitInv'
<1>1. /\ pc'[p] = label /\ answer'[p] = a /\ memory'[p] = j /\ journal' = j
      /\ \A q \in Committers : q # p => /\ pc'[q] = pc[q] /\ answer'[q] = answer[q]
                                       /\ memory'[q] = memory[q] /\ pc[q] \notin Holding
  BY HolderAlone DEF CommitInv, TypeInv, Save, Goto
<1>2. j # NoFile
  BY NamesAssumption
<1>3. TypeInv'
  BY DEF CommitInv, TypeInv, Save, Goto, Labels, Holding, Working, InStep, systems
<1>4. LockInv'
  BY <1>1 DEF CommitInv, LockInv
<1>5. WorkInv'
  BY <1>1, <1>2 DEF WorkInv, Working, InStep, Holding
<1>6. AnswerInv'
  BY <1>1 DEF CommitInv, AnswerInv
<1>7. JournalInv'
  BY <1>1 DEF JournalInv, systems
<1>8. EvidenceInv'
  BY <1>1, <1>2 DEF CommitInv, EvidenceInv, systems
<1>9. CopiesInv'
  BY DEF CommitInv, CopiesInv, systems
<1>10. ReceiptInv'
  BY <1>1, <1>2 DEF CommitInv, ReceiptInv
<1> QED
  BY <1>3, <1>4, <1>5, <1>6, <1>7, <1>8, <1>9, <1>10 DEF CommitInv

\* The holder of the lock writes what its step leaves.
LEMMA EvidenceIsLeft ==
  ASSUME CommitInv, NEW p \in Committers, pc[p] \in {"making", "repairing"},
         NEW e \in Evidence \ {"absent"}, Leave(p, e),
         pc[p] = "making" => copies' = [copies EXCEPT ![Cursor(p)][prepared[p]] = @ + 1],
         pc[p] = "repairing" => UNCHANGED copies,
         NEW label \in {"repairing", "ensured"}, Goto(p, label),
         UNCHANGED <<artifacts, files, prepared, memory, answer>>
  PROVE  CommitInv'
<1> DEFINE k == Cursor(p)
           c == prepared[p]
<1>1. /\ memory[p] = journal /\ journal # NoFile /\ journal.commit = c /\ ~ Done(memory[p])
      /\ pc[p] \in Holding /\ Frontier(memory[p]) /\ memory[p] \in Journals /\ c \in Snapshots
  BY DEF CommitInv, WorkInv, TypeInv, JournalInv, Working, InStep, Holding
<1>2. k \in Steps
  BY <1>1, CursorMeans
<1>3. /\ pc'[p] = label
      /\ \A q \in Committers : q # p => pc'[q] = pc[q] /\ pc[q] \notin Holding
      /\ \A q \in Committers : memory'[q] = memory[q] /\ Cursor(q)' = Cursor(q)
  BY <1>1, HolderAlone, CursorStays DEF CommitInv, TypeInv, Goto
<1>4. UNCHANGED <<journal, receipt, lock, prepared, answer>>
  BY DEF files
<1>5. evidence' = [evidence EXCEPT ![k][c] = e]
  BY DEF Leave
<1> HIDE DEF k, c
<1>6. /\ evidence' \in [Steps -> [Snapshots -> Evidence]]
      /\ evidence'[k][c] = e
      /\ \A i \in Steps, d \in Snapshots : ~ (i = k /\ d = c) => evidence'[i][d] = evidence[i][d]
  BY <1>1, <1>2, <1>5 DEF CommitInv, TypeInv
<1>7. copies' \in [Steps -> [Snapshots -> Nat]] /\ CopiesInv'
  <2>1. CASE pc[p] = "making"
    <3>1. evidence[k][c] = "absent" /\ copies[k][c] = 0
      BY <1>1, <1>2, <2>1 DEF CommitInv, WorkInv, CopiesInv, k, c
    <3>2. copies' = [copies EXCEPT ![k][c] = 1]
      <4>1. copies' = [copies EXCEPT ![k][c] = @ + 1]
        BY <2>1 DEF k, c
      <4>2. copies[k][c] + 1 = 1
        BY <3>1
      <4> QED
        BY <1>1, <1>2, <4>1, <4>2 DEF CommitInv, TypeInv
    <3>3. /\ copies' \in [Steps -> [Snapshots -> Nat]] /\ copies'[k][c] = 1
          /\ \A i \in Steps, d \in Snapshots : ~ (i = k /\ d = c) => copies'[i][d] = copies[i][d]
      BY <1>1, <1>2, <3>2 DEF CommitInv, TypeInv
    <3> QED
      BY <1>6, <3>3 DEF CommitInv, CopiesInv
  <2>2. CASE pc[p] = "repairing"
    <3>1. evidence[k][c] # "absent" /\ UNCHANGED copies
      BY <2>2 DEF CommitInv, WorkInv, k, c
    <3>2. \A i \in Steps, d \in Snapshots :
            evidence'[i][d] = "absent" <=> evidence[i][d] = "absent"
      BY <1>6, <3>1
    <3> QED
      BY <3>1, <3>2 DEF CommitInv, CopiesInv, TypeInv
  <2> QED
    BY <2>1, <2>2
<1>8. TypeInv'
  BY <1>4, <1>6, <1>7 DEF CommitInv, TypeInv, Goto, Labels, Holding, Working, InStep
<1>9. LockInv'
  BY <1>1, <1>3, <1>4 DEF CommitInv, LockInv
<1>10. WorkInv'
  <2>1. evidence'[Cursor(p)'][prepared'[p]] # "absent"
    BY <1>3, <1>4, <1>6 DEF k, c
  <2>2. pc[p] \in InStep
    BY DEF InStep
  <2> QED
    BY <1>3, <1>4, <2>1, <2>2 DEF CommitInv, WorkInv, Working, InStep, Holding
<1>11. AnswerInv'
  BY <1>3, <1>4 DEF CommitInv, AnswerInv
<1>12. JournalInv'
  <2>1. \A i \in Steps : evidence[i][journal.commit] # "absent" =>
                         evidence'[i][journal.commit] # "absent"
    BY <1>1, <1>6
  <2> QED
    BY <1>4, <2>1 DEF CommitInv, JournalInv
<1>13. EvidenceInv'
  BY <1>1, <1>4, <1>6 DEF CommitInv, EvidenceInv
<1>14. ReceiptInv'
  BY <1>4 DEF CommitInv, ReceiptInv
<1> QED
  BY <1>7, <1>8, <1>9, <1>10, <1>11, <1>12, <1>13, <1>14 DEF CommitInv

\* Nothing is written to journal, receipt and systems.
LEMMA Moved ==
  ASSUME CommitInv, UNCHANGED <<journal, receipt, systems>>,
         artifacts' \in Snapshots, lock' \in Committers \union {Nobody, Left},
         pc' \in [Committers -> Labels], prepared' \in [Committers -> Snapshots],
         memory' \in [Committers -> Journals \union {NoFile}],
         answer' \in [Committers -> Answers],
         LockInv', WorkInv', AnswerInv'
  PROVE  CommitInv'
BY DEF CommitInv, TypeInv, JournalInv, EvidenceInv, CopiesInv, ReceiptInv, systems

\* The place of one process changes, and what it answers.
LEMMA Went ==
  ASSUME CommitInv, UNCHANGED <<artifacts, journal, receipt, systems, prepared, memory>>,
         NEW p \in Committers, NEW label \in Labels, Goto(p, label),
         NEW a \in Answers, answer' = [answer EXCEPT ![p] = a],
         lock' \in {lock, p, Left}, label \in Holding => lock' = p,
         lock' # lock => lock \in {p, Nobody},
         label \in {"stepping", "closing"} => pc[p] = label,
         label \in InStep => pc[p] \in InStep,
         label = "making" => evidence[Cursor(p)][prepared[p]] = "absent",
         label \in {"repairing", "ensured"} => evidence[Cursor(p)][prepared[p]] # "absent",
         label \in {"closing", "replaying"} \/ a = "receipt" => receipt = prepared[p]
  PROVE  CommitInv'
<1>1. /\ pc'[p] = label /\ answer'[p] = a
      /\ \A q \in Committers : q # p => pc'[q] = pc[q] /\ answer'[q] = answer[q]
      /\ \A q \in Committers : Cursor(q)' = Cursor(q)
  BY CursorStays DEF CommitInv, TypeInv, Goto
<1>2. LockInv'
  BY <1>1, NamesAssumption DEF CommitInv, LockInv
<1>3. WorkInv'
  BY <1>1 DEF CommitInv, WorkInv, Working, InStep, systems
<1>4. AnswerInv'
  BY <1>1 DEF CommitInv, AnswerInv
<1>5. /\ artifacts' \in Snapshots /\ lock' \in Committers \union {Nobody, Left}
      /\ pc' \in [Committers -> Labels] /\ prepared' \in [Committers -> Snapshots]
      /\ memory' \in [Committers -> Journals \union {NoFile}]
      /\ answer' \in [Committers -> Answers]
  BY DEF CommitInv, TypeInv, Goto
<1> QED
  BY <1>2, <1>3, <1>4, <1>5, Moved

-----------------------------------------------------------------------------
(* The actions                                                             *)

\* The holder of the lock, at work: its memory is a journal of its commit, with
\* a frontier.
LEMMA AtWork ==
  ASSUME CommitInv, NEW p \in Committers, pc[p] \in Working
  PROVE  /\ memory[p] = journal /\ journal \in Journals /\ journal # NoFile
         /\ journal.commit = prepared[p] /\ Frontier(memory[p]) /\ pc[p] \in Holding
         /\ \A k \in Steps : memory[p].steps[k] = "SUCCEEDED" =>
                              evidence[k][prepared[p]] # "absent"
         /\ ~ Done(memory[p]) => receipt = NoFile
BY DEF CommitInv, WorkInv, TypeInv, JournalInv, ReceiptInv, Holding

LEMMA PrepareStep ==
  ASSUME CommitInv, NEW p \in Committers, prepare_downstream_commit(p)
  PROVE  CommitInv'
<1>1. /\ pc[p] = "idle" /\ pc'[p] = "prepared" /\ answer'[p] = "none"
      /\ \A q \in Committers : q # p => /\ pc'[q] = pc[q] /\ answer'[q] = answer[q]
                                       /\ prepared'[q] = prepared[q]
      /\ \A q \in Committers : Cursor(q)' = Cursor(q)
      /\ UNCHANGED <<artifacts, lock, journal, receipt, systems, memory>>
  BY CursorStays DEF prepare_downstream_commit, Answer, Goto, CommitInv, TypeInv, files
<1>2. LockInv'
  BY <1>1 DEF CommitInv, LockInv, Holding, Working, InStep
<1>3. WorkInv'
  BY <1>1 DEF CommitInv, WorkInv, Working, InStep, systems
<1>4. AnswerInv'
  BY <1>1 DEF CommitInv, AnswerInv
<1>5. /\ artifacts' \in Snapshots /\ lock' \in Committers \union {Nobody, Left}
      /\ pc' \in [Committers -> Labels] /\ prepared' \in [Committers -> Snapshots]
      /\ memory' \in [Committers -> Journals \union {NoFile}]
      /\ answer' \in [Committers -> Answers]
  BY <1>1
  DEF CommitInv, TypeInv, prepare_downstream_commit, Answer, Goto, Labels, Answers
<1> QED
  BY <1>1, <1>2, <1>3, <1>4, <1>5, Moved

LEMMA GoesOn ==
  ASSUME CommitInv, NEW p \in Committers,
         \/ _load_receipt(p) \/ Replay(p) \/ _CommitLock(p) \/ Look(p) \/ StepRaises(p)
         \/ Interrupt(p)
  PROVE  CommitInv'
<1>1. answer = [answer EXCEPT ![p] = answer[p]] /\ answer[p] \in Answers
  BY DEF CommitInv, TypeInv
<1>2. UNCHANGED <<artifacts, journal, receipt, systems, prepared, memory>>
  BY DEF _load_receipt, Replay, _CommitLock, Look, StepRaises, Interrupt, files
<1>3. (pc[p] \notin {"closing", "replaying"} /\ answer[p] # "receipt") \/ receipt = prepared[p]
  BY DEF CommitInv, AnswerInv
<1>4. pc[p] \in Holding => lock = p
  BY DEF CommitInv, LockInv
<1> DEFINE Inert(label) == label \in Labels /\ label \notin Working /\ label \notin InStep
                           /\ label # "replaying"
<1>11. /\ Inert("idle") /\ Inert("locked") /\ Inert("exiting")
       /\ "idle" \notin Holding /\ "failed" \in InStep /\ "failed" \in Labels
       /\ {"none", "receipt", "conflict", "retryable"} = Answers
  BY DEF Labels, Holding, Working, InStep, Answers
<1>12. ASSUME NEW label, Inert(label), NEW a \in Answers, Goto(p, label),
              answer' = [answer EXCEPT ![p] = a], a = "receipt" => receipt = prepared[p],
              lock' \in {lock, p}, label \in Holding => lock' = p,
              lock' # lock => lock = Nobody
       PROVE  CommitInv'
  BY <1>2, <1>12, Went DEF Working, InStep
<1>13. answer[p] = "receipt" => receipt = prepared[p]
  BY DEF CommitInv, AnswerInv
<1> HIDE DEF Inert
<1>5. CASE _load_receipt(p)
  <2>1. PICK label \in {"locking", "replaying", "idle"}, a \in {answer[p], "conflict"} :
          /\ Goto(p, label) /\ answer' = [answer EXCEPT ![p] = a]
          /\ label = "replaying" => receipt = prepared[p]
    BY <1>1, <1>5 DEF _load_receipt, Answer
  <2>2. label \in Labels /\ label \notin Holding /\ a \in Answers /\ UNCHANGED lock
    BY <1>1, <1>5, <2>1 DEF _load_receipt, Labels, Holding, Working, InStep, Answers, files
  <2> QED
    BY <1>2, <1>3, <2>1, <2>2, Went DEF Holding, Working
<1>6. CASE Replay(p)
  <2>1. PICK a \in {"receipt", "conflict"} : Goto(p, "idle") /\ answer' = [answer EXCEPT ![p] = a]
    BY <1>6 DEF Replay, Answer
  <2>2. receipt = prepared[p] /\ UNCHANGED lock
    BY <1>3, <1>6 DEF Replay, files, CommitInv, AnswerInv
  <2> QED
    BY <1>11, <1>12, <2>1, <2>2
<1>7. CASE _CommitLock(p)
  <2>1. CASE LockIsFree
    <3>1. Goto(p, "locked") /\ lock' = p /\ answer' = [answer EXCEPT ![p] = answer[p]]
      BY <1>1, <1>7, <2>1 DEF _CommitLock
    <3> QED
      BY <1>1, <1>11, <1>12, <1>13, <2>1, <3>1 DEF LockIsFree
  <2>2. CASE ~ LockIsFree
    <3>1. Goto(p, "idle") /\ UNCHANGED lock /\ answer' = [answer EXCEPT ![p] = "retryable"]
      BY <1>7, <2>2 DEF _CommitLock, Answer
    <3> QED
      BY <1>11, <1>12, <3>1
  <2> QED
    BY <2>1, <2>2
<1>8. CASE Look(p)
  <2> DEFINE found == evidence[Cursor(p)][prepared[p]]
             label == Find(STEP_ORDER[Cursor(p)], found)
  <2>1. Goto(p, label) /\ UNCHANGED <<answer, lock>> /\ pc[p] = "ensuring"
    BY <1>8 DEF Look, files
  <2>2. /\ label \in {"making", "failed", "ensured", "repairing"}
        /\ label = "making" => found = "absent"
        /\ label \in {"repairing", "ensured"} => found # "absent"
    <3>1. found \in Evidence
      <4>1. Cursor(p) \in Steps /\ prepared[p] \in Snapshots
        BY <1>8, AtWork, CursorMeans
        DEF Look, CommitInv, TypeInv, WorkInv, Working, InStep
      <4> QED
        BY <4>1 DEF CommitInv, TypeInv
    <3> QED
      BY <3>1 DEF Find, Evidence
  <2> HIDE DEF label
  <2>3. label \in InStep /\ label \in Labels /\ lock = p /\ pc[p] \in InStep
    BY <1>4, <2>1, <2>2 DEF InStep, Labels, Holding, Working
  <2>4. answer' = [answer EXCEPT ![p] = answer[p]]
    BY <1>1, <2>1
  <2>5. answer[p] = "receipt" => receipt = prepared[p]
    BY DEF CommitInv, AnswerInv
  <2> QED
    BY <1>1, <1>2, <2>1, <2>2, <2>3, <2>4, <2>5, Went
<1>9. CASE StepRaises(p)
  <2>1. /\ Goto(p, "failed") /\ UNCHANGED <<answer, lock>> /\ pc[p] \in InStep /\ lock = p
    BY <1>4, <1>9 DEF StepRaises, files, InStep, Holding, Working
  <2>2. answer' = [answer EXCEPT ![p] = answer[p]]
    BY <1>1, <2>1
  <2> DEFINE label == "failed"
  <2>3. /\ label \in Labels /\ label \in InStep
        /\ label \notin {"stepping", "closing", "making", "repairing", "ensured", "replaying"}
    BY <1>11
  <2>4. Goto(p, label)
    BY <2>1
  <2> HIDE DEF label
  <2> QED
    BY <1>1, <1>2, <1>13, <2>1, <2>2, <2>3, <2>4, Went
<1>10. CASE Interrupt(p)
  <2>1. /\ Goto(p, "exiting") /\ UNCHANGED lock /\ answer' = [answer EXCEPT ![p] = "none"]
        /\ pc[p] \in Holding
    BY <1>10
    DEF Interrupt, InLock, Answer, files, CommitInv, TypeInv, Labels
  <2> QED
    BY <1>4, <1>11, <1>12, <2>1
<1> QED
  BY <1>5, <1>6, <1>7, <1>8, <1>9, <1>10

LEMMA StopsWorking ==
  ASSUME CommitInv, NEW p \in Committers, Exit(p) \/ Crash(p)
  PROVE  CommitInv'
<1>1. /\ pc'[p] = "idle" /\ answer'[p] \in {answer[p], "none"}
      /\ \A q \in Committers : q # p => /\ pc'[q] = pc[q] /\ answer'[q] = answer[q]
                                       /\ memory'[q] = memory[q]
      /\ UNCHANGED <<artifacts, journal, receipt, systems, prepared>>
  BY DEF Exit, Crash, Answer, Goto, Forget, CommitInv, TypeInv
<1>2. \A q \in Committers : q # p => Cursor(q)' = Cursor(q)
  BY <1>1, CursorStays
<1>3. LockInv'
  <2>1. CASE Exit(p)
    <3>1. \A q \in Committers : pc'[q] \notin Holding
      BY <1>1, <2>1, HolderAlone DEF Exit, CommitInv, Holding, Working, InStep
    <3> QED
      BY <3>1 DEF LockInv
  <2>2. CASE Crash(p)
    <3>1. lock' = IF lock = p THEN Left ELSE lock
      BY <2>2 DEF Crash
    <3> QED
      BY <1>1, <3>1 DEF CommitInv, LockInv, Holding, Working, InStep
  <2> QED
    BY <2>1, <2>2
<1>4. WorkInv'
  BY <1>1, <1>2 DEF CommitInv, WorkInv, Working, InStep, systems
<1>5. AnswerInv'
  BY <1>1 DEF CommitInv, AnswerInv
<1>6. /\ artifacts' \in Snapshots /\ lock' \in Committers \union {Nobody, Left}
      /\ pc' \in [Committers -> Labels] /\ prepared' \in [Committers -> Snapshots]
      /\ memory' \in [Committers -> Journals \union {NoFile}]
      /\ answer' \in [Committers -> Answers]
  BY DEF CommitInv, TypeInv, Exit, Crash, Answer, Goto, Forget, Unlinked, Labels, Answers
<1> QED
  BY <1>1, <1>3, <1>4, <1>5, <1>6, Moved

LEMMA LoadStep ==
  ASSUME CommitInv, NEW p \in Committers, _load_state(p)
  PROVE  CommitInv'
<1>1. pc[p] \in Holding /\ prepared[p] \in Snapshots /\ answer[p] \in Answers
      /\ answer = [answer EXCEPT ![p] = answer[p]]
      /\ UNCHANGED <<artifacts, lock, receipt, systems, prepared>>
  BY DEF _load_state, CommitInv, TypeInv, Holding
<1>2. answer[p] = "receipt" => receipt = prepared[p]
  BY DEF CommitInv, AnswerInv
<1>3. CASE CanContinue(p)
  <2> DEFINE from == IF journal = NoFile THEN _initial_state(prepared[p]) ELSE journal
  <2>1. /\ from \in Journals /\ from.commit = prepared[p]
        /\ journal # NoFile => journal.commit = prepared[p]
    BY <1>1, <1>3, InitialState
    DEF CanContinue, _verify_state_identity, CommitInv, TypeInv
  <2>2. /\ Frontier(from)
        /\ receipt # NoFile => Done(from)
        /\ \A k \in Steps : from.steps[k] = "SUCCEEDED" => evidence[k][prepared[p]] # "absent"
    <3>1. CASE journal = NoFile
      <4>1. \A k \in Steps : from.steps[k] = "PENDING"
        BY <1>1, <3>1, InitialState
      <4>2. receipt = NoFile
        BY <3>1 DEF CommitInv, ReceiptInv
      <4> HIDE DEF from
      <4>3. 0 \in 0..Len(STEP_ORDER) /\ \A k \in Steps : ~ k <= 0
        BY StepsAreNumbered
      <4> QED
        BY <4>1, <4>2, <4>3 DEF Frontier
    <3>2. CASE journal # NoFile
      BY <2>1, <3>2 DEF CommitInv, JournalInv, ReceiptInv
    <3> QED
      BY <3>1, <3>2
  <2> HIDE DEF from
  <2> DEFINE j == [from EXCEPT !.status = "IN_PROGRESS"]
  <2>3. j \in Journals /\ j.commit = from.commit /\ j.steps = from.steps
    BY <2>1, StatusSet DEF Statuses
  <2>4. Save(p, j) /\ Goto(p, "stepping") /\ UNCHANGED answer
    BY <1>3 DEF _load_state, Loaded, from
  <2> HIDE DEF j
  <2>5. /\ Frontier(j)
        /\ receipt # NoFile => Done(j)
        /\ \A k \in Steps : j.steps[k] = "SUCCEEDED" => evidence[k][prepared[p]] # "absent"
    BY <2>2, <2>3 DEF Frontier, Done
  <2> DEFINE label == "stepping"
  <2>6. /\ label \in {"stepping", "ensuring", "exiting"} /\ label # "ensuring" /\ Goto(p, label)
        /\ answer' = [answer EXCEPT ![p] = answer[p]]
    BY <1>1, <2>4
  <2> HIDE DEF label
  <2> QED
    BY <1>1, <1>2, <2>1, <2>3, <2>4, <2>5, <2>6, Saved
<1>4. CASE ~ CanContinue(p)
  <2> DEFINE label == "exiting"
             a == "conflict"
  <2>1. Goto(p, label) /\ answer' = [answer EXCEPT ![p] = a] /\ UNCHANGED <<memory, journal>>
    BY <1>4 DEF _load_state, Answer
  <2>2. /\ label \in Labels /\ label \notin InStep /\ a \in Answers /\ a # "receipt" /\ lock = p
        /\ label \notin {"stepping", "closing", "making", "repairing", "ensured", "replaying"}
    BY <1>1 DEF Labels, Holding, Working, InStep, Answers, CommitInv, LockInv
  <2> HIDE DEF label, a
  <2> QED
    BY <1>1, <2>1, <2>2, Went
<1> QED
  BY <1>3, <1>4

\* The holder saves its memory with another status of the step at its cursor.
LEMMA SavedStep ==
  ASSUME CommitInv, NEW p \in Committers, pc[p] \in Working, ~ Done(memory[p]),
         NEW j \in Journals, Save(p, j), j.commit = prepared[p],
         \A k \in Steps : k # Cursor(p) => j.steps[k] = memory[p].steps[k],
         j.steps[Cursor(p)] = "SUCCEEDED" => evidence[Cursor(p)][prepared[p]] # "absent",
         UNCHANGED <<artifacts, lock, receipt, systems, prepared>>,
         NEW label \in {"stepping", "ensuring", "exiting"}, Goto(p, label),
         label = "ensuring" => j.steps[Cursor(p)] # "SUCCEEDED",
         NEW a \in Answers, answer' = [answer EXCEPT ![p] = a],
         a = "receipt" => receipt = prepared[p]
  PROVE  CommitInv'
<1>1. /\ Frontier(memory[p]) /\ pc[p] \in Holding /\ journal.commit = prepared[p]
      /\ \A k \in Steps : memory[p].steps[k] = "SUCCEEDED" => evidence[k][prepared[p]] # "absent"
      /\ receipt = NoFile
  BY AtWork
<1>2. /\ Cursor(p) \in Steps
      /\ \A k \in Steps : memory[p].steps[k] = "SUCCEEDED" <=> k < Cursor(p)
  BY <1>1, CursorMeans
<1>3. Frontier(j)
  <2>1. CASE j.steps[Cursor(p)] = "SUCCEEDED"
    <3>1. \A k \in Steps : j.steps[k] = "SUCCEEDED" <=> k <= Cursor(p)
      BY <1>2, <2>1, StepsAreNumbered
    <3>2. Cursor(p) \in 0..Len(STEP_ORDER)
      BY <1>2, StepsAreNumbered
    <3> QED
      BY <3>1, <3>2 DEF Frontier
  <2>2. CASE j.steps[Cursor(p)] # "SUCCEEDED"
    <3>1. \A k \in Steps : j.steps[k] = "SUCCEEDED" <=> memory[p].steps[k] = "SUCCEEDED"
      BY <1>2, <2>2, StepsAreNumbered
    <3> QED
      BY <1>1, <3>1, FrontierSame
  <2> QED
    BY <2>1, <2>2
<1>4. \A k \in Steps : j.steps[k] = "SUCCEEDED" => evidence[k][prepared[p]] # "absent"
  BY <1>1
<1>5. label = "ensuring" => ~ Done(j)
  BY <1>2 DEF Done
<1> QED
  BY <1>1, <1>3, <1>4, <1>5, Saved

LEMMA JournalSteps ==
  ASSUME CommitInv, NEW p \in Committers,
         StartStep(p) \/ StepSucceeds(p) \/ StepFails(p)
  PROVE  CommitInv'
<1>1. pc[p] \in Working /\ ~ Done(memory[p])
  BY DEF StartStep, StepSucceeds, StepFails, CommitInv, WorkInv, Working, InStep
<1>2. /\ memory[p] \in Journals /\ memory[p].commit = prepared[p] /\ Cursor(p) \in Steps
      /\ \A k \in Steps : memory[p].steps[k] = "SUCCEEDED" <=> k < Cursor(p)
  BY <1>1, AtWork, CursorMeans
<1>3. answer[p] \in Answers /\ answer = [answer EXCEPT ![p] = answer[p]]
  BY DEF CommitInv, TypeInv
<1>4. answer[p] = "receipt" => receipt = prepared[p]
  BY DEF CommitInv, AnswerInv
<1>5. UNCHANGED <<artifacts, lock, receipt, systems, prepared>>
  BY DEF StartStep, StepSucceeds, StepFails
<1>6. "conflict" \in Answers /\ "retryable" \in Answers
  BY DEF Answers
<1>7. CASE StartStep(p)
  <2> DEFINE j == [memory[p] EXCEPT !.steps[Cursor(p)] = "RUNNING"]
  <2>1. /\ j \in Journals /\ j.commit = prepared[p] /\ j.steps[Cursor(p)] = "RUNNING"
        /\ \A k \in Steps : k # Cursor(p) => j.steps[k] = memory[p].steps[k]
    BY <1>2, StepSet DEF StepStatuses
  <2>2. PICK label \in {"ensuring", "exiting"}, a \in {answer[p], "conflict"} :
          Save(p, j) /\ Goto(p, label) /\ answer' = [answer EXCEPT ![p] = a]
    BY <1>3, <1>7 DEF StartStep, Answer
  <2> HIDE DEF j
  <2> QED
    BY <1>1, <1>3, <1>4, <1>5, <1>6, <2>1, <2>2, SavedStep
<1>8. CASE StepSucceeds(p)
  <2> DEFINE j == [memory[p] EXCEPT !.steps[Cursor(p)] = "SUCCEEDED"]
  <2>1. /\ j \in Journals /\ j.commit = prepared[p]
        /\ \A k \in Steps : k # Cursor(p) => j.steps[k] = memory[p].steps[k]
    BY <1>2, StepSet DEF StepStatuses
  <2>2. Save(p, j) /\ Goto(p, "stepping") /\ answer' = [answer EXCEPT ![p] = answer[p]]
    BY <1>3, <1>8 DEF StepSucceeds
  <2>3. evidence[Cursor(p)][prepared[p]] # "absent"
    BY <1>8 DEF StepSucceeds, CommitInv, WorkInv
  <2> HIDE DEF j
  <2> QED
    BY <1>1, <1>3, <1>4, <1>5, <2>1, <2>2, <2>3, SavedStep
<1>9. CASE StepFails(p)
  <2> DEFINE j == FailedStep(memory[p], Cursor(p))
  <2>1. /\ j \in Journals /\ j.commit = prepared[p] /\ j.steps[Cursor(p)] = "FAILED"
        /\ \A k \in Steps : k # Cursor(p) => j.steps[k] = memory[p].steps[k]
    BY <1>2, StepFailed
  <2>2. PICK a \in {"retryable", "conflict"} :
          Save(p, j) /\ Goto(p, "exiting") /\ answer' = [answer EXCEPT ![p] = a]
    BY <1>9 DEF StepFails, Answer
  <2> HIDE DEF j
  <2> QED
    BY <1>1, <1>5, <1>6, <2>1, <2>2, SavedStep
<1> QED
  BY <1>7, <1>8, <1>9

LEMMA CloseStep ==
  ASSUME CommitInv, NEW p \in Committers, Close(p)
  PROVE  CommitInv'
<1>1. pc[p] \in Working /\ receipt = prepared[p]
  BY DEF Close, Working, CommitInv, AnswerInv
<1>2. /\ memory[p] = journal /\ journal \in Journals /\ journal.commit = prepared[p]
      /\ Frontier(journal) /\ pc[p] \in Holding
      /\ \A k \in Steps : journal.steps[k] = "SUCCEEDED" => evidence[k][prepared[p]] # "absent"
  BY <1>1, AtWork
<1>3. receipt # NoFile => Done(journal)
  BY DEF CommitInv, ReceiptInv
<1> DEFINE j == [memory[p] EXCEPT !.status = "COMMITTED"]
<1>4. j \in Journals /\ j.commit = prepared[p] /\ j.steps = journal.steps
  BY <1>2, StatusSet DEF Statuses
<1>5. /\ Save(p, j) /\ Goto(p, "exiting") /\ answer' = [answer EXCEPT ![p] = "receipt"]
      /\ UNCHANGED <<artifacts, lock, receipt, systems, prepared>>
  BY DEF Close, Answer
<1> HIDE DEF j
<1>6. /\ Frontier(j)
      /\ receipt # NoFile => Done(j)
      /\ \A k \in Steps : j.steps[k] = "SUCCEEDED" => evidence[k][prepared[p]] # "absent"
  BY <1>2, <1>3, <1>4 DEF Frontier, Done
<1> DEFINE label == "exiting"
           a == "receipt"
<1>7. /\ label \in {"stepping", "ensuring", "exiting"} /\ label # "ensuring" /\ Goto(p, label)
      /\ a \in Answers /\ answer' = [answer EXCEPT ![p] = a]
  BY <1>5 DEF Answers
<1> HIDE DEF label, a
<1> QED
  BY <1>1, <1>2, <1>4, <1>5, <1>6, <1>7, Saved

LEMMA ReceiptStep ==
  ASSUME CommitInv, NEW p \in Committers, WriteReceipt(p)
  PROVE  CommitInv' /\ (receipt # NoFile => receipt' = receipt)
<1>1. /\ pc[p] = "stepping" /\ Done(memory[p])
      /\ UNCHANGED <<artifacts, lock, journal, systems, prepared, memory>>
  BY DEF WriteReceipt
<1>2. /\ memory[p] = journal /\ journal # NoFile /\ journal.commit = prepared[p]
      /\ pc[p] \in Holding /\ lock = p /\ prepared[p] \in Snapshots
  BY <1>1, AtWork DEF Working, CommitInv, LockInv, TypeInv
<1>3. receipt # NoFile => receipt = prepared[p]
  BY <1>2 DEF CommitInv, ReceiptInv
<1>4. \A q \in Committers : prepared[q] # NoFile
  BY NamesAssumption DEF CommitInv, TypeInv
<1>5. CASE Unchanged(p)
  <2>1. receipt' = prepared[p] /\ Goto(p, "closing") /\ UNCHANGED answer
    BY <1>5 DEF WriteReceipt
  <2>2. /\ pc'[p] = "closing"
        /\ \A q \in Committers : q # p => pc'[q] = pc[q]
        /\ \A q \in Committers : Cursor(q)' = Cursor(q)
    BY <1>1, <2>1, CursorStays DEF CommitInv, TypeInv, Goto
  <2>3. TypeInv'
    BY <1>1, <1>2, <2>1 DEF CommitInv, TypeInv, Goto, Labels, Holding, Working, systems
  <2>4. LockInv'
    BY <1>1, <1>2, <2>2 DEF CommitInv, LockInv
  <2>5. WorkInv'
    BY <1>1, <1>2, <2>2 DEF CommitInv, WorkInv, Working, InStep, systems
  <2>6. AnswerInv'
    BY <1>1, <1>3, <1>4, <2>1, <2>2 DEF CommitInv, AnswerInv
  <2>7. JournalInv' /\ EvidenceInv' /\ CopiesInv'
    BY <1>1 DEF CommitInv, JournalInv, EvidenceInv, CopiesInv, systems
  <2>8. ReceiptInv'
    BY <1>1, <1>2, <2>1 DEF ReceiptInv
  <2> QED
    BY <1>3, <2>1, <2>3, <2>4, <2>5, <2>6, <2>7, <2>8 DEF CommitInv
<1>6. CASE ~ Unchanged(p)
  <2> DEFINE label == "exiting"
             a == "conflict"
  <2>1. Goto(p, label) /\ answer' = [answer EXCEPT ![p] = a] /\ UNCHANGED receipt
    BY <1>6 DEF WriteReceipt, Answer
  <2>2. /\ label \in Labels /\ label \notin InStep /\ a \in Answers /\ a # "receipt"
        /\ label \notin {"stepping", "closing", "making", "repairing", "ensured", "replaying"}
    BY DEF Labels, Holding, Working, InStep, Answers
  <2> HIDE DEF label, a
  <2> QED
    BY <1>1, <1>2, <2>1, <2>2, Went
<1> QED
  BY <1>5, <1>6

LEMMA WriteStep ==
  ASSUME CommitInv, NEW p \in Committers, Create(p) \/ Complete(p)
  PROVE  CommitInv'
<1>1. pc[p] \in {"making", "repairing"}
  BY DEF Create, Complete
<1>2. UNCHANGED <<artifacts, files, prepared, memory, answer>>
  BY DEF Create, Complete
<1>3. /\ pc[p] = "making" => copies' = [copies EXCEPT ![Cursor(p)][prepared[p]] = @ + 1]
      /\ pc[p] = "repairing" => UNCHANGED copies
  BY DEF Create, Complete
<1>4. PICK e \in Evidence \ {"absent"}, label \in {"repairing", "ensured"} :
        Leave(p, e) /\ Goto(p, label)
  <2>1. {"whole", "foreign", "partial", "torn"} \subseteq Evidence \ {"absent"}
    BY DEF Evidence
  <2>2. FirstWrite(STEP_ORDER[Cursor(p)]) \in {"torn", "partial"}
    BY DEF FirstWrite
  <2>3. LeaveAll(p) => \E e \in {"whole", "foreign"} : Leave(p, e) /\ Goto(p, "ensured")
    BY DEF LeaveAll
  <2>4. CASE Create(p)
    BY <2>1, <2>2, <2>3, <2>4 DEF Create
  <2>5. CASE Complete(p)
    <3>1. UNCHANGED pc /\ pc[p] = "repairing" => Goto(p, "repairing")
      BY DEF Goto, CommitInv, TypeInv
    <3> QED
      BY <2>1, <2>3, <2>5, <3>1 DEF Complete
  <2> QED
    BY <2>4, <2>5
<1> QED
  BY <1>1, <1>2, <1>3, <1>4, EvidenceIsLeft

LEMMA Around ==
  ASSUME CommitInv, RemoveLock \/ Restage \/ UNCHANGED vars
  PROVE  CommitInv'
<1>1. UNCHANGED <<journal, receipt, systems, pc, prepared, memory, answer>>
  BY DEF RemoveLock, Restage, vars, files
<1>2. artifacts' \in Snapshots
  BY DEF RemoveLock, Restage, vars, CommitInv, TypeInv
<1>3. lock' \in Committers \union {Nobody, Left} /\ (lock' = lock \/ lock = Left)
  BY DEF RemoveLock, Restage, vars, files, CommitInv, TypeInv
<1>4. LockInv'
  BY <1>1, <1>3, NamesAssumption DEF CommitInv, LockInv
<1>5. WorkInv'
  BY <1>1 DEF CommitInv, WorkInv, Cursor, systems
<1>6. AnswerInv'
  BY <1>1 DEF CommitInv, AnswerInv
<1>7. /\ pc' \in [Committers -> Labels] /\ prepared' \in [Committers -> Snapshots]
      /\ memory' \in [Committers -> Journals \union {NoFile}]
      /\ answer' \in [Committers -> Answers]
  BY <1>1 DEF CommitInv, TypeInv
<1> QED
  BY <1>1, <1>2, <1>3, <1>4, <1>5, <1>6, <1>7, Moved

LEMMA CommitInit == Init => CommitInv
<1> SUFFICES ASSUME Init PROVE CommitInv
  OBVIOUS
<1>1. TypeInv
  BY DEF Init, TypeInv, Evidence, Labels, Answers
<1>2. \A k \in Steps, c \in Snapshots : evidence[k][c] = "absent" /\ copies[k][c] = 0
  BY DEF Init
<1>3. \A p \in Committers : pc[p] = "idle" /\ answer[p] = "none"
  BY DEF Init
<1>4. LockInv /\ WorkInv /\ AnswerInv
  BY <1>3 DEF LockInv, WorkInv, AnswerInv, Holding, Working, InStep
<1>5. EvidenceInv /\ CopiesInv
  BY <1>2 DEF EvidenceInv, CopiesInv
<1>6. JournalInv /\ ReceiptInv
  BY DEF Init, JournalInv, ReceiptInv
<1> QED
  BY <1>1, <1>4, <1>5, <1>6 DEF CommitInv

LEMMA CommitNext ==
  ASSUME CommitInv, [Next]_vars
  PROVE  CommitInv'
<1>1. ASSUME NEW p \in Committers, prepare_downstream_commit(p) PROVE CommitInv'
  BY <1>1, PrepareStep
<1>2. ASSUME NEW p \in Committers, Run(p) PROVE CommitInv'
  BY <1>2, GoesOn, StopsWorking, LoadStep, JournalSteps, CloseStep, ReceiptStep, WriteStep DEF Run
<1>3. ASSUME NEW p \in Committers, StepRaises(p) \/ Crash(p) \/ Interrupt(p) PROVE CommitInv'
  BY <1>3, GoesOn, StopsWorking
<1> QED
  BY <1>1, <1>2, <1>3, Around DEF Next

LEMMA CommitAlways == Spec => []CommitInv
BY CommitInit, CommitNext, PTL DEF Spec

-----------------------------------------------------------------------------
(* However committers die and are called again, only one of them at a time *)
(* looks and creates, and it finds what the last one left.                 *)
THEOREM NothingCreatedTwice == Spec => []CreatedOnce
<1>1. CommitInv => CreatedOnce
  BY DEF CommitInv, TypeInv, CopiesInv, CreatedOnce
<1> QED
  BY <1>1, CommitAlways, PTL

(* Every downstream write is one of the commit the journal was begun with, *)
(* whatever is staged and prepared later.                                  *)
THEOREM OneSnapshotEver == Spec => []OneSnapshotPublished
<1>1. CommitInv => OneSnapshotPublished
  BY DEF CommitInv, EvidenceInv, OneSnapshotPublished
<1> QED
  BY <1>1, CommitAlways, PTL

(* A receipt is there only for a commit all of whose steps are journaled   *)
(* and left evidence; a call that returned one finds it there.             *)
THEOREM ReceiptsAreEarned == Spec => []ReceiptIsEarned
<1>1. CommitInv => ReceiptIsEarned
  BY DEF CommitInv, ReceiptInv, JournalInv, AnswerInv, Done, ReceiptIsEarned
<1> QED
  BY <1>1, CommitAlways, PTL

\* A journal that is there goes on as one of the same commit.
GoesForward ==
  /\ journal # NoFile =>
       /\ journal' # NoFile /\ journal'.commit = journal.commit
       /\ \A k \in Steps : journal.steps[k] = "SUCCEEDED" => journal'.steps[k] = "SUCCEEDED"
  /\ receipt # NoFile => receipt' = receipt

LEMMA Forward ==
  ASSUME CommitInv, [Next]_vars
  PROVE  GoesForward
<1>1. CASE UNCHANGED <<journal, receipt>>
  BY <1>1 DEF GoesForward
<1>2. ASSUME NEW p \in Committers, _load_state(p) PROVE GoesForward
  <2>1. UNCHANGED receipt /\ (UNCHANGED journal \/ journal' = Loaded(p))
    BY <1>2 DEF _load_state, Save
  <2>2. ASSUME journal # NoFile, journal' = Loaded(p)
        PROVE  journal' \in Journals /\ journal'.commit = journal.commit
               /\ journal'.steps = journal.steps
    <3>1. journal \in Journals /\ Loaded(p) = [journal EXCEPT !.status = "IN_PROGRESS"]
      BY <2>2 DEF CommitInv, TypeInv, Loaded
    <3> QED
      BY <2>2, <3>1, StatusSet DEF Statuses
  <2> QED
    BY <2>1, <2>2, NamesAssumption DEF GoesForward
<1>3. ASSUME NEW p \in Committers, StartStep(p) \/ StepSucceeds(p) \/ StepFails(p)
      PROVE  GoesForward
  <2>1. pc[p] \in Working /\ ~ Done(memory[p]) /\ UNCHANGED receipt
    BY <1>3 DEF StartStep, StepSucceeds, StepFails, CommitInv, WorkInv, Working, InStep
  <2>2. /\ memory[p] = journal /\ journal \in Journals /\ Cursor(p) \in Steps
        /\ journal.steps[Cursor(p)] # "SUCCEEDED"
    BY <2>1, AtWork, CursorMeans, StepsAreNumbered
  <2>3. /\ journal' \in Journals /\ journal'.commit = journal.commit
        /\ \A k \in Steps : k # Cursor(p) => journal'.steps[k] = journal.steps[k]
    <3>1. \/ \E status \in StepStatuses :
               journal' = [journal EXCEPT !.steps[Cursor(p)] = status]
          \/ journal' = FailedStep(journal, Cursor(p))
      BY <1>3, <2>2 DEF StartStep, StepSucceeds, StepFails, Save, StepStatuses
    <3>2. ASSUME NEW status \in StepStatuses,
                 journal' = [journal EXCEPT !.steps[Cursor(p)] = status]
          PROVE  /\ journal' \in Journals /\ journal'.commit = journal.commit
                 /\ \A k \in Steps : k # Cursor(p) => journal'.steps[k] = journal.steps[k]
      BY <2>2, <3>2, StepSet
    <3>3. CASE journal' = FailedStep(journal, Cursor(p))
      BY <2>2, <3>3, StepFailed
    <3> QED
      BY <3>1, <3>2, <3>3
  <2> QED
    BY <2>1, <2>2, <2>3, NamesAssumption DEF GoesForward
<1>4. ASSUME NEW p \in Committers, Close(p) PROVE GoesForward
  <2>1. /\ memory[p] = journal /\ journal \in Journals /\ UNCHANGED receipt
        /\ journal' = [journal EXCEPT !.status = "COMMITTED"]
    BY <1>4, AtWork DEF Close, Save, Working
  <2>2. journal' \in Journals /\ journal'.commit = journal.commit /\ journal'.steps = journal.steps
    BY <2>1, StatusSet DEF Statuses
  <2> QED
    BY <2>1, <2>2, NamesAssumption DEF GoesForward
<1>5. ASSUME NEW p \in Committers, WriteReceipt(p) PROVE GoesForward
  BY <1>5, ReceiptStep DEF WriteReceipt, GoesForward
<1>6. ASSUME NEW p \in Committers,
             \/ prepare_downstream_commit(p) \/ _load_receipt(p) \/ Replay(p) \/ _CommitLock(p)
             \/ Look(p) \/ Create(p) \/ Complete(p) \/ StepRaises(p) \/ Exit(p) \/ Crash(p)
             \/ Interrupt(p)
      PROVE  GoesForward
  BY <1>1, <1>6
  DEF prepare_downstream_commit, _load_receipt, Replay, _CommitLock, Look, Create, Complete,
    StepRaises, Exit, Crash, Interrupt, files
<1>7. CASE RemoveLock \/ Restage \/ UNCHANGED vars
  BY <1>1, <1>7 DEF RemoveLock, Restage, vars, files
<1> QED
  BY <1>2, <1>3, <1>4, <1>5, <1>6, <1>7 DEF Next, Run

(* The journal stays with its commit and keeps every success it recorded,  *)
(* and a receipt is never replaced, whoever writes.                        *)
THEOREM NoRegress == Spec => JournalNeverRegresses
<1>1. CommitInv /\ [Next]_vars => [GoesForward]_vars
  BY Forward
<1> QED
  BY <1>1, CommitAlways, PTL DEF Spec, JournalNeverRegresses, GoesForward
===============================================================================

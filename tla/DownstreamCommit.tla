-------------------------- MODULE DownstreamCommit --------------------------
(***************************************************************************)
(* The journaled saga that publishes a staged run,                         *)
(* src/src/loto/orchestration/pipeline_downstream_commit.py: one output    *)
(* directory, processes that call execute_downstream_commit on it, the     *)
(* journal, receipt and lock files, and what the steps leave in the        *)
(* systems they write to.  A process may die or be interrupted between any *)
(* two writes; staged artifacts may change under it; an operator removes   *)
(* the lock of a process that died.                                        *)
(*                                                                         *)
(* A commit is named by the snapshot it was prepared from: commit_id is a  *)
(* hash of it (pipeline_downstream_preflight.py, 159-167).                 *)
(***************************************************************************)
EXTENDS Integers, Sequences, FiniteSets

CONSTANTS Committers, Snapshots,
          STEP_ORDER,       \* names of the steps, in order
          MaxFaults,       \* bound on deaths, interrupts and failing steps
          NoFile, Nobody, Left

StepNames == {"release_bundle", "artifact_store", "mlflow", "legacy_registry",
              "platform_registry", "event_publication"}

ASSUME StepsAssumption ==
  /\ STEP_ORDER \in Seq(StepNames) /\ STEP_ORDER # << >>
  /\ MaxFaults \in Nat

\* What a journal file can hold.
Journals ==
  [commit : Snapshots,
   status : {"PREPARED", "IN_PROGRESS", "RETRY_REQUIRED", "COMMITTED"},
   steps : [DOMAIN STEP_ORDER -> {"PENDING", "RUNNING", "SUCCEEDED", "FAILED"}]]

ASSUME NamesAssumption ==
  /\ NoFile \notin Snapshots /\ NoFile \notin Journals
  /\ Nobody \notin Committers /\ Left \notin Committers /\ Nobody # Left

VARIABLES
  artifacts,   \* the snapshot the staged artifacts have now
  lock,        \* downstream_commit.lock: Nobody, its process, or Left behind
  journal,     \* downstream_commit_state.json
  receipt,     \* downstream_commit_receipt.json: the commit it names
  evidence,    \* what each step left of a commit (see Evidence)
  copies,      \* how often a step created it
  pc, prepared, memory,   \* of each process; memory is its copy of the journal
  answer,      \* what its last call returned or raised
  faults

files == <<lock, journal, receipt>>
systems == <<evidence, copies>>
vars == <<artifacts, files, systems, pc, prepared, memory, answer, faults>>

Steps == DOMAIN STEP_ORDER
Unchanged(p) == artifacts = prepared[p]      \* verify_prepared_snapshot
Done(j) == \A k \in Steps : j.steps[k] = "SUCCEEDED"
Cursor(p) == CHOOSE k \in Steps :
               /\ memory[p].steps[k] # "SUCCEEDED"
               /\ \A i \in 1..(k - 1) : memory[p].steps[i] = "SUCCEEDED"

_initial_state(c) == [commit |-> c, status |-> "PREPARED",
                      steps |-> [k \in Steps |-> "PENDING"]]
_verify_state_identity(j, c) == j.commit = c

Goto(p, label) == pc' = [pc EXCEPT ![p] = label]
Answer(p, label, a) == Goto(p, label) /\ answer' = [answer EXCEPT ![p] = a]
Forget(p) == memory' = [memory EXCEPT ![p] = NoFile]
Save(p, j) == /\ memory' = [memory EXCEPT ![p] = j]
              /\ journal' = j

(* ------------------- execute_downstream_commit, by step ----------------- *)

prepare_downstream_commit(p) ==
  /\ pc[p] = "idle"
  /\ prepared' = [prepared EXCEPT ![p] = artifacts]
  /\ Answer(p, "prepared", "none")
  /\ UNCHANGED <<artifacts, files, systems, memory, faults>>

_load_receipt(p) ==
  /\ pc[p] = "prepared"
  /\ \/ receipt = NoFile /\ Goto(p, "locking") /\ UNCHANGED answer
     \/ receipt = prepared[p] /\ Goto(p, "replaying") /\ UNCHANGED answer
     \/ receipt \notin {NoFile, prepared[p]} /\ Answer(p, "idle", "conflict")
  /\ UNCHANGED <<artifacts, files, systems, prepared, memory, faults>>

ReceiptAgrees(p) == /\ journal # NoFile
                    /\ _verify_state_identity(journal, prepared[p])
                    /\ journal.status = "COMMITTED" /\ Done(journal)
                    /\ Unchanged(p)
Replay(p) ==
  /\ pc[p] = "replaying"
  /\ Answer(p, "idle", IF ReceiptAgrees(p) THEN "receipt" ELSE "conflict")
  /\ UNCHANGED <<artifacts, files, systems, prepared, memory, faults>>

\* Mutant of LockIsFree: os.open without O_EXCL.
LockExists == TRUE

LockIsFree == lock = Nobody

_CommitLock(p) ==
  /\ pc[p] = "locking"
  /\ IF LockIsFree
     THEN lock' = p /\ Goto(p, "locked") /\ UNCHANGED answer
     ELSE Answer(p, "idle", "retryable") /\ UNCHANGED lock
  /\ UNCHANGED <<artifacts, journal, receipt, systems, prepared, memory, faults>>

\* Mutant of CanContinue: the identity of the journal is not verified.
SnapshotStands(p) == Unchanged(p)

CanContinue(p) ==
  /\ Unchanged(p)
  /\ journal # NoFile => _verify_state_identity(journal, prepared[p])

\* Mutant of Loaded: every attempt starts over.
StartedOver(p) == [_initial_state(prepared[p]) EXCEPT !.status = "IN_PROGRESS"]

Loaded(p) == [(IF journal = NoFile THEN _initial_state(prepared[p]) ELSE journal)
                EXCEPT !.status = "IN_PROGRESS"]

_load_state(p) ==
  /\ pc[p] = "locked"
  /\ IF CanContinue(p)
     THEN Save(p, Loaded(p)) /\ Goto(p, "stepping") /\ UNCHANGED answer
     ELSE Answer(p, "exiting", "conflict") /\ UNCHANGED <<memory, journal>>
  /\ UNCHANGED <<artifacts, lock, receipt, systems, prepared, faults>>

\* A changed snapshot is raised from outside the try block: the step stays
\* RUNNING in the journal.
StartStep(p) ==
  /\ pc[p] = "stepping" /\ ~Done(memory[p])
  /\ Save(p, [memory[p] EXCEPT !.steps[Cursor(p)] = "RUNNING"])
  /\ IF Unchanged(p) THEN Goto(p, "ensuring") /\ UNCHANGED answer
                     ELSE Answer(p, "exiting", "conflict")
  /\ UNCHANGED <<artifacts, lock, receipt, systems, prepared, faults>>

\* What a step left: a beginning that ensure_* refuses (half a bundle or event
\* line, an MLflow run with the first of its tags), a part it accepts, all of
\* it, or what it read from artifacts that were not the prepared ones any more.
Evidence == {"absent", "torn", "partial", "whole", "foreign"}
ReadsArtifacts == {"release_bundle", "artifact_store", "mlflow"}
FirstWrite(step) ==
  IF step \in {"release_bundle", "mlflow", "event_publication"} THEN "torn" ELSE "partial"

\* What ensure_* does about what it finds.  Bundle and index are compared with
\* the artifacts; an MLflow run is taken by its tags, whatever was logged to
\* it; the registries and the artifact store write what is missing.
Find(step, found) ==
  CASE found = "absent"  -> "making"
    [] found = "torn"    -> "failed"
    [] found = "whole"   -> "ensured"
    [] found \in {"partial", "foreign"} /\ step = "mlflow" -> "ensured"
    [] found = "partial" /\ step # "mlflow" -> "repairing"
    [] found = "foreign" /\ step # "mlflow" -> "failed"

Look(p) ==
  /\ pc[p] = "ensuring"
  /\ Goto(p, Find(STEP_ORDER[Cursor(p)], evidence[Cursor(p)][prepared[p]]))
  /\ UNCHANGED <<artifacts, files, systems, prepared, memory, answer, faults>>

Leave(p, e) == evidence' = [evidence EXCEPT ![Cursor(p)][prepared[p]] = e]
LeaveAll(p) ==
  /\ Leave(p, IF STEP_ORDER[Cursor(p)] \in ReadsArtifacts /\ ~Unchanged(p)
              THEN "foreign" ELSE "whole")
  /\ Goto(p, "ensured")

\* The first write of a step that a later look can find: of mlflow the tag of
\* the commit, not the start of the run.  It may be all there is to write.
Create(p) ==
  /\ pc[p] = "making"
  /\ copies' = [copies EXCEPT ![Cursor(p)][prepared[p]] = @ + 1]
  /\ \/ Leave(p, FirstWrite(STEP_ORDER[Cursor(p)])) /\ Goto(p, "repairing")
     \/ LeaveAll(p)
  /\ UNCHANGED <<artifacts, files, prepared, memory, answer, faults>>

Complete(p) ==
  /\ pc[p] = "repairing"
  /\ \/ LeaveAll(p)
     \/ /\ STEP_ORDER[Cursor(p)] = "mlflow" /\ evidence[Cursor(p)][prepared[p]] = "torn"
        /\ Leave(p, "partial") /\ UNCHANGED pc
  /\ UNCHANGED <<artifacts, files, copies, prepared, memory, answer, faults>>

StepRaises(p) ==
  /\ pc[p] \in {"ensuring", "making", "repairing"} /\ faults < MaxFaults
  /\ faults' = faults + 1
  /\ Goto(p, "failed")
  /\ UNCHANGED <<artifacts, files, systems, prepared, memory, answer>>

\* Mutant of FailedStep: a failed step is left for the operator.
FailedAsDone(j, k) == [j EXCEPT !.steps[k] = "SUCCEEDED", !.status = "RETRY_REQUIRED"]

FailedStep(j, k) == [j EXCEPT !.steps[k] = "FAILED", !.status = "RETRY_REQUIRED"]

StepSucceeds(p) ==
  /\ pc[p] = "ensured" /\ Unchanged(p)
  /\ Save(p, [memory[p] EXCEPT !.steps[Cursor(p)] = "SUCCEEDED"])
  /\ Goto(p, "stepping")
  /\ UNCHANGED <<artifacts, lock, receipt, systems, prepared, answer, faults>>

StepFails(p) ==
  /\ \/ /\ pc[p] = "failed"
        /\ \E a \in {"retryable", "conflict"} : Answer(p, "exiting", a)
     \/ /\ pc[p] = "ensured" /\ ~Unchanged(p)
        /\ Answer(p, "exiting", "conflict")
  /\ Save(p, FailedStep(memory[p], Cursor(p)))
  /\ UNCHANGED <<artifacts, lock, receipt, systems, prepared, faults>>

WriteReceipt(p) ==
  /\ pc[p] = "stepping" /\ Done(memory[p])
  /\ IF Unchanged(p)
     THEN receipt' = prepared[p] /\ Goto(p, "closing") /\ UNCHANGED answer
     ELSE Answer(p, "exiting", "conflict") /\ UNCHANGED receipt
  /\ UNCHANGED <<artifacts, lock, journal, systems, prepared, memory, faults>>

Close(p) ==
  /\ pc[p] = "closing"
  /\ Save(p, [memory[p] EXCEPT !.status = "COMMITTED"])
  /\ Answer(p, "exiting", "receipt")
  /\ UNCHANGED <<artifacts, lock, receipt, systems, prepared, faults>>

\* Mutant of Unlinked: no __exit__, the last statement unlocks.
UnlinkedOnSuccess(p) == IF answer[p] = "receipt" THEN Nobody ELSE lock

\* __exit__ unlinks the file that is there.
Unlinked(p) == Nobody

Exit(p) ==
  /\ pc[p] = "exiting"
  /\ lock' = Unlinked(p) /\ Goto(p, "idle") /\ Forget(p)
  /\ UNCHANGED <<artifacts, journal, receipt, systems, prepared, answer, faults>>

(* ----------------- deaths, operators, staged artifacts ------------------ *)

InLock(p) == pc[p] \notin {"idle", "prepared", "replaying", "locking"}

Crash(p) ==
  /\ pc[p] # "idle" /\ faults < MaxFaults
  /\ faults' = faults + 1
  /\ Answer(p, "idle", "none") /\ Forget(p)
  /\ lock' = IF lock = p THEN Left ELSE lock
  /\ UNCHANGED <<artifacts, journal, receipt, systems, prepared>>

\* KeyboardInterrupt is no Exception: nothing is journaled, the lock goes.
Interrupt(p) ==
  /\ InLock(p) /\ pc[p] # "exiting" /\ faults < MaxFaults
  /\ faults' = faults + 1
  /\ Answer(p, "exiting", "none")
  /\ UNCHANGED <<artifacts, files, systems, prepared, memory>>

RemoveLock ==
  /\ lock = Left /\ lock' = Nobody
  /\ UNCHANGED <<artifacts, journal, receipt, systems, pc, prepared, memory,
                 answer, faults>>

Restage ==
  /\ \E s \in Snapshots \ {artifacts} : artifacts' = s
  /\ UNCHANGED <<files, systems, pc, prepared, memory, answer, faults>>

Init ==
  /\ artifacts \in Snapshots
  /\ lock = Nobody /\ journal = NoFile /\ receipt = NoFile
  /\ evidence = [k \in Steps |-> [c \in Snapshots |-> "absent"]]
  /\ copies = [k \in Steps |-> [c \in Snapshots |-> 0]]
  /\ pc = [p \in Committers |-> "idle"]
  /\ prepared = [p \in Committers |-> artifacts]
  /\ memory = [p \in Committers |-> NoFile]
  /\ answer = [p \in Committers |-> "none"]
  /\ faults = 0

\* The steps of a call up to its end, whatever they answer.
Run(p) ==
  \/ _load_receipt(p) \/ Replay(p) \/ _CommitLock(p) \/ _load_state(p)
  \/ StartStep(p) \/ Look(p) \/ Create(p) \/ Complete(p) \/ StepSucceeds(p)
  \/ StepFails(p) \/ WriteReceipt(p) \/ Close(p) \/ Exit(p)

Next ==
  \/ \E p \in Committers : \/ prepare_downstream_commit(p) \/ Run(p)
                           \/ StepRaises(p) \/ Crash(p) \/ Interrupt(p)
  \/ RemoveLock \/ Restage

Spec == Init /\ [][Next]_vars

\* Somebody keeps calling, a call that was not interrupted runs on, and a
\* lock left behind is removed in the end.
FairSpec ==
  /\ Spec /\ WF_vars(RemoveLock)
  /\ \A p \in Committers : WF_vars(prepare_downstream_commit(p) \/ Run(p))

(* ------------------------------ properties ------------------------------ *)

\* No step creates its tagged run, row or event twice for a commit, whatever
\* died between the write and its journal entry and whoever retried: the look
\* and the creation of ensure_* are two operations, and only the lock makes
\* them one (PIPELINE_DOWNSTREAM_COMMIT.md, "Idempotency controls").
CreatedOnce == \A k \in Steps, c \in Snapshots : copies[k][c] <= 1

\* Two snapshots of one staged run never both reach a downstream system,
\* though the artifacts may change at any moment between two calls and
\* within one.
OneSnapshotPublished ==
  \A c, e \in Snapshots :
    (\E k, i \in Steps : evidence[k][c] # "absent" /\ evidence[i][e] # "absent")
      => c = e

\* A receipt is the receipt of a commit all of whose steps are journaled and
\* left their evidence, and a call returns one only when it exists.
ReceiptIsEarned ==
  /\ receipt # NoFile =>
       /\ journal # NoFile /\ journal.commit = receipt /\ Done(journal)
       /\ \A k \in Steps : evidence[k][receipt] # "absent"
  /\ \A p \in Committers : answer[p] = "receipt" => receipt = prepared[p]

\* A step journaled as succeeded stays so, the journal never passes to
\* another commit and a receipt is never replaced by another one, also when
\* a process that took the lock late writes its own copy of the journal.
JournalNeverRegresses ==
  [][/\ journal # NoFile =>
          /\ journal' # NoFile /\ journal'.commit = journal.commit
          /\ \A k \in Steps : journal.steps[k] = "SUCCEEDED"
                                => journal'.steps[k] = "SUCCEEDED"
     /\ receipt # NoFile => receipt' = receipt]_vars

\* A commit that was begun is receipted in the end if its artifacts stay as
\* they are, whatever died on the way: unless a step finds something it
\* refuses to take or repair.
Refused(c) == \E k \in Steps : Find(STEP_ORDER[k], evidence[k][c]) = "failed"
CommitGetsThrough ==
  <>[](journal # NoFile /\ artifacts = journal.commit /\ ~Refused(artifacts))
    => <>(receipt # NoFile)

\* "performs downstream writes through a journaled, restartable transaction",
\* "a valid matching receipt short-circuits all side effects"
\* (docs/data_access_ledger/PIPELINE_DOWNSTREAM_COMMIT.md:7-8, 58): a call that
\* finds the receipt of its snapshot, and nobody at work, does not raise a
\* conflict.
ReceiptIsReplayed ==
  [][\A p \in Committers : pc[p] = "replaying" /\ lock = Nobody /\ Unchanged(p)
       => answer'[p] # "conflict"]_vars
=============================================================================

----------------------------- MODULE KpiLabProofs -----------------------------
(***************************************************************************)
(* Three facts, for any number of labs, directories, definitions and       *)
(* limits.                                                                 *)
(*                                                                         *)
(* A lab that reports its ledger intact was alone with it, but for labs    *)
(* that opened it after the terminal entry.  The hash of an entry names    *)
(* its writer and its number, so no hash a lab holds is of an entry still  *)
(* to be written: once another lab has written, the end this lab knows is  *)
(* not the end of the file, and its own next entry breaks the chain for    *)
(* good (Detected); and once this lab has written its terminal entry, it   *)
(* is the entry of any lab that opened the ledger before that does         *)
(* (Outdated).                                                             *)
(*                                                                         *)
(* A report of skill is earned, and the search keeps its limits.  Both     *)
(* rest on what one lab knows and has written at its step (LabOk): a       *)
(* predicate of its values and not of the state, so that a step is proved  *)
(* about once for the lab that takes it (the lemmas ...Ok) and the others  *)
(* keep theirs (MovedKeeps).                                               *)
(***************************************************************************)
EXTENDS KpiLab, FiniteSetTheorems, WellFoundedInduction, TLAPS

Old(hash, entries) ==
  \A k \in Labs, n \in Nat : hash = <<k, n>> => n <= Len(entries[k])

TypeInv ==
  /\ pc = [l \in Labs |-> pc[l]] /\ head = [l \in Labs |-> head[l]]
  /\ intact \in [Labs -> BOOLEAN] /\ alone \in [Labs -> BOOLEAN]
  /\ later \in [Labs -> SUBSET Labs]
  /\ chained \in [Sessions -> BOOLEAN]
  /\ tail = [s \in Sessions |-> tail[s]]
  /\ session = [l \in Labs |-> session[l]]
  /\ \A l \in Labs : pc[l] # "new" => session[l] \in Sessions
  /\ journal = [l \in Labs |-> journal[l]]
  /\ \A l \in Labs : \E S : journal[l] \in Seq(S)

HashesOld ==
  /\ \A l \in Labs : Old(head[l], journal)
  /\ \A s \in Sessions : Old(tail[s], journal)

\* Not alone: the chain is broken, or the next entry of this lab breaks it.
Detected ==
  \A l \in Labs :
    pc[l] \in Recording /\ ~alone[l] =>
      head[l] # tail[session[l]] \/ ~chained[session[l]]

\* After the terminal entry: not alone means a broken chain, and whoever opened
\* the ledger before breaks it with the next entry.
Outdated ==
  \A l \in Labs : pc[l] = "verify" =>
    /\ ~alone[l] => ~chained[session[l]]
    /\ \A k \in Labs :
         k # l /\ pc[k] # "new" /\ session[k] = session[l] /\ k \notin later[l] =>
           head[k] # tail[session[l]] \/ ~chained[session[l]]

NewIsAlone == \A l \in Labs : pc[l] = "new" => alone[l]
IntactIsOver ==
  \A l \in Labs : intact[l] => pc[l] \notin Watching \union {"new"}

Inv == TypeInv /\ HashesOld /\ Detected /\ Outdated /\ NewIsAlone
          /\ IntactIsOver /\ IntactMeansAlone

\* What a step does to the ledgers: it appends, or leaves them alone.
Writes(l, then) ==
  /\ pc[l] \in Recording \union {"written"}
  /\ then # "new" /\ (then \in Watching => pc[l] \in Recording)
  /\ pc' = [pc EXCEPT ![l] = then]
  /\ \E entry : Write(l, entry)
  /\ UNCHANGED <<session, intact>>
Quiet(l, then) ==
  /\ pc[l] # "new" /\ then \notin {"new", "verify"}
  /\ then \in Recording => pc[l] \in Recording
  /\ pc' = [pc EXCEPT ![l] = then]
  /\ UNCHANGED <<session, intact, journal, head, files>>

\* Every step of a lab, and its death, is one of the two or reads the chain.
LEMMA Kinds ==
  ASSUME NEW l \in Labs, Step(l) \/ Crash(l)
  PROVE  Verify(l) \/ \E then : Writes(l, then) \/ Quiet(l, then)
<1> USE DEF Recording, Watching, Goto, Sentence, own
<1>1. CASE EnterInit(l)
  <2> Writes(l, "gate")
    BY <1>1 DEF EnterInit, Enter, Log, Writes
  <2> QED
    OBVIOUS
<1>2. CASE FeasibilityGate(l)
  <2> Writes(l, "terminate") \/ Writes(l, "freeze")
    BY <1>2 DEF FeasibilityGate, Log, Writes
  <2> QED
    OBVIOUS
<1>3. CASE ProtocolFreeze(l)
  <2> Writes(l, "baseline")
    BY <1>3 DEF ProtocolFreeze, Enter, Log, Writes
  <2> QED
    OBVIOUS
<1>4. CASE Baseline(l)
  <2> Writes(l, "controls")
    BY <1>4 DEF Baseline, Enter, Log, Writes
  <2> QED
    OBVIOUS
<1>5. CASE Controls(l)
  <2> Writes(l, "terminate") \/ Writes(l, "enter")
    BY <1>5 DEF Controls, Writes
  <2> QED
    OBVIOUS
<1>6. CASE EnterSearch(l)
  <2> Writes(l, "loop")
    BY <1>6 DEF EnterSearch, Enter, Log, Writes
  <2> QED
    OBVIOUS
<1>7. CASE TooLittleData(l)
  <2> Quiet(l, "raised")
    BY <1>7 DEF TooLittleData, Quiet
  <2> QED
    OBVIOUS
<1>8. CASE Propose(l)
  <2>1. PICK status \in Proposals(l) : 
          /\ pc[l] = "loop"
          /\ \E entry : Write(l, entry)
          /\ Goto(l, CASE status = "UNAVAILABLE" -> "fallback"
                       [] status = "REJECTED" -> "loop"
                       [] status = "ACCEPTED" -> "build")
          /\ UNCHANGED <<session, intact>>
    BY <1>8, Zenon DEF Propose
  <2>2. status \in {"UNAVAILABLE", "REJECTED", "ACCEPTED"}
    BY DEF Proposals
  <2>3. Writes(l, "fallback") \/ Writes(l, "loop") \/ Writes(l, "build")
    BY <2>1, <2>2 DEF Writes
  <2> QED
    BY <2>3
<1>9. CASE Fallback(l)
  <2> Writes(l, "build") \/ Writes(l, "loop")
    BY <1>9 DEF Fallback, Log, Writes
  <2> QED
    OBVIOUS
<1>10. CASE Experiment(l)
  <2> Writes(l, "loop")
    BY <1>10 DEF Experiment, Recorded, Writes
  <2> QED
    OBVIOUS
<1>11. CASE EndSearch(l)
  <2> Quiet(l, "terminate") \/ Quiet(l, "confirm")
    BY <1>11 DEF EndSearch, Quiet
  <2> QED
    OBVIOUS
<1>12. CASE Confirm(l)
  <2> Quiet(l, "raised") \/ Writes(l, "terminate")
    BY <1>12 DEF Confirm, Quiet, Writes
  <2> QED
    OBVIOUS
<1>13. CASE Terminate(l)
  <2> Writes(l, "verify")
    BY <1>13 DEF Terminate, Log, Writes
  <2> QED
    OBVIOUS
<1>14. CASE WriteReport(l)
  <2> Quiet(l, "written")
    BY <1>14 DEF WriteReport, Quiet
  <2> QED
    OBVIOUS
<1>15. CASE NoteReport(l)
  <2> Writes(l, "reported")
    BY <1>15 DEF NoteReport, Enter, Log, Writes
  <2> QED
    OBVIOUS
<1>16. CASE Crash(l)
  <2> Quiet(l, "dead")
    BY <1>16 DEF Crash, Active, Quiet
  <2> QED
    OBVIOUS
<1> QED
  BY <1>1, <1>2, <1>3, <1>4, <1>5, <1>6, <1>7, <1>8, <1>9, <1>10, <1>11, <1>12,
    <1>13, <1>14, <1>15, <1>16 DEF Step

\* No entry of a lab has number 0, so Genesis is old whatever None is.
LEMMA InitInv == Init => Inv
<1> SUFFICES ASSUME Init PROVE Inv
  OBVIOUS
<1>1. TypeInv
  <2>1. << >> \in Seq({})
    OBVIOUS
  <2> QED
    BY <2>1 DEF Init, TypeInv
<1>2. HashesOld
  BY DEF Init, HashesOld, Old, Genesis
<1> QED
  BY <1>1, <1>2 DEF Init, Inv, Detected, Outdated, NewIsAlone, IntactIsOver,
    IntactMeansAlone, Recording, Watching

\* A new lab takes the end of its file for its own.
LEMMA ConstructInv ==
  ASSUME NEW l \in Labs, Construct(l), Inv
  PROVE  Inv'
<1> USE DEF Inv, Goto
<1>1. PICK s \in Sessions :
        /\ pc[l] = "new" /\ pc' = [pc EXCEPT ![l] = "init"]
        /\ session' = [session EXCEPT ![l] = s]
        /\ head' = [head EXCEPT ![l] = tail[s]]
        /\ later' = [m \in Labs |-> IF pc[m] = "verify" /\ session[m] = s
                                     THEN later[m] \union {l} ELSE later[m]]
        /\ UNCHANGED <<journal, intact, tail, chained, alone>>
  BY Zenon DEF Construct
<1>2. TypeInv'
  BY <1>1 DEF TypeInv
<1>3. HashesOld'
  BY <1>1 DEF TypeInv, HashesOld, Old
<1>4. Detected'
  BY <1>1 DEF TypeInv, Detected, NewIsAlone, Recording
<1>5. NewIsAlone' /\ IntactIsOver' /\ IntactMeansAlone'
  BY <1>1 DEF TypeInv, NewIsAlone, IntactIsOver, IntactMeansAlone, Recording,
              Watching
<1>6. Outdated'
  <2> SUFFICES ASSUME NEW m \in Labs, pc'[m] = "verify"
               PROVE  /\ ~alone'[m] => ~chained'[session'[m]]
                      /\ \A k \in Labs :
                           /\ k # m /\ pc'[k] # "new" /\ session'[k] = session'[m]
                           /\ k \notin later'[m]
                           => head'[k] # tail'[session'[m]] \/ ~chained'[session'[m]]
    BY DEF Outdated
  <2>1. m # l /\ pc[m] = "verify" /\ session'[m] = session[m]
    BY <1>1 DEF TypeInv
  <2>2. ~alone'[m] => ~chained'[session'[m]]
    BY <1>1, <2>1 DEF Outdated
  <2> SUFFICES ASSUME NEW k \in Labs, k # m, pc'[k] # "new",
                      session'[k] = session[m], k \notin later'[m]
               PROVE  head'[k] # tail[session[m]] \/ ~chained[session[m]]
    BY <1>1, <2>1, <2>2
  <2>3. k # l
    BY <1>1, <2>1 DEF TypeInv
  <2>4. pc[k] # "new" /\ session[k] = session[m] /\ k \notin later[m]
        /\ head'[k] = head[k]
    BY <1>1, <2>3 DEF TypeInv
  <2> QED
    BY <2>1, <2>4 DEF Outdated
<1> QED
  BY <1>2, <1>3, <1>4, <1>5, <1>6

\* An entry: by the lab that finds its chain whole, or by another one's.
LEMMA WriteInv ==
  ASSUME NEW l \in Labs, NEW then, Writes(l, then), Inv
  PROVE  Inv'
<1> USE DEF Inv
<1> DEFINE s == session[l]
           hash == <<l, Len(journal[l]) + 1>>
<1>1. PICK entry :
        /\ journal' = [journal EXCEPT ![l] = Append(@, entry)]
        /\ head' = [head EXCEPT ![l] = hash]
        /\ tail' = [tail EXCEPT ![s] = hash]
        /\ chained' = [chained EXCEPT ![s] = @ /\ head[l] = tail[s]]
        /\ alone' = [k \in Labs |-> alone[k] /\ ~(/\ k # l /\ session[k] = s
                                                 /\ pc[k] \in Watching
                                                 /\ l \notin later[k])]
        /\ later' = later
  BY DEF Writes, Write, Previous
<1>2. /\ s \in Sessions /\ pc[l] \notin {"new", "verify"}
      /\ then # "new" /\ (then \in Watching => pc[l] \in Recording)
      /\ pc' = [pc EXCEPT ![l] = then] /\ session' = session
      /\ intact' = intact
  BY DEF Writes, TypeInv, Recording
<1>3. PICK S : journal[l] \in Seq(S)
  BY DEF TypeInv
<1>4. /\ Append(journal[l], entry) \in Seq(S \union {entry})
      /\ Len(Append(journal[l], entry)) = Len(journal[l]) + 1
      /\ Len(journal[l]) \in Nat
  <2>1. journal[l] \in Seq(S \union {entry})
    BY <1>3
  <2> QED
    BY <2>1
<1>5. TypeInv'
  <2>1. alone' \in [Labs -> BOOLEAN]
    BY <1>1 DEF TypeInv
  <2>2. \A k \in Labs : \E T : journal'[k] \in Seq(T)
    BY <1>1, <1>4 DEF TypeInv
  <2>3. journal' = [k \in Labs |-> journal'[k]]
    BY <1>1 DEF TypeInv
  <2> QED
    BY <1>1, <1>2, <2>1, <2>2, <2>3 DEF TypeInv
<1>6. \A k \in Labs : Len(journal[k]) \in Nat /\ Len(journal[k]) <= Len(journal'[k])
  <2> SUFFICES ASSUME NEW k \in Labs
               PROVE  Len(journal[k]) \in Nat /\ Len(journal[k]) <= Len(journal'[k])
    OBVIOUS
  <2>1. CASE k = l
    BY <1>1, <1>4, <2>1 DEF TypeInv
  <2>2. CASE k # l
    <3>1. PICK T : journal[k] \in Seq(T)
      BY DEF TypeInv
    <3>2. journal'[k] = journal[k]
      BY <1>1, <2>2 DEF TypeInv
    <3> QED
      BY <3>1, <3>2
  <2> QED
    BY <2>1, <2>2
<1>7. Len(journal'[l]) = Len(journal[l]) + 1
  BY <1>1, <1>4 DEF TypeInv
<1>8. \A h : Old(h, journal) => Old(h, journal')
  BY <1>6 DEF Old
<1>9. Old(hash, journal')
  BY <1>4, <1>7 DEF Old
<1> HIDE DEF hash
<1>10. HashesOld'
  <2>1. \A k \in Labs : Old(head'[k], journal')
    BY <1>1, <1>8, <1>9 DEF TypeInv, HashesOld
  <2>2. \A t \in Sessions : Old(tail'[t], journal')
    BY <1>1, <1>8, <1>9 DEF TypeInv, HashesOld
  <2> QED
    BY <2>1, <2>2 DEF HashesOld
<1>11. Detected'
  <2> SUFFICES ASSUME NEW k \in Labs, pc'[k] \in Recording, ~alone'[k]
               PROVE  head'[k] # tail'[session[k]] \/ ~chained'[session[k]]
    BY <1>2 DEF Detected
  <2>1. pc[k] \in Recording /\ session[k] \in Sessions
    BY <1>2 DEF TypeInv, Recording, Watching
  <2>2. CASE k = l
    BY <1>1, <1>2, <2>1, <2>2 DEF TypeInv, Detected
  <2>3. CASE k # l /\ session[k] = s
    <3>1. ~Old(hash, journal)
      BY <1>4 DEF Old, hash
    <3> QED
      BY <1>1, <1>2, <2>3, <3>1 DEF TypeInv, HashesOld
  <2>4. CASE k # l /\ session[k] # s
    BY <1>1, <1>2, <2>1, <2>4 DEF TypeInv, Detected
  <2> QED
    BY <2>2, <2>3, <2>4
<1>15. ~Old(hash, journal) /\ \A k \in Labs : head[k] # hash
  <2>1. ~Old(hash, journal)
    BY <1>4 DEF Old, hash
  <2> QED
    BY <2>1 DEF HashesOld
<1>16. Outdated'
  <2> SUFFICES ASSUME NEW m \in Labs, pc'[m] = "verify"
               PROVE  /\ ~alone'[m] => ~chained'[session[m]]
                      /\ \A k \in Labs :
                           /\ k # m /\ pc'[k] # "new" /\ session[k] = session[m]
                           /\ k \notin later[m]
                           => head'[k] # tail'[session[m]] \/ ~chained'[session[m]]
    BY <1>1, <1>2 DEF Outdated
  <2>1. \A k \in Labs : k # l => head'[k] = head[k] /\ pc'[k] = pc[k]
    BY <1>1, <1>2 DEF TypeInv
  <2>2. CASE m = l
    <3>1. pc[l] \in Recording /\ alone'[l] = alone[l]
      BY <1>1, <1>2, <2>2 DEF TypeInv, Watching
    <3>2. ~alone'[l] => ~chained'[s]
      BY <1>1, <1>2, <3>1 DEF TypeInv, Detected
    <3>3. tail'[s] = hash
      BY <1>1, <1>2 DEF TypeInv
    <3>4. \A k \in Labs : k # l => head'[k] # hash
      BY <1>15, <2>1
    <3> QED
      BY <2>2, <3>2, <3>3, <3>4
  <2>3. CASE m # l /\ session[m] # s
    <3>1. /\ pc[m] = "verify" /\ session[m] \in Sessions
          /\ alone'[m] = alone[m]
      BY <1>1, <2>1, <2>3 DEF TypeInv
    <3>2. chained'[session[m]] = chained[session[m]] /\ tail'[session[m]] = tail[session[m]]
      BY <1>1, <2>3, <3>1 DEF TypeInv
    <3>3. \A k \in Labs : session[k] = session[m] => k # l
      BY <2>3
    <3> QED
      BY <2>1, <3>1, <3>2, <3>3 DEF Outdated
  <2>4. CASE m # l /\ session[m] = s
    <3>1. pc[m] = "verify" /\ m # l
      BY <2>1, <2>4
    <3>2. /\ ~alone[m] => ~chained[s]
          /\ l \notin later[m] => head[l] # tail[s] \/ ~chained[s]
      BY <1>2, <2>4, <3>1 DEF Outdated
    <3>3. /\ alone'[m] = (alone[m] /\ l \in later[m])
          /\ chained'[s] = (chained[s] /\ head[l] = tail[s]) /\ tail'[s] = hash
      BY <1>1, <1>2, <2>4, <3>1 DEF TypeInv, Watching
    <3>4. ~alone'[m] => ~chained'[s]
      BY <3>2, <3>3
    <3>5. l \notin later[m] => ~chained'[s]
      BY <3>2, <3>3
    <3>6. \A k \in Labs : k # l => head'[k] # hash
      BY <1>15, <2>1
    <3> QED
      BY <2>4, <3>3, <3>4, <3>5, <3>6
  <2> QED
    BY <2>2, <2>3, <2>4
<1>12. NewIsAlone'
  BY <1>1, <1>2 DEF TypeInv, NewIsAlone, Recording, Watching
<1>13. IntactIsOver'
  BY <1>2 DEF TypeInv, IntactIsOver, Recording, Watching
<1>14. IntactMeansAlone'
  BY <1>1, <1>2 DEF TypeInv, IntactIsOver, IntactMeansAlone
<1> QED
  BY <1>5, <1>10, <1>11, <1>12, <1>13, <1>14, <1>16

\* A step that leaves the ledgers alone.
LEMMA QuietInv ==
  ASSUME NEW l \in Labs, NEW then, Quiet(l, then), Inv
  PROVE  Inv'
<1> USE DEF Inv, Quiet, files
<1>1. TypeInv'
  BY DEF TypeInv
<1>2. HashesOld'
  BY DEF HashesOld, Old
<1>3. Detected'
  BY DEF TypeInv, Detected
<1>4. NewIsAlone' /\ IntactIsOver' /\ IntactMeansAlone'
  BY DEF TypeInv, NewIsAlone, IntactIsOver, IntactMeansAlone, Watching
<1>5. Outdated'
  BY DEF TypeInv, Outdated
<1> QED
  BY <1>1, <1>2, <1>3, <1>4, <1>5

\* verify(): whoever has written meanwhile had opened the ledger after the
\* terminal entry, or the chain is broken.
LEMMA VerifyInv ==
  ASSUME NEW l \in Labs, Verify(l), Inv
  PROVE  Inv'
<1> USE DEF Inv, files
<1>1. /\ pc[l] = "verify" /\ pc' = [pc EXCEPT ![l] = "report"]
      /\ intact' = [intact EXCEPT ![l] = chained[session[l]]]
      /\ UNCHANGED <<session, journal, head, files>>
  BY DEF Verify, Goto
<1>2. session[l] \in Sessions
  BY <1>1 DEF TypeInv
<1>3. TypeInv'
  BY <1>1, <1>2 DEF TypeInv
<1>4. HashesOld'
  BY <1>1 DEF HashesOld, Old
<1>5. Detected' /\ Outdated' /\ NewIsAlone'
  BY <1>1 DEF TypeInv, Detected, Outdated, NewIsAlone, Recording
<1>6. IntactIsOver' /\ IntactMeansAlone'
  BY <1>1, <1>2 DEF TypeInv, Outdated, IntactIsOver, IntactMeansAlone, Recording,
                    Watching
<1> QED
  BY <1>3, <1>4, <1>5, <1>6

\* The invariant is inductive.
LEMMA NextInv == Inv /\ [Next]_vars => Inv'
<1> SUFFICES ASSUME Inv, [Next]_vars PROVE Inv'
  OBVIOUS
<1>1. CASE UNCHANGED vars
  BY <1>1 DEF Inv, TypeInv, HashesOld, Old, Detected, Outdated, NewIsAlone,
    IntactIsOver, IntactMeansAlone, vars, own, files
<1>2. CASE \E l \in Labs : Construct(l)
  BY <1>2, ConstructInv
<1>3. CASE \E l \in Labs : Step(l) \/ Crash(l)
  BY <1>3, Kinds, WriteInv, QuietInv, VerifyInv
<1> QED
  BY <1>1, <1>2, <1>3 DEF Next

LEMMA Invariance == Spec => []Inv
BY InitInv, NextInv, PTL DEF Spec

\* ledger_integrity of report.json (ledger.py verify, _terminate): no lab but
\* those that opened the ledger after this one's terminal entry wrote to it
\* between the construction of this one and its verify().
THEOREM IntactAlone == Spec => []IntactMeansAlone
<1>1. Inv => IntactMeansAlone
  BY DEF Inv
<1> QED
  BY <1>1, Invariance, PTL

-----------------------------------------------------------------------------
(* ExperimentsOf, by its definition as a recursive function.               *)

Selects(F, j, n) ==
  F = [i \in 0..n |-> IF i = 0 THEN << >>
                      ELSE IF j[i].event = "experiment" THEN Append(F[i - 1], j[i])
                      ELSE F[i - 1]]

\* The selection is the one its recursion defines.
LEMMA SelectedIs ==
  ASSUME NEW j
  PROVE ExperimentsOf(j) = (CHOOSE F : Selects(F, j, Len(j)))[Len(j)]
BY DEF ExperimentsOf, Selects

\* Numbers are well founded.
LEMMA LeastNumber ==
  ASSUME NEW T \in SUBSET Nat, T # {}
  PROVE  \E n \in T : \A m \in T : n <= m
<1> DEFINE R == OpToRel(<, Nat)
<1>1. \A n, m \in Nat : n < m => <<n, m>> \in R
  BY DEF OpToRel
<1>2. IsWellFoundedOn(R, Nat)
  BY NatLessThanWellFounded
<1> HIDE DEF R
<1>3. PICK n \in T : \A m \in T : ~(<<m, n>> \in R)
  BY <1>2, WFMin
<1>4. \A m \in T : n <= m
  <2> SUFFICES ASSUME NEW m \in T
               PROVE  n <= m
    OBVIOUS
  <2>1. n \in Nat /\ m \in Nat
    OBVIOUS
  <2>2. ~(m < n)
    BY <1>1, <1>3, <2>1, Zenon
  <2> QED
    BY <2>1, <2>2
<1> QED
  BY <1>4

\* Journals that agree so far have the same selection so far: a first place where
\* they differ would have a predecessor where they do not.
LEMMA SameSelection ==
  ASSUME NEW n \in Nat, NEW j, NEW h, \A u \in 1..n : j[u] = h[u],
         NEW F, NEW G, Selects(F, j, n), Selects(G, h, n + 1)
  PROVE  F[n] = G[n]
<1> DEFINE T == {u \in 0..n : F[u] # G[u]}
<1>1. SUFFICES T = {}
  OBVIOUS
<1>2. SUFFICES ASSUME T # {} PROVE FALSE
  OBVIOUS
<1>3. PICK u \in T : \A v \in T : u <= v
  <2>1. T \in SUBSET Nat
    OBVIOUS
  <2> HIDE DEF T
  <2> QED
    BY <1>2, <2>1, LeastNumber
<1>4. u \in 0..n /\ u \in 0..(n + 1)
  OBVIOUS
<1>5. F[u] = IF u = 0 THEN << >> ELSE IF j[u].event = "experiment" THEN Append(F[u - 1], j[u])
             ELSE F[u - 1]
  BY <1>4 DEF Selects
<1>6. G[u] = IF u = 0 THEN << >> ELSE IF h[u].event = "experiment" THEN Append(G[u - 1], h[u])
             ELSE G[u - 1]
  BY <1>4 DEF Selects
<1>7. u # 0
  BY <1>5, <1>6
<1>8. u - 1 \in 0..n /\ ~(u - 1 \in T) /\ u \in 1..n
  BY <1>3, <1>4, <1>7
<1> QED
  BY <1>5, <1>6, <1>7, <1>8

\* There is a function with that recursion, for a journal of any length.
LEMMA Selection ==
  ASSUME NEW j, NEW n \in Nat
  PROVE  \E F : Selects(F, j, n)
<1> DEFINE T == {m \in Nat : ~\E F : Selects(F, j, m)}
<1>1. SUFFICES ASSUME T # {} PROVE FALSE
  OBVIOUS
<1>2. PICK m \in T : \A v \in T : m <= v
  BY <1>1, LeastNumber
<1>3. CASE m = 0
  <2> DEFINE F == [i \in 0..0 |-> << >>]
  <2>1. Selects(F, j, 0)
    BY DEF Selects
  <2> QED
    BY <1>3, <2>1
<1>4. CASE m # 0
  <2>1. m \in Nat /\ m - 1 \in Nat /\ m - 1 \notin T
    BY <1>2, <1>4
  <2>2. PICK F : Selects(F, j, m - 1)
    BY <2>1
  <2> DEFINE G == [i \in 0..m |-> IF i = m
                     THEN IF j[m].event = "experiment" THEN Append(F[m - 1], j[m]) ELSE F[m - 1]
                     ELSE F[i]]
             H == [i \in 0..m |-> IF i = 0 THEN << >>
                      ELSE IF j[i].event = "experiment" THEN Append(G[i - 1], j[i])
                      ELSE G[i - 1]]
  <2>3. \A i \in 0..m : G[i] = H[i]
    <3> SUFFICES ASSUME NEW i \in 0..m PROVE G[i] = H[i]
      OBVIOUS
    <3>1. CASE i = m
      <4>1. G[m - 1] = F[m - 1]
        BY <1>4, <2>1
      <4> QED
        BY <1>4, <2>1, <3>1, <4>1
    <3>2. CASE i # m
      <4>1. i \in 0..(m - 1) /\ G[i] = F[i] /\ (i # 0 => i - 1 \in 0..m /\ i - 1 # m /\ G[i - 1] = F[i - 1])
        BY <2>1, <3>2
      <4>2. F[i] = IF i = 0 THEN << >>
                   ELSE IF j[i].event = "experiment" THEN Append(F[i - 1], j[i])
                   ELSE F[i - 1]
        BY <2>2, <4>1 DEF Selects
      <4> QED
        BY <4>1, <4>2
    <3> QED
      BY <3>1, <3>2
  <2>4. G = H
    <3> HIDE DEF T
    <3> QED
    BY <2>3
  <2>5. Selects(G, j, m)
    BY <2>4 DEF Selects
  <2> QED
    BY <2>5
<1> QED
  BY <1>3, <1>4

\* Another entry is selected if it is an experiment.
LEMMA SelectAppend ==
  ASSUME NEW S, NEW j \in Seq(S), NEW e
  PROVE  ExperimentsOf(Append(j, e)) =
           IF e.event = "experiment" THEN Append(ExperimentsOf(j), e) ELSE ExperimentsOf(j)
<1> DEFINE n == Len(j)
           k == Append(j, e)
<1>1. n \in Nat /\ Len(k) = n + 1 /\ k[n + 1] = e /\ \A u \in 1..n : k[u] = j[u]
  <2>1. k \in Seq(S \union {e}) /\ j \in Seq(S \union {e})
    OBVIOUS
  <2> QED
    BY <2>1
<1> HIDE DEF k, n
<1>2. PICK F : Selects(F, j, n) /\ ExperimentsOf(j) = F[n]
  BY <1>1, Selection, SelectedIs DEF n
<1>3. PICK G : Selects(G, k, n + 1) /\ ExperimentsOf(k) = G[n + 1]
  <2>1. n + 1 \in Nat /\ ExperimentsOf(k) = (CHOOSE G : Selects(G, k, n + 1))[n + 1]
    BY <1>1, SelectedIs
  <2> QED
    BY <2>1, Selection
<1>4. F[n] = G[n]
  <2>1. \A u \in 1..n : j[u] = k[u]
    BY <1>1
  <2> QED
    BY <1>1, <1>2, <1>3, <2>1, SameSelection
<1>5. G[n + 1] = IF k[n + 1].event = "experiment" THEN Append(G[n], k[n + 1]) ELSE G[n]
  <2>1. n + 1 \in 0..(n + 1) /\ n + 1 # 0 /\ (n + 1) - 1 = n
    BY <1>1
  <2> QED
    BY <1>3, <2>1 DEF Selects
<1> QED
  BY <1>1, <1>2, <1>3, <1>4, <1>5 DEF k

LEMMA SelectNone == ExperimentsOf(<< >>) = << >>
<1>1. Len(<< >>) = 0
  OBVIOUS
<1>2. PICK F : Selects(F, << >>, 0) /\ ExperimentsOf(<< >>) = F[0]
  BY <1>1, Selection, SelectedIs
<1> QED
  BY <1>2 DEF Selects

-----------------------------------------------------------------------------
(* What one lab knows and has written, at its step: what a report of it    *)
(* may claim.                                                              *)

Control == [event |-> "NEGATIVE_CONTROL_CALIB", suspend |-> FALSE]
Batches(j) == {i \in DOMAIN j : j[i].event = "proposal_batch"}
Good(j, i, k) == \E u \in i..k : j[u].event = "experiment" /\ j[u].delta # None
Open(p) == IF p \in {"fallback", "build"} THEN 1 ELSE 0
Late == {"terminate", "verify", "report", "written", "reported", "dead"}
AfterControls == {"enter", "loop", "fallback", "build", "confirm"}

\* The best of the experiments x, the first of them.
First(e, x) ==
  /\ e \in ToSet(x) /\ e.delta # None
  /\ \A f \in ToSet(x) : f.delta # None =>
       f.delta < e.delta \/ (f.delta = e.delta /\ e.index <= f.index)

JournalOk(j, x) == (\E S : j \in Seq(S)) /\ (\E S : x \in Seq(S)) /\ x = ExperimentsOf(j)

\* A turn is open from its batch to its experiment; a barren one counts as soon
\* as it is closed.
SearchOk(p, s, j) ==
  /\ s = [index |-> s.index, failures |-> s.failures, proposer |-> s.proposer,
          cursor |-> s.cursor, best |-> s.best]
  /\ s.index \in Nat /\ s.failures \in Nat /\ s.proposer \in {"llm", "grid"}
  /\ p \notin Stop =>
       /\ Cardinality(Batches(j)) = s.index + Open(p)
       /\ \A i \in Batches(j) :
            \/ Good(j, i, Len(j))
            \/ Cardinality(Batches(j) \intersect i..Len(j)) <= s.failures + Open(p)

HardOk(j) ==
  /\ Cardinality(Batches(j)) <= MaxExperiments
  /\ \A i, k \in Batches(j) :
       i < k /\ Cardinality(Batches(j) \intersect i..k - 1) = MaxFailures => Good(j, i, k)

BestOk(p, s, x) ==
  /\ \A f \in ToSet(x) : f.index \in Nat /\ f.index < s.index /\ f.delta \in Deltas \union {None}
  /\ s.best = None => \A f \in ToSet(x) : f.delta = None
  /\ s.best # None => First(s.best, x)
  /\ p = "confirm" => s.best # None

Earned(j, x) ==
  /\ Control \in ToSet(j)
  /\ \E c \in ToSet(j), e \in ToSet(x) :
       /\ c.event = "CONFIRMATION" /\ c.rejected /\ c.delta > MinArmDelta
       /\ c.of = e.index /\ First(e, x)

VerdictOk(p, j, x, v) ==
  /\ p \in AfterControls => Control \in ToSet(j)
  /\ p = "terminate" => v \in Verdicts
  /\ v = "KPI_MET_VERIFIED" => p \in Late /\ Earned(j, x)
  /\ p = "new" => j = << >> /\ x = << >>

LabOk(p, s, j, x, v) ==
  /\ JournalOk(j, x) /\ SearchOk(p, s, j) /\ HardOk(j) /\ BestOk(p, s, x)
  /\ VerdictOk(p, j, x, v)

\* A longer journal.
LEMMA AppendIs ==
  ASSUME NEW S, NEW j \in Seq(S), NEW e
  PROVE  /\ Append(j, e) \in Seq(S \union {e})
         /\ Len(j) \in Nat /\ Len(Append(j, e)) = Len(j) + 1
         /\ DOMAIN j = 1..Len(j) /\ DOMAIN Append(j, e) = 1..(Len(j) + 1)
         /\ \A i \in 1..Len(j) : Append(j, e)[i] = j[i]
         /\ Append(j, e)[Len(j) + 1] = e
<1>1. j \in Seq(S \union {e})
  OBVIOUS
<1> QED
  BY <1>1

LEMMA AppendSet ==
  ASSUME NEW S, NEW j \in Seq(S), NEW e
  PROVE  ToSet(Append(j, e)) = ToSet(j) \union {e}
<1> DEFINE k == Append(j, e)
           n == Len(j)
<1>1. /\ n \in Nat /\ DOMAIN j = 1..n /\ DOMAIN k = 1..(n + 1)
      /\ \A i \in 1..n : k[i] = j[i]
      /\ k[n + 1] = e
  BY AppendIs
<1> HIDE DEF k, n
<1>2. \A i \in 1..(n + 1) : i \in 1..n \/ i = n + 1
  BY <1>1
<1>3. 1..n \subseteq 1..(n + 1) /\ n + 1 \in 1..(n + 1)
  BY <1>1
<1>4. ToSet(k) \subseteq ToSet(j) \union {e}
  BY <1>1, <1>2 DEF ToSet
<1>5. ToSet(j) \union {e} \subseteq ToSet(k)
  BY <1>1, <1>3 DEF ToSet
<1> QED
  BY <1>4, <1>5 DEF k

\* Batches are finitely many and at places of the journal.
LEMMA BatchesAre ==
  ASSUME NEW S, NEW j \in Seq(S)
  PROVE  /\ Batches(j) \subseteq 1..Len(j) /\ IsFiniteSet(Batches(j))
         /\ Cardinality(Batches(j)) \in Nat /\ Len(j) \in Nat
         /\ \A T : /\ IsFiniteSet(Batches(j) \intersect T)
                  /\ Cardinality(Batches(j) \intersect T) \in Nat
<1>1. Len(j) \in Nat /\ DOMAIN j = 1..Len(j)
  OBVIOUS
<1>2. Batches(j) \subseteq 1..Len(j)
  BY <1>1 DEF Batches
<1>3. IsFiniteSet(1..Len(j))
  BY <1>1, FS_Interval
<1>4. IsFiniteSet(Batches(j))
  BY <1>2, <1>3, FS_Subset
<1>5. \A T : IsFiniteSet(Batches(j) \intersect T)
  BY <1>4, FS_Intersection
<1> QED
  BY <1>1, <1>2, <1>4, <1>5, FS_CardinalityType

\* The batches of a journal that got longer, and the turns up to its end.
LEMMA BatchesAppend ==
  ASSUME NEW S, NEW j \in Seq(S), NEW e
  PROVE  LET k == Append(j, e)
             n == Len(j)
         IN  /\ Batches(k) = Batches(j) \union (IF e.event = "proposal_batch" THEN {n + 1} ELSE {})
             /\ \A i \in Nat, m \in Nat : m <= n =>
                  Batches(k) \intersect i..m = Batches(j) \intersect i..m
             /\ \A i \in 1..n + 1 : Batches(k) \intersect i..(n + 1) =
                  (Batches(j) \intersect i..n)
                    \union (IF e.event = "proposal_batch" THEN {n + 1} ELSE {})
<1> DEFINE k == Append(j, e)
           n == Len(j)
           new == IF e.event = "proposal_batch" THEN {n + 1} ELSE {}
<1>1. /\ n \in Nat /\ DOMAIN j = 1..n /\ DOMAIN k = 1..(n + 1)
      /\ \A i \in 1..n : k[i] = j[i]
      /\ k[n + 1] = e
  BY AppendIs
<1> HIDE DEF k, n
<1>2. Batches(k) = Batches(j) \union new
  <2>1. \A i : i \in 1..(n + 1) <=> i \in 1..n \/ i = n + 1
    BY <1>1
  <2>2. n + 1 \notin 1..n
    BY <1>1
  <2> QED
    BY <1>1, <2>1, <2>2 DEF Batches
<1>3. Batches(j) \subseteq 1..n
  BY <1>1 DEF Batches
<1>4. \A i \in Nat, m \in Nat : m <= n =>
        Batches(k) \intersect i..m = Batches(j) \intersect i..m
  BY <1>1, <1>2
<1>5. \A i \in 1..(n + 1) : Batches(k) \intersect i..(n + 1) = (Batches(j) \intersect i..n) \union new
  BY <1>1, <1>2, <1>3
<1> QED
  BY <1>2, <1>4, <1>5 DEF k, n

\* What was good stays good.
LEMMA GoodAppend ==
  ASSUME NEW S, NEW j \in Seq(S), NEW e, NEW i \in Nat \ {0}, NEW k \in Nat,
         k <= Len(j), Good(j, i, k)
  PROVE  Good(Append(j, e), i, k) /\ Good(Append(j, e), i, Len(j) + 1)
<1>1. PICK u \in i..k : j[u].event = "experiment" /\ j[u].delta # None
  BY DEF Good
<1>2. Len(j) \in Nat /\ u \in 1..Len(j) /\ u \in i..Len(j) + 1
  OBVIOUS
<1>3. Append(j, e)[u] = j[u]
  BY <1>2, AppendIs
<1> QED
  BY <1>1, <1>2, <1>3 DEF Good

\* An entry that is neither an experiment nor a batch.
Plain(e) == e.event # "experiment" /\ e.event # "proposal_batch"

\* A plain entry keeps what a journal has.
LEMMA PlainKeeps ==
  ASSUME NEW j, NEW x, NEW e, Plain(e), JournalOk(j, x), HardOk(j)
  PROVE  /\ JournalOk(Append(j, e), x) /\ HardOk(Append(j, e))
         /\ ToSet(Append(j, e)) = ToSet(j) \union {e}
<1> DEFINE k == Append(j, e)
<1>1. PICK S : j \in Seq(S)
  BY DEF JournalOk
<1>2. k \in Seq(S \union {e}) /\ ExperimentsOf(k) = ExperimentsOf(j)
  BY <1>1, AppendIs, SelectAppend DEF Plain
<1>3. Batches(k) = Batches(j)
  BY <1>1, BatchesAppend DEF Plain
<1>4. Batches(j) \subseteq 1..Len(j) /\ Len(j) \in Nat
  BY <1>1, BatchesAre
<1>5. ASSUME NEW i \in Batches(j), NEW m \in Batches(j), Good(j, i, m)
      PROVE  Good(k, i, m)
  <2>1. i \in Nat \ {0} /\ m \in Nat /\ m <= Len(j)
    BY <1>4
  <2> QED
    BY <1>1, <1>5, <2>1, GoodAppend
<1>6. HardOk(k)
  BY <1>3, <1>5 DEF HardOk
<1>7. ToSet(k) = ToSet(j) \union {e}
  BY <1>1, AppendSet
<1>8. JournalOk(k, x)
  BY <1>2 DEF JournalOk
<1> QED
  BY <1>6, <1>7, <1>8

\* Turns at the end of the journal that were barren, after another entry.
LEMMA TrailingAppend ==
  ASSUME NEW S, NEW j \in Seq(S), NEW e, NEW n \in Nat, NEW m \in Nat,
         \A i \in Batches(j) :
           Good(j, i, Len(j)) \/ Cardinality(Batches(j) \intersect i..Len(j)) <= n,
         e.event = "proposal_batch" => m >= n + 1,
         e.event # "proposal_batch" => m >= n
  PROVE  \A i \in Batches(Append(j, e)) :
           \/ Good(Append(j, e), i, Len(Append(j, e)))
           \/ Cardinality(Batches(Append(j, e)) \intersect i..Len(Append(j, e))) <= m
<1> DEFINE k == Append(j, e)
           l == Len(j)
<1>1. l \in Nat /\ Len(k) = l + 1 /\ Batches(j) \subseteq 1..l
  BY AppendIs, BatchesAre
<1> SUFFICES ASSUME NEW i \in Batches(k), ~Good(k, i, l + 1)
             PROVE  Cardinality(Batches(k) \intersect i..(l + 1)) <= m
  BY <1>1
<1>2. /\ Batches(k) = Batches(j) \union (IF e.event = "proposal_batch" THEN {l + 1} ELSE {})
      /\ i \in 1..(l + 1) => Batches(k) \intersect i..(l + 1) = (Batches(j) \intersect i..l)
                               \union (IF e.event = "proposal_batch" THEN {l + 1} ELSE {})
  BY BatchesAppend
<1> HIDE DEF k, l
<1>3. i \in 1..(l + 1)
  BY <1>1, <1>2
<1> DEFINE old == Batches(j) \intersect i..l
<1>4. /\ IsFiniteSet(old) /\ Cardinality(old) \in Nat
  BY <1>1, <1>3, BatchesAre DEF l
<1>5. Cardinality(old) <= n
  <2>1. CASE i \in Batches(j)
    <3>1. ~Good(j, i, l)
      <4>1. i \in Nat \ {0} /\ l <= Len(j) /\ l + 1 = Len(j) + 1
        BY <1>1, <1>3 DEF l
      <4> QED
        BY <1>1, <4>1, GoodAppend DEF k
    <3> QED
      BY <2>1, <3>1 DEF l
  <2>2. CASE i \notin Batches(j)
    <3>1. old = {}
      BY <1>1, <1>2, <2>2
    <3>2. Cardinality(old) = 0
      BY <3>1, FS_EmptySet
    <3> HIDE DEF old
    <3> QED
      BY <3>2
  <2> QED
    BY <2>1, <2>2
<1>6. CASE e.event = "proposal_batch"
  <2>1. Batches(k) \intersect i..(l + 1) = old \union {l + 1} /\ l + 1 \notin old
    BY <1>1, <1>2, <1>3, <1>6
  <2>2. Cardinality(old \union {l + 1}) = Cardinality(old) + 1
    BY <1>4, <2>1, FS_AddElement
  <2>3. Cardinality(Batches(k) \intersect i..(l + 1)) = Cardinality(old) + 1 /\ m >= n + 1
    BY <1>6, <2>1, <2>2
  <2> HIDE DEF old
  <2> QED
    BY <1>4, <1>5, <2>3
<1>7. CASE e.event # "proposal_batch"
  <2>1. Batches(k) \intersect i..(l + 1) = old
    BY <1>2, <1>3, <1>7
  <2>2. Cardinality(Batches(k) \intersect i..(l + 1)) = Cardinality(old) /\ m >= n
    BY <1>7, <2>1
  <2> HIDE DEF old
  <2> QED
    BY <1>4, <1>5, <2>2
<1> QED
  BY <1>6, <1>7

\* A note in the ledger, or none: the search does not turn.
LEMMA NoteOk ==
  ASSUME NEW p, NEW s, NEW j, NEW x, NEW v, LabOk(p, s, j, x, v), NEW k, NEW q, NEW w,
         p \notin Stop, q \notin Stop => Open(q) = Open(p), q # "new", Open(p) \in {0, 1},
         k = j \/ (\E e : Plain(e) /\ k = Append(j, e)),
         q = "confirm" => s.best # None,
         q \in AfterControls => p \in AfterControls \/ Control \in ToSet(k),
         q = "terminate" => w \in Verdicts,
         w = "KPI_MET_VERIFIED" => v = w /\ (p \in Late => q \in Late)
  PROVE  LabOk(q, s, k, x, w)
<1>1. JournalOk(k, x) /\ HardOk(k) /\ ToSet(j) \subseteq ToSet(k)
  <2>1. CASE k = j
    BY <2>1 DEF LabOk
  <2>2. CASE k # j
    <3>1. PICK e : Plain(e) /\ k = Append(j, e)
      BY <2>2
    <3> QED
      BY <3>1, PlainKeeps DEF LabOk
  <2> QED
    BY <2>1, <2>2
<1>2. SearchOk(q, s, k)
  <2>1. CASE k = j
    BY <2>1 DEF LabOk, SearchOk
  <2>2. CASE k # j
    <3>1. PICK e : Plain(e) /\ k = Append(j, e)
      BY <2>2
    <3>2. PICK S : j \in Seq(S)
      BY DEF LabOk, JournalOk
    <3>3. Batches(k) = Batches(j)
      <4>1. e.event # "proposal_batch"
        BY <3>1 DEF Plain
      <4>2. Batches(Append(j, e)) = Batches(j) \union {}
        BY <3>2, <4>1, BatchesAppend
      <4> QED
        BY <3>1, <4>2
    <3>4. s.failures + Open(p) \in Nat
      BY DEF LabOk, SearchOk
    <3>5. \A i \in Batches(k) :
            \/ Good(k, i, Len(k))
            \/ Cardinality(Batches(k) \intersect i..Len(k)) <= s.failures + Open(p)
      <4> DEFINE n == s.failures + Open(p)
      <4>1. \A i \in Batches(j) :
              Good(j, i, Len(j)) \/ Cardinality(Batches(j) \intersect i..Len(j)) <= n
        BY DEF LabOk, SearchOk
      <4>2. n \in Nat /\ n >= n
        BY <3>4
      <4> HIDE DEF n
      <4>3. \A i \in Batches(k) :
              Good(k, i, Len(k)) \/ Cardinality(Batches(k) \intersect i..Len(k)) <= n
        BY <3>1, <3>2, <4>1, <4>2, TrailingAppend DEF Plain
      <4> QED
        BY <4>3 DEF n
    <3> QED
      BY <3>3, <3>5 DEF LabOk, SearchOk
  <2> QED
    BY <2>1, <2>2
<1>3. BestOk(q, s, x)
  BY DEF LabOk, BestOk
<1>4. VerdictOk(q, k, x, w)
  <2>1. w = "KPI_MET_VERIFIED" => q \in Late /\ Earned(k, x)
    BY <1>1 DEF LabOk, VerdictOk, Earned
  <2>2. q \in AfterControls => Control \in ToSet(k)
    BY <1>1 DEF LabOk, VerdictOk
  <2> QED
    BY <2>1, <2>2 DEF VerdictOk
<1> QED
  BY <1>1, <1>2, <1>3, <1>4 DEF LabOk

\* An entry that is no batch costs none of the limits.
LEMMA HardKeeps ==
  ASSUME NEW S, NEW j \in Seq(S), NEW e, e.event # "proposal_batch", HardOk(j)
  PROVE  HardOk(Append(j, e)) /\ Batches(Append(j, e)) = Batches(j)
<1> DEFINE k == Append(j, e)
<1>1. Batches(k) = Batches(j)
  <2>1. Batches(k) = Batches(j) \union {}
    BY BatchesAppend
  <2> QED
    BY <2>1
<1>2. Batches(j) \subseteq 1..Len(j) /\ Len(j) \in Nat
  BY BatchesAre
<1>3. ASSUME NEW i \in Batches(j), NEW m \in Batches(j), Good(j, i, m)
      PROVE  Good(k, i, m)
  <2>1. i \in Nat \ {0} /\ m \in Nat /\ m <= Len(j)
    BY <1>2
  <2> QED
    BY <1>3, <2>1, GoodAppend
<1> QED
  BY <1>1, <1>3 DEF HardOk

\* A batch within the limits keeps them.
LEMMA HardTurn ==
  ASSUME NEW S, NEW j \in Seq(S), NEW e, e.event = "proposal_batch", HardOk(j),
         Cardinality(Batches(j)) < MaxExperiments, NEW n \in Nat, n < MaxFailures,
         \A i \in Batches(j) :
           Good(j, i, Len(j)) \/ Cardinality(Batches(j) \intersect i..Len(j)) <= n
  PROVE  /\ HardOk(Append(j, e))
         /\ Cardinality(Batches(Append(j, e))) = Cardinality(Batches(j)) + 1
<1> DEFINE k == Append(j, e)
           l == Len(j)
<1>1. /\ Batches(j) \subseteq 1..l /\ l \in Nat /\ IsFiniteSet(Batches(j))
      /\ Cardinality(Batches(j)) \in Nat
      /\ \A T : Cardinality(Batches(j) \intersect T) \in Nat
  BY BatchesAre
<1>2. Batches(k) = Batches(j) \union {l + 1} /\ l + 1 \notin Batches(j)
  BY <1>1, BatchesAppend
<1>3. Cardinality(Batches(k)) = Cardinality(Batches(j)) + 1
  BY <1>1, <1>2, FS_AddElement
<1>4. Cardinality(Batches(k)) <= MaxExperiments
  BY <1>1, <1>3, KpiAssumption
<1>5. \A i \in Nat, m \in Nat : m <= l =>
        Batches(k) \intersect i..m = Batches(j) \intersect i..m
  BY BatchesAppend
<1>6. ASSUME NEW i \in Batches(k), NEW m \in Batches(k), i < m,
             Cardinality(Batches(k) \intersect i..m - 1) = MaxFailures
      PROVE  Good(k, i, m)
  <2>1. i \in Batches(j) /\ i \in Nat \ {0} /\ i <= l
    BY <1>1, <1>2, <1>6
  <2>2. m \in Nat /\ m - 1 \in Nat /\ m - 1 <= l
    BY <1>1, <1>2, <1>6, <2>1
  <2>3. Cardinality(Batches(j) \intersect i..m - 1) = MaxFailures
    BY <1>5, <1>6, <2>1, <2>2
  <2>4. CASE m \in Batches(j)
    <3>1. Good(j, i, m) /\ m <= l
      BY <1>1, <1>6, <2>1, <2>3, <2>4 DEF HardOk
    <3> QED
      BY <2>1, <2>2, <3>1, GoodAppend
  <2>5. CASE m = l + 1
    <3>1. ~(Cardinality(Batches(j) \intersect i..l) <= n)
      BY <1>1, <2>3, <2>5, KpiAssumption
    <3>2. Good(j, i, l)
      BY <2>1, <3>1
    <3> QED
      BY <1>1, <2>1, <2>5, <3>2, GoodAppend
  <2> QED
    BY <1>2, <2>4, <2>5
<1> QED
  BY <1>3, <1>4, <1>6 DEF HardOk

\* A step of the search that builds nothing.
LEMMA TurnOk ==
  ASSUME NEW p, NEW s, NEW j, NEW x, NEW v, LabOk(p, s, j, x, v), p \in {"loop", "fallback"},
         NEW q \in {"loop", "fallback", "build"}, NEW e, e.event # "experiment",
         NEW d \in {0, 1}, NEW t,
         IF e.event = "proposal_batch"
         THEN /\ d = 1 /\ Open(p) = 0
              /\ s.index < MaxExperiments /\ s.failures < MaxFailures
         ELSE d = 0,
         t = [index |-> t.index, failures |-> t.failures, proposer |-> t.proposer,
              cursor |-> t.cursor, best |-> t.best],
         t.best = s.best, t.proposer \in {"llm", "grid"},
         t.index \in Nat, t.failures \in Nat, t.index >= s.index,
         t.index + Open(q) = s.index + Open(p) + d,
         t.failures + Open(q) >= s.failures + Open(p) + d
  PROVE  LabOk(q, t, Append(j, e), x, v)
<1> DEFINE k == Append(j, e)
           n == s.failures + Open(p)
           m == t.failures + Open(q)
<1>1. PICK S : j \in Seq(S)
  BY DEF LabOk, JournalOk
<1>2. /\ s.index \in Nat /\ s.failures \in Nat /\ Open(p) \in {0, 1} /\ Open(q) \in {0, 1}
      /\ p \notin Stop /\ q \notin Stop
      /\ Cardinality(Batches(j)) = s.index + Open(p)
      /\ \A i \in Batches(j) :
           Good(j, i, Len(j)) \/ Cardinality(Batches(j) \intersect i..Len(j)) <= n
  BY DEF LabOk, SearchOk, Open, Stop
<1>3. n \in Nat /\ m \in Nat /\ m >= n + d
  BY <1>2
<1>4. HardOk(k) /\ Cardinality(Batches(k)) = Cardinality(Batches(j)) + d
  <2>1. CASE e.event = "proposal_batch"
    <3>1. d = 1 /\ Cardinality(Batches(j)) < MaxExperiments /\ n < MaxFailures
      BY <1>2, <2>1
    <3> HIDE DEF n
    <3> QED
      BY <1>1, <1>2, <1>3, <2>1, <3>1, HardTurn DEF LabOk
  <2>2. CASE e.event # "proposal_batch"
    <3>1. d = 0 /\ Cardinality(Batches(j)) \in Nat
      BY <1>1, <2>2, BatchesAre
    <3> QED
      BY <1>1, <2>2, <3>1, HardKeeps DEF LabOk
  <2> QED
    BY <2>1, <2>2
<1>5. \A i \in Batches(k) :
        Good(k, i, Len(k)) \/ Cardinality(Batches(k) \intersect i..Len(k)) <= m
  <2>1. /\ e.event = "proposal_batch" => m >= n + 1
        /\ e.event # "proposal_batch" => m >= n
    BY <1>3
  <2> HIDE DEF n, m
  <2> QED
    BY <1>1, <1>2, <1>3, <2>1, TrailingAppend
<1>6. SearchOk(q, t, k)
  <2>1. Cardinality(Batches(k)) = t.index + Open(q)
    BY <1>2, <1>4
  <2> QED
    BY <1>5, <2>1 DEF SearchOk
<1>7. JournalOk(k, x) /\ ToSet(j) \subseteq ToSet(k)
  <2>1. k \in Seq(S \union {e}) /\ ExperimentsOf(k) = ExperimentsOf(j)
    BY <1>1, AppendIs, SelectAppend
  <2>2. ToSet(k) = ToSet(j) \union {e}
    BY <1>1, AppendSet
  <2> QED
    BY <2>1, <2>2 DEF LabOk, JournalOk
<1>8. BestOk(q, t, x)
  <2>1. \A f \in ToSet(x) : f.index \in Nat /\ f.index < t.index
    BY <1>2 DEF LabOk, BestOk
  <2> QED
    BY <2>1 DEF LabOk, BestOk
<1>9. VerdictOk(q, k, x, v)
  BY <1>7 DEF LabOk, VerdictOk, AfterControls, Late
<1> QED
  BY <1>4, <1>6, <1>7, <1>8, <1>9 DEF LabOk

\* The first of the best, after another experiment.
LEMMA BestKeeps ==
  ASSUME NEW p, NEW s, NEW x, BestOk(p, s, x), s.index \in Nat, NEW S, x \in Seq(S),
         NEW r \in [event : {"experiment"}, index : {s.index}, source : {"llm", "grid"},
                    delta : Deltas \union {None}],
         r.delta # None => r # None, NEW t, t.index = s.index + 1,
         t.best = IF r.delta = None THEN s.best
                  ELSE IF Improves(r.delta, s.best) THEN r ELSE s.best
  PROVE  BestOk("loop", t, Append(x, r))
<1>1. ToSet(Append(x, r)) = ToSet(x) \union {r}
  BY AppendSet
<1> DEFINE Y == ToSet(Append(x, r))
           X == ToSet(x)
<1> HIDE DEF X, Y
<1>2. Y = X \union {r} /\ r.index = s.index /\ r.delta \in Deltas \union {None}
  BY <1>1 DEF X, Y
<1>3. \A f \in X : f.index \in Nat /\ f.index < s.index /\ f.delta \in Deltas \union {None}
  BY DEF BestOk, X
<1>4. \A f \in Y : f.index \in Nat /\ f.index < t.index /\ f.delta \in Deltas \union {None}
  BY <1>2, <1>3
<1>5. \A dd \in Deltas : dd \in Int /\ dd # None
  BY KpiAssumption, NoneAssumption
<1>6. s.best = None => \A f \in X : f.delta = None
  BY DEF BestOk, X
<1>7. s.best # None => /\ s.best \in X /\ s.best.delta # None
                       /\ \A f \in X : f.delta # None =>
                            f.delta < s.best.delta \/ (f.delta = s.best.delta /\ s.best.index <= f.index)
  BY DEF BestOk, First, X
<1>8. CASE r.delta = None
  <2>1. t.best = s.best
    BY <1>8
  <2>2. s.best = None => \A f \in Y : f.delta = None
    BY <1>2, <1>6, <1>8
  <2>3. s.best # None => First(s.best, Append(x, r))
    BY <1>2, <1>7, <1>8 DEF First, Y
  <2> QED
    BY <1>4, <2>1, <2>2, <2>3 DEF BestOk, Y
<1>9. CASE r.delta # None /\ Improves(r.delta, s.best)
  <2>1. t.best = r /\ r.delta \in Int /\ r.index \in Int
    BY <1>2, <1>5, <1>9
  <2>2. ASSUME NEW f \in X, f.delta # None
        PROVE  f.delta < r.delta
    <3>1. s.best # None
      BY <1>6, <2>2
    <3>2. r.delta > s.best.delta /\ s.best \in X /\ s.best.delta \in Int /\ f.delta \in Int
      BY <1>3, <1>5, <1>7, <1>9, <2>2, <3>1 DEF Improves
    <3>3. f.delta <= s.best.delta
      BY <1>7, <2>2, <3>1, <3>2
    <3> QED
      BY <2>1, <3>2, <3>3
  <2>3. First(r, Append(x, r))
    <3>1. \A f \in Y : f.delta # None =>
            f.delta < r.delta \/ (f.delta = r.delta /\ r.index <= f.index)
      BY <1>2, <2>1, <2>2
    <3> QED
      BY <1>2, <1>9, <3>1 DEF First, Y
  <2> QED
    BY <1>4, <1>9, <2>1, <2>3 DEF BestOk, Y
<1>10. CASE r.delta # None /\ ~Improves(r.delta, s.best)
  <2> DEFINE b == s.best
  <2>1. /\ t.best = b /\ b # None /\ ~(r.delta > b.delta) /\ b \in X /\ b.delta # None
        /\ \A f \in X : f.delta # None =>
             f.delta < b.delta \/ (f.delta = b.delta /\ b.index <= f.index)
    BY <1>7, <1>10 DEF Improves
  <2> HIDE DEF b
  <2>2. /\ r.delta \in Int /\ b.delta \in Int /\ b.index \in Nat /\ b.index < s.index
    BY <1>2, <1>3, <1>5, <1>10, <2>1
  <2>3. r.delta < b.delta \/ (r.delta = b.delta /\ b.index <= r.index)
    BY <1>2, <2>1, <2>2
  <2>4. First(b, Append(x, r))
    BY <1>2, <2>1, <2>3 DEF First, Y
  <2> QED
    BY <1>4, <2>1, <2>4 DEF BestOk, Y
<1> QED
  BY <1>8, <1>9, <1>10

\* An experiment closes the turn.
LEMMA ExperimentOk ==
  ASSUME NEW s, NEW j, NEW x, NEW v, LabOk("build", s, j, x, v),
         NEW r \in [event : {"experiment"}, index : {s.index}, source : {"llm", "grid"},
                    delta : Deltas \union {None}],
         NEW t,
         t = [index |-> t.index, failures |-> t.failures, proposer |-> t.proposer,
              cursor |-> t.cursor, best |-> t.best],
         t.index = s.index + 1, t.proposer \in {"llm", "grid"},
         t.failures = IF r.delta = None THEN s.failures + 1 ELSE 0,
         t.best = IF r.delta = None THEN s.best
                  ELSE IF Improves(r.delta, s.best) THEN r ELSE s.best
  PROVE  LabOk("loop", t, Append(j, r), Append(x, r), v)
<1> DEFINE k == Append(j, r)
<1>1. PICK S : j \in Seq(S)
  BY DEF LabOk, JournalOk
<1>2. PICK X : x \in Seq(X)
  BY DEF LabOk, JournalOk
<1>3. r.event = "experiment"
  OBVIOUS
<1>4. /\ s.index \in Nat /\ s.failures \in Nat
      /\ Cardinality(Batches(j)) = s.index + 1
      /\ \A i \in Batches(j) :
           \/ Good(j, i, Len(j))
           \/ Cardinality(Batches(j) \intersect i..Len(j)) <= s.failures + 1
  BY DEF LabOk, SearchOk, Open, Stop
<1>5. HardOk(k) /\ Batches(k) = Batches(j)
  BY <1>1, <1>3, HardKeeps DEF LabOk
<1>6. JournalOk(k, Append(x, r))
  <2>1. k \in Seq(S \union {r}) /\ Append(x, r) \in Seq(X \union {r})
    BY <1>1, <1>2, AppendIs
  <2>2. ExperimentsOf(k) = Append(ExperimentsOf(j), r)
    BY <1>1, <1>3, SelectAppend
  <2> QED
    BY <2>1, <2>2 DEF LabOk, JournalOk
<1>7. \A i \in Batches(k) :
        \/ Good(k, i, Len(k))
        \/ Cardinality(Batches(k) \intersect i..Len(k)) <= t.failures
  <2>1. CASE r.delta = None
    <3> DEFINE n == s.failures + 1
    <3>1. n \in Nat /\ n >= n /\ t.failures = n
      BY <1>4, <2>1
    <3>2. \A i \in Batches(j) :
            Good(j, i, Len(j)) \/ Cardinality(Batches(j) \intersect i..Len(j)) <= n
      BY <1>4
    <3> HIDE DEF n
    <3>3. \A i \in Batches(k) :
            Good(k, i, Len(k)) \/ Cardinality(Batches(k) \intersect i..Len(k)) <= n
      BY <1>1, <1>3, <3>1, <3>2, TrailingAppend
    <3> QED
      BY <3>1, <3>3
  <2>2. CASE r.delta # None
    <3>1. Len(j) \in Nat /\ Len(k) = Len(j) + 1 /\ k[Len(j) + 1] = r
      BY <1>1, AppendIs
    <3>2. Batches(j) \subseteq 1..Len(j)
      BY <1>1, BatchesAre
    <3> HIDE DEF k
    <3>3. \A i \in Batches(k) : Len(k) \in i..Len(k)
      BY <1>5, <3>1, <3>2
    <3> QED
      BY <1>3, <2>2, <3>1, <3>3 DEF Good
  <2> QED
    BY <2>1, <2>2
<1>8. SearchOk("loop", t, k)
  <2>1. t.index \in Nat /\ t.failures \in Nat /\ Open("loop") = 0
    BY <1>4 DEF Open
  <2>2. t.failures + Open("loop") = t.failures /\ t.index + Open("loop") = t.index
    BY <2>1
  <2> QED
    BY <1>4, <1>5, <1>7, <2>1, <2>2 DEF SearchOk
<1>9. BestOk("loop", t, Append(x, r))
  <2>1. r.delta # None => r # None
    <3>1. s.index + 1 <= MaxExperiments
      BY <1>4 DEF LabOk, HardOk
    <3>2. s.index \in 0..MaxExperiments
      BY <1>4, <3>1, KpiAssumption
    <3>3. r.delta # None => r \in Records
      BY <3>2 DEF Records
    <3> QED
      BY <3>3, NoneAssumption
  <2> QED
    BY <1>2, <1>4, <2>1, BestKeeps DEF LabOk
<1>10. VerdictOk("loop", k, Append(x, r), v)
  <2>1. ToSet(k) = ToSet(j) \union {r}
    BY <1>1, AppendSet
  <2> QED
    BY <2>1 DEF LabOk, VerdictOk, AfterControls, Late
<1> QED
  BY <1>5, <1>6, <1>8, <1>9, <1>10 DEF LabOk

\* The confirmation, and the sentence it leads to.
LEMMA ConfirmOk ==
  ASSUME NEW s, NEW j, NEW x, NEW v, LabOk("confirm", s, j, x, v), NEW c,
         c.event = "CONFIRMATION", c.of = s.best.index, NEW w \in Verdicts,
         w = "KPI_MET_VERIFIED" => c.delta > MinArmDelta /\ c.rejected
  PROVE  LabOk("terminate", s, Append(j, c), x, w)
<1> DEFINE k == Append(j, c)
           u == "BUDGET_EXHAUSTED"
<1>1. Plain(c)
  BY DEF Plain
<1>2. LabOk("terminate", s, k, x, u)
  <2>1. /\ "confirm" \notin Stop
        /\ "terminate" \notin Stop => Open("terminate") = Open("confirm")
        /\ "terminate" # "new" /\ Open("confirm") \in {0, 1}
        /\ "terminate" # "confirm" /\ "terminate" \notin AfterControls
        /\ u \in Verdicts /\ u # "KPI_MET_VERIFIED"
    BY DEF Stop, Open, AfterControls, Verdicts
  <2>2. k = j \/ (\E e : Plain(e) /\ k = Append(j, e))
    BY <1>1
  <2> HIDE DEF k, u
  <2> QED
    BY <2>1, <2>2, NoteOk
<1>3. ToSet(k) = ToSet(j) \union {c} /\ Control \in ToSet(j)
  <2>1. PICK S : j \in Seq(S)
    BY DEF LabOk, JournalOk
  <2> QED
    BY <2>1, AppendSet DEF LabOk, VerdictOk, AfterControls
<1>4. First(s.best, x)
  BY DEF LabOk, BestOk
<1>5. w = "KPI_MET_VERIFIED" => Earned(k, x)
  BY <1>3, <1>4 DEF Earned, First
<1>6. VerdictOk("terminate", k, x, w)
  BY <1>5 DEF VerdictOk, Late, AfterControls
<1> QED
  BY <1>2, <1>6 DEF LabOk

-----------------------------------------------------------------------------
(* The labs together, and their reports.                                   *)

Functions ==
  /\ pc = [l \in Labs |-> pc[l]] /\ search = [l \in Labs |-> search[l]]
  /\ journal = [l \in Labs |-> journal[l]]
  /\ experiments = [l \in Labs |-> experiments[l]]
  /\ verdict = [l \in Labs |-> verdict[l]]
  /\ report = [s \in Sessions |-> report[s]]

LabsOk ==
  \A l \in Labs : LabOk(pc[l], search[l], journal[l], experiments[l], verdict[l])

\* What is on disk is what its writer still holds.
Filed == {"written", "reported", "dead"}
ReportsOk ==
  \A s \in Sessions : report[s] # None =>
    /\ report[s].lab \in Labs /\ pc[report[s].lab] \in Filed
    /\ report[s].state = verdict[report[s].lab]
    /\ report[s].experiments = experiments[report[s].lab]

MainInv == Functions /\ LabsOk /\ ReportsOk

\* A step of lab l leaves it as q, t, k, y and w say, and all is well there.
Moved(l, q, t, k, y, w) ==
  /\ pc' = [pc EXCEPT ![l] = q] /\ search' = [search EXCEPT ![l] = t]
  /\ journal' = [journal EXCEPT ![l] = k]
  /\ experiments' = [experiments EXCEPT ![l] = y]
  /\ verdict' = [verdict EXCEPT ![l] = w]
  /\ LabOk(q, t, k, y, w)
  /\ pc[l] \in Filed => q \in Filed
  /\ q \in Filed => y = experiments[l] /\ w = verdict[l]
  /\ \/ UNCHANGED report
     \/ /\ q = "written"
        /\ \E i : report' = [report EXCEPT ![session[l]] =
                    [lab |-> l, state |-> w, intact |-> i, experiments |-> y]]

\* The other labs keep what they have, and the reports theirs.
LEMMA MovedKeeps ==
  ASSUME MainInv, NEW l \in Labs, NEW q, NEW t, NEW k, NEW y, NEW w,
         Moved(l, q, t, k, y, w)
  PROVE  MainInv'
<1>1. Functions'
  BY DEF MainInv, Functions, Moved
<1>2. /\ pc'[l] = q /\ search'[l] = t /\ journal'[l] = k /\ experiments'[l] = y
      /\ verdict'[l] = w
  BY DEF MainInv, Functions, Moved
<1>3. \A m \in Labs : m # l =>
        /\ pc'[m] = pc[m] /\ search'[m] = search[m] /\ journal'[m] = journal[m]
        /\ experiments'[m] = experiments[m] /\ verdict'[m] = verdict[m]
  BY DEF MainInv, Functions, Moved
<1>4. LabsOk'
  <2> SUFFICES ASSUME NEW m \in Labs
               PROVE  LabOk(pc'[m], search'[m], journal'[m], experiments'[m], verdict'[m])
    BY DEF LabsOk
  <2>1. CASE m = l
    BY <1>2, <2>1 DEF Moved
  <2>2. CASE m # l
    BY <1>3, <2>2 DEF MainInv, LabsOk
  <2> QED
    BY <2>1, <2>2
<1>5. \A m \in Labs : pc[m] \in Filed =>
        /\ pc'[m] \in Filed /\ experiments'[m] = experiments[m]
        /\ verdict'[m] = verdict[m]
  BY <1>2, <1>3 DEF Moved
<1>6. ReportsOk'
  <2> SUFFICES ASSUME NEW s \in Sessions, report'[s] # None
               PROVE  /\ report'[s].lab \in Labs /\ pc'[report'[s].lab] \in Filed
                      /\ report'[s].state = verdict'[report'[s].lab]
                      /\ report'[s].experiments = experiments'[report'[s].lab]
    BY DEF ReportsOk
  <2>1. CASE report'[s] = report[s]
    BY <1>5, <2>1 DEF MainInv, ReportsOk
  <2>2. CASE report'[s] # report[s]
    <3>1. PICK i : report' = [report EXCEPT ![session[l]] =
                     [lab |-> l, state |-> w, intact |-> i, experiments |-> y]]
      BY <2>2 DEF Moved
    <3>2. q = "written"
      BY <2>2 DEF Moved
    <3>3. report'[s] = [lab |-> l, state |-> w, intact |-> i, experiments |-> y]
      BY <2>2, <3>1 DEF MainInv, Functions
    <3> QED
      BY <1>2, <3>2, <3>3 DEF Filed
  <2> QED
    BY <2>1, <2>2
<1> QED
  BY <1>1, <1>4, <1>6 DEF MainInv

\* Nothing but the lab's step, its sentence and a plain entry changes.
Noted(l, q, w) ==
  /\ pc' = [pc EXCEPT ![l] = q] /\ UNCHANGED <<search, experiments, report>>
  /\ verdict' = [verdict EXCEPT ![l] = w]
  /\ \/ UNCHANGED journal
     \/ \E e : Plain(e) /\ journal' = [journal EXCEPT ![l] = Append(@, e)]

\* Such a step keeps the invariant if it leads where NoteOk allows.
LEMMA NotedMoves ==
  ASSUME MainInv, NEW l \in Labs, NEW q, NEW w, Noted(l, q, w),
         pc[l] \notin Stop, q \notin Stop => Open(q) = Open(pc[l]), q # "new",
         q = "confirm" => search[l].best # None,
         q \in AfterControls =>
           pc[l] \in AfterControls \/ Control \in ToSet(journal'[l]),
         q = "terminate" => w \in Verdicts,
         w = "KPI_MET_VERIFIED" => verdict[l] = w /\ (pc[l] \in Late => q \in Late),
         pc[l] \in Filed => q \in Filed,
         q \in Filed => w = verdict[l]
  PROVE  MainInv'
<1> DEFINE k == journal'[l]
<1>1. /\ search' = [search EXCEPT ![l] = search[l]]
      /\ experiments' = [experiments EXCEPT ![l] = experiments[l]]
  BY DEF MainInv, Functions, Noted
<1>2. journal' = [journal EXCEPT ![l] = k]
  BY DEF MainInv, Functions, Noted
<1>3. k = journal[l] \/ \E e : Plain(e) /\ k = Append(journal[l], e)
  BY DEF MainInv, Functions, Noted
<1>4. LabOk(pc[l], search[l], journal[l], experiments[l], verdict[l])
  BY DEF MainInv, LabsOk
<1>5. Open(pc[l]) \in {0, 1}
  BY DEF Open
<1> HIDE DEF k
<1>6. LabOk(q, search[l], k, experiments[l], w)
  BY <1>3, <1>4, <1>5, NoteOk DEF k
<1>7. Moved(l, q, search[l], k, experiments[l], w)
  BY <1>1, <1>2, <1>6 DEF Moved, Noted
<1> QED
  BY <1>7, MovedKeeps

\* A lab that has neither written nor searched.
LEMMA FreshOk ==
  ASSUME NEW llm \in BOOLEAN, NEW p \in {"new", "init"}, NEW v, v # "KPI_MET_VERIFIED"
  PROVE  LabOk(p, FreshSearch(llm), << >>, << >>, v)
<1> DEFINE j == << >>
<1>1. j \in Seq({}) /\ Len(j) = 0 /\ DOMAIN j = {}
  OBVIOUS
<1>2. JournalOk(j, j)
  BY <1>1, SelectNone DEF JournalOk
<1>3. Batches(j) = {} /\ ToSet(j) = {}
  BY <1>1 DEF Batches, ToSet
<1>4. Cardinality(Batches(j)) = 0
  BY <1>3, FS_EmptySet
<1> HIDE DEF j
<1>5. HardOk(j)
  BY <1>3, <1>4, KpiAssumption DEF HardOk
<1>6. SearchOk(p, FreshSearch(llm), j)
  BY <1>3, <1>4 DEF SearchOk, FreshSearch, Open
<1>7. BestOk(p, FreshSearch(llm), j)
  BY <1>3 DEF BestOk, FreshSearch
<1>8. VerdictOk(p, j, j, v)
  BY <1>3 DEF VerdictOk, AfterControls, j
<1> QED
  BY <1>2, <1>5, <1>6, <1>7, <1>8 DEF LabOk, j

\* Initially, for every lab.
LEMMA InitMain == Init => MainInv
<1> SUFFICES ASSUME Init PROVE MainInv
  OBVIOUS
<1>1. Functions
  BY DEF Init, Functions
<1>2. ReportsOk
  BY DEF Init, ReportsOk
<1>3. ASSUME NEW l \in Labs
      PROVE  LabOk(pc[l], search[l], journal[l], experiments[l], verdict[l])
  <2>1. /\ pc[l] = "new" /\ search[l] = FreshSearch(FALSE) /\ journal[l] = << >>
        /\ experiments[l] = << >> /\ verdict[l] = None
    BY DEF Init
  <2>2. LabOk("new", FreshSearch(FALSE), << >>, << >>, None)
    BY NoneAssumption, FreshOk DEF Verdicts
  <2> QED
    BY <2>1, <2>2
<1> QED
  BY <1>1, <1>2, <1>3 DEF MainInv, LabsOk

\* A lab starts.
LEMMA ConstructMain ==
  ASSUME MainInv, NEW l \in Labs, Construct(l)
  PROVE  MainInv'
<1>1. PICK s \in Sessions, d \in Kpis[l] :
        /\ pc[l] = "new" /\ pc' = [pc EXCEPT ![l] = "init"]
        /\ search' = [search EXCEPT ![l] = FreshSearch(d.llm)]
        /\ UNCHANGED <<journal, experiments, verdict, report>>
  BY Zenon DEF Construct, Goto, files
<1>2. LabOk("new", search[l], journal[l], experiments[l], verdict[l])
  BY <1>1 DEF MainInv, LabsOk
<1>3. journal[l] = << >> /\ experiments[l] = << >>
  BY <1>2 DEF LabOk, VerdictOk
<1>4. verdict[l] # "KPI_MET_VERIFIED"
  BY <1>2 DEF LabOk, VerdictOk, Late
<1>5. d.llm \in BOOLEAN
  BY KpiAssumption
<1>6. LabOk("init", FreshSearch(d.llm), journal[l], experiments[l], verdict[l])
  BY <1>3, <1>4, <1>5, FreshOk
<1>7. /\ journal' = [journal EXCEPT ![l] = journal[l]]
      /\ experiments' = [experiments EXCEPT ![l] = experiments[l]]
      /\ verdict' = [verdict EXCEPT ![l] = verdict[l]]
  BY <1>1 DEF MainInv, Functions
<1>8. Moved(l, "init", FreshSearch(d.llm), journal[l], experiments[l], verdict[l])
  BY <1>1, <1>6, <1>7 DEF Moved, Filed
<1> QED
  BY <1>8, MovedKeeps

\* The entries that are no part of the search, but for the sentence.
LEMMA NotesMain ==
  ASSUME MainInv, NEW l \in Labs,
         \/ EnterInit(l) \/ FeasibilityGate(l) \/ ProtocolFreeze(l) \/ Baseline(l)
         \/ Controls(l) \/ EnterSearch(l) \/ TooLittleData(l) \/ EndSearch(l)
         \/ Terminate(l) \/ Verify(l) \/ NoteReport(l) \/ Crash(l)
  PROVE  MainInv'
<1> USE DEF Goto, Sentence, own, files
<1> USE DEF Stop, Open, AfterControls, Late, Filed
<1>v. UNCHANGED verdict => verdict' = [verdict EXCEPT ![l] = verdict[l]]
  BY DEF MainInv, Functions
<1>e. ASSUME NEW at, NEW event, NEW then, Enter(l, at, event, then),
             event # "experiment", event # "proposal_batch"
      PROVE  pc[l] = at /\ Noted(l, then, verdict[l])
  <2>1. Plain([event |-> event])
    BY <1>e DEF Plain
  <2> QED
    BY <1>e, <1>v, <2>1 DEF Enter, Log, Write, Noted
<1>1. CASE EnterInit(l)
  <2>1. pc[l] = "init" /\ Noted(l, "gate", verdict[l])
    BY <1>1, <1>e DEF EnterInit
  <2> QED
    BY <2>1, NotedMoves
<1>2. CASE FeasibilityGate(l)
  <2>1. pc[l] = "gate" /\ Plain([event |-> "FEASIBILITY_GATE"])
    BY <1>2 DEF FeasibilityGate, Plain
  <2>2. \/ Noted(l, "terminate", "KPI_INFEASIBLE")
        \/ Noted(l, "terminate", "KPI_MET_DEGENERATE")
        \/ Noted(l, "freeze", verdict[l])
    BY <1>2, <1>v, <2>1 DEF FeasibilityGate, Log, Write, Noted
  <2>3. "KPI_INFEASIBLE" \in Verdicts /\ "KPI_MET_DEGENERATE" \in Verdicts
    BY DEF Verdicts
  <2>4. CASE Noted(l, "terminate", "KPI_INFEASIBLE")
    BY <2>1, <2>3, <2>4, NotedMoves
  <2>5. CASE Noted(l, "terminate", "KPI_MET_DEGENERATE")
    BY <2>1, <2>3, <2>5, NotedMoves
  <2>6. CASE Noted(l, "freeze", verdict[l])
    BY <2>1, <2>6, NotedMoves
  <2> QED
    BY <2>2, <2>4, <2>5, <2>6
<1>3. CASE ProtocolFreeze(l)
  <2>1. pc[l] = "freeze" /\ Noted(l, "baseline", verdict[l])
    BY <1>3, <1>e DEF ProtocolFreeze
  <2> QED
    BY <2>1, NotedMoves
<1>4. CASE Baseline(l)
  <2>1. pc[l] = "baseline" /\ Noted(l, "controls", verdict[l])
    BY <1>4, <1>e DEF Baseline
  <2> QED
    BY <2>1, NotedMoves
<1>5. CASE Controls(l)
  <2>1. pc[l] = "controls"
    BY <1>5 DEF Controls
  <2>2. PICK suspend \in BOOLEAN :
          /\ journal' = [journal EXCEPT ![l] = Append(@,
                [event |-> "NEGATIVE_CONTROL_CALIB", suspend |-> suspend])]
          /\ UNCHANGED <<search, experiments, report>>
          /\ IF suspend
             THEN /\ verdict' = [verdict EXCEPT ![l] = "LEAK_DETECTED_SUSPENDED"]
                  /\ pc' = [pc EXCEPT ![l] = "terminate"]
             ELSE pc' = [pc EXCEPT ![l] = "enter"] /\ UNCHANGED verdict
    BY <1>5, Zenon DEF Controls, Write
  <2>3. Plain([event |-> "NEGATIVE_CONTROL_CALIB", suspend |-> suspend])
    BY DEF Plain
  <2>4. CASE suspend
    <3>1. Noted(l, "terminate", "LEAK_DETECTED_SUSPENDED")
      BY <2>2, <2>3, <2>4 DEF Noted
    <3>2. "LEAK_DETECTED_SUSPENDED" \in Verdicts
      BY DEF Verdicts
    <3> QED
      BY <2>1, <3>1, <3>2, NotedMoves
  <2>5. CASE ~suspend
    <3>1. Noted(l, "enter", verdict[l])
      BY <1>v, <2>2, <2>3, <2>5 DEF Noted
    <3>2. PICK S : journal[l] \in Seq(S)
      BY DEF MainInv, LabsOk, LabOk, JournalOk
    <3>3. journal'[l] = Append(journal[l], Control)
      BY <2>2, <2>5 DEF MainInv, Functions, Control
    <3>4. Control \in ToSet(journal'[l])
      <4>1. ToSet(Append(journal[l], Control)) = ToSet(journal[l]) \union {Control}
        BY <3>2, AppendSet
      <4> QED
        BY <3>3, <4>1
    <3> QED
      BY <2>1, <3>1, <3>4, NotedMoves
  <2> QED
    BY <2>4, <2>5
<1>6. CASE EnterSearch(l)
  <2>1. pc[l] = "enter" /\ Noted(l, "loop", verdict[l])
    BY <1>6, <1>e DEF EnterSearch
  <2> QED
    BY <2>1, NotedMoves
<1>7. CASE TooLittleData(l)
  <2>1. pc[l] \in {"freeze", "controls"} /\ Noted(l, "raised", verdict[l])
    BY <1>7, <1>v DEF TooLittleData, Noted
  <2>2. LabOk(pc[l], search[l], journal[l], experiments[l], verdict[l])
    BY DEF MainInv, LabsOk
  <2>3. verdict[l] # "KPI_MET_VERIFIED"
    BY <2>1, <2>2 DEF LabOk, VerdictOk
  <2> QED
    BY <2>1, <2>3, NotedMoves
<1>8. CASE EndSearch(l)
  <2>1. pc[l] = "loop"
    BY <1>8 DEF EndSearch
  <2>2. CASE search[l].best = None
    <3>1. Noted(l, "terminate", "BUDGET_EXHAUSTED") /\ "BUDGET_EXHAUSTED" \in Verdicts
      BY <1>8, <2>2 DEF EndSearch, Noted, Verdicts
    <3> QED
      BY <2>1, <3>1, NotedMoves
  <2>3. CASE search[l].best # None
    <3>1. Noted(l, "confirm", verdict[l])
      BY <1>8, <1>v, <2>3 DEF EndSearch, Noted
    <3> QED
      BY <2>1, <2>3, <3>1, NotedMoves
  <2> QED
    BY <2>2, <2>3
<1>9. CASE Terminate(l)
  <2>1. pc[l] = "terminate"
    BY <1>9 DEF Terminate
  <2>2. verdict[l] \in Verdicts
    BY <2>1 DEF MainInv, LabsOk, LabOk, VerdictOk
  <2>3. Plain([event |-> verdict[l]])
    BY <2>2 DEF Plain, Verdicts
  <2>4. Noted(l, "verify", verdict[l])
    BY <1>9, <1>v, <2>3 DEF Terminate, Log, Write, Noted
  <2> QED
    BY <2>1, <2>4, NotedMoves
<1>10. CASE NoteReport(l)
  <2>1. pc[l] = "written" /\ Noted(l, "reported", verdict[l])
    BY <1>10, <1>e DEF NoteReport
  <2> QED
    BY <2>1, NotedMoves
<1>11. CASE Crash(l)
  <2>1. pc[l] \in Active /\ Noted(l, "dead", verdict[l])
    BY <1>11, <1>v DEF Crash, Noted
  <2>2. pc[l] \notin Stop
    BY <2>1 DEF Active, Watching, Recording
  <2> QED
    BY <2>1, <2>2, NotedMoves
<1>12. CASE Verify(l)
  <2>1. pc[l] = "verify" /\ Noted(l, "report", verdict[l])
    BY <1>12, <1>v DEF Verify, Noted
  <2> QED
    BY <2>1, NotedMoves
<1> QED
  BY <1>1, <1>2, <1>3, <1>4, <1>5, <1>6, <1>7, <1>8, <1>9, <1>10, <1>11, <1>12

\* What the loop makes of its own state.
SearchState(s) ==
  s = [index |-> s.index, failures |-> s.failures, proposer |-> s.proposer,
       cursor |-> s.cursor, best |-> s.best]

\* A turn that scores nothing.
LEMMA BarrenIs ==
  ASSUME NEW s, SearchState(s)
  PROVE  LET t == Barren(s)
         IN  /\ SearchState(t) /\ t.index = s.index + 1 /\ t.failures = s.failures + 1
             /\ t.best = s.best /\ t.proposer = s.proposer
<1>1. Barren(s) = [index |-> s.index + 1, failures |-> s.failures + 1,
                   proposer |-> s.proposer, cursor |-> s.cursor, best |-> s.best]
  <2> DEFINE u == [s EXCEPT !.index = s.index + 1]
  <2>1. u = [index |-> s.index + 1, failures |-> s.failures,
             proposer |-> s.proposer, cursor |-> s.cursor, best |-> s.best]
    BY DEF SearchState
  <2>2. Barren(s) = [u EXCEPT !.failures = u.failures + 1]
    BY <2>1 DEF Barren
  <2> QED
    BY <2>1, <2>2
<1> QED
  BY <1>1 DEF SearchState

\* The grid takes over.
LEMMA DemotedIs ==
  ASSUME NEW s, SearchState(s)
  PROVE  LET t == Demoted(s)
             u == [s EXCEPT !.proposer = "grid"]
         IN  /\ SearchState(t) /\ t.index = s.index /\ t.failures = s.failures
             /\ t.best = s.best /\ t.proposer = "grid"
             /\ SearchState(u) /\ u.index = s.index /\ u.failures = s.failures
             /\ u.best = s.best /\ u.proposer = "grid"
<1> DEFINE u == [s EXCEPT !.proposer = "grid"]
<1>1. u = [index |-> s.index, failures |-> s.failures,
           proposer |-> "grid", cursor |-> s.cursor, best |-> s.best]
  BY DEF SearchState
<1>2. Demoted(s) = [index |-> s.index, failures |-> s.failures,
           proposer |-> "grid", cursor |-> s.cursor + 1, best |-> s.best]
  <2>1. Demoted(s) = [u EXCEPT !.cursor = u.cursor + 1]
    BY <1>1 DEF Demoted
  <2> HIDE DEF u
  <2> QED
    BY <1>1, <2>1
<1> QED
  BY <1>1, <1>2 DEF SearchState

\* The steps of the search, but for the experiment.
LEMMA TurnsMain ==
  ASSUME MainInv, NEW l \in Labs, Propose(l) \/ Fallback(l)
  PROVE  MainInv'
<1> DEFINE s == search[l]
           j == journal[l]
           x == experiments[l]
           v == verdict[l]
<1>1. LabOk(pc[l], s, j, x, v)
  BY DEF MainInv, LabsOk
<1>2. /\ s = [index |-> s.index, failures |-> s.failures, proposer |-> s.proposer,
              cursor |-> s.cursor, best |-> s.best]
      /\ s.index \in Nat /\ s.failures \in Nat /\ s.proposer \in {"llm", "grid"}
  BY <1>1 DEF LabOk, SearchOk
<1>3. ASSUME UNCHANGED <<experiments, verdict, report>>, pc[l] \in {"loop", "fallback"},
             NEW q \in {"loop", "fallback", "build"}, NEW t, NEW e,
             pc' = [pc EXCEPT ![l] = q], search' = [search EXCEPT ![l] = t],
             journal' = [journal EXCEPT ![l] = Append(@, e)],
             LabOk(q, t, Append(j, e), x, v)
      PROVE  MainInv'
  <2>1. /\ journal' = [journal EXCEPT ![l] = Append(j, e)]
        /\ experiments' = [experiments EXCEPT ![l] = x]
        /\ verdict' = [verdict EXCEPT ![l] = v]
    BY <1>3 DEF MainInv, Functions
  <2>2. Moved(l, q, t, Append(j, e), x, v)
    BY <1>3, <2>1 DEF Moved, Filed
  <2> QED
    BY <2>2, MovedKeeps
<1>4. ASSUME NEW q \in {"loop", "fallback", "build"}, NEW t, NEW e, NEW d \in {0, 1},
             pc[l] \in {"loop", "fallback"}, e.event # "experiment",
             IF e.event = "proposal_batch"
             THEN /\ d = 1 /\ Open(pc[l]) = 0
                  /\ s.index < MaxExperiments /\ s.failures < MaxFailures
             ELSE d = 0,
             t = [index |-> t.index, failures |-> t.failures, proposer |-> t.proposer,
                  cursor |-> t.cursor, best |-> t.best],
             t.best = s.best, t.proposer \in {"llm", "grid"},
             t.index \in Nat, t.failures \in Nat, t.index >= s.index,
             t.index + Open(q) = s.index + Open(pc[l]) + d,
             t.failures + Open(q) >= s.failures + Open(pc[l]) + d
      PROVE  LabOk(q, t, Append(j, e), x, v)
  <2> DEFINE p == pc[l]
  <2> HIDE DEF s, j, x, v, p
  <2> QED
    BY <1>1, <1>4, TurnOk DEF p
<1>5. CASE Propose(l)
  <2>1. PICK status \in Proposals(l) :
          /\ pc[l] = "loop" /\ MayGoOn(l)
          /\ journal' = [journal EXCEPT ![l] =
                Append(@, [event |-> "proposal_batch", status |-> status])]
          /\ pc' = [pc EXCEPT ![l] = CASE status = "UNAVAILABLE" -> "fallback"
                                       [] status = "REJECTED" -> "loop"
                                       [] status = "ACCEPTED" -> "build"]
          /\ search' = [search EXCEPT ![l] = CASE status = "UNAVAILABLE" -> @
                                               [] status = "REJECTED" -> AfterRejection(@)
                                               [] status = "ACCEPTED" -> Took(@)]
          /\ UNCHANGED <<experiments, verdict, report>>
    BY <1>5, Zenon DEF Propose, Write, Goto
  <2> DEFINE e == [event |-> "proposal_batch", status |-> status]
  <2>2. /\ s.index < MaxExperiments /\ s.failures < MaxFailures
        /\ pc[l] = "loop" /\ Open(pc[l]) = 0 /\ e.event = "proposal_batch"
    BY <2>1 DEF MayGoOn, Open
  <2>3. status \in {"UNAVAILABLE", "REJECTED", "ACCEPTED"}
    BY DEF Proposals
  <2>4. CASE status = "UNAVAILABLE"
    <3>1. LabOk("fallback", s, Append(j, e), x, v)
      <4>1. Open("fallback") = 1
        BY DEF Open
      <4> HIDE DEF s, j, x, v, e
      <4> QED
        BY <1>2, <1>4, <2>2, <4>1
    <3>2. pc' = [pc EXCEPT ![l] = "fallback"] /\ search' = [search EXCEPT ![l] = s]
      BY <2>1, <2>4
    <3> QED
      BY <1>3, <2>1, <3>1, <3>2
  <2>5. CASE status = "REJECTED"
    <3> DEFINE t == Barren(s)
    <3>1. LabOk("loop", t, Append(j, e), x, v)
      <4>1. /\ Open("loop") = 0 /\ t.index = s.index + 1 /\ t.failures = s.failures + 1
            /\ t.best = s.best /\ t.proposer = s.proposer
            /\ t = [index |-> t.index, failures |-> t.failures, proposer |-> t.proposer,
                    cursor |-> t.cursor, best |-> t.best]
        BY <1>2, BarrenIs DEF Open, SearchState
      <4> HIDE DEF s, j, x, v, e, t
      <4> QED
        BY <1>2, <1>4, <2>2, <4>1
    <3>2. pc' = [pc EXCEPT ![l] = "loop"] /\ search' = [search EXCEPT ![l] = t]
      BY <2>1, <2>5 DEF AfterRejection
    <3> QED
      BY <1>3, <2>1, <3>1, <3>2
  <2>6. CASE status = "ACCEPTED"
    <3> DEFINE t == Took(s)
    <3>1. LabOk("build", t, Append(j, e), x, v)
      <4>1. /\ Open("build") = 1 /\ t.index = s.index /\ t.failures = s.failures
            /\ t.best = s.best /\ t.proposer = s.proposer
            /\ t = [index |-> t.index, failures |-> t.failures, proposer |-> t.proposer,
                    cursor |-> t.cursor, best |-> t.best]
        BY <1>2 DEF Open, Took
      <4> HIDE DEF s, j, x, v, e, t
      <4> QED
        BY <1>2, <1>4, <2>2, <4>1
    <3>2. pc' = [pc EXCEPT ![l] = "build"] /\ search' = [search EXCEPT ![l] = t]
      BY <2>1, <2>6
    <3> QED
      BY <1>3, <2>1, <3>1, <3>2
  <2> QED
    BY <2>3, <2>4, <2>5, <2>6
<1>6. CASE Fallback(l)
  <2> DEFINE e == [event |-> "proposer_fallback"]
  <2>1. /\ pc[l] = "fallback" /\ Open(pc[l]) = 1 /\ Open("build") = 1 /\ Open("loop") = 0
        /\ journal' = [journal EXCEPT ![l] = Append(@, e)]
        /\ UNCHANGED <<experiments, verdict, report>>
        /\ e.event # "experiment" /\ e.event # "proposal_batch"
    BY <1>6 DEF Fallback, Log, Write, Open
  <2>2. CASE GridProposes(s)
    <3> DEFINE t == Demoted(s)
    <3>1. LabOk("build", t, Append(j, e), x, v)
      <4>1. /\ t.index = s.index /\ t.failures = s.failures
            /\ t.best = s.best /\ t.proposer = "grid"
            /\ t = [index |-> t.index, failures |-> t.failures, proposer |-> t.proposer,
                    cursor |-> t.cursor, best |-> t.best]
        BY <1>2, DemotedIs DEF SearchState
      <4> HIDE DEF s, j, x, v, e, t
      <4> QED
        BY <1>2, <1>4, <2>1, <4>1
    <3>2. pc' = [pc EXCEPT ![l] = "build"] /\ search' = [search EXCEPT ![l] = t]
      BY <1>6, <2>2 DEF Fallback, Goto
    <3> QED
      BY <1>3, <2>1, <3>1, <3>2
  <2>3. CASE ~GridProposes(s)
    <3> DEFINE t == Barren([s EXCEPT !.proposer = "grid"])
    <3>1. LabOk("loop", t, Append(j, e), x, v)
      <4>1. /\ t.index = s.index + 1 /\ t.failures = s.failures + 1
            /\ t.best = s.best /\ t.proposer = "grid"
            /\ t = [index |-> t.index, failures |-> t.failures, proposer |-> t.proposer,
                    cursor |-> t.cursor, best |-> t.best]
        BY <1>2, BarrenIs, DemotedIs DEF SearchState
      <4> HIDE DEF s, j, x, v, e, t
      <4> QED
        BY <1>2, <1>4, <2>1, <4>1
    <3>2. pc' = [pc EXCEPT ![l] = "loop"] /\ search' = [search EXCEPT ![l] = t]
      BY <1>6, <2>3 DEF Fallback, Goto
    <3> QED
      BY <1>3, <2>1, <3>1, <3>2
  <2> QED
    BY <2>2, <2>3
<1> QED
  BY <1>5, <1>6

\* A scored experiment.
LEMMA SucceededIs ==
  ASSUME NEW s, SearchState(s), NEW delta, NEW r
  PROVE  LET t == [s EXCEPT !.index = @ + 1, !.failures = 0,
                     !.best = IF Improves(delta, @) THEN r ELSE @]
         IN  /\ SearchState(t) /\ t.index = s.index + 1 /\ t.failures = 0
             /\ t.best = IF Improves(delta, s.best) THEN r ELSE s.best
             /\ t.proposer = s.proposer
<1> DEFINE b == IF Improves(delta, s.best) THEN r ELSE s.best
           u == [s EXCEPT !.index = s.index + 1]
           w == [u EXCEPT !.failures = 0]
           t == [s EXCEPT !.index = @ + 1, !.failures = 0,
                     !.best = IF Improves(delta, @) THEN r ELSE @]
<1>1. u = [index |-> s.index + 1, failures |-> s.failures, proposer |-> s.proposer,
           cursor |-> s.cursor, best |-> s.best]
  BY DEF SearchState
<1>2. t = [w EXCEPT !.best = IF Improves(delta, w.best) THEN r ELSE w.best]
  OBVIOUS
<1> HIDE DEF u
<1>3. w = [index |-> s.index + 1, failures |-> 0, proposer |-> s.proposer,
           cursor |-> s.cursor, best |-> s.best]
  BY <1>1
<1> HIDE DEF w, t
<1>4. t = [w EXCEPT !.best = b]
  BY <1>2, <1>3
<1> HIDE DEF b
<1>5. t = [index |-> s.index + 1, failures |-> 0, proposer |-> s.proposer,
           cursor |-> s.cursor, best |-> b]
  BY <1>3, <1>4
<1>6. /\ SearchState(t) /\ t.index = s.index + 1 /\ t.failures = 0 /\ t.best = b
      /\ t.proposer = s.proposer
  BY <1>5 DEF SearchState
<1> QED
  BY <1>6 DEF t, b

\* The experiment.
LEMMA ExperimentMain ==
  ASSUME MainInv, NEW l \in Labs, Experiment(l)
  PROVE  MainInv'
<1> DEFINE s == search[l]
           j == journal[l]
           x == experiments[l]
           v == verdict[l]
<1>1. PICK delta \in Deltas \union {None} :
        LET r == Record(l, delta)
        IN  /\ pc[l] = "build" /\ pc' = [pc EXCEPT ![l] = "loop"]
            /\ experiments' = [experiments EXCEPT ![l] = Append(x, r)]
            /\ journal' = [journal EXCEPT ![l] = Append(j, r)]
            /\ search' = [search EXCEPT ![l] =
                 IF delta = None THEN Barren(s)
                 ELSE [s EXCEPT !.index = @ + 1, !.failures = 0,
                         !.best = IF Improves(delta, @) THEN r ELSE @]]
            /\ UNCHANGED <<verdict, report>>
  BY DEF Experiment, Recorded, Write, Goto, MainInv, Functions
<1> DEFINE r == Record(l, delta)
           t == IF delta = None THEN Barren(s)
                ELSE [s EXCEPT !.index = @ + 1, !.failures = 0,
                        !.best = IF Improves(delta, @) THEN r ELSE @]
<1>2. LabOk("build", s, j, x, v)
  BY <1>1 DEF MainInv, LabsOk
<1>3. SearchState(s) /\ s.proposer \in {"llm", "grid"}
  BY <1>2 DEF LabOk, SearchOk, SearchState
<1>4. /\ r \in [event : {"experiment"}, index : {s.index}, source : {"llm", "grid"},
                delta : Deltas \union {None}]
      /\ r.delta = delta
  BY <1>3 DEF Record
<1>5. /\ SearchState(t) /\ t.index = s.index + 1 /\ t.proposer \in {"llm", "grid"}
      /\ t.failures = IF delta = None THEN s.failures + 1 ELSE 0
      /\ t.best = IF delta = None THEN s.best
                  ELSE IF Improves(delta, s.best) THEN r ELSE s.best
  <2> HIDE DEF r, s
  <2>1. CASE delta = None
    <3>1. t = Barren(s)
      BY <2>1
    <3> HIDE DEF t
    <3> QED
      BY <1>3, <2>1, <3>1, BarrenIs
  <2>2. CASE delta # None
    <3>1. t = [s EXCEPT !.index = @ + 1, !.failures = 0,
                        !.best = IF Improves(delta, @) THEN r ELSE @]
      BY <2>2
    <3> HIDE DEF t
    <3> QED
      BY <1>3, <2>2, <3>1, SucceededIs
  <2> QED
    BY <2>1, <2>2
<1>6. LabOk("loop", t, Append(j, r), Append(x, r), v)
  <2> HIDE DEF r, s, j, x, v, t
  <2> QED
    BY <1>2, <1>4, <1>5, ExperimentOk DEF SearchState
<1>7. verdict' = [verdict EXCEPT ![l] = v]
  BY <1>1 DEF MainInv, Functions
<1>8. Moved(l, "loop", t, Append(j, r), Append(x, r), v)
  BY <1>1, <1>6, <1>7 DEF Moved, Filed
<1> QED
  BY <1>8, MovedKeeps

\* The confirmation, or its measurement raises.
LEMMA ConfirmMain ==
  ASSUME MainInv, NEW l \in Labs, Confirm(l)
  PROVE  MainInv'
<1> DEFINE s == search[l]
           j == journal[l]
           x == experiments[l]
           v == verdict[l]
<1>1. pc[l] = "confirm" /\ UNCHANGED <<search, experiments, report>>
  BY DEF Confirm
<1>2. LabOk("confirm", s, j, x, v)
  BY <1>1 DEF MainInv, LabsOk
<1>3. /\ search' = [search EXCEPT ![l] = s]
      /\ experiments' = [experiments EXCEPT ![l] = x]
  BY <1>1 DEF MainInv, Functions
<1>4. CASE pc' = [pc EXCEPT ![l] = "raised"] /\ UNCHANGED <<verdict, journal>>
  <2>1. Noted(l, "raised", v)
    BY <1>1, <1>4 DEF MainInv, Functions, Noted
  <2>2. v # "KPI_MET_VERIFIED"
    BY <1>2 DEF LabOk, VerdictOk, Late
  <2> QED
    BY <1>1, <2>1, <2>2, NotedMoves DEF Stop, Open, AfterControls, Filed
<1>5. ASSUME NEW c, c.event = "CONFIRMATION", c.of = s.best.index,
             pc' = [pc EXCEPT ![l] = "terminate"],
             journal' = [journal EXCEPT ![l] = Append(j, c)],
             verdict' = [verdict EXCEPT ![l] = Terminal(l, c)]
      PROVE  MainInv'
  <2> DEFINE w == Terminal(l, c)
  <2>1. w \in Verdicts /\ (w = "KPI_MET_VERIFIED" => c.delta > MinArmDelta /\ c.rejected)
    BY DEF Terminal, Verdicts, Beats
  <2>2. LabOk("terminate", s, Append(j, c), x, w)
    <3> HIDE DEF s, j, x, v, w
    <3> QED
      BY <1>2, <1>5, <2>1, ConfirmOk
  <2>3. Moved(l, "terminate", s, Append(j, c), x, w)
    BY <1>1, <1>3, <1>5, <2>2 DEF Moved, Filed
  <2> QED
    BY <2>3, MovedKeeps
<1>6. PICK delta \in Deltas, rejected \in BOOLEAN, reached \in 0..kpi[l].tickets + 1 :
        LET c == [event |-> "CONFIRMATION", of |-> s.best.index,
                  delta |-> delta, rejected |-> rejected, reached |-> reached]
        IN  \/ pc' = [pc EXCEPT ![l] = "raised"] /\ UNCHANGED <<verdict, journal>>
            \/ /\ pc' = [pc EXCEPT ![l] = "terminate"]
               /\ journal' = [journal EXCEPT ![l] = Append(j, c)]
               /\ verdict' = [verdict EXCEPT ![l] = Terminal(l, c)]
  BY DEF Confirm, Write, Goto, Sentence
<1> DEFINE c == [event |-> "CONFIRMATION", of |-> s.best.index,
                 delta |-> delta, rejected |-> rejected, reached |-> reached]
<1>7. c.event = "CONFIRMATION" /\ c.of = s.best.index
  OBVIOUS
<1> HIDE DEF c
<1> QED
  BY <1>4, <1>5, <1>6, <1>7 DEF c

\* The report.
LEMMA ReportMain ==
  ASSUME MainInv, NEW l \in Labs, WriteReport(l)
  PROVE  MainInv'
<1> DEFINE s == search[l]
           j == journal[l]
           x == experiments[l]
           v == verdict[l]
<1>1. /\ pc[l] = "report" /\ pc' = [pc EXCEPT ![l] = "written"]
      /\ report' = [report EXCEPT ![session[l]] =
           [lab |-> l, state |-> v, intact |-> intact[l], experiments |-> x]]
      /\ UNCHANGED <<search, journal, experiments, verdict>>
  BY DEF WriteReport, Goto, own
<1>2. LabOk("report", s, j, x, v)
  BY <1>1 DEF MainInv, LabsOk
<1>3. LabOk("written", s, j, x, v)
  <2>1. /\ "report" \notin Stop /\ Open("written") = Open("report") /\ "written" # "new"
        /\ Open("report") \in {0, 1} /\ "written" # "confirm" /\ "written" # "terminate"
        /\ "written" \notin AfterControls /\ "written" \in Late
    BY DEF Stop, Open, AfterControls, Late
  <2> HIDE DEF s, j, x, v
  <2> QED
    BY <1>2, <2>1, NoteOk
<1>4. /\ search' = [search EXCEPT ![l] = s] /\ journal' = [journal EXCEPT ![l] = j]
      /\ experiments' = [experiments EXCEPT ![l] = x]
      /\ verdict' = [verdict EXCEPT ![l] = v]
  BY <1>1 DEF MainInv, Functions
<1>5. Moved(l, "written", s, j, x, v)
  BY <1>1, <1>3, <1>4 DEF Moved, Filed
<1> QED
  BY <1>5, MovedKeeps

\* The invariant is inductive.
LEMMA NextMain == MainInv /\ [Next]_vars => MainInv'
<1> SUFFICES ASSUME MainInv, [Next]_vars PROVE MainInv'
  OBVIOUS
<1>1. CASE UNCHANGED vars
  BY <1>1 DEF MainInv, Functions, LabsOk, ReportsOk, vars, own
<1>2. CASE \E l \in Labs : Construct(l)
  BY <1>2, ConstructMain
<1>3. CASE \E l \in Labs : Step(l) \/ Crash(l)
  <2>1. PICK l \in Labs : Step(l) \/ Crash(l)
    BY <1>3
  <2> QED
    BY <2>1, NotesMain, TurnsMain, ExperimentMain, ConfirmMain, ReportMain DEF Step
<1> QED
  BY <1>1, <1>2, <1>3 DEF Next

LEMMA MainInvariance == Spec => []MainInv
BY InitMain, NextMain, PTL DEF Spec

\* The claim of report.json (state_machine.py, run and _terminate): a report of
\* KPI_MET_VERIFIED rests on controls that behaved and on a confirmation of the
\* first of the best experiments that rejected the null, and lists the
\* experiments the ledger recorded, in its order.
THEOREM ClaimsAreEarned == Spec => []VerifiedIsEarned
<1>1. MainInv => VerifiedIsEarned
  <2> SUFFICES ASSUME MainInv, NEW s \in Sessions, report[s] # None,
                      report[s].state = "KPI_MET_VERIFIED"
               PROVE  LET l == report[s].lab
                          found == {e \in ToSet(report[s].experiments) : e.delta # None}
                      IN  /\ report[s].experiments = ExperimentsOf(journal[l])
                          /\ [event |-> "NEGATIVE_CONTROL_CALIB", suspend |-> FALSE] \in Entries(l)
                          /\ \E c \in Entries(l), e \in found :
                               /\ c.event = "CONFIRMATION" /\ c.rejected /\ c.delta > MinArmDelta
                               /\ c.of = e.index
                               /\ \A f \in found :
                                    \/ f.delta < e.delta
                                    \/ f.delta = e.delta /\ e.index <= f.index
    BY DEF VerifiedIsEarned
  <2> DEFINE l == report[s].lab
             j == journal[l]
             x == experiments[l]
             found == {e \in ToSet(report[s].experiments) : e.delta # None}
  <2>1. l \in Labs /\ verdict[l] = "KPI_MET_VERIFIED" /\ report[s].experiments = x
    BY DEF MainInv, ReportsOk
  <2>2. LabOk(pc[l], search[l], j, x, verdict[l])
    BY <2>1 DEF MainInv, LabsOk
  <2>3. Earned(j, x) /\ x = ExperimentsOf(j)
    BY <2>1, <2>2 DEF LabOk, VerdictOk, JournalOk
  <2>4. Control \in ToSet(j)
    BY <2>3 DEF Earned
  <2>5. PICK c \in ToSet(j), e \in ToSet(x) :
          /\ c.event = "CONFIRMATION" /\ c.rejected /\ c.delta > MinArmDelta
          /\ c.of = e.index /\ First(e, x)
    BY <2>3 DEF Earned
  <2>6. /\ e \in found
        /\ \A f \in found : f.delta < e.delta \/ (f.delta = e.delta /\ e.index <= f.index)
    BY <2>1, <2>5 DEF First
  <2> QED
    BY <2>1, <2>3, <2>4, <2>5, <2>6 DEF Entries, Control
<1> QED
  BY <1>1, MainInvariance, PTL

\* The hard limits of the search (state_machine.py, run): no lab proposes more
\* often than max_experiments, or once more after max_consecutive_failures turns
\* in a row without a scored experiment, whether its proposer failed, fell back
\* or was rejected.
THEOREM LimitsHold == Spec => []HardLimits
<1>1. MainInv => HardLimits
  <2> SUFFICES ASSUME MainInv, NEW l \in Labs
               PROVE  LET batches == {i \in DOMAIN journal[l] :
                                        journal[l][i].event = "proposal_batch"}
                          turns(i, j) == Cardinality(batches \intersect i..j - 1)
                      IN  /\ Cardinality(batches) <= MaxExperiments
                          /\ \A i, j \in batches :
                               i < j /\ turns(i, j) = MaxFailures =>
                                 \E k \in i..j : /\ journal[l][k].event = "experiment"
                                                 /\ journal[l][k].delta # None
    BY DEF HardLimits
  <2>1. HardOk(journal[l])
    BY DEF MainInv, LabsOk, LabOk
  <2> QED
    BY <2>1, Zenon DEF HardOk, Batches, Good
<1> QED
  BY <1>1, MainInvariance, PTL
===============================================================================

----------------------------- MODULE CasRegister -----------------------------
(***************************************************************************)
(* What a file registry promises the campaigns that write to it: one       *)
(* generation is appended at a time, over the very generation its writer   *)
(* had seen; an authorization and a nonce are good for one generation; and *)
(* a commit is only certified once it is in the ledger.                    *)
(* RegistryTransaction implements it.                                      *)
(***************************************************************************)
EXTENDS Integers, Sequences

CONSTANTS Auths, Nonces, Runs

VARIABLES present, ledger, certified

vars == <<present, ledger, certified>>

Consumed(auth, nonce) ==
  \E i \in DOMAIN ledger : ledger[i].auth = auth \/ ledger[i].nonce = nonce

Init == present = FALSE /\ ledger = << >> /\ certified = {}

Bootstrap == ~present /\ present' = TRUE /\ UNCHANGED <<ledger, certified>>

\* `over` is the generation the writer had seen.
Commit(a, n, r) ==
  /\ present /\ ~Consumed(a, n)
  /\ ledger' = Append(ledger,
                  [auth |-> a, nonce |-> n, run |-> r, over |-> Len(ledger)])
  /\ UNCHANGED <<present, certified>>

Certify(i) ==
  /\ certified' = certified \union {ledger[i]}
  /\ UNCHANGED <<present, ledger>>

Next ==
  \/ Bootstrap
  \/ \E a \in Auths, n \in Nonces, r \in Runs : Commit(a, n, r)
  \/ \E i \in DOMAIN ledger : Certify(i)

Spec == Init /\ [][Next]_vars
=============================================================================

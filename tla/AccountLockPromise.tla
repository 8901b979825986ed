------------------------- MODULE AccountLockPromise -------------------------
(***************************************************************************)
(* What the account lock promises the chain about one execution: it        *)
(* decides once, it accepts exactly the transactions AccountLock!Accepts   *)
(* describes, and it rejects anything else with an error code.  Only a     *)
(* failing syscall may make it reject a transaction it should accept.      *)
(***************************************************************************)
EXTENDS AccountLock

VARIABLES
  in,       \* the transaction, its witness and the cells the execution sees
  verdict,  \* "none" while it runs, then "Ok" or the error it exits with
  faulted   \* a pipe, spawn, write or wait syscall failed

abstractVars == <<in, verdict, faulted>>

Errors ==
  {"InvalidArgs", "InvalidState", "InvalidWitness", "StateNotFound", "DuplicateState",
   "StateConsumedOnSpend", "InvalidTransition", "InvalidSequence", "ThresholdUnsatisfied",
   "InvalidCapability", "InvalidVerifierRef", "VerifierFailure", "UnsupportedVersion",
   "UnsupportedAlgorithm", "RecoveryLocked", "InvalidRequest", "UnsatisfiableThreshold",
   "LengthOverflow"}

\* The proof list of a witness as AccountLock reads it: slots to signatures.
ProofsBySlot(list) ==
  [slot \in {list[i].slot : i \in DOMAIN list} |->
      list[CHOOSE i \in DOMAIN list : list[i].slot = slot].sig]

WitnessWellFormed(w) ==
  /\ w.lock_readable
  /\ w.header_parses
  /\ Len(w.proofs) <= AUTHENTICATOR_MAX_COUNT
  /\ \A i \in DOMAIN w.proofs : w.proofs[i].framed /\ w.proofs[i].fits_request
  /\ \A i, j \in DOMAIN w.proofs : i < j => w.proofs[i].slot < w.proofs[j].slot
  /\ ~w.trailing_bytes
  /\ w.others_readable

Acceptable(t) ==
  /\ t.args = "parsed"
  /\ WitnessWellFormed(t.witness)
  /\ \E c \in t.states :
       Accepts(t.tx, [operation      |-> t.witness.operation,
                      state_sequence |-> t.witness.state_sequence,
                      proofs         |-> ProofsBySlot(t.witness.proofs)],
               t.states, c, t.signed)

Decide ==
  /\ verdict = "none"
  /\ \/ Acceptable(in) /\ verdict' = "Ok" /\ UNCHANGED faulted
     \/ ~Acceptable(in) /\ verdict' \in Errors /\ UNCHANGED faulted
     \/ faulted' /\ verdict' = "VerifierFailure"
  /\ UNCHANGED in

AbstractInit == verdict = "none" /\ faulted = FALSE

\* An execution that is not decided is decided in the end.
AbstractSpec == AbstractInit /\ [][Decide]_abstractVars /\ WF_abstractVars(Decide)
=============================================================================

---------------------------- MODULE AccountLock ----------------------------
(***************************************************************************)
(* What contracts/account-lock accepts: the checks of run(), as a          *)
(* predicate of one transaction, its witness, the live cells that carry    *)
(* the account's Type ID and the signatures that exist.  AccountLockRun    *)
(* executes the same function step by step and is checked against this.    *)
(*                                                                         *)
(* A transaction is a record:                                              *)
(*   inputs         outpoints of the account's cells that it consumes      *)
(*   deps           outpoints of state cells among its direct cell deps    *)
(*   group_deps     outpoints of state cells it reaches by a dep group     *)
(*   since          the since field of the state input                     *)
(*   state_outputs  its outputs that carry the account's Type ID           *)
(*   asset_outputs  outpoints of its outputs under the account's lock      *)
(*   verifiers      how many cell deps match each verifier reference       *)
(*   rest           everything else the sighash covers                     *)
(* A witness is a record: operation, state_sequence, and proofs, a         *)
(* function from the slots it has a proof for (parse_proofs takes a slot   *)
(* at most once, in increasing order) to the signature offered for it.     *)
(***************************************************************************)
EXTENDS AccountProtocol

CONSTANTS
  AccountId,       \* the script hash of the state cell's Type ID script
  SINCE_METRIC     \* the weight of the lower metric bit of a since value, 2^61 in CKB

ASSUME SinceBound == SINCE_METRIC \in Nat \ {0}

(***************************************************************************)
(* A since field: whether it counts from the block of the input's cell,    *)
(* what it counts, and how much of it.  Its u64 has the relative bit on    *)
(* top, then two metric bits, and the value below them, less than          *)
(* SINCE_METRIC.  The lock compares the whole number.                      *)
(***************************************************************************)
SinceMetrics == {"block", "epoch", "timestamp"}
Sinces == [relative : BOOLEAN, metric : SinceMetrics, value : 0..(SINCE_METRIC - 1)]

\* The flag bits of a since.
SinceKind(since) ==
  (IF since.relative THEN 4 ELSE 0) +
  (CASE since.metric = "block"     -> 0
     [] since.metric = "epoch"     -> 1
     [] since.metric = "timestamp" -> 2)

\* The u64 a since field is compared as.
RawSince(since) == SinceKind(since) * SINCE_METRIC + since.value

(***************************************************************************)
(* resolve_state.                                                          *)
(***************************************************************************)
MatchingInputs(tx, states) == {c \in states : c.out \in tx.inputs}

\* A cell that is both a direct dep and in a dep group is resolved twice.
MatchingDeps(tx, states) ==
  {[cell |-> c, via |-> "direct"] : c \in {s \in states : s.out \in tx.deps}} \cup
  {[cell |-> c, via |-> "group"]  : c \in {s \in states : s.out \in tx.group_deps}}

ResolvesSpend(tx, states, cell) ==
  /\ MatchingInputs(tx, states) = {}
  /\ \E via \in {"direct", "group"} :
        MatchingDeps(tx, states) = {[cell |-> cell, via |-> via]}

\* Mutant: the successor is not counted.
ResolvesTransition_any_outputs(tx, states, cell) == MatchingInputs(tx, states) = {cell}

\* Equal type hashes mean equal type scripts, so the code's comparison of the
\* full scripts of the state input and output adds nothing here.
ResolvesTransition(tx, states, cell) ==
  /\ MatchingInputs(tx, states) = {cell}
  /\ \E s \in tx.state_outputs : tx.state_outputs = {s}

resolve_state(operation, tx, states, cell) ==
  \/ operation = OP_SPEND /\ ResolvesSpend(tx, states, cell)
  \/ operation \in {OP_ROTATE, OP_RECOVERY} /\ ResolvesTransition(tx, states, cell)

(***************************************************************************)
(* validate_transition, once resolve_state has found the state cell.       *)
(***************************************************************************)
\* Mutant: the successor is not validated.
SuccessorFollows_unvalidated(current, next) ==
  /\ current.sequence < U64_MAX
  /\ next.sequence = current.sequence + 1

SuccessorFollows(current, next) ==
  /\ validate_state(next)
  /\ current.sequence < U64_MAX                \* checked_add
  /\ next.sequence = current.sequence + 1

\* Mutant: one unit early.
RecoveryUnlocked_early(current, since) ==
  /\ current.recovery_enabled
  /\ RawSince(since) + 1 >= current.recovery_since

RecoveryUnlocked(current, since) ==
  /\ current.recovery_enabled
  /\ RawSince(since) >= current.recovery_since

validate_transition(operation, tx, current) ==
  \/ operation = OP_SPEND
  \/ /\ operation \in {OP_ROTATE, OP_RECOVERY}
     /\ \A s \in tx.state_outputs : SuccessorFollows(current, s.data)
     /\ operation = OP_RECOVERY => RecoveryUnlocked(current, tx.since)

(***************************************************************************)
(* The proofs.  A signature is a record: key and the intent that key       *)
(* signed (operation, account_id, data, tx).  A verifier exits with 0 only *)
(* for a signature that exists, by the entry's key, on the digest.         *)
(***************************************************************************)
SignedDigest(sig) ==
  authorization_digest(sig.intent.operation, sig.intent.account_id,
                       sig.intent.data, sig.intent.tx)

VerifierAccepts(entry, sig, digest, signed) ==
  /\ sig \in signed
  /\ sig.key = entry.key_id
  /\ SignedDigest(sig) = digest

\* Exactly one cell dep carries the entry's verifier code.
resolve_verifier(entry, tx) == tx.verifiers[entry.verifier_code_hash] = 1

\* The request fits the verifier ABI: validate_state lets an aux through that
\* VerifierRequest::parse refuses.
encode_request(entry) == entry.key_id_sized /\ entry.aux = "fits"

\* Every proof names an authenticator of the current state that holds the
\* capability, whose verifier resolves and whose request can be encoded;
\* anything else fails the transaction.
ProofsAdmissible(operation, tx, proofs, state) ==
  \A slot \in DOMAIN proofs :
     \E i \in DOMAIN state.authenticators :
        /\ state.authenticators[i].slot = slot
        /\ capability_for_operation(operation) \in state.authenticators[i].capabilities
        /\ resolve_verifier(state.authenticators[i], tx)
        /\ encode_request(state.authenticators[i])

\* The authenticators whose verifier exits with 0: only these add their weight.
VerifiedAuthenticators(operation, tx, proofs, state, signed) ==
  {i \in DOMAIN state.authenticators :
     /\ state.authenticators[i].slot \in DOMAIN proofs
     /\ VerifierAccepts(state.authenticators[i],
                        proofs[state.authenticators[i].slot],
                        authorization_digest(operation, AccountId, state, tx),
                        signed)}

ThresholdReached(operation, tx, proofs, state, signed) ==
  WeightOf(state.authenticators,
           VerifiedAuthenticators(operation, tx, proofs, state, signed))
    >= threshold_for_operation(operation, state)

(***************************************************************************)
(* run(): first the state cell it resolves must be valid, be the one the   *)
(* witness was made for and admit the operation; then the proofs count.    *)
(***************************************************************************)
StateAdmits(operation, state_sequence, tx, states, cell) ==
  /\ resolve_state(operation, tx, states, cell)
  /\ validate_state(cell.data)
  /\ state_sequence = cell.data.sequence
  /\ validate_transition(operation, tx, cell.data)

ProofsSuffice(operation, tx, proofs, state, signed) ==
  /\ ProofsAdmissible(operation, tx, proofs, state)
  /\ ThresholdReached(operation, tx, proofs, state, signed)

\* The lock accepts, with cell the state cell it resolved.
Accepts(tx, witness, states, cell, signed) ==
  /\ StateAdmits(witness.operation, witness.state_sequence, tx, states, cell)
  /\ ProofsSuffice(witness.operation, tx, witness.proofs, cell.data, signed)
=============================================================================

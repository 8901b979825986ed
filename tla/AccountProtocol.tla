-------------------------- MODULE AccountProtocol --------------------------
(***************************************************************************)
(* The frozen account protocol of crates/protocol, as data: operations,    *)
(* capabilities, AccountStateV1 records, the rules validate_state applies  *)
(* to them, and the authorization digest.  Bytes are abstracted to         *)
(* records; what the parsers reject for being badly framed (magic,         *)
(* version, lengths, reserved bytes, trailing bytes) is the one Boolean    *)
(* field "framed" of a state.  The aux field of an authenticator is its     *)
(* size: "empty", "fits" (VERIFIER_MAX_AUX_LEN) or "oversized".            *)
(***************************************************************************)
EXTENDS Naturals, Sequences, FiniteSets, FiniteSetsExt

CONSTANTS
  AUTHENTICATOR_MAX_COUNT,  \* 16 in the code
  U64_MAX                   \* the largest sequence number, 2^64 - 1 in the code

ASSUME ProtocolBounds ==
  /\ AUTHENTICATOR_MAX_COUNT \in Nat \ {0}
  /\ U64_MAX \in Nat

OP_SPEND    == "SPEND"
OP_ROTATE   == "ROTATE"
OP_RECOVERY == "RECOVERY"
Operations  == {OP_SPEND, OP_ROTATE, OP_RECOVERY}

CAP_SPEND    == "CAP_SPEND"
CAP_ROTATE   == "CAP_ROTATE"
CAP_RECOVERY == "CAP_RECOVERY"
CAP_SESSION  == "CAP_SESSION"
KnownCapabilities == {CAP_SPEND, CAP_ROTATE, CAP_RECOVERY, CAP_SESSION}

SupportedAlgorithms == {"P256_WEBAUTHN", "MLDSA44", "MLDSA65", "MLDSA87", "SLHDSA"}
VERIFIER_ABI_V1 == 1
AuxSizes == {"empty", "fits", "oversized"}

\* The capability an authenticator needs to take part in an operation.
capability_for_operation(operation) ==
  CASE operation = OP_SPEND    -> CAP_SPEND
    [] operation = OP_ROTATE   -> CAP_ROTATE
    [] operation = OP_RECOVERY -> CAP_RECOVERY

\* The threshold of the current state that an operation has to reach.
threshold_for_operation(operation, state) ==
  CASE operation = OP_SPEND    -> state.spend_threshold
    [] operation = OP_ROTATE   -> state.rotate_threshold
    [] operation = OP_RECOVERY -> state.recovery_threshold

(***************************************************************************)
(* Weights.  authenticators is a sequence of entries; a set of positions   *)
(* in it stands for a set of authenticators.                               *)
(***************************************************************************)
WeightOf(authenticators, I) == MapThenSumSet(LAMBDA i : authenticators[i].weight, I)

WithCapability(authenticators, capability) ==
  {i \in DOMAIN authenticators : capability \in authenticators[i].capabilities}

\* The StateSummary of validate_state: all the weight a capability can reach.
CapabilityWeight(authenticators, capability) ==
  WeightOf(authenticators, WithCapability(authenticators, capability))

(***************************************************************************)
(* validate_state.  The sums it checks for overflow add at most            *)
(* AUTHENTICATOR_MAX_COUNT u16 weights in a u32, which cannot overflow.    *)
(***************************************************************************)
StateHeaderParses(state) ==
  /\ state.framed
  /\ Len(state.authenticators) \in 1..AUTHENTICATOR_MAX_COUNT

SlotsStrictlyIncreasing(authenticators) ==
  \A i, j \in DOMAIN authenticators : i < j => authenticators[i].slot < authenticators[j].slot

\* What parse_authenticators asks of one entry.
EntryParses(entry) ==
  /\ entry.weight # 0
  /\ entry.capabilities \subseteq KnownCapabilities
  /\ entry.verifier_hash_type \in {0, 1}
  /\ entry.verifier_abi = VERIFIER_ABI_V1

\* What validate_state asks of it on top: a supported algorithm, a 32-byte key
\* identifier and a non-empty aux field.
EntrySupported(entry) ==
  /\ entry.algorithm_id \in SupportedAlgorithms
  /\ entry.key_id_sized
  /\ entry.aux # "empty"

SpendAndRotateSatisfiable(state) ==
  /\ state.spend_threshold # 0
  /\ state.rotate_threshold # 0
  /\ state.spend_threshold <= CapabilityWeight(state.authenticators, CAP_SPEND)
  /\ state.rotate_threshold <= CapabilityWeight(state.authenticators, CAP_ROTATE)

RecoveryConsistent(state) ==
  \/ /\ state.recovery_enabled
     /\ state.recovery_threshold # 0
     /\ state.recovery_threshold <= CapabilityWeight(state.authenticators, CAP_RECOVERY)
  \/ /\ ~state.recovery_enabled
     /\ state.recovery_threshold = 0
     /\ state.recovery_since = 0

validate_state(state) ==
  /\ StateHeaderParses(state)
  /\ SlotsStrictlyIncreasing(state.authenticators)
  /\ \A i \in DOMAIN state.authenticators :
        EntryParses(state.authenticators[i]) /\ EntrySupported(state.authenticators[i])
  /\ SpendAndRotateSatisfiable(state)
  /\ RecoveryConsistent(state)

(***************************************************************************)
(* What a signer is asked to authorize: this operation of this account,    *)
(* on this state, by this transaction.  A transaction record here stands   *)
(* for all that the canonical group sighash covers: the raw transaction    *)
(* and every group witness except the lock field that holds the proofs.    *)
(***************************************************************************)
canonical_group_sighash(tx) == tx

\* Mutant: the operation is not hashed.
authorization_digest_any_operation(operation, account_id, state, tx) ==
  [account_id    |-> account_id,
   sequence      |-> state.sequence,
   state_hash    |-> state,
   group_sighash |-> canonical_group_sighash(tx)]

\* The digest a verifier checks the proof against.  Hashes are injective, so
\* the digest is the tuple of what was hashed.
authorization_digest(operation, account_id, state, tx) ==
  [operation     |-> operation,
   account_id    |-> account_id,
   sequence      |-> state.sequence,
   state_hash    |-> state,
   group_sighash |-> canonical_group_sighash(tx)]
=============================================================================

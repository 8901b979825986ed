--------------------------- MODULE AccountLockRun ---------------------------
(***************************************************************************)
(* run() of contracts/account-lock, check by check and proof by proof,     *)
(* with the error each early return exits with.  One execution: "in" is    *)
(* chosen at the start and never changes.  The child verifier's work is    *)
(* one step here; VerifierPipe models the exchange with it.                *)
(***************************************************************************)
EXTENDS AccountLock

CONSTANT Cases   \* the executions to look at: args, witness, tx, states, signed

Listed(list) == Len(list) \in Nat /\ DOMAIN list = 1..Len(list)

\* The unsigned integers of a state record.
StateFields(s) ==
  /\ s.sequence \in 0..U64_MAX
  /\ s.spend_threshold \in Nat /\ s.rotate_threshold \in Nat
  /\ s.recovery_threshold \in Nat /\ s.recovery_since \in Nat
  /\ Listed(s.authenticators)
  /\ \A i \in DOMAIN s.authenticators :
       /\ s.authenticators[i].slot \in Nat /\ s.authenticators[i].weight \in Nat
       /\ s.authenticators[i].verifier_hash_type \in Nat

\* Field types: a transaction is finite, and a witness header that names no
\* operation is one that does not parse.
ASSUME CasesTyped ==
  \A c \in Cases :
    /\ c.witness.operation \in Operations
    /\ Listed(c.witness.proofs)
    /\ \A n \in DOMAIN c.witness.proofs : c.witness.proofs[n].slot \in Nat
    /\ c.tx.since \in Sinces
    /\ IsFiniteSet(c.states) /\ IsFiniteSet(c.tx.state_outputs)
    /\ \A s \in c.states : StateFields(s.data)
    /\ \A s \in c.tx.state_outputs : StateFields(s.data)

VARIABLES
  in, verdict, faulted,
  pc,      \* the check of run() that comes next
  cell,    \* the state cell resolve_state found, once it has
  next,    \* the position of the next proof
  weight   \* the weight verified so far

vars == <<in, verdict, faulted, pc, cell, next, weight>>

NoCell == [out |-> "none"]

Init ==
  /\ in \in Cases
  /\ verdict = "none" /\ faulted = FALSE
  /\ pc = "args" /\ cell = NoCell /\ next = 1 /\ weight = 0

Exit(code) == verdict' = code /\ pc' = "exit"
Continue(check) == verdict' = verdict /\ pc' = check

\* One check of run(): errors is the set of errors it may exit with, empty when
\* the check passes.
Check(check, errors, then) ==
  /\ pc = check
  /\ \/ errors # {} /\ \E e \in errors : Exit(e)
     \/ errors = {} /\ Continue(then)
  /\ UNCHANGED <<in, faulted, next, weight>>

FailIf(condition, error) == IF condition THEN {error} ELSE {}

\* The first of two checks that fails decides.
Or(first, second) == IF first # {} THEN first ELSE second

ParseArgs ==
  /\ Check("args", IF in.args = "parsed" THEN {} ELSE {"InvalidArgs", "UnsupportedVersion"},
           "witness")
  /\ UNCHANGED cell

ParseWitness ==
  /\ Check("witness",
           FailIf(\/ ~in.witness.lock_readable
                  \/ ~in.witness.header_parses
                  \/ Len(in.witness.proofs) > AUTHENTICATOR_MAX_COUNT, "InvalidWitness"),
           "resolve")
  /\ UNCHANGED cell

(***************************************************************************)
(* resolve_state.                                                          *)
(***************************************************************************)
ExactlyOne(found) ==
  Or(FailIf(found = {}, "StateNotFound"), FailIf(Cardinality(found) > 1, "DuplicateState"))

ResolveError ==
  LET inputs == MatchingInputs(in.tx, in.states) IN
  IF in.witness.operation = OP_SPEND
    THEN Or(FailIf(inputs # {}, "StateConsumedOnSpend"),
            ExactlyOne(MatchingDeps(in.tx, in.states)))
    ELSE Or(ExactlyOne(inputs),
            FailIf(Cardinality(in.tx.state_outputs) # 1, "InvalidTransition"))

ResolvedCells ==
  IF in.witness.operation = OP_SPEND
    THEN {d.cell : d \in MatchingDeps(in.tx, in.states)}
    ELSE MatchingInputs(in.tx, in.states)

ResolveState ==
  /\ Check("resolve", ResolveError, "state")
  /\ IF ResolveError = {} THEN cell' \in ResolvedCells ELSE UNCHANGED cell

(***************************************************************************)
(* validate_state, entry by entry: the first entry that fails decides.     *)
(* Where the framing breaks is left open, so it may be before or after it. *)
(***************************************************************************)
EntryErrors(auths, i) ==
  Or(FailIf(i > 1 /\ auths[i].slot <= auths[i - 1].slot, "InvalidState"),
  Or(FailIf(auths[i].weight = 0 \/ ~(auths[i].capabilities \subseteq KnownCapabilities),
            "InvalidState"),
  Or(FailIf(auths[i].verifier_hash_type > 1 \/ auths[i].verifier_abi # VERIFIER_ABI_V1,
            "InvalidVerifierRef"),
  Or(FailIf(auths[i].algorithm_id \notin SupportedAlgorithms, "UnsupportedAlgorithm"),
     FailIf(~auths[i].key_id_sized \/ auths[i].aux = "empty", "InvalidState")))))

ThresholdErrors(s) ==
  Or(FailIf(\/ s.spend_threshold = 0 \/ s.rotate_threshold = 0
            \/ s.spend_threshold > CapabilityWeight(s.authenticators, CAP_SPEND)
            \/ s.rotate_threshold > CapabilityWeight(s.authenticators, CAP_ROTATE),
            "UnsatisfiableThreshold"),
     IF s.recovery_enabled
       THEN FailIf(\/ s.recovery_threshold = 0
                   \/ s.recovery_threshold > CapabilityWeight(s.authenticators, CAP_RECOVERY),
                   "UnsatisfiableThreshold")
       ELSE FailIf(s.recovery_threshold # 0 \/ s.recovery_since # 0, "InvalidState"))

StateErrors(s) ==
  LET auths == s.authenticators
      bad   == {i \in DOMAIN auths : EntryErrors(auths, i) # {}}
      entry == IF bad = {} THEN {} ELSE EntryErrors(auths, Min(bad)) IN
  Or(IF s.framed THEN {} ELSE {"InvalidState", "UnsupportedVersion"} \cup entry,
  Or(FailIf(Len(auths) = 0 \/ Len(auths) > AUTHENTICATOR_MAX_COUNT, "InvalidState"),
  Or(entry,
     ThresholdErrors(s))))

ValidateState ==
  /\ Check("state", StateErrors(cell.data), "sequence")
  /\ UNCHANGED cell

CheckSequence ==
  /\ Check("sequence",
           FailIf(in.witness.state_sequence # cell.data.sequence, "InvalidSequence"),
           "transition")
  /\ UNCHANGED cell

(***************************************************************************)
(* validate_transition.                                                    *)
(***************************************************************************)
TransitionErrors(successor) ==
  Or(StateErrors(successor),
  Or(FailIf(\/ cell.data.sequence = U64_MAX
            \/ successor.sequence # cell.data.sequence + 1, "InvalidSequence"),
     IF in.witness.operation = OP_RECOVERY
       THEN Or(FailIf(~cell.data.recovery_enabled, "InvalidCapability"),
               FailIf(RawSince(in.tx.since) < cell.data.recovery_since, "RecoveryLocked"))
       ELSE {}))

ValidateTransition ==
  /\ Check("transition",
           IF in.witness.operation = OP_SPEND THEN {}
           ELSE TransitionErrors((CHOOSE s \in in.tx.state_outputs : TRUE).data),
           "sighash")
  /\ UNCHANGED cell

\* canonical_group_sighash reads every other witness of the group and beyond.
ComputeSighash ==
  /\ Check("sighash", FailIf(~in.witness.others_readable, "InvalidWitness"), "proofs")
  /\ UNCHANGED cell

(***************************************************************************)
(* The closure run() hands to parse_proofs.                                *)
(***************************************************************************)
Digest == authorization_digest(in.witness.operation, AccountId, cell.data, in.tx)

AuthenticatorsAt(slot) ==
  {i \in DOMAIN cell.data.authenticators : cell.data.authenticators[i].slot = slot}

\* Mutant: a slot may be repeated.
ProofOrdered_repeated(n) ==
  n > 1 => in.witness.proofs[n].slot >= in.witness.proofs[n - 1].slot

\* parse_proofs: the entry is framed, not empty, and its slot is larger than
\* that of the proof before it.
ProofOrdered(n) ==
  n > 1 => in.witness.proofs[n].slot > in.witness.proofs[n - 1].slot

EntryOf(slot) == cell.data.authenticators[CHOOSE i \in AuthenticatorsAt(slot) : TRUE]

ProofErrors(proof) ==
  Or(FailIf(~proof.framed \/ ~ProofOrdered(next), "InvalidWitness"),
  Or(FailIf(AuthenticatorsAt(proof.slot) = {}, "InvalidWitness"),
  Or(FailIf(capability_for_operation(in.witness.operation)
               \notin EntryOf(proof.slot).capabilities, "InvalidCapability"),
  Or(FailIf(~resolve_verifier(EntryOf(proof.slot), in.tx), "InvalidVerifierRef"),
     IF proof.fits_request /\ encode_request(EntryOf(proof.slot)) THEN {}
       ELSE {"InvalidRequest", "LengthOverflow"}))))

ProofFails ==
  /\ pc = "proofs" /\ next <= Len(in.witness.proofs)
  /\ \E e \in ProofErrors(in.witness.proofs[next]) : Exit(e)
  /\ UNCHANGED <<in, faulted, cell, next, weight>>

\* Weight is added only when the child exits with 0.
WeightAfter(entry, accepted) == IF accepted THEN weight + entry.weight ELSE weight

SpawnVerifier ==
  /\ pc = "proofs" /\ next <= Len(in.witness.proofs)
  /\ LET proof == in.witness.proofs[next] IN
       /\ ProofErrors(proof) = {}
       /\ LET entry == EntryOf(proof.slot) IN
          weight' = WeightAfter(entry, VerifierAccepts(entry, proof.sig, Digest, in.signed))
  /\ next' = next + 1
  /\ UNCHANGED <<in, verdict, faulted, pc, cell>>

\* A pipe, spawn, write, close or wait syscall fails while the proof is handled.
SpawnFaults ==
  /\ pc = "proofs" /\ next <= Len(in.witness.proofs)
  /\ ProofErrors(in.witness.proofs[next]) = {}
  /\ faulted' = TRUE
  /\ Exit("VerifierFailure")
  /\ UNCHANGED <<in, cell, next, weight>>

\* After the last proof parse_proofs rejects trailing bytes.
EndProofs ==
  /\ next > Len(in.witness.proofs)
  /\ Check("proofs", FailIf(in.witness.trailing_bytes, "InvalidWitness"), "threshold")
  /\ UNCHANGED cell

\* Mutant: the threshold has to be exceeded.
CheckThreshold_exceeded ==
  /\ pc = "threshold"
  /\ Exit(IF weight <= threshold_for_operation(in.witness.operation, cell.data)
            THEN "ThresholdUnsatisfied" ELSE "Ok")
  /\ UNCHANGED <<in, faulted, cell, next, weight>>

CheckThreshold ==
  /\ pc = "threshold"
  /\ Exit(IF weight < threshold_for_operation(in.witness.operation, cell.data)
            THEN "ThresholdUnsatisfied" ELSE "Ok")
  /\ UNCHANGED <<in, faulted, cell, next, weight>>

Next ==
  \/ ParseArgs \/ ParseWitness \/ ResolveState \/ ValidateState \/ CheckSequence
  \/ ValidateTransition \/ ComputeSighash
  \/ ProofFails \/ SpawnVerifier \/ SpawnFaults \/ EndProofs \/ CheckThreshold

\* The VM runs the script until it exits; every loop of it is bounded.
Spec == Init /\ [][Next]_vars /\ WF_vars(Next)
-----------------------------------------------------------------------------
(***************************************************************************)
(* Properties.                                                             *)
(***************************************************************************)
Promise == INSTANCE AccountLockPromise
             WITH in <- in, verdict <- verdict, faulted <- faulted

\* run() implements its promise: it accepts exactly the transactions that
\* AccountLock!Accepts describes, for all others it exits with an error of
\* ProtocolError, and it always decides.
KeepsPromise == Promise!AbstractSpec

\* The weight counted so far is the weight of the set of authenticators with a
\* verified proof among the proofs read: no proof adds weight twice, none that
\* its verifier rejects adds any.
WeightOfVerifiedSet ==
  pc \in {"proofs", "threshold"} =>
    weight = WeightOf(cell.data.authenticators,
                      {i \in DOMAIN cell.data.authenticators :
                         \E n \in 1..(next - 1) :
                            /\ in.witness.proofs[n].slot = cell.data.authenticators[i].slot
                            /\ VerifierAccepts(cell.data.authenticators[i],
                                               in.witness.proofs[n].sig, Digest, in.signed)})
=============================================================================

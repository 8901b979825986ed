---------------------------- MODULE AccountConfig ----------------------------
(***************************************************************************)
(* AccountStateConfig::encode of crates/host: which configurations become  *)
(* the first state of an account, and which state that is.  A config has   *)
(* the fields of a state; flags_known says that no other flag is set, and  *)
(* sized that the encoded state stays within ACCOUNT_STATE_MAX_LEN.  The   *)
(* contents of an authenticator's aux field are its binding: "none" when   *)
(* it does not have the 65 bytes of a WebAuthn binding, else the site it   *)
(* names, or "profile" when its first byte is not PROFILE_V1.              *)
(***************************************************************************)
EXTENDS AccountProtocol

to_authenticator(entry) ==
  /\ entry.verifier_abi = VERIFIER_ABI_V1
  /\ entry.verifier_hash_type \in {0, 1}
  /\ entry.capabilities \subseteq KnownCapabilities
  /\ entry.weight # 0
  /\ entry.aux # "empty"
  /\ entry.algorithm_id = "P256_WEBAUTHN" => entry.binding # "none"
  /\ entry.key_id_sized

require_satisfiable(threshold, authenticators, capability) ==
  /\ threshold # 0
  /\ CapabilityWeight(authenticators, capability) >= threshold

\* The state a configuration describes.
AccountState(config) ==
  [framed |-> TRUE, sequence |-> config.sequence,
   recovery_enabled |-> config.recovery_enabled,
   spend_threshold |-> config.spend_threshold,
   rotate_threshold |-> config.rotate_threshold,
   recovery_threshold |-> config.recovery_threshold,
   recovery_since |-> config.recovery_since,
   authenticators |-> config.authenticators]

encode_state(config) == config.sized /\ validate_state(AccountState(config))

\* The configurations for which encode returns a state and no error.
encode(config) ==
  /\ config.sequence = 0 /\ config.flags_known
  /\ Len(config.authenticators) \in 1..AUTHENTICATOR_MAX_COUNT
  /\ \A i \in DOMAIN config.authenticators : to_authenticator(config.authenticators[i])
  /\ SlotsStrictlyIncreasing(config.authenticators)
  /\ require_satisfiable(config.spend_threshold, config.authenticators, CAP_SPEND)
  /\ require_satisfiable(config.rotate_threshold, config.authenticators, CAP_ROTATE)
  /\ config.recovery_enabled =>
       require_satisfiable(config.recovery_threshold, config.authenticators, CAP_RECOVERY)
  /\ encode_state(config)
=============================================================================

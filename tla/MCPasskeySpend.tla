--------------------------- MODULE MCPasskeySpend ---------------------------
(***************************************************************************)
(* Accounts the bootstrap command may have created (the demo's profile and *)
(* others), asset capacities on both sides of every boundary of the spend, *)
(* and assertion sizes at and beyond the client's bounds.  One CKB is 10^5 *)
(* shannons, so that capacities stay below 2^31; the largest fee is still  *)
(* a small part of a CKB.                                                  *)
(***************************************************************************)
EXTENDS PasskeySpend

Demo == accountConfiguration("k1")
Entry == Demo.authenticators[1]

\* Configurations that encode accepts, of other policies, verifiers and sites, and
\* some that it refuses.
MCConfigs ==
  {Demo,
   [Demo EXCEPT !.authenticators = <<Entry, [Entry EXCEPT !.slot = 1, !.key_id = "k2"]>>,
                !.spend_threshold = 2],
   [Demo EXCEPT !.authenticators[1].verifier_code_hash = "v2"],
   [Demo EXCEPT !.authenticators[1].binding = "other site"],
   [Demo EXCEPT !.authenticators[1].binding = "profile"],
   [Demo EXCEPT !.authenticators[1].algorithm_id = "MLDSA65",
                !.authenticators[1].binding = "none",
                !.authenticators[1].aux = "oversized"],
   [Demo EXCEPT !.recovery_enabled = FALSE, !.recovery_threshold = 0],
   [Demo EXCEPT !.authenticators = <<Entry, Entry>>],
   [Demo EXCEPT !.spend_threshold = 2],
   [Demo EXCEPT !.authenticators[1].binding = "none"]}

MCAssetCkb == {73, 74, 100, 101, 174, 175, 200}
MCAuthenticatorDataSizes == {36, 37, 1024, 1025}
MCClientDataSizes == {0, 1, 2048, 2049}
MCSignatureSizes == {7, 8, 70, 72, 73}
=============================================================================

# A TLA+ model of the crypto-agile CKB account

The repository holds a reference implementation of an account on CKB whose
authenticators (keys, algorithms, weights) can be changed without moving its
assets, and a demo that creates and uses such an account on a testnet. This
directory models it in TLA+: TLC checks the models on small instances, and TLAPS
proves every safety property those runs check for all instances. What is left to TLC
alone is liveness.

## 1. Inventory

| Part | State it keeps | Operations | What is hard | Correct means |
|---|---|---|---|---|
| Protocol crate (`crates/protocol`) | none; parses `AccountStateV1`, witness, verifier request | `validate_state`, `parse_proofs`, `VerifierRequest::parse` | boundaries, canonical order | every accepted policy whose aux fields fit can be met; a slot counts once |
| Account lock (`contracts/account-lock`) | the state cell (singleton by Type ID), asset cells | SPEND, ROTATE, RECOVERY | signatures outlive states; anyone may send any transaction at any time | cells move only by what the current authenticators signed; the state cell is a strictly ordered singleton |
| Verifiers (`contracts/verifier-*`) | none; one call is two VMs and a pipe | `read_request`, `verify` | partial reads and writes, early exit, mutual waiting | weight only for a whole, accepted request; the call ends |
| Host crate (`crates/host`) | none | `AccountStateConfig::encode`, digest, sighash | must agree with the contract, the client and the verifier | writes only states the lock accepts |
| Demo backend (`demo/src/server`) | `active` creation, cached deployment check, request bodies, temporary directories | `bootstrap`, `status`, `account`, the state export | concurrent requests, bodies in chunks, timeouts, crashes, failures at every call | one account; everybody is answered; bodies bounded |
| Deploy tool (`tools/deploy`) | `deploy/testnet-account.json`, `deploy/testnet-deployments.json` | `bootstrapAccount`, `publishDeployment` | file and chain cannot change atomically; two invocations overlap; a server has read the old file | what is recorded is on chain and is what it claims |
| Demo client (`demo/src/client`) | wizard step, stored passkey, receipts | reconcile, create, prepare, authorize, check again | every await races with the user, other tabs and the chain; the fee is fixed before the signature exists | one submission, by the account's passkey, that the lock accepts; no page says what is not so; the passkey of an account stays known |
| Real-testnet harness (`demo/test`) | archive of manifest and journal | resume, archive, roll back | a crash between two files | see the plan |

How they meet: the deploy tool publishes lock and verifier cells and records them;
the backend reads that record, verifies the cells and, like the tool's bootstrap
command, creates the state cell and the first asset with `bootstrapAccount`, which
writes data exported by the host crate; the client builds a transaction, asks the
passkey to sign the authorization digest and sends it; the chain runs the account
lock for every input under it; the lock resolves the state cell, spawns one verifier
per proof and adds up weights.

The hazards this code is exposed to are listed with their lines in `PROJECT.json`.

## 2. Modules

    AccountProtocol ─┬─ AccountLock ─┬─ AccountChain ─┬─ MCAccountChain
                     │               │                └─ AccountChainProofs
                     │               ├─ AccountLockPromise   (abstract)
                     │               ├─ AccountLockRun ─┬─ MCAccountLockRun
                     │               │                  └─ AccountLockRunProofs
                     └─ AccountConfig┴─ PasskeySpend ─┬─ MCPasskeySpend
                                                      └─ PasskeySpendProofs
    VerifierPipe ── VerifierPipeProofs        ApiServer ─┬─ MCApiServer
    DemoBackend ── DemoBackendProofs                     └─ ApiServerProofs
    DemoClient ── DemoClientProofs
    PublicationPromise (abstract)   Deploy ── DeployedDemo ── DeployedDemoProofs

* **AccountProtocol**: operations, capabilities, account states, `validate_state`
  and the authorization digest. Bytes are abstracted to records. What parsers reject
  for bad framing (magic, version, lengths, reserved and trailing bytes) is one Boolean, `framed`.
  Hashes are injective, so a digest is the record of what was hashed. A verifier
  reference (hash type and code hash) is one name.
* **AccountLock**: what `run()` accepts, as predicates named after its functions.
* **AccountChain**: an account over time. `states`, `assets` and `used` are the
  live cells and the outpoints ever created, `signed` the signatures that exist,
  `last` the last transaction the lock accepted. Any key may sign any intent at any time, and
  anyone may commit any transaction with any subset of the signatures made so far:
  old, cross-operation and cross-account signatures, keys that were rotated out
  and compromised keys are all included. The chain is external: live inputs and
  deps, fresh outpoints, the Type ID rule, and `since` as the chain checks it: relative to
  the cell or not, in blocks, epochs or median time, each with a clock of its own (`EpochAt`,
  `TimeAt`). The lock sees the same field as one number with those flags on top (`RawSince`).
  A rotation may put the state cell under another lock (the account lock does not
  look at the successor's lock); from then on `CommitUnguarded` can do with it what that lock allows.
* **AccountLockPromise** and **AccountLockRun**: the first says what one execution
  owes the chain (decide once, accept exactly what `Accepts` describes, reject with
  a `ProtocolError`, fail a good transaction only when a syscall fails). The second
  is `run()` check by check with the error of every early return, and refines it.
* **VerifierPipe**: `spawn_verifier` against `read_request`. The two VMs interleave
  freely; a write may return early, a read may be short, every syscall of the
  parent may fail and the child may die at any point.
* **DemoBackend**: `bootstrap` of the service, `bootstrapAccount`, the manifest
  file, the bootstrap command as a second process, crashes, lost answers, the
  five-minute wait and a chain that commits or drops whenever it likes. Each await
  is a step boundary. `lost` records that some process gave up on a transaction a node had accepted.
* **DemoClient**: the wizard in one or more tabs of a browser profile. `page` is
  App's state, `step` that of the step on screen, `fetch` the two reads of the server
  with what they have returned so far, `watch` the two callers of `confirmSpend`
  (the `authorize` that sent the spend, and *Check again*), `stored` the record in
  localStorage. Each await is a step boundary; a reload forgets a tab's state while
  its requests go on, a spend on its way to the node included (`adrift`). The service is summarised by what `DemoBackend` shows of it:
  one creation at a time, shared by requests with the same key, that may end well, in a retryable
  refusal, or be given up before or after an account exists.

* **AccountConfig**: `AccountStateConfig::encode`, check by check: which
  configurations become a first state and which state that is.
* **PasskeySpend**: the spend of the client from the account's creation to the
  submitted transaction. Init is what the server's configuration (or one given to
  the bootstrap command) becomes in `encode`. The client discovers the cells with
  three reads while the indexer lags and others rotate, spend and deposit; it
  reserves the fee with a placeholder witness, has the digest signed, swaps the
  witness in and submits. Sizes are in bytes as the code computes them; the lock's
  side is `AccountLock!Accepts`, with what verifier-p256 asks of the aux field.
* **ApiServer**: `createHttpServer` with bodies in chunks, the order of refusals,
  the shared creation, and `exportAccountState` with its temporary directory, each
  call of which may fail. What a creation does after the export is in DemoBackend.
* **PublicationPromise** and **Deploy**: the first says what publishing code cells
  promises of the manifest: after a rewriting it can be read again and every record is still
  there, or in its place that of a newer cell that has landed; a rewriting that is cut short loses
  all of them, and the manifest stays unreadable until somebody removes it. The second is
  `publishDeployment` and its manifest: plan, balance, then per artifact send, wait and read back,
  and at the end a write that truncates first (`Tear` empties `file`); with crashes, lost answers,
  rebuilt artifacts, reclaimed cells and a second invocation. One invocation at a time refines
  the promise: the reader's side of it is `file` and `torn`, what the next manifest retains is
  `Held`, the records in the file or, during the write, those the invocation read from it.
* **DeployedDemo** extends Deploy with the demo server and the client that read
  its manifest: the server reads it once and keeps one verification; a creation reads the
  lock from the file as it is then; the client opens an account with what the server shows.

Definitions that end in a lower-case suffix and are commented *Mutant* (such as
`RecoveryUnlocked_early`) are not used by any specification: each is a plausible
bug in the definition below it, and replacing that definition by it makes the property
named in `PROJECT.json` fail.

## 3. Runs

| Run | Checks | Instance | Distinct states |
|---|---|---|---|
| `chain` | `GuardedCellsSafe`, `StateEvolves`, `PolicySatisfiable`, `RecoveryDelayed` | two keys, five policies, sequence numbers 0..2, heights 0..2, up to three signatures, 19 transactions | about 207 000 |
| `lock_run` | `KeepsPromise`, `WeightOfVerifiedSet` | every operation; 19 states and successors, 7 transactions, 8 witnesses, about 170 proof lists | about 4 700 |
| `pipe` | `CallReturns`, `WeightOnlyForWholeRequest`, `ValidProofCounts`, `TypeOK` | four verifiers, request of 6 bytes with a header of 3 | about 1 000 |
| `backend` | `ManifestOnChain`, `AnswersOnChain`, `OneAccountUnlessLost`, `RequestsAnswered`, `TypeOK` | server and bootstrap command, two requests, two keys, two transactions, one crash | about 1 150 000 |
| `client` | `RightCredential`, `CommitmentIsTrue`, `CommitmentStays`, `SubmitsOnce`, `NothingSubmittedIsTrue`, `SpendableUnlessReplaced`, `AwaitsEnd`, `TypeOK` | two tabs, two passkeys, one reload | about 182 000 |
| `deploy` | `RecordsLanded`, `InvocationsEnd`, `TypeOK` | two invocations at a time, two artifacts, three cells | about 181 000 |
| `deployed_demo` | `KeepsPromise`, `OnlyIdentifiedBuildsLand`, `VerificationWasTrue`, `AnswersUnderVerifiedCode`, `DepsHoldAccountCode` | one invocation at a time, both artifacts rebuilt once, three cells, one server, one client | about 4 410 000 |
| `passkey_spend` | `FinalisedAccepted`, `DemoAccountSpendable`, `FeeCoversFinal`, `NeverOverReservation` | twelve configurations, capacities and assertion sizes on both sides of every bound, five outpoints | about 43 000 |
| `api` | `BufferBounded`, `CreationAskedFor`, `TempDirsAccounted`, `RequestsAnswered` | two connections, body limit 4, two directories, one crash | about 16 000 |
| `created_once` | violation of `AccountCreatedOnce` | one server, three requests | |
| `strands` | violation of `NoCapacityStranded` | as `client`, no reload | |
| `deploy_unrecorded` | violation of `VerifiedCellsRecorded` | one invocation at a time | |

*What they show.* `chain`: a cell under the account's lock leaves the live set only
by a transaction that consumes it and that authenticators of the state it was
committed against signed as that operation on that state, with the capability and
enough weight for a non-zero threshold; the state cell is never deleted, duplicated or spent by a
SPEND, its sequence number goes up by one; after a transition the lock would accept the proofs
of all authenticators, unless one has an aux field too long for a verifier request; a recovery
waits until the since its policy configures has matured, unless its own since is of a higher kind. `lock_run`: the order of checks and
early returns in `run()` makes no difference to what is accepted, and the weight it
adds up is that of a set of authenticators. `pipe`: no split of reads and writes
deadlocks, gives weight to a partial request, or turns a valid proof down.
`backend`: whatever the server and the command do to each other, what is recorded
and what is answered is on chain under the right key; each of them creates one account
as long as no creation is given up after a node accepted it; every caller is answered.
`client`: a page sends its spend once, whatever is clicked; it claims that nothing
was submitted, or that the spend is committed, only when that is so, and no refresh
takes a commitment off the screen; only the account's passkey spends, also when
tabs overwrite each other's record; unless that happens the passkey of an account is
never lost; every spinner stops. `deploy`, `deployed_demo`: the manifest only names
cells that landed and hold the identified build, and loses a record only together with the
whole file; a server whose manifest is
rewritten, and whose cells are reclaimed, under its cached verification still answers
only with accounts of the code it verified, and the client's cell deps hold the code
the account needs. `passkey_spend`: the digest made with the placeholder is the one
the lock computes; what the client finalises is accepted; configuration, encoder,
client and verifier agree on the profile, so that an account the server made is never
unspendable; fee and capacities hold at every bound. `api`: no more of a body than the
limit is kept, nobody who was refused causes a creation, every temporary directory that was
written into is removed except after a crash or a failed removal, every request is answered.

*Bounds.* Three signatures are enough for a joint spend (two) after a rotation
(one), or a joint rotation after one; the sequence bound 2 makes the account reach the
largest sequence number, where only a wrapping transaction is on offer. Heights 0..2
reach both sides of a `recovery_since` of two blocks and of one of a unit of median time after the
cell; `SINCE_METRIC = 4` leaves two bits for the value below the three flag bits of a since, and
`EpochSpan` forgets the upper one as the packing of an epoch's fraction may. The transactions include the variants
the lock has to tell apart: other recipient, state resolved twice, state consumed by a
spend, wrong sequence, unsatisfiable successor, successor with an oversized aux, foreign lock,
early and late since, since of another kind, deletion, and a transition that consumes an asset too. A request of twice the header
gives every split of header, body and end of stream. Two creation transactions and one crash are what a duplicate account needs.
Two tabs and two passkeys are what it takes for one to replace the other's record, a
reload to load it; both watchers of a receipt exist in a single tab.
Three code cells are a publication of two and one that replaces a record, or two
overlapping ones; one rebuild gives every artifact an old and a new identity. In
`passkey_spend` a CKB is 10^5 shannons, so that TLC's integers suffice; the proofs hold for 10^8.
A body limit of 4 leaves room for chunks that stay below, reach and pass it.
No run but `pipe` checks for deadlock: an account may rest, an execution or an
invocation ends, all requests may be answered, and a page may be left alone.

*Fairness.* `AccountLockRun`: the VM runs a script until it exits. `VerifierPipe`:
the scheduler resumes each VM that is not blocked; failures are possible but never
assumed. `DemoBackend`, `Deploy`, `DeployedDemo`: a running process carries on, since
every await ends, the longest by `waitTransaction`'s timeout; nothing is assumed of the chain or of crashes.
`DemoClient`: the service answers (that is `RequestsAnswered`), and calls of the
node, WebAuthn ceremonies and `waitTransaction` have time limits; the user, the
chain and broken connections owe nothing. `ApiServer`: a body arrives or Node's request timeout
cuts the connection, and the calls of the export end; for cargo that is an assumption, the
code sets no limit. `AccountChain` and `PasskeySpend` have no fairness and claim no liveness.

*Findings.* `created_once`: the endpoint is documented to create the account once, but
a creation whose confirmation is not seen in time (or whose process dies, or whose
answer is lost) leaves no record, and a retry creates a second account.
`strands`: the page says it cannot strand capacity, but a second tab's registration
replaces the record of the passkey for which the first tab then creates the account.
`deploy_unrecorded`: a partial failure is said to leave unambiguous outpoints for what
did land, but records are written only after the last cell, so a verified cell is in no file.

*Where the properties stop.* Some properties carry a condition because the code needs
it. The service looks for the manifest only before it sends the transaction and renames
over whatever another process recorded meanwhile, so `OneAccountUnlessLost` counts per
process and nothing says which record survives. A late timeout of the second watcher of a receipt
replaces a committed receipt until the user checks again (`CommitmentStays` excepts it).
A transition may install a policy with an aux field that `encode_request` always refuses:
`validate_state` does not look, and `PolicySatisfiable` excepts such policies. `RecoveryDelayed` excepts
a since of a higher kind than the configured one (a relative one against an absolute, epochs or
time against blocks), since the lock compares raw numbers and such a since may mature at once, and a
`recovery_since` in epochs, whose packed values do not compare as epochs do; `docs/THREAT_MODEL.md`
leaves the encoding to the wallet. What is left after the exceptions: a since of the same kind, or
of a lower one, never passes early.
A write of the deployment manifest that is cut short loses every record
(`KeepsPromise` says so, and that nothing else does).
Two overlapping publications each write the manifest they read at their start, so the
later one puts the record of the earlier back (`KeepsPromise` is for one at a time,
`RecordsLanded` for both). When the manifest is rewritten during a creation, the account is
created and recorded under the new lock and then refused
(`AnswersUnderVerifiedCode` is about answers). A chmod that fails leaves an empty temporary
directory, whose name `finally` has not learnt (`TempDirsAccounted` is about directories with something in them).
The server's strict schema refuses a manifest that `--all` has written. `encode` checks neither the
profile byte of a P-256 aux nor the aux of other algorithms, so a command-line configuration can pass
that its verifier always rejects; the client signs nothing for such an account (`FinalisedAccepted`).

## 4. Proofs

Each component has a module of proofs. Every theorem `Spec => []P` is reached the same
way: an inductive invariant that says what the code relies on between two steps, one
lemma per action (or group of actions) that keeps it, and a last step that reads P off it.
All hold for every value of the constants that the named assumptions admit; TLC evaluates the
assumptions of a module in every run that extends it.

**AccountChainProofs**, for every set of keys, slots, transactions, intents and
initial states and every bound, from `ChainConstants`, `ProtocolBounds` and `SinceBound`.
For `AllCommitsAuthorized` and `GuardedCellsAreSafe`,
`CommitAuthorized` is inductive together with `TypeOK`: signatures only accumulate, so the
step that matters is `Commit`. There the witness is the set of verified authenticators:
`DigestBinds` turns an accepted digest into a signature on exactly this intent,
`SlotsDistinct` carries the capability that the lock checked for a slot over to the
authenticator that was verified, and `ThresholdNonZero` uses `validate_state` and, for a
recovery, `validate_transition`. `OneStateCell`, `StateCellEvolves`,
`PolicyStaysSatisfiable`: `StateEvolves` is not inductive by itself; it needs
`AtMostOneState`, which the Type ID rule maintains. `Succession` then shows that a step
that removes a state cell under the lock is a transition of that cell. For
`PolicyStaysSatisfiable` the witness in which every holder has signed is run through the lock: each
slot finds its authenticator, each proof counts, so what is verified is all that `validate_state`
added up. `RecoveryIsDelayed` orders sinces by their flags and then by value and brings the lock's comparison
and the chain's rule together. Here the weight of a set is
left opaque: no proof depends on how it is added up.

**AccountLockRunProofs**, from `CasesTyped` (an execution's states and proofs are lists
with numbers where the code has numbers). `RunInv` says, for each check `run()` may stand
before, what the earlier ones have established. `RunImplementsPromise` is the safety half of
`KeepsPromise`: every step of `run()` is a stutter or the one decision that
`AccountLockPromise` allows. The work is in the loop over proofs: `run()` compares neighbouring
slots and adds weights as it goes, the promise speaks of a set of authenticators and of
the sum over it. `WeightCounted` is that the two sums agree. That a sum over a set grows by the
weight of a new member, and that slots which increase step by step are distinct, is shown
through a least counterexample (`LeastNumber`, from the well-foundedness of the naturals), since
the provers have no induction.

**PasskeySpendProofs**, for every size of a CKB, of the transaction, of the funder's lock
and of assertions, from `SpendConstants` and `ConfigsTyped`. `SpendInv` keeps that, from the
review on, the change is the capacity less the transfer and the fee of the placeholder, and
that the real witness is no longer than the placeholder (`WitnessFits`); with
`FeeMonotone` the fee suffices: `FeeCovers`, `ReservationHolds`. `FinalisedIsAccepted` needs
`AcceptInv`: what is at the recorded outpoint is the account's first state or nothing, so the
state the page read is the one the lock resolves, and the intent that was signed is the one the lock
computes from the finalised transaction. `DemoAccountIsSpendable` adds that outpoints are never reused,
so an account whose cells are still those of its creation was never touched and its index
is up to date; it is proved under `SmallSpend`, the two size conditions that make the server's
initial asset suffice (20 bytes of lock arguments where 59 would do, a transaction of under
4 kB where 26 CKB of fee would do).

**VerifierPipeProofs**, for every request longer than its header, from `PipeConstants`.
`PipeInv` counts bytes: what the child has read is what the parent knows to be written plus
what the write in progress has handed over, and the write end is closed only after the last byte.
A child that sees the end of the stream therefore has the whole request:
`WeightIsEarned`, `ValidProofIsCounted`, `PipeTypeSafety`.

**DemoBackendProofs**, for any number of requests, keys, transactions and crashes, with or
without the command, from `BackendConstants`. A creation that waits waits for a transaction of its
own process and key; maker and key of a transaction never change and what is on chain stays there
(`TxsStay`); requests that share a creation share its key. That gives `ManifestIsOnChain`
and `AnswersAreOnChain`. `OneAccountUnlessLost` is not inductive; `OneEach` adds that a
process about to send has no account, and that without a manifest the one it may have is the one
it waits for: `OneAccountEach`.

**DeployedDemoProofs**, for any number of invocations, builds and cells, from
`DeployConstants`. First Deploy: `DeployInv` says that plans hold identified builds only and that every
record, in the file or in the memory of an invocation, is of a landed cell
(`IdentifiedBuildsOnly`, `ManifestRecordsLanded`, `DeployTypeSafety`). With `OneAtATime` (at most one
tool, as in the run `deployed_demo`) `OnlyWriter` adds that what is held is still what the
invocation read, also while its own write has emptied the file, and that its cells are newer:
`OneToolKeepsPromise`, the refinement, with every loss of records mapped to `Lose`. Then the
demo on top (`DemoInv`): what the server read are records of landed cells, whose code never
changes; a cell that was gone stays gone, so no retry verifies it; an account is recorded only by a
creation that began without one, so none is replaced under an open page
(`VerifiedDeploymentWasLive`, `AnsweredAccountsFitDeployment`, `PageDepsHoldAccountCode`, and the
results about publishing again with the demo running).

**ApiServerProofs**, for any connections and requests, from `ApiConstants`. The limit is
compared with the sum before a chunk is kept (`BodiesBounded`); who waits for a creation leaves only
when it ends; every step of the export says whether its directory is there and has been
written into (`TempDirsAreAccounted`). `CreationWasAskedFor` also says that the whole body was within the
limit: `BodiesAdd` keeps that what is buffered is a prefix sum of the chunks, and prefix sums are
tied to the fold `BodySize` through a least counterexample again.

**DemoClientProofs**, for any number of tabs, passkeys and reloads, from `ClientConstants`.
`ClientInv` has one part per thing a tab relies on: which read of the server it waits for
(`Reads`), that a page ready to spend is about the recorded account (`Ready`), that a spend is
prepared only with its passkey (`Prepared`), that `sendTransaction` is behind every step from
which it could be called again (`Sent`), that a claimed commitment was made (`Confirmed`),
that a passkey is used only after it was saved (`SavedFirst`). From it: `PageSubmitsOnce`,
`NothingWasSubmitted`, `CommitmentsAreTrue`, `CredentialIsRight`, `CapacitySpendable`, `ClientTypeSafety`
and the action property `CommitmentsStay`.

**What the liveness properties rest on.** That something eventually happens is beyond the prover, but
the part of the argument that concerns the code is not: a measure in the natural numbers that
the steps of an actor lower and that nobody else raises. With the fairness of the specification (an
actor that can take a step takes one) it bounds the wait.

| theorem | measure | the run's property it supports |
|---|---|---|
| `CallRunsOut`, `NoMutualWaiting` | two steps for each byte still to be written, one for each still to be read; in no state do both VMs wait for the other (`ReadEndHeld`: who holds the read end) | `CallReturns` |
| `RunRunsOut` | checks before the exit, and the proofs not yet read | deciding, in the lock's `KeepsPromise` |
| `InvocationsRunOut` | three awaits for each cell still to be published, then the write | `InvocationsEnd` |
| `CreationsRunOut` | awaits of `bootstrap` and `bootstrapAccount`; who waits has a creation behind it | `RequestsAnswered` of DemoBackend |
| `RequestsRunOut` | chunks still to come and awaits after them; steps of the export; `NobodyForgotten` says who waits has a creation behind it | `RequestsAnswered` of ApiServer |

The first two bound every step of the specification. In the others many actors
share the state, so the theorem says two things: a step of the actor's own flow ends it or lowers its
measure, and any other step, of another invocation, request, process, the chain or a crash, leaves
it alone, ends it or lowers it. The client has no such measure: a person may cancel and authorize again
as often as they like, and `AwaitsEnd` is about single awaits.

*Only model-checked.* Liveness under fairness itself: `CallReturns`, `RequestsAnswered` (of
DemoBackend and of ApiServer), `AwaitsEnd`, `InvocationsEnd`, and the fairness half of the lock's
`KeepsPromise` (that `run()` does decide). That the actor whose measure is not yet zero has
a step enabled is ENABLED reasoning, which the prover lacks; TLC checks it within the same properties.
The three violated properties have counterexamples from TLC and nothing to prove.

## 5. What is left out

Cryptography (signatures are unforgeable records, hashes are injective), byte
layouts and cycle limits. A since has its flags and a value; that the chain refuses malformed
ones is left out. Which error a badly framed state is rejected with is
left open between those it can be. In `DemoClient` a browser
with WebAuthn is assumed, site data is not deleted by hand, nobody rotates the demo
account, and the chain does not reorganise; the record in localStorage is one that `savePasskeyRecord`
has validated, so `loadPasskeyRecord` never has to remove a malformed one. In `PasskeySpend` the browser
answers with the credential and the challenge it was asked for, flat client data, user presence and
verification set (`passkey.ts` asks for it) and a canonical DER signature. The client checks type, challenge
and origin of what comes back and verifier-p256 all of it; that the two agree on what else a browser
might send is not covered. The checks
`registerPasskey` makes of a new credential are not modelled. A creation whose transaction is rejected ends
at the rejection in `DemoBackend`, or at the timeout if the rejection is not seen.

Not modelled: the host examples (command-line wrappers without state), the contract tests and vectors, and the
real-testnet harness, which is test support.

## 6. Plan

1. Done: AccountProtocol, AccountLock, AccountChain; AccountLockRun against
   AccountLockPromise; VerifierPipe; DemoBackend; DemoClient; AccountConfig and
   PasskeySpend; ApiServer; Deploy against PublicationPromise; DeployedDemo.
2. Done: proofs of the safety properties of all of them, and of what the liveness properties of
   all but the client rest on.
3. Next: shorter proofs where a lemma that several of them repeat (sums over sets, records
   after EXCEPT) can be stated once.
4. If wanted later: the parsers inside each `verify`, the harness's archive and rollback,
   DemoClient composed with DemoBackend in place of its summary of the service.

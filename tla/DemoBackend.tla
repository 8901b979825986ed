---------------------------- MODULE DemoBackend ----------------------------
(***************************************************************************)
(* Account creation in the demo backend: the single-flight bootstrap of    *)
(* demo/src/server/service.ts, bootstrapAccount of tools/deploy, which     *)
(* broadcasts the creation transaction, waits for it and only then records *)
(* it in deploy/testnet-account.json, and the deploy tool's bootstrap      *)
(* command, a second process that runs the same function on the same file. *)
(* Every await is a point where requests, the chain, the other process or  *)
(* a crash may come in between.  Node, RPC and chain are external.         *)
(***************************************************************************)
EXTENDS Naturals, Sequences, FiniteSets

CONSTANTS
  Requests,    \* identities of POST /api/account/bootstrap requests
  PasskeyIds,  \* the public keys they carry
  Processes,   \* {"server"}, or {"server", "cli"} with the bootstrap command
  MaxTxs,      \* bound: creation transactions the nodes accept
  MaxCrashes   \* bound: crashes of processes

ASSUME BackendConstants ==
  /\ "server" \in Processes /\ Processes \subseteq {"server", "cli"}
  /\ MaxTxs \in Nat /\ MaxCrashes \in Nat

None == [step |-> "none"]
NoManifest == [tx |-> 0]

VARIABLES
  requests,   \* request -> [status, key, tx]: "unsent", "waiting", or how it was answered
  active,     \* process -> the account creation it is working on, or None
  verified,   \* deploymentVerification holds a verification that succeeded
  manifest,   \* deploy/testnet-account.json
  txs,        \* the creation transactions that nodes accepted: by whom, key and status
  crashes,    \* crashes so far
  lost        \* some process gave up on a transaction that a node had accepted

vars == <<requests, active, verified, manifest, txs, crashes, lost>>

Init ==
  /\ requests = [r \in Requests |-> [status |-> "unsent"]]
  /\ active = [p \in Processes |-> None]
  /\ verified = FALSE
  /\ manifest = NoManifest
  /\ txs = <<>>
  /\ crashes = 0
  /\ lost = FALSE

At(p, step) == active[p].step = step
Goto(p, step) == active' = [active EXCEPT ![p].step = step]

\* The creation of process p ends; all requests that share its promise are answered.
Settle(p, status, tx) ==
  /\ active' = [active EXCEPT ![p] = None]
  /\ requests' = IF p # "server" THEN requests
                 ELSE [r \in Requests |->
                         IF requests[r].status = "waiting"
                           THEN [status |-> status, key |-> requests[r].key, tx |-> tx]
                           ELSE requests[r]]

Fail(p, status) == Settle(p, status, 0)

(***************************************************************************)
(* service.bootstrap.                                                      *)
(***************************************************************************)
\* Mutant: any request joins.
OtherKeyActive_never(key) == FALSE

\* A request is refused while another key's creation runs.
OtherKeyActive(key) == active["server"] # None /\ active["server"].key # key

\* Mutant: no single flight; the last request's creation is the one kept track of.
Bootstrap_unshared(r, key) ==
  /\ requests[r].status = "unsent"
  /\ ~OtherKeyActive(key)
  /\ requests' = [requests EXCEPT ![r] = [status |-> "waiting", key |-> key]]
  /\ active' = [active EXCEPT !["server"] = [step |-> "verify", key |-> key, tx |-> 0]]
  /\ UNCHANGED <<verified, manifest, txs, crashes, lost>>

Bootstrap(r, key) ==
  /\ requests[r].status = "unsent"
  /\ \/ /\ OtherKeyActive(key)
        /\ requests' = [requests EXCEPT
                          ![r] = [status |-> "ACCOUNT_MISMATCH", key |-> key, tx |-> 0]]
        /\ UNCHANGED active
     \/ /\ ~OtherKeyActive(key)
        /\ requests' = [requests EXCEPT ![r] = [status |-> "waiting", key |-> key]]
        /\ active' = IF active["server"] # None THEN active
                     ELSE [active EXCEPT
                             !["server"] = [step |-> "verify", key |-> key, tx |-> 0]]
  /\ UNCHANGED <<verified, manifest, txs, crashes, lost>>

\* verifyDeployment: a success is kept, a failure is forgotten.
VerifyDeployment ==
  /\ At("server", "verify")
  /\ \/ verified' = TRUE /\ Goto("server", "export") /\ UNCHANGED requests
     \/ ~verified /\ Fail("server", "DEPLOYMENT_INVALID") /\ UNCHANGED verified
  /\ UNCHANGED <<manifest, txs, crashes, lost>>

\* exportState runs the Rust exporter in a child process.
ExportState ==
  /\ At("server", "export")
  /\ \/ Goto("server", "lookup") /\ UNCHANGED requests
     \/ Fail("server", "BOOTSTRAP_FAILED")
  /\ UNCHANGED <<verified, manifest, txs, crashes, lost>>

\* parseAccount refuses an account whose code is not that of the deployment this
\* server has read; DeployedDemo has the deployments.
LookUpAccount ==
  /\ At("server", "lookup")
  /\ \/ manifest = NoManifest /\ Goto("server", "balance") /\ UNCHANGED requests
     \/ manifest # NoManifest /\ Goto("server", "compare") /\ UNCHANGED requests
     \/ manifest # NoManifest /\ Fail("server", "ACCOUNT_MISMATCH")
  /\ UNCHANGED <<verified, manifest, txs, crashes, lost>>

\* The answer to a call that throws anything else than an ApiError.
RpcFailed == "INTERNAL_ERROR"

\* The recorded state cell must be live and hold the state this key exports.
ExistingMatches ==
  /\ txs[manifest.tx].status = "committed"
  /\ manifest.key = active["server"].key

CompareExisting ==
  /\ At("server", "compare")
  /\ \/ ExistingMatches /\ Settle("server", "ok", manifest.tx)
     \/ ~ExistingMatches /\ Fail("server", "ACCOUNT_MISMATCH")
     \/ Fail("server", RpcFailed)
  /\ UNCHANGED <<verified, manifest, txs, crashes, lost>>

CheckBalance ==
  /\ At("server", "balance")
  /\ \/ Goto("server", "check") /\ UNCHANGED requests
     \/ Fail("server", "INSUFFICIENT_BALANCE")
     \/ Fail("server", RpcFailed)
  /\ UNCHANGED <<verified, manifest, txs, crashes, lost>>

(***************************************************************************)
(* bootstrapAccount, in the server and in the bootstrap command.           *)
(***************************************************************************)
RunBootstrapCommand(key) ==
  /\ "cli" \in Processes
  /\ active["cli"] = None
  /\ active' = [active EXCEPT !["cli"] = [step |-> "check", key |-> key, tx |-> 0]]
  /\ UNCHANGED <<requests, verified, manifest, txs, crashes, lost>>

\* An existing manifest is refused before anything is built.
RefuseExisting(p) ==
  /\ At(p, "check")
  /\ \/ manifest = NoManifest /\ Goto(p, "send") /\ UNCHANGED requests
     \/ manifest # NoManifest /\ Fail(p, "BOOTSTRAP_FAILED")
  /\ UNCHANGED <<verified, manifest, txs, crashes, lost>>

Accepted(p) == Append(txs, [by |-> p, key |-> active[p].key, status |-> "pending"])

\* Mutant: the transaction's hash is not kept.
Send_without_hash(p) ==
  /\ At(p, "send") /\ Len(txs) < MaxTxs
  /\ txs' = Accepted(p)
  /\ Goto(p, "wait")
  /\ UNCHANGED <<requests, verified, manifest, crashes, lost>>

\* sendTransaction: accepted, refused (or the transaction could not be built), or
\* accepted with the answer lost.
Send(p) ==
  /\ At(p, "send") /\ Len(txs) < MaxTxs
  /\ txs' = Accepted(p)
  /\ active' = [active EXCEPT ![p].step = "wait", ![p].tx = Len(txs) + 1]
  /\ UNCHANGED <<requests, verified, manifest, crashes, lost>>

SendRefused(p) ==
  /\ At(p, "send")
  /\ Fail(p, "BOOTSTRAP_FAILED")
  /\ UNCHANGED <<verified, manifest, txs, crashes, lost>>

SendAnswerLost(p) ==
  /\ At(p, "send") /\ Len(txs) < MaxTxs
  /\ txs' = Accepted(p)
  /\ lost' = TRUE
  /\ Fail(p, "BOOTSTRAP_FAILED")
  /\ UNCHANGED <<verified, manifest, crashes>>

\* Mutant: no time limit.
WaitTimesOut_never(p) == FALSE

\* waitTransaction gives up after five minutes, whatever becomes of the transaction.
WaitTimesOut(p) ==
  /\ At(p, "wait")
  /\ lost' = TRUE
  /\ Fail(p, "CONFIRMATION_TIMEOUT")
  /\ UNCHANGED <<verified, manifest, txs, crashes>>

\* A rejection that waitTransaction is told of ends the wait with its error; one
\* that it misses ends in WaitTimesOut.
WaitRejected(p) ==
  /\ At(p, "wait") /\ txs[active[p].tx].status = "dropped"
  /\ Fail(p, "BOOTSTRAP_FAILED")
  /\ UNCHANGED <<verified, manifest, txs, crashes, lost>>

\* Mutant: recorded without waiting.
ReadyToRecord_early(p) == At(p, "wait")

ReadyToRecord(p) == At(p, "wait") /\ txs[active[p].tx].status = "committed"

\* Only a committed transaction is recorded: an atomic rename over the file.  The
\* service then compares the account with its deployment once more.
RecordManifest(p) ==
  /\ ReadyToRecord(p)
  /\ manifest' = [tx |-> active[p].tx, key |-> active[p].key]
  /\ \/ Settle(p, "ok", active[p].tx)
     \/ p = "server" /\ Fail(p, "ACCOUNT_MISMATCH")
  /\ UNCHANGED <<verified, txs, crashes, lost>>

\* Writing the temporary file or renaming it fails; no manifest is left behind.
RecordFails(p) ==
  /\ ReadyToRecord(p)
  /\ lost' = TRUE
  /\ Fail(p, "BOOTSTRAP_FAILED")
  /\ UNCHANGED <<verified, manifest, txs, crashes>>

BootstrapAccount(p) ==
  \/ RefuseExisting(p) \/ Send(p) \/ SendRefused(p) \/ SendAnswerLost(p)
  \/ WaitTimesOut(p) \/ WaitRejected(p) \/ RecordManifest(p) \/ RecordFails(p)

(***************************************************************************)
(* A process dies (the server is started again): its creation is forgotten *)
(* and its requests get no answer; the file and the chain stay.            *)
(***************************************************************************)
Crash(p) ==
  /\ crashes < MaxCrashes
  /\ crashes' = crashes + 1
  /\ verified' = (verified /\ p # "server")
  /\ lost' = (lost \/ At(p, "wait"))
  /\ Settle(p, "no answer", 0)
  /\ UNCHANGED <<manifest, txs>>

\* The chain decides about a transaction, also long after anyone waited for it;
\* a committed state cell may be consumed by a rotation.
ChainStep(i) ==
  /\ \E next \in (CASE txs[i].status = "pending"   -> {"committed", "dropped"}
                    [] txs[i].status = "committed" -> {"rotated"}
                    [] OTHER                       -> {}) :
        txs' = [txs EXCEPT ![i].status = next]
  /\ UNCHANGED <<requests, active, verified, manifest, crashes, lost>>

ServerFlow ==
  \/ VerifyDeployment \/ ExportState \/ LookUpAccount \/ CompareExisting \/ CheckBalance
  \/ BootstrapAccount("server")

CliFlow == "cli" \in Processes /\ BootstrapAccount("cli")

Next ==
  \/ \E r \in Requests, key \in PasskeyIds : Bootstrap(r, key)
  \/ ServerFlow
  \/ \E key \in PasskeyIds : RunBootstrapCommand(key)
  \/ CliFlow
  \/ \E p \in Processes : Crash(p)
  \/ \E i \in DOMAIN txs : ChainStep(i)

\* A running process carries on: each await ends, the longest by its timeout.
Spec == Init /\ [][Next]_vars /\ WF_vars(ServerFlow) /\ WF_vars(CliFlow)
-----------------------------------------------------------------------------
(***************************************************************************)
(* Properties.                                                             *)
(***************************************************************************)
Steps == {"verify", "export", "lookup", "compare", "balance", "check", "send", "wait"}
Refusals == {"ACCOUNT_MISMATCH", "DEPLOYMENT_INVALID", "BOOTSTRAP_FAILED",
             "INSUFFICIENT_BALANCE", "CONFIRMATION_TIMEOUT", RpcFailed, "no answer"}

\* Types; a creation that waits knows the transaction it waits for.
TypeOK ==
  /\ \A r \in Requests :
       requests[r] \in [status : {"unsent"}]
                 \cup [status : {"waiting"}, key : PasskeyIds]
                 \cup [status : Refusals \cup {"ok"}, key : PasskeyIds, tx : 0..MaxTxs]
  /\ active \in [Processes -> [step : Steps, key : PasskeyIds, tx : 0..MaxTxs] \cup {None}]
  /\ \A p \in Processes : At(p, "wait") => active[p].tx \in DOMAIN txs
  /\ verified \in BOOLEAN
  /\ manifest \in [tx : 1..MaxTxs, key : PasskeyIds] \cup {NoManifest}
  /\ txs \in Seq([by : Processes, key : PasskeyIds,
                 status : {"pending", "committed", "dropped", "rotated"}])
  /\ Len(txs) <= MaxTxs
  /\ crashes \in 0..MaxCrashes
  /\ lost \in BOOLEAN

\* The manifest records an account that exists on chain, under the key it was
\* made for, whatever crash, timeout or late commitment came before.
ManifestOnChain ==
  manifest # NoManifest =>
    /\ txs[manifest.tx].status \in {"committed", "rotated"}
    /\ txs[manifest.tx].key = manifest.key

\* An account a request was answered with is on chain and was made for the key of
\* that request, whichever process recorded an account in the meantime.
AnswersOnChain ==
  \A r \in Requests :
    requests[r].status = "ok" =>
      /\ txs[requests[r].tx].status \in {"committed", "rotated"}
      /\ txs[requests[r].tx].key = requests[r].key

\* The creation transactions of process p that may still be, or are, on chain.
AccountsOf(p) == {i \in DOMAIN txs : txs[i].by = p /\ txs[i].status # "dropped"}

\* As long as no creation was given up after a node had accepted it (timeout,
\* lost answer, failed write, crash while waiting), concurrent and repeated
\* requests make the server create at most one account, and repeated commands
\* make the tool create at most one: the single flight and the manifest work.
\* (The server and the tool may each create one: nothing locks the file.)
OneAccountUnlessLost == lost \/ \A p \in Processes : Cardinality(AccountsOf(p)) <= 1

\* Every request is answered, or its server dies.
RequestsAnswered ==
  \A r \in Requests : (requests[r].status = "waiting") ~> (requests[r].status # "waiting")

\* "creates the account once or returns the matching existing account": no two
\* creation transactions are ever committed.
AccountCreatedOnce ==
  Cardinality({i \in DOMAIN txs : txs[i].status \in {"committed", "rotated"}}) <= 1
=============================================================================

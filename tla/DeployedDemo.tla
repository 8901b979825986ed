---------------------------- MODULE DeployedDemo ----------------------------
(***************************************************************************)
(* The deploy tool beside a running demo: the server reads the manifest    *)
(* once, at its start, verifies the code cells it names once, one await    *)
(* per cell, and keeps the result; creating an account takes the verifier  *)
(* from what the server read and the lock from the manifest as it is then; *)
(* the client opens an account under what the server shows it.  Meanwhile  *)
(* Deploy republishes cells and rewrites the manifest.  What else can      *)
(* happen to a creation is in DemoBackend.                                 *)
(***************************************************************************)
EXTENDS Deploy, FiniteSets

VARIABLES
  server,    \* the demo server, or Down
  creation,  \* the account creation under way, or NoCreation
  account,   \* the account deploy/testnet-account.json names: the code it needs
  answer,    \* this server's answer to the last bootstrap request
  page       \* the spend the client has open, or NoPage

demoVars == <<server, creation, account, answer, page>>
allVars == <<vars, demoVars>>

Down == [verification |-> "down"]
NoCreation == [step |-> "none"]
NoAccount == [lock |-> 0, verifier |-> 0]
NoPage == [open |-> FALSE]
Required == {PHASED_P256_ARTIFACTS[i] : i \in 1..2}

DemoInit ==
  /\ Init
  /\ server = Down /\ creation = NoCreation /\ account = NoAccount
  /\ answer = "none" /\ page = NoPage

Running == server # Down
Hash(deployment, name) == deployment[name].dataHash
Live(record) == cells[record.cell].status = "live"

\* The strict schema: these two artifacts and no others.
DeploymentManifestSchema(manifest) == DOMAIN manifest = Required

\* dead, a history variable: the recorded cells that are gone already.
StartServer ==
  /\ server = Down
  /\ ~torn /\ DeploymentManifestSchema(file)
  /\ server' = [verification |-> "none", checked |-> 0, deployment |-> file,
                dead |-> {n \in Required : ~Live(file[n])}]
  /\ UNCHANGED <<creation, account, answer, page>>

StopServer ==
  /\ Running
  /\ server' = Down /\ creation' = NoCreation /\ answer' = "none"
  /\ UNCHANGED <<account, page>>

(***************************************************************************)
(* verifyDeployment: callers share the promise; a failure is forgotten.    *)
(***************************************************************************)
Answered(status) ==
  /\ creation' = NoCreation
  /\ answer' = status

Verifying ==
  IF server.verification = "none"
    THEN server' = [server EXCEPT !.verification = "running", !.checked = 0]
    ELSE UNCHANGED server

AskStatus ==
  /\ Running /\ server.verification = "none"
  /\ Verifying
  /\ UNCHANGED <<creation, account, answer, page>>

NextRecord == server.deployment[PHASED_P256_ARTIFACTS[server.checked + 1]]

CellVerified ==
  /\ Live(NextRecord)
  /\ cells[NextRecord.cell].data = NextRecord.dataHash

VerifyCell ==
  /\ Running /\ server.verification = "running" /\ CellVerified
  /\ server' = [server EXCEPT
                  !.checked = @ + 1,
                  !.verification = IF server.checked + 1 = Cardinality(Required)
                                     THEN "done" ELSE "running"]
  /\ UNCHANGED <<creation, account, answer, page>>

\* Mutant: the cached promise swallows the failure.
VerifyFails_swallowed ==
  /\ Running /\ server.verification = "running"
  /\ server' = [server EXCEPT !.verification = "done"]
  /\ UNCHANGED <<creation, account, answer, page>>

\* The cell is gone or another, or the node does not answer.
VerifyFails ==
  /\ Running /\ server.verification = "running"
  /\ server' = [server EXCEPT !.verification = "none"]
  /\ IF creation.step = "verify" THEN Answered("DEPLOYMENT_INVALID")
                                 ELSE UNCHANGED <<creation, answer>>
  /\ UNCHANGED <<account, page>>

(***************************************************************************)
(* Creating the account.                                                   *)
(***************************************************************************)
Bootstrap ==
  /\ Running /\ creation = NoCreation
  /\ Verifying
  /\ creation' = [step |-> "verify"] /\ answer' = "none"
  /\ UNCHANGED <<account, page>>

\* Mutant: the lock's code hash is not compared.
parseAccount_any(a, deployment) == TRUE

parseAccount(a, deployment) == a.lock = Hash(deployment, "account_lock")

\* accountConfiguration: the exported state names the verifier the server read.
\* An existing account is the answer only if it is in that state.
ExportState ==
  /\ creation.step = "verify" /\ server.verification = "done"
  /\ LET verifier == Hash(server.deployment, "verifier_p256")
     IN IF account = NoAccount
          THEN /\ creation' = [step |-> "build", verifier |-> verifier]
               /\ UNCHANGED answer
          ELSE Answered(IF /\ parseAccount(account, server.deployment)
                           /\ account.verifier = verifier
                          THEN "ok" ELSE "ACCOUNT_MISMATCH")
  /\ UNCHANGED <<server, account, page>>

\* accountLockCodeHash of bootstrapAccount reads the manifest again.
BuildAccount ==
  /\ creation.step = "build"
  /\ ~torn /\ "account_lock" \in DOMAIN file
  /\ creation' = [step     |-> "wait",
                  verifier |-> creation.verifier,
                  lock     |-> Hash(file, "account_lock")]
  /\ UNCHANGED <<server, account, answer, page>>

\* Committed and recorded; only then is it compared with what the server read.
RecordAccount ==
  /\ creation.step = "wait"
  /\ account' = [lock |-> creation.lock, verifier |-> creation.verifier]
  /\ Answered(IF parseAccount(account', server.deployment) THEN "ok"
                                                           ELSE "ACCOUNT_MISMATCH")
  /\ UNCHANGED <<server, page>>

CreationFails ==
  /\ \/ creation.step \in {"build", "wait"}
     \/ creation.step = "verify" /\ server.verification = "done"
  /\ Answered("BOOTSTRAP_FAILED")
  /\ UNCHANGED <<server, account, page>>

(***************************************************************************)
(* The client: status, validateDeployment, validateAccount, prepareSpend.  *)
(***************************************************************************)
validateAccount(a, deployment) == a.lock = Hash(deployment, "account_lock")

\* Mutant: the verifier of the state is not compared.
parseAccountState_any(a, deployment) == TRUE

parseAccountState(a, deployment) == a.verifier = Hash(deployment, "verifier_p256")

OpenSpend ==
  /\ Running /\ server.verification = "done" /\ account # NoAccount
  /\ parseAccount(account, server.deployment)
  /\ DeploymentManifestSchema(server.deployment)
  /\ validateAccount(account, server.deployment)
  /\ parseAccountState(account, server.deployment)
  /\ page' = [open |-> TRUE, deps |-> server.deployment]
  /\ UNCHANGED <<server, creation, account, answer>>

ServerWork ==
  \/ VerifyCell \/ VerifyFails \/ ExportState \/ BuildAccount \/ RecordAccount
  \/ CreationFails

DemoStep == StartServer \/ StopServer \/ AskStatus \/ Bootstrap \/ ServerWork \/ OpenSpend

DemoNext ==
  \/ Next /\ UNCHANGED demoVars
  \/ DemoStep /\ UNCHANGED vars

\* A running server carries on: every await ends.
DemoSpec ==
  DemoInit /\ [][DemoNext]_allVars /\ WF_allVars(ServerWork /\ UNCHANGED vars)
-----------------------------------------------------------------------------
(***************************************************************************)
(* Properties.                                                             *)
(***************************************************************************)
\* A server that says its deployment is verified read a manifest whose cells were
\* all there when it started, however often verification failed or was retried.
VerificationWasTrue == Running /\ server.verification = "done" => server.dead = {}

\* An account the service answers with needs exactly the code of the deployment
\* that service verified, whatever was published and recorded in the meantime.
AnswersUnderVerifiedCode ==
  [][creation # NoCreation /\ creation' = NoCreation /\ Running' /\ answer' = "ok" =>
       account' = [lock     |-> Hash(server.deployment, "account_lock"),
                   verifier |-> Hash(server.deployment, "verifier_p256")]]_allVars

\* The cell deps of a spend the client offers for signing hold the lock and the
\* verifier the account needs (the chain may since have seen them consumed).
DepsHoldAccountCode ==
  page.open =>
    \A n \in Required :
      /\ cells[page.deps[n].cell].name = n
      /\ cells[page.deps[n].cell].data =
           IF n = "account_lock" THEN account.lock ELSE account.verifier
=============================================================================

----------------------------- MODULE DemoClient -----------------------------
(***************************************************************************)
(* The demo's browser client: the wizard of App.tsx with its passkey,      *)
(* bootstrap and spend steps and its receipt, open in one or more tabs of  *)
(* one browser profile, which share localStorage.  Every await is a step   *)
(* of its own, so answers of the server, the node and the authenticator    *)
(* come at any time, also after another tab has acted; a reload forgets    *)
(* everything but localStorage while requests already sent go on.          *)
(*                                                                         *)
(* An account is identified with the key it was made for, and its fixed    *)
(* spend is one transaction: prepareSpend builds the same raw transaction  *)
(* from the same cells.  The service is what DemoBackend shows of it, the  *)
(* node and the authenticator are external.  The browser has WebAuthn.     *)
(***************************************************************************)
EXTENDS Naturals

CONSTANTS
  Tabs,        \* pages of the demo that are open
  Keys,        \* passkeys the authenticator can come up with
  MaxReloads   \* bound: page reloads

None == "none"
ASSUME ClientConstants == None \notin Keys /\ MaxReloads \in Nat

Watchers == {"authorize", "checkAgain"}   \* the two callers of confirmSpend

VARIABLES
  page,        \* tab -> App's state: stage, account and passkey
  step,        \* tab -> state of the step component that is mounted
  fetch,       \* tab -> the reads of /api/status and /api/account under way
  receipt,     \* tab -> internalReceipt
  watch,       \* tab -> watcher -> where its confirmSpend is
  refreshed,   \* tab -> reconciledCommit is set
  sends,       \* tab -> calls of sendTransaction since the page was loaded
  stored,      \* the passkey record in localStorage
  credentials, \* passkeys registered so far
  manifest,    \* the account on record at the server
  creating,    \* the account creation the server is working on
  funded,      \* keys of the accounts that are on chain
  spend,       \* the spend of the recorded account: none, pool, committed
  signer,      \* the passkey that authorized it
  adrift,      \* passkeys of spends on their way to the node from a page that was left
  reloads

tabVars    == <<page, step, fetch, receipt, watch, refreshed, sends>>
serverVars == <<manifest, creating, funded>>
chainVars  == <<spend, signer, adrift>>
vars == <<tabVars, stored, credentials, serverVars, chainVars, reloads>>

Unread == "unread"
Unverified == "unverified"   \* the deployment, or a manifest that does not belong to it
Idle == [for |-> "nothing"]

\* Promise.all([api.status(), api.account()]), for whom, with which passkey.
Fetching(for, passkey) ==
  [for |-> for, passkey |-> passkey, status |-> Unread, account |-> Unread]

Page(stage, account, passkey) == [stage |-> stage, account |-> account, passkey |-> passkey]
Loading == Page("loading", None, None)
Blocked == Page("blocked", None, None)

Init ==
  /\ page = [t \in Tabs |-> Loading]
  /\ step = [t \in Tabs |-> "ready"]
  /\ fetch = [t \in Tabs |-> Fetching("load", None)]
  /\ receipt = [t \in Tabs |-> None]
  /\ watch = [t \in Tabs |-> [w \in Watchers |-> "idle"]]
  /\ refreshed = [t \in Tabs |-> FALSE]
  /\ sends = [t \in Tabs |-> 0]
  /\ stored = None /\ credentials = {}
  /\ manifest = None /\ creating = None /\ funded = {}
  /\ spend = "none" /\ signer = None /\ adrift = {}
  /\ reloads = 0

(***************************************************************************)
(* App: reconcile, withReceipt and the reads of the server.                *)
(***************************************************************************)
\* Mutant: an account without local passkey metadata starts over.
reconcile_replacement(status, account, passkey) ==
  IF status = Unverified \/ status # account THEN Blocked
  ELSE IF passkey = None THEN Page("needs-passkey", account, None)
  ELSE IF account = None THEN Page("needs-account", None, passkey)
  ELSE Page("ready-to-spend", account, passkey)

reconcile(status, account, passkey) ==
  IF \/ status = Unverified
     \/ status # account
     \/ account # None /\ passkey = None
    THEN Blocked
  ELSE IF passkey = None THEN Page("needs-passkey", None, None)
  ELSE IF account = None THEN Page("needs-account", None, passkey)
  ELSE Page("ready-to-spend", account, passkey)

\* withReceipt: what is on screen.
Displayed(t) ==
  IF receipt[t] = None \/ page[t].stage \in {"loading", "blocked"} THEN page[t].stage
  ELSE IF page[t].stage # "ready-to-spend" THEN "blocked"
  ELSE IF receipt[t] = "committed" THEN "committed" ELSE "submitted"

\* A new state mounts the component of its stage.
SetState(t, next) ==
  /\ page' = [page EXCEPT ![t] = next]
  /\ step' = [step EXCEPT ![t] = IF next.stage = "ready-to-spend" THEN "preparing"
                                                                  ELSE "ready"]

ReadStatus(t) ==
  /\ fetch[t] # Idle /\ fetch[t].status = Unread
  /\ \E status \in {manifest, Unverified} : fetch' = [fetch EXCEPT ![t].status = status]
  /\ UNCHANGED <<page, step, receipt, watch, refreshed, sends, stored, credentials,
                 serverVars, chainVars, reloads>>

ReadAccount(t) ==
  /\ fetch[t] # Idle /\ fetch[t].account = Unread
  /\ fetch' = [fetch EXCEPT ![t].account = manifest]
  /\ UNCHANGED <<page, step, receipt, watch, refreshed, sends, stored, credentials,
                 serverVars, chainVars, reloads>>

\* After a commitment the receipt stays on screen, and a blocked outcome is only
\* reported beside it.
Reconciled(t) ==
  /\ fetch[t] # Idle /\ fetch[t].status # Unread /\ fetch[t].account # Unread
  /\ LET next == reconcile(fetch[t].status, fetch[t].account, fetch[t].passkey) IN
     IF fetch[t].for = "commit"
       THEN /\ page' = IF next.stage = "blocked" THEN page ELSE [page EXCEPT ![t] = next]
            /\ UNCHANGED step
       ELSE SetState(t, next)
  /\ fetch' = [fetch EXCEPT ![t] = Idle]
  /\ UNCHANGED <<receipt, watch, refreshed, sends, stored, credentials, serverVars,
                 chainVars, reloads>>

\* Mutant: a failed read blocks the page also after a commitment.
FetchFails_blocks(t) ==
  /\ fetch[t] # Idle
  /\ SetState(t, Blocked)
  /\ fetch' = [fetch EXCEPT ![t] = Idle]
  /\ UNCHANGED <<receipt, watch, refreshed, sends, stored, credentials, serverVars,
                 chainVars, reloads>>

FetchFails(t) ==
  /\ fetch[t] # Idle
  /\ IF fetch[t].for = "commit" THEN UNCHANGED <<page, step>> ELSE SetState(t, Blocked)
  /\ fetch' = [fetch EXCEPT ![t] = Idle]
  /\ UNCHANGED <<receipt, watch, refreshed, sends, stored, credentials, serverVars,
                 chainVars, reloads>>

ServerAnswers(t) == ReadStatus(t) \/ ReadAccount(t) \/ Reconciled(t)

At(t, stage, steps) == Displayed(t) = stage /\ step[t] \in steps
Goto(t, next) == step' = [step EXCEPT ![t] = next]

(***************************************************************************)
(* PasskeyStep.                                                            *)
(***************************************************************************)
CreatePasskey(t) ==
  /\ At(t, "needs-passkey", {"ready", "cancelled"})
  /\ Goto(t, "pending")
  /\ UNCHANGED <<page, fetch, receipt, watch, refreshed, sends, stored, credentials,
                 serverVars, chainVars, reloads>>

\* Mutant: the record is not saved.
PasskeyRegistered_unsaved(t) ==
  /\ At(t, "needs-passkey", {"pending"})
  /\ \E k \in Keys \ credentials :
       /\ credentials' = credentials \cup {k}
       /\ SetState(t, Page("needs-account", None, k))
       /\ UNCHANGED stored
  /\ UNCHANGED <<fetch, receipt, watch, refreshed, sends, serverVars, chainVars, reloads>>

\* The record is saved before anything is made of it; saving or validating it may fail.
PasskeyRegistered(t) ==
  /\ At(t, "needs-passkey", {"pending"})
  /\ \E k \in Keys \ credentials :
       /\ credentials' = credentials \cup {k}
       /\ \/ stored' = k /\ SetState(t, Page("needs-account", None, k))
          \/ Goto(t, "blocked") /\ UNCHANGED <<page, stored>>
  /\ UNCHANGED <<fetch, receipt, watch, refreshed, sends, serverVars, chainVars, reloads>>

PasskeyRefused(t) ==
  /\ At(t, "needs-passkey", {"pending"})
  /\ Goto(t, "cancelled") \/ Goto(t, "blocked")
  /\ UNCHANGED <<page, fetch, receipt, watch, refreshed, sends, stored, credentials,
                 serverVars, chainVars, reloads>>

(***************************************************************************)
(* BootstrapStep and, as it sees it, the service.                          *)
(***************************************************************************)
\* "retry" is the error that does not block: INSUFFICIENT_BALANCE.
CreateAccount(t) ==
  /\ At(t, "needs-account", {"ready", "retry"})
  /\ IF creating \in {None, page[t].passkey}
       THEN Goto(t, "pending") /\ creating' = page[t].passkey
       ELSE Goto(t, "blocked") /\ UNCHANGED creating      \* ACCOUNT_MISMATCH
  /\ UNCHANGED <<page, fetch, receipt, watch, refreshed, sends, stored, credentials,
                 manifest, funded, chainVars, reloads>>

\* The tabs whose request the creation answers; success reads the server again.
Waiting == {t \in Tabs : At(t, "needs-account", {"pending"}) /\ page[t].passkey = creating}
Answer(outcome) ==
  /\ step' = [t \in Tabs |-> IF t \in Waiting THEN outcome ELSE step[t]]
  /\ fetch' = [t \in Tabs |-> IF t \in Waiting /\ outcome = "success"
                                THEN Fetching("created", page[t].passkey) ELSE fetch[t]]
  /\ creating' = None

CreationEnds ==
  /\ creating # None
  /\ \/ /\ manifest = None
        /\ manifest' = creating /\ funded' = funded \cup {creating}
        /\ Answer("success")
     \/ manifest = None /\ Answer("retry") /\ UNCHANGED <<manifest, funded>>
     \/ manifest = creating /\ Answer("success") /\ UNCHANGED <<manifest, funded>>
     \/ /\ manifest = None                            \* given up after broadcasting
        /\ funded' = funded \cup {creating} /\ UNCHANGED manifest
        /\ Answer("blocked")
     \/ Answer("blocked") /\ UNCHANGED <<manifest, funded>>
  /\ UNCHANGED <<page, receipt, watch, refreshed, sends, stored, credentials, chainVars,
                 reloads>>

\* API_UNAVAILABLE: the outcome is unknown, the server carries on.
ConnectionLost(t) ==
  /\ At(t, "needs-account", {"pending"})
  /\ Goto(t, "blocked")
  /\ UNCHANGED <<page, fetch, receipt, watch, refreshed, sends, stored, credentials,
                 serverVars, chainVars, reloads>>

(***************************************************************************)
(* SpendStep: prepareSpend, authorize.                                     *)
(***************************************************************************)
\* Mutant: any passkey will do.
Spendable_any_passkey(t) == spend # "committed"

\* The asset of the manifest is live and the live state names this passkey.
Spendable(t) == spend # "committed" /\ page[t].passkey = page[t].account

Prepare(t) ==
  /\ At(t, "ready-to-spend", {"preparing"})
  /\ \/ Spendable(t) /\ Goto(t, "ready")
     \/ Goto(t, "blocked")
  /\ UNCHANGED <<page, fetch, receipt, watch, refreshed, sends, stored, credentials,
                 serverVars, chainVars, reloads>>

\* Mutant: neither the lock nor the state keeps a second authorization out.
MayAuthorize_again(t) == At(t, "ready-to-spend", {"ready", "submitting", "sent", "blocked"})

MayAuthorize(t) == At(t, "ready-to-spend", {"ready"})

Authorize(t) ==
  /\ MayAuthorize(t)
  /\ Goto(t, "authorizing")
  /\ UNCHANGED <<page, fetch, receipt, watch, refreshed, sends, stored, credentials,
                 serverVars, chainVars, reloads>>

\* The assertion is valid: finalizeSpend and the call of sendTransaction.
Asserted(t) ==
  /\ At(t, "ready-to-spend", {"authorizing"})
  /\ Goto(t, "submitting")
  /\ sends' = [sends EXCEPT ![t] = @ + 1]
  /\ UNCHANGED <<page, fetch, receipt, watch, refreshed, stored, credentials,
                 serverVars, chainVars, reloads>>

\* Cancelled, another credential, or any other failure.
NotAsserted(t) ==
  /\ At(t, "ready-to-spend", {"authorizing"})
  /\ Goto(t, "ready") \/ Goto(t, "nothing submitted") \/ Goto(t, "blocked")
  /\ UNCHANGED <<page, fetch, receipt, watch, refreshed, sends, stored, credentials,
                 serverVars, chainVars, reloads>>

\* The node takes the transaction, or knows it already.
NodeAccepts(t) ==
  /\ At(t, "ready-to-spend", {"submitting"})
  /\ spend \in {"none", "pool"}
  /\ spend' = "pool" /\ signer' = page[t].passkey
  /\ Goto(t, "sent")
  /\ UNCHANGED <<page, fetch, receipt, watch, refreshed, sends, stored, credentials,
                 serverVars, adrift, reloads>>

\* Mutant: a failed submission is reported as if nothing had been sent.
FailedSend_nothing(t) == Goto(t, "nothing submitted")

FailedSend(t) == Goto(t, "blocked")

\* The node refuses, or its answer is lost.
SendFails(t) ==
  /\ At(t, "ready-to-spend", {"submitting", "sent"})
  /\ FailedSend(t)
  /\ UNCHANGED <<page, fetch, receipt, watch, refreshed, sends, stored, credentials,
                 serverVars, chainVars, reloads>>

\* handleSpendReceipt: the first commitment reads the server again.
HandleReceipt(t, status) ==
  /\ receipt' = [receipt EXCEPT ![t] = status]
  /\ IF status = "committed" /\ ~refreshed[t] /\ page[t].stage = "ready-to-spend"
       THEN /\ refreshed' = [refreshed EXCEPT ![t] = TRUE]
            /\ fetch' = [fetch EXCEPT ![t] = Fetching("commit", page[t].passkey)]
       ELSE UNCHANGED <<refreshed, fetch>>

\* The receipt replaces the spend step, whose authorize goes on to confirm.
Submitted(t) ==
  /\ At(t, "ready-to-spend", {"sent"})
  /\ HandleReceipt(t, "submitted")
  /\ watch' = [watch EXCEPT ![t]["authorize"] = "waiting"]
  /\ Goto(t, "submitted")
  /\ UNCHANGED <<page, sends, stored, credentials, serverVars, chainVars, reloads>>

(***************************************************************************)
(* Receipt and confirmSpend.                                               *)
(***************************************************************************)
CheckAgain(t) ==
  /\ Displayed(t) = "submitted"
  /\ watch[t]["checkAgain"] = "idle"
  /\ watch' = [watch EXCEPT ![t]["checkAgain"] = "waiting"]
  /\ UNCHANGED <<page, step, fetch, receipt, refreshed, sends, stored, credentials,
                 serverVars, chainVars, reloads>>

\* Mutant: any answer of the node will do.
SeenCommitted_any(t) == TRUE

SeenCommitted(t) == spend = "committed"

WaitEnds(t, w) ==
  /\ watch[t][w] = "waiting" /\ SeenCommitted(t)
  /\ watch' = [watch EXCEPT ![t][w] = "verifying"]
  /\ UNCHANGED <<page, step, fetch, receipt, refreshed, sends, stored, credentials,
                 serverVars, chainVars, reloads>>

\* Mutant: no time limit.
WaitTimesOut_never(t, w) == FALSE

\* waitTransaction gives up after its last poll came back, which may be answered
\* from before a commitment that the other watcher has already seen.
WaitTimesOut(t, w) ==
  /\ watch[t][w] = "waiting"
  /\ HandleReceipt(t, "confirmation_timeout")
  /\ watch' = [watch EXCEPT ![t][w] = "idle"]
  /\ UNCHANGED <<page, step, sends, stored, credentials, serverVars, chainVars, reloads>>

\* The change cell is live and as announced.
ChangeVerified(t, w) ==
  /\ watch[t][w] = "verifying"
  /\ HandleReceipt(t, "committed")
  /\ watch' = [watch EXCEPT ![t][w] = "idle"]
  /\ UNCHANGED <<page, step, sends, stored, credentials, serverVars, chainVars, reloads>>

\* Any other error leaves the receipt as it is.
ConfirmFails(t, w) ==
  /\ watch[t][w] # "idle"
  /\ watch' = [watch EXCEPT ![t][w] = "idle"]
  /\ UNCHANGED <<page, step, fetch, receipt, refreshed, sends, stored, credentials,
                 serverVars, chainVars, reloads>>

Confirm(t, w) == WaitEnds(t, w) \/ WaitTimesOut(t, w) \/ ChangeVerified(t, w)

(***************************************************************************)
(* The chain, and the user leaving the page.                               *)
(***************************************************************************)
SpendDecided ==
  /\ spend = "pool"
  /\ spend' = "committed" \/ spend' = "none"
  /\ signer' = IF spend' = "none" THEN None ELSE signer
  /\ UNCHANGED <<tabVars, stored, credentials, serverVars, adrift, reloads>>

\* The node takes a transaction whose page no longer waits for the answer.
NodeAcceptsLate(k) ==
  /\ adrift' = adrift \ {k}
  /\ spend \in {"none", "pool"}
  /\ spend' = "pool" /\ signer' = k
  /\ UNCHANGED <<tabVars, stored, credentials, serverVars, reloads>>

\* main.tsx passes no receipt: a fresh page knows only localStorage, whose record is
\* one that savePasskeyRecord has validated.  A transaction on its way to the node
\* stays on its way.
Reload(t) ==
  /\ reloads < MaxReloads
  /\ reloads' = reloads + 1
  /\ page' = [page EXCEPT ![t] = Loading]
  /\ step' = [step EXCEPT ![t] = "ready"]
  /\ fetch' = [fetch EXCEPT ![t] = Fetching("load", stored)]
  /\ receipt' = [receipt EXCEPT ![t] = None]
  /\ watch' = [watch EXCEPT ![t] = [w \in Watchers |-> "idle"]]
  /\ refreshed' = [refreshed EXCEPT ![t] = FALSE]
  /\ sends' = [sends EXCEPT ![t] = 0]
  /\ adrift' = IF At(t, "ready-to-spend", {"submitting"}) THEN adrift \cup {page[t].passkey}
                                                          ELSE adrift
  /\ UNCHANGED <<stored, credentials, serverVars, spend, signer>>

\* What ends an await of the step on screen.
StepEnds(t) ==
  \/ PasskeyRegistered(t) \/ PasskeyRefused(t)
  \/ Prepare(t) \/ Asserted(t) \/ NotAsserted(t)
  \/ NodeAccepts(t) \/ SendFails(t) \/ Submitted(t)

User(t) ==
  CreatePasskey(t) \/ CreateAccount(t) \/ Authorize(t) \/ CheckAgain(t) \/ Reload(t)

Next ==
  \/ \E t \in Tabs :
       \/ User(t) \/ ServerAnswers(t) \/ StepEnds(t) \/ FetchFails(t) \/ ConnectionLost(t)
       \/ \E w \in Watchers : Confirm(t, w) \/ ConfirmFails(t, w)
  \/ CreationEnds
  \/ SpendDecided
  \/ \E k \in adrift : NodeAcceptsLate(k)

\* The user and the chain owe nothing, and no progress comes from a broken
\* connection.  The service answers every request (DemoBackend), the node's answer
\* and the authenticator's ceremony have time limits, and so has waitTransaction.
Spec ==
  /\ Init /\ [][Next]_vars
  /\ \A t \in Tabs :
       /\ WF_vars(ServerAnswers(t)) /\ WF_vars(StepEnds(t))
       /\ \A w \in Watchers : WF_vars(Confirm(t, w))
  /\ WF_vars(CreationEnds)
-----------------------------------------------------------------------------
(***************************************************************************)
(* Properties.                                                             *)
(***************************************************************************)
Accounts == Keys \cup {None}
Stages == {"loading", "needs-passkey", "needs-account", "ready-to-spend", "blocked"}
Awaiting == {"pending", "preparing", "authorizing", "submitting", "sent"}

\* Types; only a page ready to spend has an account.
TypeOK ==
  /\ page \in [Tabs -> [stage : Stages, account : Accounts, passkey : Accounts]]
  /\ \A t \in Tabs : (page[t].account # None) = (page[t].stage = "ready-to-spend")
  /\ step \in [Tabs -> Awaiting \cup {"ready", "cancelled", "blocked", "success", "retry",
                                      "nothing submitted", "submitted"}]
  /\ \A t \in Tabs :
       fetch[t] \in [for : {"load", "created", "commit"}, passkey : Accounts,
                     status : Accounts \cup {Unread, Unverified},
                     account : Accounts \cup {Unread}] \cup {Idle}
  /\ receipt \in [Tabs -> {None, "submitted", "confirmation_timeout", "committed"}]
  /\ watch \in [Tabs -> [Watchers -> {"idle", "waiting", "verifying"}]]
  /\ refreshed \in [Tabs -> BOOLEAN]
  /\ sends \in [Tabs -> Nat]
  /\ stored \in Accounts /\ credentials \subseteq Keys
  /\ manifest \in Accounts /\ creating \in Accounts /\ funded \subseteq Keys
  /\ spend \in {"none", "pool", "committed"} /\ signer \in Accounts
  /\ adrift \subseteq Keys /\ reloads \in 0..MaxReloads

\* "Submitting the authorized transaction exactly once": a page calls
\* sendTransaction at most once, however often the user clicks and cancels.
SubmitsOnce == \A t \in Tabs : sends[t] <= 1

\* A page says "Nothing was submitted" only if it has submitted nothing.
NothingSubmittedIsTrue ==
  \A t \in Tabs : At(t, "ready-to-spend", {"nothing submitted"}) => sends[t] = 0

\* A page shows a commitment only of a spend that is committed, whatever the two
\* watchers saw and in whichever order they reported it.
CommitmentIsTrue == \A t \in Tabs : Displayed(t) = "committed" => spend = "committed"

\* "it cannot ... authorize with the wrong credential": the node is only sent a
\* spend that the passkey of the recorded account authorized, also when another
\* tab has replaced the passkey record.
RightCredential == spend # "none" => signer = manifest

\* "it cannot strand capacity": whatever is on chain for a passkey can be spent
\* with the record this browser would load.
NoCapacityStranded == funded \subseteq {stored}

\* What is on chain for a passkey can be spent with the record this browser would
\* load, through every reload, failed save and lost answer, as long as no second
\* passkey was registered.
SpendableUnlessReplaced ==
  (\E k \in Keys : credentials \subseteq {k}) => funded \subseteq {stored}

\* "without hiding the irreversible receipt": whatever the reads after a commitment
\* bring, only leaving the page, or the other watcher's time limit running out
\* later, takes a commitment off the screen.
CommitmentStays ==
  [][\A t \in Tabs :
       Displayed(t) = "committed" =>
         \/ Displayed(t)' = "committed"
         \/ receipt'[t] = "confirmation_timeout" \/ page'[t] = Loading]_vars

\* No spinner turns forever: loading, each step's await and each check end.
AwaitsEnd ==
  \A t \in Tabs :
    /\ (page[t].stage = "loading") ~> (page[t].stage # "loading")
    /\ (step[t] \in Awaiting) ~> (step[t] \notin Awaiting)
    /\ \A w \in Watchers : (watch[t][w] # "idle") ~> (watch[t][w] = "idle")
=============================================================================

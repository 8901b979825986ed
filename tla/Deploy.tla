------------------------------- MODULE Deploy -------------------------------
(***************************************************************************)
(* Publishing code cells with tools/deploy: one invocation plans, reads    *)
(* the existing manifest, then sends, awaits and reads back one cell per   *)
(* selected artifact and only at the end rewrites the manifest.  Every     *)
(* await is a point where the chain, the operator, a crash or a second     *)
(* invocation may come in.  A dry run stops after the plan and changes     *)
(* nothing.  A build of an artifact is a number, its data hash the same    *)
(* number; an outpoint is the position of the cell in cells.  Chain, RPC   *)
(* client and operator are external.                                       *)
(***************************************************************************)
EXTENDS Naturals, Sequences

CONSTANTS
  Tools,      \* invocations of `npm run deploy` that may be under way at a time
  Commands,   \* "phased", "all", or the artifact that --only names
  Rebuilt,    \* artifacts whose ELF is built again
  MaxBuilds,  \* bound: builds of one artifact
  MaxCells    \* bound: transactions the nodes accept

PHASED_P256_ARTIFACTS == <<"account_lock", "verifier_p256">>
ALL_ARTIFACTS == PHASED_P256_ARTIFACTS \o <<"verifier_mldsa65", "verifier_slhdsa_sha2_128s">>
Artifacts == {ALL_ARTIFACTS[i] : i \in 1..4}
Builds == 1..MaxBuilds

ASSUME DeployConstants ==
  /\ Commands \subseteq {"phased", "all"} \cup Artifacts
  /\ Rebuilt \subseteq Artifacts
  /\ MaxBuilds \in Nat \ {0} /\ MaxCells \in Nat

VARIABLES
  elf,         \* artifact -> the build that is in target/
  identities,  \* artifact -> the build deploy/reference-deployments.json names
  cells,       \* the code cells nodes accepted, each with its status
  file,        \* records in deploy/testnet-deployments.json; none if absent or torn
  torn,        \* that file is truncated or mixed up: it cannot be parsed
  tools        \* invocation -> where it is

vars == <<elf, identities, cells, file, torn, tools>>

NoRecords == [n \in {} |-> 0]
Idle == [step |-> "idle"]

Init ==
  /\ elf = [n \in Artifacts |-> 1]
  /\ identities = elf
  /\ cells = <<>>
  /\ file = NoRecords
  /\ torn = FALSE
  /\ tools = [t \in Tools |-> Idle]

At(t, step) == tools[t].step = step
Goto(t, step) == tools' = [tools EXCEPT ![t].step = step]
Ends(t) == tools' = [tools EXCEPT ![t] = Idle]

(***************************************************************************)
(* The plan: every selected artifact is the build on record.               *)
(***************************************************************************)
parseDeploymentArgs(command) ==
  CASE command = "phased" -> PHASED_P256_ARTIFACTS
    [] command = "all"    -> ALL_ARTIFACTS
    [] OTHER              -> <<command>>

\* Mutant: the hash of the ELF is not compared.
loadVerifiedArtifact_any(name) == TRUE

loadVerifiedArtifact(name) == elf[name] = identities[name]

buildDeploymentPlan(selection) ==
  [i \in DOMAIN selection |-> [name     |-> selection[i],
                               data     |-> elf[selection[i]],
                               dataHash |-> identities[selection[i]]]]

\* All of main() before its first await: an artifact that does not match, or a
\* manifest that does not parse, ends it before anything is sent.
Start(t, command) ==
  /\ tools[t] = Idle
  /\ \A i \in DOMAIN parseDeploymentArgs(command) :
        loadVerifiedArtifact(parseDeploymentArgs(command)[i])
  /\ ~torn
  /\ tools' = [tools EXCEPT ![t] =
                 [step     |-> "balance",
                  todo     |-> buildDeploymentPlan(parseDeploymentArgs(command)),
                  existing |-> file,
                  records  |-> NoRecords,
                  cell     |-> 0]]
  /\ UNCHANGED <<elf, identities, cells, file, torn>>

CheckBalance(t) ==
  /\ At(t, "balance")
  /\ Goto(t, "send") \/ Ends(t)
  /\ UNCHANGED <<elf, identities, cells, file, torn>>

(***************************************************************************)
(* publishCell, once per planned cell.                                     *)
(***************************************************************************)
Accepted(planned) ==
  Append(cells, [name |-> planned.name, data |-> planned.data,
                 dataHash |-> planned.dataHash, status |-> "pending"])

Send(t) ==
  /\ At(t, "send") /\ Len(cells) < MaxCells
  /\ cells' = Accepted(Head(tools[t].todo))
  /\ tools' = [tools EXCEPT ![t].step = "wait", ![t].cell = Len(cells) + 1]
  /\ UNCHANGED <<elf, identities, file, torn>>

\* Too few funds for the fee, or the node refuses.
SendRefused(t) ==
  /\ At(t, "send")
  /\ Ends(t)
  /\ UNCHANGED <<elf, identities, cells, file, torn>>

SendAnswerLost(t) ==
  /\ At(t, "send") /\ Len(cells) < MaxCells
  /\ cells' = Accepted(Head(tools[t].todo))
  /\ Ends(t)
  /\ UNCHANGED <<elf, identities, file, torn>>

WaitEnds(t) ==
  /\ At(t, "wait") /\ cells[tools[t].cell].status \in {"live", "consumed"}
  /\ Goto(t, "read")
  /\ UNCHANGED <<elf, identities, cells, file, torn>>

\* Mutant: no time limit.
WaitFails_rejected(t) ==
  /\ At(t, "wait") /\ cells[tools[t].cell].status = "dropped"
  /\ Ends(t)
  /\ UNCHANGED <<elf, identities, cells, file, torn>>

\* Rejected, or not committed within five minutes.
WaitFails(t) ==
  /\ At(t, "wait")
  /\ Ends(t)
  /\ UNCHANGED <<elf, identities, cells, file, torn>>

\* The cell is live and its data hashes to the planned hash (two artifacts never
\* have the same data).
FoundOnChain(t) ==
  LET cell == cells[tools[t].cell]
  IN /\ cell.status = "live"
     /\ cell.name = Head(tools[t].todo).name
     /\ cell.data = Head(tools[t].todo).dataHash

\* Mutant: the loop forgets to leave.
AfterCell_next(rest) == "send"

AfterCell(rest) == IF rest = <<>> THEN "write" ELSE "send"

\* The record joins the others, which are only in memory.
Recorded(t) ==
  LET done   == Head(tools[t].todo)
      record == [cell |-> tools[t].cell, dataHash |-> done.dataHash]
      rest   == Tail(tools[t].todo)
  IN tools' = [tools EXCEPT
                 ![t].records = [n \in DOMAIN @ \cup {done.name} |->
                                   IF n = done.name THEN record ELSE @[n]],
                 ![t].todo = rest,
                 ![t].step = AfterCell(rest)]

\* Mutant: a cell is recorded as soon as a node has accepted it.
ReadBack_accepted(t) ==
  /\ At(t, "wait") /\ Recorded(t)
  /\ UNCHANGED <<elf, identities, cells, file, torn>>

ReadBack(t) ==
  /\ At(t, "read") /\ FoundOnChain(t) /\ Recorded(t)
  /\ UNCHANGED <<elf, identities, cells, file, torn>>

\* Not the planned cell, no live cell, or no answer.
ReadBackFails(t) ==
  /\ At(t, "read")
  /\ Ends(t)
  /\ UNCHANGED <<elf, identities, cells, file, torn>>

(***************************************************************************)
(* The manifest: what was read at the start, with the new records over it. *)
(***************************************************************************)
\* Mutant: only what this invocation published is written.
buildDeploymentManifest_new_only(existing, records) == records

buildDeploymentManifest(existing, records) ==
  [n \in DOMAIN existing \cup DOMAIN records |->
     IF n \in DOMAIN records THEN records[n] ELSE existing[n]]

Tear == file' = NoRecords /\ torn' = TRUE

\* writeFileSync first truncates the file: its records are gone.
BeginWrite(t) ==
  /\ At(t, "write")
  /\ Goto(t, "writing")
  /\ Tear
  /\ UNCHANGED <<elf, identities, cells>>

\* Then it writes.  Over what another invocation wrote since the truncation, the
\* end of a longer text may stay behind.
EndWrite(t) ==
  /\ At(t, "writing")
  /\ \/ /\ file' = buildDeploymentManifest(tools[t].existing, tools[t].records)
        /\ torn' = FALSE
     \/ ~torn /\ Tear
  /\ Ends(t)
  /\ UNCHANGED <<elf, identities, cells>>

\* An invocation that stops in the middle of a write leaves the file as it is, or
\* part of a text in it.
StopsWriting(t) ==
  \/ UNCHANGED <<file, torn>>
  \/ At(t, "writing") /\ Tear

\* The file system refuses, before or after truncating the file.
WriteFails(t) ==
  /\ At(t, "write") \/ At(t, "writing")
  /\ StopsWriting(t)
  /\ Ends(t)
  /\ UNCHANGED <<elf, identities, cells>>

publishDeployment(t) ==
  \/ CheckBalance(t) \/ Send(t) \/ SendRefused(t) \/ SendAnswerLost(t)
  \/ WaitEnds(t) \/ WaitFails(t) \/ ReadBack(t) \/ ReadBackFails(t)
  \/ BeginWrite(t) \/ EndWrite(t) \/ WriteFails(t)

(***************************************************************************)
(* The surroundings.                                                       *)
(***************************************************************************)
Crash(t) ==
  /\ tools[t] # Idle
  /\ StopsWriting(t)
  /\ Ends(t)
  /\ UNCHANGED <<elf, identities, cells>>

\* The operator clears away a manifest that no invocation can read any more.
RemoveManifest ==
  /\ torn /\ \A t \in Tools : ~At(t, "writing")
  /\ torn' = FALSE
  /\ UNCHANGED <<elf, identities, cells, file, tools>>

Rebuild(n) ==
  /\ elf[n] < MaxBuilds
  /\ elf' = [elf EXCEPT ![n] = @ + 1]
  /\ UNCHANGED <<identities, cells, file, torn, tools>>

\* export_artifact_manifest records what is in target/.
RecordIdentities ==
  /\ identities' = elf
  /\ UNCHANGED <<elf, cells, file, torn, tools>>

\* The chain decides about a transaction; the deployer may reclaim a code cell.
ChainStep(i) ==
  /\ \E next \in (CASE cells[i].status = "pending" -> {"live", "dropped"}
                    [] cells[i].status = "live"    -> {"consumed"}
                    [] OTHER                       -> {}) :
        cells' = [cells EXCEPT ![i].status = next]
  /\ UNCHANGED <<elf, identities, file, torn, tools>>

ToolStep(t) == publishDeployment(t) \/ Crash(t) \/ \E c \in Commands : Start(t, c)
Surroundings ==
  \/ \E n \in Rebuilt : Rebuild(n)
  \/ RecordIdentities
  \/ RemoveManifest
  \/ \E i \in DOMAIN cells : ChainStep(i)

Next == (\E t \in Tools : ToolStep(t)) \/ Surroundings

\* An invocation carries on: each await ends, the longest by its timeout.
Spec == Init /\ [][Next]_vars /\ \A t \in Tools : WF_vars(publishDeployment(t))
-----------------------------------------------------------------------------
(***************************************************************************)
(* Properties.                                                             *)
(***************************************************************************)
Records == [cell : 1..MaxCells, dataHash : Builds]
RecordMaps == UNION {[S -> Records] : S \in SUBSET Artifacts}
Landed == {i \in DOMAIN cells : cells[i].status \in {"live", "consumed"}}

\* Types; an invocation that waits knows its cell, and one that publishes has one to publish.
TypeOK ==
  /\ elf \in [Artifacts -> Builds] /\ identities \in [Artifacts -> Builds]
  /\ \A i \in DOMAIN cells :
        cells[i] \in [name : Artifacts, data : Builds, dataHash : Builds,
                      status : {"pending", "live", "dropped", "consumed"}]
  /\ Len(cells) <= MaxCells
  /\ file \in RecordMaps /\ torn \in BOOLEAN
  /\ \A t \in Tools : tools[t] # Idle =>
       /\ tools[t].existing \in RecordMaps /\ tools[t].records \in RecordMaps
       /\ At(t, "send") \/ At(t, "wait") \/ At(t, "read") => tools[t].todo # <<>>
       /\ At(t, "wait") \/ At(t, "read") => tools[t].cell \in DOMAIN cells

\* No cell that is not the identified build reaches the chain, whatever is
\* rebuilt while an invocation is under way.
OnlyIdentifiedBuildsLand == \A i \in DOMAIN cells : cells[i].data = cells[i].dataHash

\* Every record of the manifest names a cell that was committed for that artifact
\* and holds the data the record claims, also when another invocation failed,
\* timed out or wrote in between.
RecordsLanded ==
  \A n \in DOMAIN file :
    /\ file[n].cell \in Landed
    /\ cells[file[n].cell].name = n
    /\ cells[file[n].cell].data = file[n].dataHash

\* Every invocation ends.
InvocationsEnd == \A t \in Tools : (tools[t] # Idle) ~> (tools[t] = Idle)

\* The records that are still to be had: those in the file and, while it is being
\* written, those the invocation has read from it.
Held ==
  IF torn /\ \E t \in Tools : At(t, "writing")
    THEN tools[CHOOSE t \in Tools : At(t, "writing")].existing
    ELSE file

Promise == INSTANCE PublicationPromise
             WITH Names <- Artifacts, shown <- file, readable <- ~torn,
                  held <- Held, landed <- Landed

\* What publishing promises of the manifest: a manifest that can be read has every
\* record of the one before, or a newer one; records are lost only with the whole
\* file, by a write that was cut short, and then the file cannot be read until it
\* is cleared away.  (For one invocation at a time.)
KeepsPromise == Promise!Spec

\* "a partial failure leaves unambiguous outpoints for what did land": what an
\* invocation read back and verified is on record once it has ended.
VerifiedCellsRecorded ==
  [][\A t \in Tools : tools[t] # Idle /\ tools'[t] = Idle =>
       \A n \in DOMAIN tools[t].records :
         n \in DOMAIN file' /\ file'[n] = tools[t].records[n]]_vars
=============================================================================

------------------------- MODULE DeployedDemoProofs -------------------------
(***************************************************************************)
(* Publishing code cells, and the demo that runs on what was published,    *)
(* for any number of invocations, builds and cells.                        *)
(*                                                                         *)
(* First Deploy alone.  A plan is fixed before the first await and holds   *)
(* only builds that are the identified ones; a record, in the file or in   *)
(* the memory of an invocation, is made only of a cell that was read back  *)
(* live, and a cell that has landed never changes but in its status.       *)
(* Where invocations do not overlap, the one under way holds the records   *)
(* of the file until it has written it again, and every cell it sends is   *)
(* newer than the cells of these: the promise.                             *)
(*                                                                         *)
(* Then the demo beside it, on that invariant.  What a server read from    *)
(* the manifest are records of landed cells, whose code never changes, and *)
(* a cell that was gone when it read them stays gone.  An account is       *)
(* recorded only by a creation that began without one, so an account that  *)
(* is there is never replaced under an open page.                          *)
(***************************************************************************)
EXTENDS DeployedDemo, SequenceTheorems, FiniteSetTheorems, TLAPS

(***************************************************************************)
(* Deploy.                                                                 *)
(***************************************************************************)
Planned == {p \in [name : Artifacts, data : Builds, dataHash : Builds] : p.data = p.dataHash}
Cell == {c \in [name : Artifacts, data : Builds, dataHash : Builds,
                status : {"pending", "live", "dropped", "consumed"}] : c.data = c.dataHash}
ToolSteps == {"balance", "send", "wait", "read", "write", "writing"}
Invocation == [step : ToolSteps, todo : Seq(Planned), existing : RecordMaps,
               records : RecordMaps, cell : 0..MaxCells]

FilesOK == /\ elf \in [Artifacts -> Builds] /\ identities \in [Artifacts -> Builds]
           /\ file \in RecordMaps
CellsOK == cells \in Seq(Cell) /\ Len(cells) <= MaxCells
ToolsOK == tools \in [Tools -> Invocation \cup {Idle}]

\* Every record of m names a cell that landed for that artifact with that data.
RecordsOfLanded(m) ==
  \A n \in DOMAIN m : /\ m[n].cell \in Landed
                      /\ cells[m[n].cell].name = n
                      /\ cells[m[n].cell].data = m[n].dataHash

\* An invocation under way has something left to publish until it writes, knows the
\* cell it waits for, and holds records of landed cells only.
Progress(t) ==
  /\ tools[t].step \in {"balance", "send", "wait", "read"} => tools[t].todo # <<>>
  /\ tools[t].step \in {"wait", "read"} => tools[t].cell \in DOMAIN cells
  /\ RecordsOfLanded(tools[t].existing) /\ RecordsOfLanded(tools[t].records)

\* The inductive invariant.
DeployInv ==
  /\ FilesOK /\ torn \in BOOLEAN /\ CellsOK /\ ToolsOK
  /\ RecordsOfLanded(file)
  /\ \A t \in Tools : tools[t] # Idle => Progress(t)

\* What happens to the cells: they stay as they are, except that a cell may land or
\* be dropped, and a landed one be consumed.
CellsStay ==
  \A i \in DOMAIN cells :
    /\ i \in DOMAIN cells'
    /\ cells'[i].name = cells[i].name /\ cells'[i].data = cells[i].data
    /\ i \in Landed => i \in Landed'
    /\ cells[i].status = "consumed" => cells'[i].status = "consumed"

\* No two invocations are under way at a time.
OneAtATime == \A s, t \in Tools : s = t

\* What an invocation publishes is newer than what it has read.
Newer(t) ==
  LET existing == tools[t].existing
  IN /\ tools[t].step \in {"wait", "read"} =>
          \A n \in DOMAIN existing : tools[t].cell > existing[n].cell
     /\ \A n \in DOMAIN existing \cap DOMAIN tools[t].records :
          tools[t].records[n].cell > existing[n].cell

\* With one invocation at a time: until it writes, the file can be read and has what
\* it read at its start.  A file that cannot be read has no records.
OnlyWriter ==
  /\ torn => file = NoRecords
  /\ \A t \in Tools : tools[t] # Idle =>
       /\ tools[t].step = "writing" => torn
       /\ tools[t].step # "writing" => ~torn /\ tools[t].existing = file
       /\ Newer(t)

\* A map of records is a function from some artifacts to records.
LEMMA RecordMapsAre ==
  ASSUME NEW m
  PROVE  m \in RecordMaps <=> /\ m = [n \in DOMAIN m |-> m[n]]
                              /\ DOMAIN m \subseteq Artifacts
                              /\ \A n \in DOMAIN m : m[n] \in Records
<1>1. m \in RecordMaps <=> \E S \in SUBSET Artifacts : m \in [S -> Records]
  BY DEF RecordMaps
<1> QED
  BY <1>1

LEMMA NoRecordsAre == NoRecords \in RecordMaps /\ DOMAIN NoRecords = {}
BY RecordMapsAre DEF NoRecords

\* Every command selects some of the four artifacts.
LEMMA SelectionsAre ==
  ASSUME NEW command \in Commands
  PROVE  \E len \in Nat \ {0} :
           /\ DOMAIN parseDeploymentArgs(command) = 1..len
           /\ \A i \in 1..len : parseDeploymentArgs(command)[i] \in Artifacts
<1>1. /\ DOMAIN PHASED_P256_ARTIFACTS = 1..2 /\ DOMAIN ALL_ARTIFACTS = 1..4
      /\ \A i \in 1..2 : ALL_ARTIFACTS[i] = PHASED_P256_ARTIFACTS[i]
  BY DEF PHASED_P256_ARTIFACTS, ALL_ARTIFACTS
<1>2. /\ \A i \in 1..4 : ALL_ARTIFACTS[i] \in Artifacts
      /\ \A i \in 1..2 : PHASED_P256_ARTIFACTS[i] \in Artifacts
  BY <1>1 DEF Artifacts
<1>3. CASE command = "phased"
  BY <1>1, <1>2, <1>3 DEF parseDeploymentArgs
<1>4. CASE command = "all"
  BY <1>1, <1>2, <1>4 DEF parseDeploymentArgs
<1>5. CASE command \notin {"phased", "all"}
  <2>1. parseDeploymentArgs(command) = <<command>> /\ command \in Artifacts
    BY <1>5, DeployConstants DEF parseDeploymentArgs
  <2> QED
    BY <2>1
<1> QED
  BY <1>3, <1>4, <1>5

\* The plan of an invocation that gets past its checks.
LEMMA PlansAre ==
  ASSUME FilesOK, NEW command \in Commands,
         \A i \in DOMAIN parseDeploymentArgs(command) :
            loadVerifiedArtifact(parseDeploymentArgs(command)[i])
  PROVE  LET plan == buildDeploymentPlan(parseDeploymentArgs(command))
         IN plan \in Seq(Planned) /\ plan # <<>>
<1> DEFINE sel == parseDeploymentArgs(command)
           plan == buildDeploymentPlan(sel)
<1>1. PICK len \in Nat \ {0} : DOMAIN sel = 1..len /\ \A i \in 1..len : sel[i] \in Artifacts
  BY SelectionsAre
<1>2. plan = [i \in 1..len |-> [name |-> sel[i], data |-> elf[sel[i]],
                                dataHash |-> identities[sel[i]]]]
  BY <1>1 DEF buildDeploymentPlan
<1>3. \A i \in 1..len : loadVerifiedArtifact(sel[i])
  BY <1>1
<1> HIDE DEF sel
<1>4. ASSUME NEW i \in 1..len PROVE plan[i] \in Planned
  BY <1>1, <1>2, <1>3, <1>4 DEF FilesOK, Planned, loadVerifiedArtifact
<1>5. plan \in [1..len -> Planned]
  BY <1>2, <1>4
<1> HIDE DEF plan
<1>6. plan \in Seq(Planned) /\ Len(plan) = len
  BY <1>5
<1> QED
  BY <1>6 DEF sel, plan

LEMMA SameCells == UNCHANGED cells => CellsStay
BY DEF CellsStay, Landed

\* Records of landed cells stay that.
LEMMA RecordsStay ==
  ASSUME NEW m, RecordsOfLanded(m), CellsStay
  PROVE  \A n \in DOMAIN m : /\ m[n].cell \in Landed'
                             /\ cells'[m[n].cell].name = n
                             /\ cells'[m[n].cell].data = m[n].dataHash
BY DEF RecordsOfLanded, CellsStay, Landed

\* The records of an invocation stay right, and so does the invocation if it still has
\* something to publish and knows its cell.
LEMMA ProgressStays ==
  ASSUME NEW t \in Tools, Progress(t), CellsStay,
         tools'[t].existing = tools[t].existing, tools'[t].records = tools[t].records,
         tools'[t].step \in {"balance", "send", "wait", "read"} => tools'[t].todo # <<>>,
         tools'[t].step \in {"wait", "read"} => tools'[t].cell \in DOMAIN cells'
  PROVE  Progress(t)'
<1>1. RecordsOfLanded(tools[t].existing) /\ RecordsOfLanded(tools[t].records)
  BY DEF Progress
<1> DEFINE e == tools[t].existing
           r == tools[t].records
<1>2. /\ \A n \in DOMAIN e : /\ e[n].cell \in Landed'
                              /\ cells'[e[n].cell].name = n /\ cells'[e[n].cell].data = e[n].dataHash
      /\ \A n \in DOMAIN r : /\ r[n].cell \in Landed'
                              /\ cells'[r[n].cell].name = n /\ cells'[r[n].cell].data = r[n].dataHash
  BY <1>1, RecordsStay
<1> HIDE DEF e, r
<1>3. tools'[t].existing = e /\ tools'[t].records = r
  BY DEF e, r
<1>4. RecordsOfLanded(tools[t].existing)'
  BY <1>2, <1>3 DEF RecordsOfLanded
<1>5. RecordsOfLanded(tools[t].records)'
  BY <1>2, <1>3 DEF RecordsOfLanded
<1> QED
  BY <1>4, <1>5 DEF Progress

\* An invocation that takes no step stays as it is.
LEMMA RestsProgress ==
  ASSUME NEW t \in Tools, Progress(t), CellsStay, tools'[t] = tools[t]
  PROVE  Progress(t)'
<1>1. tools[t].step \in {"balance", "send", "wait", "read"} => tools[t].todo # <<>>
  BY DEF Progress
<1>2. tools[t].step \in {"wait", "read"} => tools[t].cell \in DOMAIN cells'
  BY DEF Progress, CellsStay
<1> QED
  BY <1>1, <1>2, ProgressStays

\* A node accepts a cell: it comes last, and is pending.
LEMMA AcceptedLast ==
  ASSUME CellsOK, NEW planned \in Planned, cells' = Accepted(planned)
  PROVE  /\ cells' \in Seq(Cell) /\ Len(cells') = Len(cells) + 1
         /\ DOMAIN cells' = DOMAIN cells \cup {Len(cells) + 1}
         /\ CellsStay /\ Landed' = Landed
<1> DEFINE new == [name |-> planned.name, data |-> planned.data,
                   dataHash |-> planned.dataHash, status |-> "pending"]
<1>1. new \in Cell /\ new.status = "pending"
  BY DEF Planned, Cell
<1>2. cells \in Seq(Cell) /\ cells' = Append(cells, new) /\ Len(cells) \in Nat
  BY DEF CellsOK, Accepted
<1> HIDE DEF new
<1>3. /\ cells' \in Seq(Cell) /\ Len(cells') = Len(cells) + 1
      /\ \A i \in 1..Len(cells) : cells'[i] = cells[i]
      /\ cells'[Len(cells) + 1] = new
  BY <1>1, <1>2, AppendProperties
<1>4. DOMAIN cells' = 1..(Len(cells) + 1) /\ DOMAIN cells = 1..Len(cells)
  BY <1>2, <1>3
<1>5. DOMAIN cells' = DOMAIN cells \cup {Len(cells) + 1}
  BY <1>2, <1>4
<1>6. Landed' = Landed
  <2>1. cells'[Len(cells) + 1].status \notin {"live", "consumed"}
    BY <1>1, <1>3
  <2>2. \A i \in DOMAIN cells : cells'[i] = cells[i]
    BY <1>3, <1>4
  <2>3. Len(cells) + 1 \notin Landed'
    BY <2>1 DEF Landed
  <2>4. Len(cells) + 1 \notin DOMAIN cells
    BY <1>2, <1>4
  <2> QED
    BY <1>5, <2>2, <2>3, <2>4 DEF Landed
<1>7. CellsStay
  BY <1>3, <1>4, <1>5, <1>6 DEF CellsStay
<1> QED
  BY <1>3, <1>5, <1>6, <1>7

\* The chain's steps.
LEMMA ChainStepFacts ==
  ASSUME CellsOK, NEW i \in DOMAIN cells, ChainStep(i)
  PROVE  CellsOK' /\ CellsStay
<1>1. PICK next \in (CASE cells[i].status = "pending" -> {"live", "dropped"}
                       [] cells[i].status = "live"    -> {"consumed"}
                       [] OTHER                       -> {}) :
        cells' = [cells EXCEPT ![i].status = next]
  BY DEF ChainStep
<1>2. cells \in Seq(Cell) /\ Len(cells) \in Nat /\ DOMAIN cells = 1..Len(cells) /\ cells[i] \in Cell
  BY DEF CellsOK
<1>3. cells[i].status \in {"pending", "live", "dropped", "consumed"}
  BY <1>2 DEF Cell
<1>4. \/ cells[i].status = "pending" /\ next \in {"live", "dropped"}
      \/ cells[i].status = "live" /\ next = "consumed"
  BY <1>1, <1>3
<1>5. /\ [cells[i] EXCEPT !.status = next] \in Cell
      /\ [cells[i] EXCEPT !.status = next].status = next
      /\ [cells[i] EXCEPT !.status = next].name = cells[i].name
      /\ [cells[i] EXCEPT !.status = next].data = cells[i].data
  BY <1>2, <1>4 DEF Cell
<1>6. cells' = [cells EXCEPT ![i] = [cells[i] EXCEPT !.status = next]]
  BY <1>1
<1>7. cells' \in Seq(Cell) /\ Len(cells') = Len(cells) /\ DOMAIN cells' = DOMAIN cells
  BY <1>2, <1>5, <1>6, ExceptSeq
<1>8. /\ cells'[i] = [cells[i] EXCEPT !.status = next]
      /\ \A j \in DOMAIN cells \ {i} : cells'[j] = cells[j]
  BY <1>2, <1>6
<1>9. CellsStay
  <2>1. cells'[i].status = next /\ cells'[i].name = cells[i].name /\ cells'[i].data = cells[i].data
    BY <1>5, <1>8
  <2> QED
    BY <1>4, <1>7, <1>8, <2>1 DEF CellsStay, Landed
<1> QED
  BY <1>7, <1>9 DEF CellsOK

\* What a step of one invocation does not touch stays right.
LEMMA ToolMoves ==
  ASSUME DeployInv, NEW t \in Tools, NEW next \in Invocation \cup {Idle},
         tools' = [tools EXCEPT ![t] = next],
         CellsOK', CellsStay, FilesOK', torn' \in BOOLEAN,
         RecordsOfLanded(file)', next # Idle => Progress(t)'
  PROVE  DeployInv'
<1>1. ToolsOK'
  BY DEF DeployInv, ToolsOK
<1>2. tools'[t] = next /\ \A s \in Tools \ {t} : tools'[s] = tools[s]
  BY DEF DeployInv, ToolsOK
<1>3. ASSUME NEW s \in Tools \ {t}, tools[s] # Idle PROVE Progress(s)'
  <2>1. Progress(s) /\ tools'[s] = tools[s]
    BY <1>2, <1>3 DEF DeployInv
  <2> QED
    BY <2>1, RestsProgress
<1> QED
  BY <1>1, <1>2, <1>3 DEF DeployInv

\* The file and the ELFs are left alone.
LEMMA FilesStay ==
  ASSUME DeployInv, CellsStay, UNCHANGED file
  PROVE  RecordsOfLanded(file)'
BY RecordsStay DEF DeployInv, RecordsOfLanded

\* A step that leaves cells, records and invocations as they are.
LEMMA SameRecords ==
  ASSUME DeployInv, FilesOK', torn' \in BOOLEAN, UNCHANGED <<cells, file, tools>>
  PROVE  DeployInv'
<1>1. CellsStay /\ CellsOK' /\ ToolsOK'
  BY SameCells DEF DeployInv, CellsOK, ToolsOK
<1>2. RecordsOfLanded(file)'
  BY <1>1, FilesStay
<1>3. ASSUME NEW t \in Tools, tools'[t] # Idle PROVE Progress(t)'
  <2>1. Progress(t) /\ tools'[t] = tools[t]
    BY <1>3 DEF DeployInv
  <2> QED
    BY <1>1, <2>1, RestsProgress
<1> QED
  BY <1>1, <1>2, <1>3 DEF DeployInv

\* The file stays as it is, or is truncated.
LEMMA FileStaysOrTears ==
  ASSUME DeployInv, CellsStay, UNCHANGED <<elf, identities>>,
         UNCHANGED <<file, torn>> \/ Tear
  PROVE  FilesOK' /\ torn' \in BOOLEAN /\ RecordsOfLanded(file)'
<1>1. CASE UNCHANGED <<file, torn>>
  BY <1>1, FilesStay DEF DeployInv, FilesOK
<1>2. CASE Tear
  <2>1. file' = NoRecords /\ torn' \in BOOLEAN
    BY <1>2 DEF Tear
  <2>2. RecordsOfLanded(file)'
    BY <2>1, NoRecordsAre DEF RecordsOfLanded
  <2> QED
    BY <2>1, <2>2, NoRecordsAre DEF DeployInv, FilesOK
<1> QED
  BY <1>1, <1>2

\* An invocation ends, at whichever point.
LEMMA EndsKeepsInv ==
  ASSUME DeployInv, NEW t \in Tools, Ends(t), CellsOK', CellsStay,
         UNCHANGED <<elf, identities>>, UNCHANGED <<file, torn>> \/ Tear
  PROVE  DeployInv'
<1>1. FilesOK' /\ torn' \in BOOLEAN /\ RecordsOfLanded(file)'
  BY FileStaysOrTears
<1> QED
  BY <1>1, ToolMoves DEF Ends

LEMMA InvocationFields ==
  ASSUME DeployInv, NEW t \in Tools, tools[t] # Idle
  PROVE  /\ tools[t] \in Invocation /\ Progress(t)
         /\ tools[t].step \in ToolSteps /\ tools[t].todo \in Seq(Planned)
         /\ tools[t].existing \in RecordMaps /\ tools[t].records \in RecordMaps
         /\ tools[t].cell \in 0..MaxCells
BY DEF DeployInv, ToolsOK, Invocation

\* An invocation gets on without sending or reading anything.
LEMMA GotoKeepsInv ==
  ASSUME DeployInv, NEW t \in Tools, tools[t] # Idle, NEW step \in ToolSteps, Goto(t, step),
         step \in {"balance", "send", "wait", "read"} => tools[t].todo # <<>>,
         step \in {"wait", "read"} => tools[t].cell \in DOMAIN cells,
         UNCHANGED <<elf, identities, cells>>, UNCHANGED <<file, torn>> \/ Tear
  PROVE  DeployInv'
<1> DEFINE next == [tools[t] EXCEPT !.step = step]
<1>1. tools[t] \in Invocation /\ Progress(t)
  BY InvocationFields
<1>2. /\ next \in Invocation /\ next.step = step /\ next.todo = tools[t].todo
      /\ next.existing = tools[t].existing /\ next.records = tools[t].records
      /\ next.cell = tools[t].cell
  BY <1>1 DEF Invocation
<1>3. tools' = [tools EXCEPT ![t] = next]
  BY DEF Goto
<1> HIDE DEF next
<1>4. tools'[t] = next
  BY <1>3 DEF DeployInv, ToolsOK
<1>5. FilesOK' /\ torn' \in BOOLEAN /\ CellsOK' /\ CellsStay /\ RecordsOfLanded(file)'
  BY SameCells, FileStaysOrTears DEF DeployInv, CellsOK
<1>6. Progress(t)'
  <2>1. /\ tools'[t].step = step /\ tools'[t].todo = tools[t].todo
        /\ tools'[t].existing = tools[t].existing /\ tools'[t].records = tools[t].records
        /\ tools'[t].cell = tools[t].cell
    BY <1>2, <1>4
  <2>2. tools'[t].step \in {"balance", "send", "wait", "read"} => tools'[t].todo # <<>>
    BY <1>1, <2>1 DEF Progress
  <2>3. tools'[t].step \in {"wait", "read"} => tools'[t].cell \in DOMAIN cells'
    BY <1>1, <2>1 DEF Progress
  <2> QED
    BY <1>1, <1>5, <2>1, <2>2, <2>3, ProgressStays
<1> QED
  BY <1>2, <1>3, <1>5, <1>6, ToolMoves

\* The start: a plan of identified builds, and the records of the file.
LEMMA StartKeepsInv ==
  ASSUME DeployInv, NEW t \in Tools, NEW command \in Commands, Start(t, command)
  PROVE  DeployInv'
<1> DEFINE plan == buildDeploymentPlan(parseDeploymentArgs(command))
           next == [step |-> "balance", todo |-> plan, existing |-> file,
                    records |-> NoRecords, cell |-> 0]
<1>1. /\ tools' = [tools EXCEPT ![t] = next]
      /\ UNCHANGED <<elf, identities, cells, file, torn>>
  BY DEF Start
<1>2. FilesOK' /\ torn' \in BOOLEAN /\ CellsOK' /\ CellsStay /\ RecordsOfLanded(file)'
  BY <1>1, SameCells, FilesStay DEF DeployInv, FilesOK, CellsOK
<1>3. plan \in Seq(Planned) /\ plan # <<>>
  BY PlansAre DEF DeployInv, Start
<1> HIDE DEF plan
<1>4. next \in Invocation
  <2>1. 0 \in 0..MaxCells
    BY DeployConstants
  <2> QED
    BY <1>3, <2>1, NoRecordsAre DEF Invocation, ToolSteps, DeployInv, FilesOK
<1>5. /\ next.step = "balance" /\ next.todo = plan /\ next.existing = file
      /\ next.records = NoRecords
  OBVIOUS
<1> HIDE DEF next
<1>6. tools'[t] = next
  BY <1>1 DEF DeployInv, ToolsOK
<1>7. Progress(t)'
  <2>1. /\ tools'[t].step = "balance" /\ tools'[t].todo = plan /\ tools'[t].existing = file'
        /\ tools'[t].records = NoRecords
    BY <1>1, <1>5, <1>6
  <2>2. RecordsOfLanded(tools[t].existing)'
    BY <1>2, <2>1 DEF RecordsOfLanded
  <2>3. RecordsOfLanded(tools[t].records)'
    BY <2>1, NoRecordsAre DEF RecordsOfLanded
  <2> QED
    BY <1>3, <2>1, <2>2, <2>3 DEF Progress
<1> QED
  BY <1>1, <1>2, <1>4, <1>7, ToolMoves

\* sendTransaction of publishCell.
LEMMA SendKeepsInv ==
  ASSUME DeployInv, NEW t \in Tools, Send(t)
  PROVE  DeployInv'
<1> DEFINE new == Len(cells) + 1
           next == [tools[t] EXCEPT !.step = "wait", !.cell = new]
<1>1. /\ tools[t].step = "send" /\ Len(cells) < MaxCells
      /\ cells' = Accepted(Head(tools[t].todo))
      /\ UNCHANGED <<elf, identities, file, torn>>
  BY DEF Send, At
<1>2. tools[t] # Idle
  BY <1>1 DEF Idle
<1>3. tools[t] \in Invocation /\ Progress(t) /\ tools[t].todo \in Seq(Planned)
  BY <1>2, InvocationFields
<1>4. Head(tools[t].todo) \in Planned
  BY <1>1, <1>3, HeadTailProperties DEF Progress
<1>5. /\ cells' \in Seq(Cell) /\ Len(cells') = new
      /\ DOMAIN cells' = DOMAIN cells \cup {new} /\ CellsStay
  BY <1>1, <1>4, AcceptedLast DEF DeployInv
<1>6. CellsOK' /\ new \in 0..MaxCells
  BY <1>1, <1>5, DeployConstants DEF DeployInv, CellsOK
<1>7. FilesOK' /\ torn' \in BOOLEAN /\ RecordsOfLanded(file)'
  BY <1>1, <1>5, FilesStay DEF DeployInv, FilesOK
<1>8. tools' = [tools EXCEPT ![t] = next]
  BY DEF Send
<1> HIDE DEF new
<1>9. next = [step |-> "wait", todo |-> tools[t].todo, existing |-> tools[t].existing,
              records |-> tools[t].records, cell |-> new]
  <2>1. [tools[t] EXCEPT !.step = "wait"]
          = [step |-> "wait", todo |-> tools[t].todo, existing |-> tools[t].existing,
             records |-> tools[t].records, cell |-> tools[t].cell]
    BY <1>3 DEF Invocation
  <2>2. [[step |-> "wait", todo |-> tools[t].todo, existing |-> tools[t].existing,
          records |-> tools[t].records, cell |-> tools[t].cell] EXCEPT !.cell = new]
          = [step |-> "wait", todo |-> tools[t].todo, existing |-> tools[t].existing,
             records |-> tools[t].records, cell |-> new]
    OBVIOUS
  <2> QED
    BY <2>1, <2>2
<1> HIDE DEF next
<1>10. next \in Invocation
  BY <1>3, <1>6, <1>9 DEF Invocation, ToolSteps
<1>11. tools'[t] = next
  BY <1>8 DEF DeployInv, ToolsOK
<1>12. Progress(t)'
  <2>1. /\ tools'[t].todo = tools[t].todo /\ tools'[t].existing = tools[t].existing
        /\ tools'[t].records = tools[t].records /\ tools'[t].cell = new
        /\ tools'[t].step = "wait"
    BY <1>9, <1>11
  <2>2. tools[t].todo # <<>>
    BY <1>1, <1>3 DEF Progress
  <2>3. tools'[t].todo # <<>> /\ tools'[t].cell \in DOMAIN cells'
    BY <1>5, <2>1, <2>2
  <2> QED
    BY <1>3, <1>5, <2>1, <2>3, ProgressStays
<1> QED
  BY <1>5, <1>6, <1>7, <1>8, <1>10, <1>12, ToolMoves

\* The records of an invocation once it has read back the cell of name.
WithRecord(records, name, record) ==
  [n \in DOMAIN records \cup {name} |-> IF n = name THEN record ELSE records[n]]

\* The whole state of an invocation that has recorded a cell.
LEMMA RecordedIs ==
  ASSUME NEW t \in Tools, ToolsOK, tools[t] \in Invocation, Recorded(t)
  PROVE  tools' = [tools EXCEPT ![t] =
           [step     |-> AfterCell(Tail(tools[t].todo)),
            todo     |-> Tail(tools[t].todo),
            existing |-> tools[t].existing,
            records  |-> WithRecord(tools[t].records, Head(tools[t].todo).name,
                           [cell |-> tools[t].cell, dataHash |-> Head(tools[t].todo).dataHash]),
            cell     |-> tools[t].cell]]
<1> DEFINE rest == Tail(tools[t].todo)
           recs == WithRecord(tools[t].records, Head(tools[t].todo).name,
                     [cell |-> tools[t].cell, dataHash |-> Head(tools[t].todo).dataHash])
           after == AfterCell(rest)
<1>1. tools' = [tools EXCEPT ![t].records = recs, ![t].todo = rest, ![t].step = after]
  BY DEF Recorded, WithRecord
<1> HIDE DEF rest, recs, after
<1>2. tools' = [tools EXCEPT ![t] =
                  [[[tools[t] EXCEPT !.records = recs] EXCEPT !.todo = rest] EXCEPT !.step = after]]
  BY <1>1 DEF ToolsOK
<1>3. tools[t] = [step |-> tools[t].step, todo |-> tools[t].todo, existing |-> tools[t].existing,
                  records |-> tools[t].records, cell |-> tools[t].cell]
  BY DEF Invocation
<1>4. [tools[t] EXCEPT !.records = recs]
        = [step |-> tools[t].step, todo |-> tools[t].todo, existing |-> tools[t].existing,
           records |-> recs, cell |-> tools[t].cell]
  BY <1>3
<1>5. [[step |-> tools[t].step, todo |-> tools[t].todo, existing |-> tools[t].existing,
        records |-> recs, cell |-> tools[t].cell] EXCEPT !.todo = rest]
        = [step |-> tools[t].step, todo |-> rest, existing |-> tools[t].existing,
           records |-> recs, cell |-> tools[t].cell]
  OBVIOUS
<1>6. [[step |-> tools[t].step, todo |-> rest, existing |-> tools[t].existing,
        records |-> recs, cell |-> tools[t].cell] EXCEPT !.step = after]
        = [step |-> after, todo |-> rest, existing |-> tools[t].existing,
           records |-> recs, cell |-> tools[t].cell]
  OBVIOUS
<1> QED
  BY <1>2, <1>4, <1>5, <1>6 DEF rest, recs, after

\* A cell that was read back live joins the records.
LEMMA ReadBackKeepsInv ==
  ASSUME DeployInv, NEW t \in Tools, ReadBack(t)
  PROVE  DeployInv'
<1> DEFINE done == Head(tools[t].todo)
           rest == Tail(tools[t].todo)
           new  == [cell |-> tools[t].cell, dataHash |-> done.dataHash]
           recs == WithRecord(tools[t].records, done.name, new)
           next == [step |-> AfterCell(rest), todo |-> rest, existing |-> tools[t].existing,
                    records |-> recs, cell |-> tools[t].cell]
<1>1. /\ tools[t].step = "read" /\ FoundOnChain(t)
      /\ UNCHANGED <<elf, identities, cells, file, torn>>
  BY DEF ReadBack, At
<1>2. tools[t] # Idle
  BY <1>1 DEF Idle
<1>3. /\ tools[t] \in Invocation /\ Progress(t) /\ tools[t].todo \in Seq(Planned)
      /\ tools[t].existing \in RecordMaps /\ tools[t].records \in RecordMaps
      /\ tools[t].cell \in 0..MaxCells
  BY <1>2, InvocationFields
<1>4. tools' = [tools EXCEPT ![t] = next]
  BY <1>3, RecordedIs DEF DeployInv, ReadBack
<1>5. done \in Planned /\ rest \in Seq(Planned)
  BY <1>1, <1>3, HeadTailProperties DEF Progress
<1>6. tools[t].cell \in DOMAIN cells /\ tools[t].cell \in 1..MaxCells
  <2>1. tools[t].cell \in DOMAIN cells
    BY <1>1, <1>3 DEF Progress
  <2>2. DOMAIN cells = 1..Len(cells) /\ Len(cells) \in Nat /\ Len(cells) <= MaxCells
    BY DEF DeployInv, CellsOK
  <2> QED
    BY <2>1, <2>2, DeployConstants
<1>7. /\ cells[tools[t].cell].status = "live" /\ cells[tools[t].cell].name = done.name
      /\ cells[tools[t].cell].data = done.dataHash
  BY <1>1 DEF FoundOnChain
<1>8. new \in Records /\ done.name \in Artifacts /\ new.cell = tools[t].cell
      /\ new.dataHash = done.dataHash
  BY <1>5, <1>6 DEF Records, Planned
<1> HIDE DEF new, done, rest
<1>9. /\ DOMAIN recs = DOMAIN tools[t].records \cup {done.name}
      /\ recs[done.name] = new
      /\ \A n \in DOMAIN tools[t].records \ {done.name} : recs[n] = tools[t].records[n]
      /\ recs = [n \in DOMAIN recs |-> recs[n]]
  BY DEF WithRecord
<1> HIDE DEF recs
<1>10. recs \in RecordMaps
  <2>1. /\ DOMAIN tools[t].records \subseteq Artifacts
        /\ \A n \in DOMAIN tools[t].records : tools[t].records[n] \in Records
    BY <1>3, RecordMapsAre
  <2>2. /\ DOMAIN recs \subseteq Artifacts /\ \A n \in DOMAIN recs : recs[n] \in Records
    BY <1>8, <1>9, <2>1
  <2> QED
    BY <1>9, <2>2, RecordMapsAre
<1>11. RecordsOfLanded(recs)
  <2>1. tools[t].cell \in Landed
    BY <1>6, <1>7 DEF Landed
  <2>2. RecordsOfLanded(tools[t].records)
    BY <1>3 DEF Progress
  <2>3. ASSUME NEW n \in DOMAIN recs
        PROVE  /\ recs[n].cell \in Landed /\ cells[recs[n].cell].name = n
               /\ cells[recs[n].cell].data = recs[n].dataHash
    <3>1. CASE n = done.name
      BY <1>7, <1>8, <1>9, <2>1, <3>1
    <3>2. CASE n # done.name
      <4>1. n \in DOMAIN tools[t].records /\ recs[n] = tools[t].records[n]
        BY <1>9, <2>3, <3>2
      <4> QED
        BY <2>2, <4>1 DEF RecordsOfLanded
    <3> QED
      BY <3>1, <3>2
  <2> QED
    BY <2>3 DEF RecordsOfLanded
<1>12. next \in Invocation
  <2>1. AfterCell(rest) \in ToolSteps
    BY DEF AfterCell, ToolSteps
  <2> QED
    BY <1>3, <1>5, <1>10, <2>1 DEF Invocation
<1>13. /\ next.step = AfterCell(rest) /\ next.todo = rest
       /\ next.existing = tools[t].existing /\ next.records = recs
  OBVIOUS
<1> HIDE DEF next
<1>14. tools'[t] = next
  BY <1>4 DEF DeployInv, ToolsOK
<1>15. FilesOK' /\ torn' \in BOOLEAN /\ CellsOK' /\ CellsStay /\ RecordsOfLanded(file)'
  BY <1>1, SameCells, FilesStay DEF DeployInv, FilesOK, CellsOK
<1>16. Progress(t)'
  <2>1. next.step \in {"send", "write"} /\ (next.step = "send" => next.todo # <<>>)
    BY <1>13 DEF AfterCell
  <2>2. /\ RecordsOfLanded(tools[t].existing)'
        /\ RecordsOfLanded(tools[t].records)'
    <3>1. PICK e, r : e = tools[t].existing /\ r = recs
      OBVIOUS
    <3>2. tools'[t].existing = e /\ tools'[t].records = r
      BY <1>13, <1>14, <3>1
    <3>3. RecordsOfLanded(e) /\ RecordsOfLanded(r)
      BY <1>3, <1>11, <3>1 DEF Progress
    <3>4. /\ \A n \in DOMAIN e : /\ e[n].cell \in Landed'
                                /\ cells'[e[n].cell].name = n /\ cells'[e[n].cell].data = e[n].dataHash
          /\ \A n \in DOMAIN r : /\ r[n].cell \in Landed'
                                /\ cells'[r[n].cell].name = n /\ cells'[r[n].cell].data = r[n].dataHash
      BY <1>15, <3>3, RecordsStay
    <3>5. RecordsOfLanded(tools[t].existing)'
      BY ONLY <3>2, <3>4 DEF RecordsOfLanded
    <3>6. RecordsOfLanded(tools[t].records)'
      BY ONLY <3>2, <3>4 DEF RecordsOfLanded
    <3> QED
      BY <3>5, <3>6
  <2> QED
    BY <1>13, <1>14, <2>1, <2>2 DEF Progress
<1> QED
  BY <1>4, <1>12, <1>15, <1>16, ToolMoves

\* The manifest is made of records of landed cells, old and new.
LEMMA ManifestIs ==
  ASSUME NEW e \in RecordMaps, NEW r \in RecordMaps, RecordsOfLanded(e), RecordsOfLanded(r)
  PROVE  /\ buildDeploymentManifest(e, r) \in RecordMaps
         /\ RecordsOfLanded(buildDeploymentManifest(e, r))
<1> DEFINE m == buildDeploymentManifest(e, r)
<1>1. /\ DOMAIN m = DOMAIN e \cup DOMAIN r
      /\ \A n \in DOMAIN m : m[n] = IF n \in DOMAIN r THEN r[n] ELSE e[n]
      /\ m = [n \in DOMAIN m |-> m[n]]
  BY DEF buildDeploymentManifest
<1> HIDE DEF m
<1>2. /\ DOMAIN e \subseteq Artifacts /\ \A n \in DOMAIN e : e[n] \in Records
      /\ DOMAIN r \subseteq Artifacts /\ \A n \in DOMAIN r : r[n] \in Records
  BY RecordMapsAre
<1>3. m \in RecordMaps
  <2>1. DOMAIN m \subseteq Artifacts /\ \A n \in DOMAIN m : m[n] \in Records
    BY <1>1, <1>2
  <2> QED
    BY <1>1, <2>1, RecordMapsAre
<1>4. RecordsOfLanded(m)
  BY <1>1 DEF RecordsOfLanded
<1> QED
  BY <1>3, <1>4 DEF m

\* The manifest is written.
LEMMA EndWriteKeepsInv ==
  ASSUME DeployInv, NEW t \in Tools, EndWrite(t)
  PROVE  DeployInv'
<1> DEFINE m == buildDeploymentManifest(tools[t].existing, tools[t].records)
<1>1. /\ tools[t].step = "writing" /\ Ends(t) /\ UNCHANGED <<elf, identities, cells>>
      /\ (file' = m /\ torn' = FALSE) \/ Tear
  BY DEF EndWrite, At
<1>2. tools[t] # Idle
  BY <1>1 DEF Idle
<1>3. CellsOK' /\ CellsStay
  BY <1>1, SameCells DEF DeployInv, CellsOK
<1>4. m \in RecordMaps /\ RecordsOfLanded(m)
  BY <1>2, InvocationFields, ManifestIs DEF Progress
<1> HIDE DEF m
<1>5. CASE Tear
  BY <1>1, <1>3, <1>5, EndsKeepsInv
<1>6. CASE file' = m /\ torn' = FALSE
  <2>1. FilesOK' /\ torn' \in BOOLEAN
    BY <1>1, <1>4, <1>6 DEF DeployInv, FilesOK
  <2>2. RecordsOfLanded(file)'
    BY <1>1, <1>4, <1>6 DEF RecordsOfLanded, Landed
  <2> QED
    BY <1>1, <1>3, <2>1, <2>2, ToolMoves DEF Ends
<1> QED
  BY <1>1, <1>5, <1>6

\* Every step of an invocation.
LEMMA ToolStepKeepsInv ==
  ASSUME DeployInv, NEW t \in Tools, ToolStep(t)
  PROVE  DeployInv'
<1>1. CellsOK /\ (UNCHANGED cells => CellsOK' /\ CellsStay)
  BY SameCells DEF DeployInv, CellsOK
<1>2. CASE /\ Ends(t) /\ UNCHANGED <<elf, identities, cells>>
           /\ UNCHANGED <<file, torn>> \/ Tear
  BY <1>1, <1>2, EndsKeepsInv
<1>3. CASE CheckBalance(t) /\ Goto(t, "send")
  <2>1. tools[t].step = "balance" /\ UNCHANGED <<elf, identities, cells, file, torn>>
    BY <1>3 DEF CheckBalance, At
  <2>2. tools[t] # Idle
    BY <2>1 DEF Idle
  <2>3. tools[t].todo # <<>> /\ "send" \in ToolSteps
    BY <2>1, <2>2, InvocationFields DEF Progress, ToolSteps
  <2> QED
    BY <1>3, <2>1, <2>2, <2>3, GotoKeepsInv DEF DeployInv
<1>4. CASE SendAnswerLost(t)
  <2>1. /\ tools[t].step = "send" /\ Len(cells) < MaxCells /\ Ends(t)
        /\ cells' = Accepted(Head(tools[t].todo)) /\ UNCHANGED <<elf, identities, file, torn>>
    BY <1>4 DEF SendAnswerLost, At
  <2>2. tools[t] # Idle
    BY <2>1 DEF Idle
  <2>3. Head(tools[t].todo) \in Planned
    BY <2>1, <2>2, InvocationFields, HeadTailProperties DEF Progress
  <2>4. cells' \in Seq(Cell) /\ Len(cells') = Len(cells) + 1 /\ CellsStay
    BY <1>1, <2>1, <2>3, AcceptedLast
  <2>5. CellsOK'
    BY <1>1, <2>1, <2>4, DeployConstants DEF CellsOK
  <2> QED
    BY <2>1, <2>4, <2>5, EndsKeepsInv
<1>5. CASE WaitEnds(t)
  <2>1. /\ tools[t].step = "wait" /\ Goto(t, "read")
        /\ UNCHANGED <<elf, identities, cells, file, torn>>
    BY <1>5 DEF WaitEnds, At
  <2>2. tools[t] # Idle
    BY <2>1 DEF Idle
  <2>3. tools[t].todo # <<>> /\ tools[t].cell \in DOMAIN cells /\ "read" \in ToolSteps
    BY <2>1, <2>2, InvocationFields DEF Progress, ToolSteps
  <2> QED
    BY <2>1, <2>2, <2>3, GotoKeepsInv DEF DeployInv
<1>6. CASE BeginWrite(t)
  <2>1. /\ tools[t].step = "write" /\ Goto(t, "writing") /\ Tear
        /\ UNCHANGED <<elf, identities, cells>>
    BY <1>6 DEF BeginWrite, At
  <2>2. tools[t] # Idle
    BY <2>1 DEF Idle
  <2>3. "writing" \in ToolSteps
    BY DEF ToolSteps
  <2> QED
    BY <2>1, <2>2, <2>3, GotoKeepsInv
<1>7. CASE WriteFails(t) \/ Crash(t)
  BY <1>2, <1>7 DEF WriteFails, Crash, StopsWriting
<1> QED
  BY <1>2, <1>3, <1>4, <1>5, <1>6, <1>7,
     SendKeepsInv, ReadBackKeepsInv, EndWriteKeepsInv, StartKeepsInv
  DEF ToolStep, publishDeployment, CheckBalance, SendRefused, WaitFails, ReadBackFails

\* Builds, the record of their identities, the operator and the chain.
LEMMA SurroundingsKeepInv ==
  ASSUME DeployInv, Surroundings
  PROVE  DeployInv'
<1>1. CASE \E n \in Rebuilt : Rebuild(n)
  <2>1. PICK n \in Rebuilt : Rebuild(n)
    BY <1>1
  <2>2. n \in Artifacts /\ elf \in [Artifacts -> Builds] /\ MaxBuilds \in Nat
    BY DeployConstants DEF DeployInv, FilesOK
  <2>3. elf[n] < MaxBuilds /\ elf' = [elf EXCEPT ![n] = elf[n] + 1]
        /\ UNCHANGED <<identities, cells, file, torn, tools>>
    BY <2>1 DEF Rebuild
  <2>4. elf[n] + 1 \in Builds
    BY <2>2, <2>3 DEF Builds
  <2>5. elf' \in [Artifacts -> Builds]
    BY <2>2, <2>3, <2>4
  <2> QED
    BY <2>3, <2>5, SameRecords DEF FilesOK, DeployInv
<1>2. CASE RecordIdentities \/ RemoveManifest
  <2>1. FilesOK' /\ UNCHANGED <<cells, file, tools>>
    BY <1>2 DEF RecordIdentities, RemoveManifest, DeployInv, FilesOK
  <2>2. torn' \in BOOLEAN
    BY <1>2, Zenon DEF RecordIdentities, RemoveManifest, DeployInv
  <2> QED
    BY <2>1, <2>2, SameRecords
<1>3. CASE \E i \in DOMAIN cells : ChainStep(i)
  <2>1. PICK i \in DOMAIN cells : ChainStep(i)
    BY <1>3
  <2>2. UNCHANGED <<elf, identities, file, torn, tools>>
    BY <2>1 DEF ChainStep
  <2>3. CellsOK' /\ CellsStay
    BY <2>1, ChainStepFacts DEF DeployInv
  <2>4. FilesOK' /\ torn' \in BOOLEAN /\ ToolsOK' /\ RecordsOfLanded(file)'
    BY <2>2, <2>3, FilesStay DEF DeployInv, FilesOK, ToolsOK
  <2>5. ASSUME NEW t \in Tools, tools[t] # Idle PROVE Progress(t)'
    <3>1. Progress(t)
      BY <2>5 DEF DeployInv
    <3> QED
      BY <2>2, <2>3, <3>1, RestsProgress
  <2> QED
    BY <2>2, <2>3, <2>4, <2>5 DEF DeployInv
<1> QED
  BY <1>1, <1>2, <1>3 DEF Surroundings

LEMMA InitDeployInv == Init => DeployInv
<1> SUFFICES ASSUME Init PROVE DeployInv
  OBVIOUS
<1>1. 1 \in Builds
  BY DeployConstants DEF Builds
<1>2. FilesOK
  BY <1>1, NoRecordsAre DEF Init, FilesOK
<1>3. CellsOK
  BY DeployConstants DEF Init, CellsOK
<1>4. ToolsOK /\ torn \in BOOLEAN /\ \A t \in Tools : tools[t] = Idle
  BY DEF Init, ToolsOK
<1>5. RecordsOfLanded(file)
  BY NoRecordsAre DEF Init, RecordsOfLanded
<1> QED
  BY <1>2, <1>3, <1>4, <1>5 DEF DeployInv

LEMMA NextDeployInv ==
  ASSUME DeployInv, [Next]_vars
  PROVE  DeployInv'
<1>1. CASE UNCHANGED vars
  <2>1. UNCHANGED <<elf, identities, cells, file, torn, tools>>
    BY <1>1 DEF vars
  <2> QED
    BY <2>1, SameRecords DEF DeployInv, FilesOK
<1> QED
  BY <1>1, ToolStepKeepsInv, SurroundingsKeepInv DEF Next

\* The safety part of the specification, which every system with a deploy tool in it
\* has, keeps the invariant.
THEOREM DeployInvariant == Init /\ [][Next]_vars => []DeployInv
<1>1. Init => DeployInv
  BY InitDeployInv
<1>2. DeployInv /\ [Next]_vars => DeployInv'
  BY NextDeployInv
<1> QED
  BY <1>1, <1>2, PTL

\* Types, and an invocation that waits or publishes knows what for.
THEOREM DeployTypeSafety == Spec => []TypeOK
<1>1. ASSUME DeployInv PROVE TypeOK
  <2>1. ASSUME NEW i \in DOMAIN cells
        PROVE  cells[i] \in [name : Artifacts, data : Builds, dataHash : Builds,
                             status : {"pending", "live", "dropped", "consumed"}]
    BY <1>1, <2>1 DEF DeployInv, CellsOK, Cell
  <2>2. ASSUME NEW t \in Tools, tools[t] # Idle
        PROVE  /\ tools[t].existing \in RecordMaps /\ tools[t].records \in RecordMaps
               /\ At(t, "send") \/ At(t, "wait") \/ At(t, "read") => tools[t].todo # <<>>
               /\ At(t, "wait") \/ At(t, "read") => tools[t].cell \in DOMAIN cells
    BY <1>1, <2>2, InvocationFields DEF Progress, At
  <2> QED
    BY <1>1, <2>1, <2>2 DEF TypeOK, DeployInv, FilesOK, CellsOK
<1> QED
  BY <1>1, DeployInvariant, PTL DEF Spec

\* However builds, invocations, crashes and the chain interleave, no cell is sent whose
\* data is not the build of record at the time of its plan.
THEOREM IdentifiedBuildsOnly == Spec => []OnlyIdentifiedBuildsLand
<1>1. DeployInv => OnlyIdentifiedBuildsLand
  BY DEF DeployInv, CellsOK, Cell, OnlyIdentifiedBuildsLand
<1> QED
  BY <1>1, DeployInvariant, PTL DEF Spec

\* Every record of deploy/testnet-deployments.json names a cell that was committed for
\* that artifact and holds the data the record claims, for any number of invocations.
THEOREM ManifestRecordsLanded == Spec => []RecordsLanded
<1>1. DeployInv => RecordsLanded
  BY DEF DeployInv, RecordsOfLanded, RecordsLanded
<1> QED
  BY <1>1, DeployInvariant, PTL DEF Spec

\* A landed cell is one a node accepted, and has a number.
LEMMA RecordCells ==
  ASSUME DeployInv, NEW m, RecordsOfLanded(m), NEW n \in DOMAIN m
  PROVE  m[n].cell \in Nat /\ m[n].cell <= Len(cells) /\ Len(cells) \in Nat
<1>1. m[n].cell \in DOMAIN cells
  BY DEF RecordsOfLanded, Landed
<1>2. DOMAIN cells = 1..Len(cells) /\ Len(cells) \in Nat
  BY DEF DeployInv, CellsOK
<1> QED
  BY <1>1, <1>2

\* Without a second invocation nothing comes between reading the file and writing it.
LEMMA NextOnlyWriter ==
  ASSUME OneAtATime, DeployInv, OnlyWriter, [Next]_vars
  PROVE  OnlyWriter'
<1>1. CASE UNCHANGED <<tools, file, torn>>
  BY <1>1 DEF OnlyWriter, Newer
<1>2. CASE \E t \in Tools : ToolStep(t)
  <2>1. PICK t \in Tools : ToolStep(t)
    BY <1>2
  <2>2. \A s \in Tools : s = t
    BY DEF OneAtATime
  <2>3. ASSUME Ends(t), torn' => file' = NoRecords
        PROVE  OnlyWriter'
    <3>1. tools'[t] = Idle
      BY <2>3 DEF Ends, DeployInv, ToolsOK
    <3> QED
      BY <2>2, <2>3, <3>1 DEF OnlyWriter
  <2>4. ASSUME NEW step, Goto(t, step), tools[t] # Idle, tools[t].step # "writing",
               step \in {"wait", "read"} => tools[t].step \in {"wait", "read"},
               IF step = "writing" THEN Tear ELSE UNCHANGED <<file, torn>>
        PROVE  OnlyWriter'
    <3>1. tools[t] \in Invocation
      BY <2>4, InvocationFields
    <3>2. tools'[t] = [tools[t] EXCEPT !.step = step]
      BY <2>4 DEF Goto, DeployInv, ToolsOK
    <3>3. /\ tools'[t].existing = tools[t].existing /\ tools'[t].records = tools[t].records
          /\ tools'[t].cell = tools[t].cell /\ tools'[t].step = step
      BY <3>1, <3>2 DEF Invocation
    <3>4. Newer(t)'
      BY <2>4, <3>3 DEF OnlyWriter, Newer
    <3>5. CASE step = "writing"
      BY <2>2, <2>4, <3>3, <3>4, <3>5 DEF OnlyWriter, Tear
    <3>6. CASE step # "writing"
      BY <2>2, <2>4, <3>3, <3>4, <3>6 DEF OnlyWriter
    <3> QED
      BY <3>5, <3>6
  <2>5. CASE \E c \in Commands : Start(t, c)
    <3>1. PICK c \in Commands : Start(t, c)
      BY <2>5
    <3>2. /\ tools'[t] = [step |-> "balance",
                          todo |-> buildDeploymentPlan(parseDeploymentArgs(c)),
                          existing |-> file, records |-> NoRecords, cell |-> 0]
          /\ ~torn /\ UNCHANGED <<file, torn>>
      BY <3>1 DEF Start, DeployInv, ToolsOK
    <3>3. /\ tools'[t].step = "balance" /\ tools'[t].existing = file
          /\ tools'[t].records = NoRecords
      BY <3>2
    <3>4. Newer(t)'
      BY <3>3, NoRecordsAre DEF Newer
    <3> QED
      BY <2>2, <3>2, <3>3, <3>4 DEF OnlyWriter
  <2>6. CASE Send(t)
    <3> DEFINE new == Len(cells) + 1
    <3>1. tools[t].step = "send" /\ UNCHANGED <<file, torn>>
      BY <2>6 DEF Send, At
    <3>2. tools[t] # Idle
      BY <3>1 DEF Idle
    <3>3. tools[t] \in Invocation /\ RecordsOfLanded(tools[t].existing)
      BY <3>2, InvocationFields DEF Progress
    <3>4. tools'[t] = [tools[t] EXCEPT !.step = "wait", !.cell = new]
      BY <2>6 DEF Send, DeployInv, ToolsOK
    <3> HIDE DEF new
    <3>5. /\ tools'[t].existing = tools[t].existing /\ tools'[t].records = tools[t].records
          /\ tools'[t].cell = new /\ tools'[t].step = "wait"
      <4>1. [tools[t] EXCEPT !.step = "wait"]
              = [step |-> "wait", todo |-> tools[t].todo, existing |-> tools[t].existing,
                 records |-> tools[t].records, cell |-> tools[t].cell]
        BY <3>3 DEF Invocation
      <4>2. [[step |-> "wait", todo |-> tools[t].todo, existing |-> tools[t].existing,
              records |-> tools[t].records, cell |-> tools[t].cell] EXCEPT !.cell = new]
              = [step |-> "wait", todo |-> tools[t].todo, existing |-> tools[t].existing,
                 records |-> tools[t].records, cell |-> new]
        OBVIOUS
      <4>3. tools'[t] = [step |-> "wait", todo |-> tools[t].todo,
                         existing |-> tools[t].existing,
                         records |-> tools[t].records, cell |-> new]
        BY <3>4, <4>1, <4>2
      <4> QED
        BY <4>3
    <3>6. \A n \in DOMAIN tools[t].existing : new > tools[t].existing[n].cell
      BY <3>3, RecordCells DEF new
    <3>7. Newer(t)'
      BY <3>2, <3>5, <3>6 DEF OnlyWriter, Newer
    <3> QED
      BY <2>2, <3>1, <3>2, <3>5, <3>7 DEF OnlyWriter
  <2>7. CASE ReadBack(t)
    <3> DEFINE name == Head(tools[t].todo).name
               new  == [cell |-> tools[t].cell, dataHash |-> Head(tools[t].todo).dataHash]
               recs == WithRecord(tools[t].records, name, new)
               rest == Tail(tools[t].todo)
               next == [step |-> AfterCell(rest), todo |-> rest,
                        existing |-> tools[t].existing, records |-> recs,
                        cell |-> tools[t].cell]
    <3>1. tools[t].step = "read" /\ UNCHANGED <<file, torn>>
      BY <2>7 DEF ReadBack, At
    <3>2. tools[t] # Idle
      BY <3>1 DEF Idle
    <3>3. tools[t] \in Invocation
      BY <3>2, InvocationFields
    <3>4. tools' = [tools EXCEPT ![t] = next]
      BY <2>7, <3>3, RecordedIs DEF DeployInv, ReadBack
    <3>5. next.existing = tools[t].existing /\ next.records = recs
          /\ next.step \in {"write", "send"}
      BY DEF AfterCell
    <3>6. new.cell = tools[t].cell
      OBVIOUS
    <3> HIDE DEF new, name
    <3>7. /\ DOMAIN recs = DOMAIN tools[t].records \cup {name}
          /\ \A n \in DOMAIN recs : recs[n] = IF n = name THEN new ELSE tools[t].records[n]
      BY DEF WithRecord
    <3> HIDE DEF recs, next
    <3>8. tools'[t] = next
      BY <3>4 DEF DeployInv, ToolsOK
    <3>9. PICK e : e = tools[t].existing
      OBVIOUS
    <3>10. /\ \A n \in DOMAIN e : tools[t].cell > e[n].cell
           /\ \A n \in DOMAIN e \cap DOMAIN tools[t].records : tools[t].records[n].cell > e[n].cell
      BY <3>1, <3>2, <3>9 DEF OnlyWriter, Newer
    <3>11. \A n \in DOMAIN e \cap DOMAIN recs : recs[n].cell > e[n].cell
      BY <3>6, <3>7, <3>10
    <3>12. Newer(t)'
      BY <3>5, <3>8, <3>9, <3>11 DEF Newer
    <3> QED
      BY <2>2, <3>1, <3>2, <3>5, <3>8, <3>12 DEF OnlyWriter
  <2>8. CASE CheckBalance(t) /\ Goto(t, "send")
    <3>1. tools[t].step = "balance" /\ UNCHANGED <<file, torn>>
      BY <2>8 DEF CheckBalance, At
    <3>2. tools[t] # Idle
      BY <3>1 DEF Idle
    <3> QED
      BY <2>4, <2>8, <3>1, <3>2
  <2>9. CASE WaitEnds(t)
    <3>1. tools[t].step = "wait" /\ UNCHANGED <<file, torn>> /\ Goto(t, "read")
      BY <2>9 DEF WaitEnds, At
    <3>2. tools[t] # Idle
      BY <3>1 DEF Idle
    <3> QED
      BY <2>4, <3>1, <3>2
  <2>10. CASE BeginWrite(t)
    <3>1. tools[t].step = "write" /\ Tear /\ Goto(t, "writing")
      BY <2>10 DEF BeginWrite, At
    <3>2. tools[t] # Idle
      BY <3>1 DEF Idle
    <3> QED
      BY <2>4, <3>1, <3>2
  <2>11. CASE Ends(t) /\ UNCHANGED <<file, torn>>
    BY <2>3, <2>11 DEF OnlyWriter
  <2>12. CASE EndWrite(t) \/ WriteFails(t) \/ Crash(t)
    <3>1. Ends(t)
      BY <2>12 DEF EndWrite, WriteFails, Crash
    <3>2. torn' = FALSE \/ Tear \/ UNCHANGED <<file, torn>>
      BY <2>12, Zenon DEF EndWrite, WriteFails, Crash, StopsWriting
    <3>3. torn' => file' = NoRecords
      BY <3>2 DEF OnlyWriter, Tear
    <3> QED
      BY <2>3, <3>1, <3>3
  <2> QED
    BY <2>1, <2>5, <2>6, <2>7, <2>8, <2>9, <2>10, <2>11, <2>12
    DEF ToolStep, publishDeployment, CheckBalance, SendRefused, SendAnswerLost, WaitFails,
        ReadBackFails
<1>3. CASE RemoveManifest
  <2>1. torn /\ torn' = FALSE /\ UNCHANGED tools /\ \A t \in Tools : tools[t].step # "writing"
    BY <1>3 DEF RemoveManifest, At
  <2>2. \A t \in Tools : tools[t] = Idle
    BY <2>1 DEF OnlyWriter
  <2> QED
    BY <2>1, <2>2 DEF OnlyWriter
<1> QED
  BY <1>1, <1>2, <1>3 DEF Next, Surroundings, Rebuild, RecordIdentities, ChainStep, vars

\* Every step leaves the accepted cells what they are.
LEMMA NextCellsStay ==
  ASSUME DeployInv, [Next]_vars
  PROVE  CellsStay
<1>1. CASE \E t \in Tools : Send(t) \/ SendAnswerLost(t)
  <2>1. PICK t \in Tools : Send(t) \/ SendAnswerLost(t)
    BY <1>1
  <2>2. tools[t].step = "send" /\ cells' = Accepted(Head(tools[t].todo))
    BY <2>1 DEF Send, SendAnswerLost, At
  <2>3. tools[t] # Idle
    BY <2>2 DEF Idle
  <2>4. Head(tools[t].todo) \in Planned
    BY <2>2, <2>3, InvocationFields, HeadTailProperties DEF Progress
  <2> QED
    BY <2>2, <2>4, AcceptedLast DEF DeployInv
<1>2. CASE \E i \in DOMAIN cells : ChainStep(i)
  BY <1>2, ChainStepFacts DEF DeployInv
<1>3. CASE UNCHANGED cells
  BY <1>3, SameCells
<1> QED
  BY <1>1, <1>2, <1>3
  DEF Next, ToolStep, Surroundings, publishDeployment, Start, CheckBalance, SendRefused, WaitEnds,
      WaitFails, ReadBack, ReadBackFails, BeginWrite, EndWrite, WriteFails, Crash, Rebuild,
      RecordIdentities, RemoveManifest, vars

\* The records that are still to be had, where there is one invocation.
LEMMA HeldIs ==
  ASSUME OneAtATime, NEW t \in Tools
  PROVE  /\ Held = IF torn /\ At(t, "writing") THEN tools[t].existing ELSE file
         /\ Held' = IF torn' /\ tools'[t].step = "writing" THEN tools'[t].existing ELSE file'
<1>1. \A s \in Tools : s = t
  BY DEF OneAtATime
<1>2. ASSUME At(t, "writing") PROVE (CHOOSE s \in Tools : At(s, "writing")) = t
  BY <1>1, <1>2
<1>3. ASSUME tools'[t].step = "writing"
      PROVE  (CHOOSE s \in Tools : tools'[s].step = "writing") = t
  BY <1>1, <1>3
<1> QED
  BY <1>1, <1>2, <1>3 DEF Held, At

LEMMA HeldByFile == (~torn => Held = file) /\ (~torn' => Held' = file')
BY DEF Held

\* The manifest is written: it has what was held, or newer.
LEMMA EndWriteRecords ==
  ASSUME OneAtATime, DeployInv, OnlyWriter, NEW t \in Tools, EndWrite(t)
  PROVE  Promise!Record
<1> DEFINE e == tools[t].existing
           r == tools[t].records
<1>1. tools[t].step = "writing" /\ cells' = cells /\ Ends(t)
  BY DEF EndWrite, At
<1>2. tools[t] # Idle
  BY <1>1 DEF Idle
<1>3. torn
  BY <1>1, <1>2, Zenon DEF OnlyWriter
<1>4. /\ torn' = FALSE
      /\ file' = [n \in DOMAIN e \cup DOMAIN r |-> IF n \in DOMAIN r THEN r[n] ELSE e[n]]
  BY <1>3, Zenon DEF EndWrite, buildDeploymentManifest
<1>5. Held = e /\ Held' = file'
  BY <1>1, <1>3, <1>4, HeldIs, HeldByFile DEF At
<1>6. \A n \in DOMAIN e \cap DOMAIN r : r[n].cell > e[n].cell
  BY <1>2 DEF OnlyWriter, Newer
<1>7. e \in RecordMaps /\ r \in RecordMaps /\ RecordsOfLanded(r)
  BY <1>2, InvocationFields DEF Progress
<1>8. DOMAIN e \subseteq Artifacts /\ DOMAIN r \subseteq Artifacts
  BY <1>7, RecordMapsAre
<1>9. \A n \in DOMAIN r : r[n].cell \in Landed
  BY <1>7 DEF RecordsOfLanded
<1> HIDE DEF e, r
<1>10. /\ DOMAIN file' = DOMAIN e \cup DOMAIN r
       /\ \A n \in DOMAIN file' : file'[n] = IF n \in DOMAIN r THEN r[n] ELSE e[n]
  BY <1>4
<1>11. Landed' = Landed
  BY <1>1 DEF Landed
<1>12. \A n \in DOMAIN file' : Promise!Recorded(n, file'[n])
  BY <1>5, <1>6, <1>9, <1>10 DEF Promise!Recorded
<1>13. DOMAIN Held \subseteq DOMAIN Held' /\ DOMAIN Held' \subseteq Artifacts
  BY <1>5, <1>8, <1>10
<1> QED
  BY <1>3, <1>4, <1>5, <1>11, <1>12, <1>13 DEF Promise!Record

\* What a step does to the manifest and to the landed cells.
LEMMA PromiseStep ==
  ASSUME OneAtATime, DeployInv, OnlyWriter, [Next]_vars
  PROVE  [Promise!Next]_(Promise!vars)
<1>1. Landed \subseteq Landed'
  BY NextCellsStay DEF CellsStay, Landed
<1>2. ASSUME ~torn, UNCHANGED <<file, torn>>
      PROVE  Promise!Land
  <2>1. Held = file /\ Held' = file
    BY <1>2, HeldByFile
  <2> QED
    BY <1>1, <1>2, <2>1 DEF Promise!Land
<1>3. ASSUME NEW t \in Tools, ToolStep(t)
      PROVE  Promise!Next
  <2>1. CASE BeginWrite(t)
    <3>1. /\ tools[t].step = "write" /\ Goto(t, "writing") /\ cells' = cells
          /\ file' = NoRecords /\ torn' = TRUE
      BY <2>1 DEF BeginWrite, At, Tear
    <3>2. tools[t] # Idle
      BY <3>1 DEF Idle
    <3>3. ~torn /\ tools[t].existing = file
      BY <3>1, <3>2 DEF OnlyWriter
    <3>4. tools'[t].step = "writing" /\ tools'[t].existing = tools[t].existing
      <4>1. tools[t] \in Invocation
        BY <3>2, InvocationFields
      <4>2. tools'[t] = [tools[t] EXCEPT !.step = "writing"]
        BY <3>1 DEF Goto, DeployInv, ToolsOK
      <4> QED
        BY <4>1, <4>2 DEF Invocation
    <3>5. Held = file /\ Held' = file
      BY <3>1, <3>3, <3>4, HeldIs, HeldByFile
    <3>6. Landed' = Landed
      BY <3>1 DEF Landed
    <3>7. Promise!Rewrite
      BY <3>1, <3>3, <3>5, <3>6 DEF Promise!Rewrite, Promise!Empty, NoRecords
    <3> QED
      BY <3>7 DEF Promise!Next
  <2>2. CASE EndWrite(t)
    BY <2>2, EndWriteRecords DEF Promise!Next
  <2>3. CASE (WriteFails(t) \/ Crash(t)) /\ tools[t].step = "writing"
    <3>1. Ends(t) /\ cells' = cells /\ (UNCHANGED <<file, torn>> \/ Tear)
      BY <2>3 DEF WriteFails, Crash, StopsWriting
    <3>2. tools[t] # Idle
      BY <2>3 DEF Idle
    <3>3. torn /\ file = NoRecords
      BY <2>3, <3>2 DEF OnlyWriter
    <3>4. torn' = torn /\ file' = NoRecords
      BY <3>1, <3>3, Zenon DEF Tear
    <3>5. tools'[t].step # "writing"
      BY <3>1 DEF Ends, DeployInv, ToolsOK, Idle
    <3>6. Held' = NoRecords
      BY <3>4, <3>5, HeldIs
    <3>7. Landed' = Landed
      BY <3>1 DEF Landed
    <3>8. Promise!Lose
      BY <3>3, <3>4, <3>6, <3>7 DEF Promise!Lose, Promise!Empty, NoRecords
    <3> QED
      BY <3>8 DEF Promise!Next
  <2>4. CASE ~(BeginWrite(t) \/ EndWrite(t)) /\ tools[t].step # "writing"
    <3>1. UNCHANGED <<file, torn>>
      BY <1>3, <2>4 DEF ToolStep, publishDeployment, Start, CheckBalance, Send, SendRefused,
         SendAnswerLost, WaitEnds, WaitFails, ReadBack, ReadBackFails, WriteFails, Crash,
         StopsWriting, At
    <3>2. CASE tools[t] = Idle
      <4>1. tools[t].step = "idle"
        BY <3>2 DEF Idle
      <4>2. \E c \in Commands : Start(t, c)
        BY <1>3, <3>2, <4>1 DEF ToolStep, publishDeployment, CheckBalance, Send, SendRefused,
           SendAnswerLost, WaitEnds, WaitFails, ReadBack, ReadBackFails, BeginWrite, EndWrite,
           WriteFails, Crash, At
      <4>3. ~torn
        BY <4>2 DEF Start
      <4> QED
        BY <1>2, <3>1, <4>3 DEF Promise!Next
    <3>3. CASE tools[t] # Idle
      <4>1. ~torn
        BY <2>4, <3>3 DEF OnlyWriter
      <4> QED
        BY <1>2, <3>1, <4>1 DEF Promise!Next
    <3> QED
      BY <3>2, <3>3
  <2>5. CASE tools[t].step = "writing" /\ ~EndWrite(t)
    <3>1. tools[t] # Idle
      BY <2>5 DEF Idle
    <3>2. WriteFails(t) \/ Crash(t)
      BY <1>3, <2>5, <3>1 DEF ToolStep, publishDeployment, Start, CheckBalance, Send, SendRefused,
         SendAnswerLost, WaitEnds, WaitFails, ReadBack, ReadBackFails, BeginWrite, At
    <3> QED
      BY <2>3, <2>5, <3>2
  <2> QED
    BY <2>1, <2>2, <2>4, <2>5
<1>4. CASE RemoveManifest
  <2>1. /\ torn /\ torn' = FALSE /\ UNCHANGED <<cells, file, tools>>
        /\ ~\E t \in Tools : At(t, "writing")
    BY <1>4 DEF RemoveManifest
  <2>2. file = NoRecords
    BY <2>1 DEF OnlyWriter
  <2>3. Held = file /\ Held' = file'
    BY <2>1, HeldByFile DEF Held
  <2>4. Landed' = Landed
    BY <2>1 DEF Landed
  <2>5. Promise!Clear
    BY <2>1, <2>2, <2>3, <2>4 DEF Promise!Clear, Promise!Empty, NoRecords
  <2> QED
    BY <2>5 DEF Promise!Next
<1>5. CASE UNCHANGED <<tools, file, torn>>
  <2>1. Held' = Held
    BY <1>5 DEF Held, At
  <2> QED
    BY <1>1, <1>5, <2>1 DEF Promise!Land, Promise!Next
<1> QED
  BY <1>3, <1>4, <1>5 DEF Next, Surroundings, Rebuild, RecordIdentities, ChainStep, vars

\* Where invocations do not overlap, publishing keeps its promise, for any number of
\* builds, cells, failures and crashes: a manifest that can be read has every record of
\* the one before it, or that of a newer cell that has landed.  Records are lost only
\* with the whole file, by a write that is cut short, and until that file is cleared
\* away it cannot be read.  (Two at a time may lose each other's records.)
THEOREM OneToolKeepsPromise ==
  ASSUME OneAtATime
  PROVE  Init /\ [][Next]_vars => KeepsPromise
<1>1. Init => OnlyWriter /\ Promise!Init
  <2> SUFFICES ASSUME Init PROVE OnlyWriter /\ Promise!Init
    OBVIOUS
  <2>1. OnlyWriter
    BY DEF Init, OnlyWriter
  <2>2. Landed = {}
    BY DEF Init, Landed
  <2>3. torn = FALSE /\ Held = file
    BY DEF Init, Held
  <2> QED
    BY <2>1, <2>2, <2>3 DEF Init, Promise!Init, Promise!Empty, NoRecords
<1>2. DeployInv /\ OnlyWriter /\ [Next]_vars => OnlyWriter'
  BY NextOnlyWriter
<1>3. DeployInv /\ OnlyWriter /\ [Next]_vars => [Promise!Next]_(Promise!vars)
  BY PromiseStep
<1> QED
  BY <1>1, <1>2, <1>3, DeployInvariant, PTL DEF KeepsPromise, Promise!Spec

-----------------------------------------------------------------------------
(***************************************************************************)
(* What InvocationsEnd rests on: an invocation has three awaits for each   *)
(* cell it has still to publish, and a few more; every step of it ends it  *)
(* or is one fewer, and no other invocation, build or block gives it more. *)
(***************************************************************************)
Thrice(n) == (n + n) + n

AwaitsLeft(step, cellsLeft) ==
  IF step = "balance" THEN Thrice(cellsLeft) + 3
  ELSE IF step = "send" THEN Thrice(cellsLeft) + 2
  ELSE IF step = "wait" THEN Thrice(cellsLeft) + 1
  ELSE IF step = "read" THEN Thrice(cellsLeft)
  ELSE IF step = "write" THEN 2
  ELSE 1

InvocationLeft(invocation) == AwaitsLeft(invocation.step, Len(invocation.todo))

\* What a step may do to an invocation that is under way.
InvocationAdvances(t) ==
  /\ publishDeployment(t) =>
       \/ tools'[t] = Idle
       \/ InvocationLeft(tools'[t]) < InvocationLeft(tools[t])
  /\ tools[t] # Idle =>
       \/ tools'[t] \in {tools[t], Idle}
       \/ InvocationLeft(tools'[t]) < InvocationLeft(tools[t])

LEMMA ThriceIs ==
  ASSUME NEW n \in Nat
  PROVE  /\ Thrice(n) \in Nat /\ (n # 0 => Thrice(n) > 2)
         /\ \A m \in Nat : m + 1 = n => Thrice(m) + 2 < Thrice(n)
BY DEF Thrice

LEMMA AwaitsLeftIs ==
  ASSUME NEW n
  PROVE  /\ AwaitsLeft("balance", n) = Thrice(n) + 3 /\ AwaitsLeft("send", n) = Thrice(n) + 2
         /\ AwaitsLeft("wait", n) = Thrice(n) + 1 /\ AwaitsLeft("read", n) = Thrice(n)
         /\ AwaitsLeft("write", n) = 2 /\ AwaitsLeft("writing", n) = 1
BY DEF AwaitsLeft

\* How many cells an invocation has still to publish.
LEMMA CellsToPublish ==
  ASSUME DeployInv, NEW t \in Tools, tools[t] # Idle
  PROVE  /\ Len(tools[t].todo) \in Nat
         /\ tools[t].step \in {"balance", "send", "wait", "read"} => Len(tools[t].todo) # 0
<1>1. tools[t].todo \in Seq(Planned) /\ Progress(t)
  BY InvocationFields
<1> QED
  BY <1>1, EmptySeq DEF Progress

LEMMA InvocationLeftPositive ==
  ASSUME DeployInv, NEW t \in Tools, tools[t] # Idle
  PROVE  InvocationLeft(tools[t]) \in Nat \ {0}
<1>1. PICK n \in Nat : n = Len(tools[t].todo)
  BY CellsToPublish
<1>2. CASE tools[t].step \in {"balance", "send", "wait", "read"}
  <2>1. n \in Nat \ {0}
    BY <1>1, <1>2, CellsToPublish
  <2>2. PICK k \in Nat : k = Thrice(n) /\ k > 2
    BY <2>1, ThriceIs
  <2>3. InvocationLeft(tools[t]) \in {k, k + 1, k + 2, k + 3}
    BY <1>1, <1>2, <2>2, AwaitsLeftIs DEF InvocationLeft
  <2> QED
    BY <2>2, <2>3
<1>3. CASE tools[t].step \in {"write", "writing"}
  BY <1>3, AwaitsLeftIs DEF InvocationLeft
<1> QED
  BY <1>2, <1>3, InvocationFields DEF ToolSteps

\* The step of an invocation and what it has to publish, after it has gone on.
LEMMA GotoIs ==
  ASSUME DeployInv, NEW t \in Tools, tools[t] # Idle, NEW step, Goto(t, step)
  PROVE  tools'[t].step = step /\ tools'[t].todo = tools[t].todo
<1>1. tools[t] \in Invocation
  BY InvocationFields
<1>2. tools'[t] = [tools[t] EXCEPT !.step = step]
  BY DEF Goto, DeployInv, ToolsOK
<1> QED
  BY <1>1, <1>2 DEF Invocation

LEMMA SendIs ==
  ASSUME DeployInv, NEW t \in Tools, tools[t] # Idle, Send(t)
  PROVE  tools'[t].step = "wait" /\ tools'[t].todo = tools[t].todo
<1>1. tools[t] \in Invocation
  BY InvocationFields
<1>2. tools'[t] = [[tools[t] EXCEPT !.step = "wait"] EXCEPT !.cell = Len(cells) + 1]
  BY DEF Send, DeployInv, ToolsOK
<1> QED
  BY <1>1, <1>2 DEF Invocation

\* A step of its own ends the invocation or is one fewer.
LEMMA PublishAdvances ==
  ASSUME DeployInv, NEW t \in Tools, publishDeployment(t)
  PROVE  tools'[t] = Idle \/ InvocationLeft(tools'[t]) < InvocationLeft(tools[t])
<1>1. tools[t] # Idle
  <2>1. tools[t].step # "idle"
    <3>1. CASE CheckBalance(t) \/ Send(t) \/ SendRefused(t) \/ SendAnswerLost(t)
      BY <3>1 DEF CheckBalance, Send, SendRefused, SendAnswerLost, At
    <3>2. CASE WaitEnds(t) \/ WaitFails(t) \/ ReadBack(t) \/ ReadBackFails(t)
      BY <3>2 DEF WaitEnds, WaitFails, ReadBack, ReadBackFails, At
    <3>3. CASE BeginWrite(t) \/ EndWrite(t) \/ WriteFails(t)
      BY <3>3 DEF BeginWrite, EndWrite, WriteFails, At
    <3> QED
      BY <3>1, <3>2, <3>3 DEF publishDeployment
  <2> QED
    BY <2>1 DEF Idle
<1>2. PICK n \in Nat : n = Len(tools[t].todo)
  BY <1>1, CellsToPublish
<1>3. CASE Ends(t)
  BY <1>3 DEF Ends, DeployInv, ToolsOK
<1>4. CASE \/ CheckBalance(t) /\ Goto(t, "send")
           \/ Send(t) \/ WaitEnds(t)
  <2>1. n \in Nat \ {0}
    BY <1>1, <1>2, <1>4, CellsToPublish DEF CheckBalance, Send, WaitEnds, At
  <2>2. PICK k \in Nat : k = Thrice(n)
    BY <2>1, ThriceIs
  <2>3. /\ \/ tools[t].step = "balance" /\ tools'[t].step = "send"
           \/ tools[t].step = "send" /\ tools'[t].step = "wait"
           \/ tools[t].step = "wait" /\ tools'[t].step = "read"
        /\ tools'[t].todo = tools[t].todo
    BY <1>1, <1>4, GotoIs, SendIs DEF CheckBalance, Send, WaitEnds, At
  <2>4. \/ InvocationLeft(tools[t]) = k + 3 /\ InvocationLeft(tools'[t]) = k + 2
        \/ InvocationLeft(tools[t]) = k + 2 /\ InvocationLeft(tools'[t]) = k + 1
        \/ InvocationLeft(tools[t]) = k + 1 /\ InvocationLeft(tools'[t]) = k
    BY <1>2, <2>2, <2>3, AwaitsLeftIs DEF InvocationLeft
  <2> QED
    BY <2>2, <2>4
<1>5. CASE ReadBack(t)
  <2>1. tools[t].step = "read" /\ Recorded(t)
    BY <1>5 DEF ReadBack, At
  <2>2. n \in Nat \ {0} /\ tools[t] \in Invocation /\ tools[t].todo \in Seq(Planned)
    BY <1>1, <1>2, <2>1, CellsToPublish, InvocationFields
  <2>3. tools'[t].step = AfterCell(Tail(tools[t].todo)) /\ tools'[t].todo = Tail(tools[t].todo)
    <3>1. PICK recs : tools' = [tools EXCEPT ![t] =
            [step |-> AfterCell(Tail(tools[t].todo)), todo |-> Tail(tools[t].todo),
             existing |-> tools[t].existing, records |-> recs, cell |-> tools[t].cell]]
      BY <2>1, <2>2, RecordedIs DEF DeployInv
    <3>2. tools'[t] = [step |-> AfterCell(Tail(tools[t].todo)), todo |-> Tail(tools[t].todo),
                       existing |-> tools[t].existing, records |-> recs, cell |-> tools[t].cell]
      BY <3>1 DEF DeployInv, ToolsOK
    <3> QED
      BY <3>2
  <2>4. PICK m \in Nat : m = Len(Tail(tools[t].todo)) /\ m + 1 = n
    <3>1. tools[t].todo # <<>>
      BY <1>2, <2>2, EmptySeq
    <3>2. Len(Tail(tools[t].todo)) = Len(tools[t].todo) - 1
      BY <2>2, <3>1, HeadTailProperties
    <3>3. Len(Tail(tools[t].todo)) \in Nat /\ Len(Tail(tools[t].todo)) + 1 = n
      BY ONLY <1>2, <2>2, <3>2
    <3> QED
      BY ONLY <3>3
  <2>5. PICK k \in Nat, j \in Nat : k = Thrice(n) /\ k > 2 /\ j = Thrice(m) /\ j + 2 < k
    BY <2>2, <2>4, ThriceIs
  <2>6. InvocationLeft(tools[t]) = k
    BY <1>2, <2>1, <2>5, AwaitsLeftIs DEF InvocationLeft
  <2>7. InvocationLeft(tools'[t]) = j + 2 \/ InvocationLeft(tools'[t]) = 2
    BY <2>3, <2>4, <2>5, AwaitsLeftIs DEF InvocationLeft, AfterCell
  <2> QED
    BY <2>5, <2>6, <2>7
<1>6. CASE BeginWrite(t)
  <2>1. tools[t].step = "write" /\ tools'[t].step = "writing"
    BY <1>1, <1>6, GotoIs DEF BeginWrite, At
  <2>2. InvocationLeft(tools[t]) = 2 /\ InvocationLeft(tools'[t]) = 1
    BY <2>1, AwaitsLeftIs DEF InvocationLeft
  <2> QED
    BY <2>2
<1> QED
  BY <1>3, <1>4, <1>5, <1>6 DEF publishDeployment, CheckBalance, SendRefused, SendAnswerLost,
     WaitFails, ReadBackFails, EndWrite, WriteFails

\* A step of one invocation leaves the others where they are.
LEMMA OthersStay ==
  ASSUME DeployInv, NEW s \in Tools, ToolStep(s), NEW t \in Tools, t # s
  PROVE  tools'[t] = tools[t]
<1>1. CASE publishDeployment(s) /\ ~ReadBack(s)
  BY <1>1 DEF publishDeployment, CheckBalance, Send, SendRefused, SendAnswerLost, WaitEnds, WaitFails,
     ReadBackFails, BeginWrite, EndWrite, WriteFails, Goto, Ends, DeployInv, ToolsOK
<1>2. CASE ReadBack(s)
  <2>1. tools[s] # Idle
    BY <1>2 DEF ReadBack, At, Idle
  <2>2. tools[s] \in Invocation /\ Recorded(s)
    BY <1>2, <2>1, InvocationFields DEF ReadBack
  <2> QED
    BY <2>2, RecordedIs DEF DeployInv, ToolsOK
<1>3. CASE Crash(s) \/ \E c \in Commands : Start(s, c)
  BY <1>3 DEF Crash, Ends, Start, DeployInv, ToolsOK
<1> QED
  BY <1>1, <1>2, <1>3 DEF ToolStep

LEMMA NextAdvances ==
  ASSUME DeployInv, Next, NEW t \in Tools
  PROVE  InvocationAdvances(t)
<1>1. ASSUME tools[t] # Idle
      PROVE  \/ tools'[t] \in {tools[t], Idle}
             \/ InvocationLeft(tools'[t]) < InvocationLeft(tools[t])
  <2>1. CASE ToolStep(t)
    <3>1. CASE publishDeployment(t)
      BY <3>1, PublishAdvances
    <3>2. CASE Crash(t)
      BY <3>2 DEF Crash, Ends, DeployInv, ToolsOK
    <3> QED
      BY <1>1, <2>1, <3>1, <3>2 DEF ToolStep, Start
  <2>2. CASE \E s \in Tools \ {t} : ToolStep(s)
    BY <2>2, OthersStay
  <2>3. CASE Surroundings
    BY <2>3 DEF Surroundings, Rebuild, RecordIdentities, RemoveManifest, ChainStep
  <2> QED
    BY <2>1, <2>2, <2>3 DEF Next
<1> QED
  BY <1>1, PublishAdvances DEF InvocationAdvances

\* Every invocation of the deploy tool has a number of awaits it cannot exceed, however
\* invocations, crashes, builds and the chain interleave: a step of its own ends it or
\* leaves it fewer, no step of anything else gives it more, and until it ends some is left.
THEOREM InvocationsRunOut ==
  Spec => /\ [](\A t \in Tools : tools[t] # Idle => InvocationLeft(tools[t]) \in Nat \ {0})
          /\ [][\A t \in Tools : InvocationAdvances(t)]_vars
<1>1. DeployInv => \A t \in Tools : tools[t] # Idle => InvocationLeft(tools[t]) \in Nat \ {0}
  BY InvocationLeftPositive
<1>2. DeployInv /\ [Next]_vars => [\A t \in Tools : InvocationAdvances(t)]_vars
  BY NextAdvances
<1> QED
  BY <1>1, <1>2, DeployInvariant, PTL DEF Spec

-----------------------------------------------------------------------------
(***************************************************************************)
(* The demo beside it.                                                     *)
(***************************************************************************)
Deployments == {m \in RecordMaps : DOMAIN m = Required}
ServerState == [verification : {"none", "running", "done"}, checked : 0..2,
                deployment : Deployments, dead : SUBSET Required]

\* What the server read are landed cells; those that were gone stay gone, so that
\* no verification gets past them.
ServerInv ==
  /\ server \in ServerState \cup {Down}
  /\ server # Down =>
       /\ RecordsOfLanded(server.deployment)
       /\ \A n \in server.dead : cells[server.deployment[n].cell].status = "consumed"
       /\ server.verification = "running" =>
            \/ server.checked = 0
            \/ server.checked = 1 /\ "account_lock" \notin server.dead
       /\ server.verification = "done" => server.dead = {}

\* A creation that builds found no account and names the verifier the server read.
CreationInv ==
  /\ \/ creation = NoCreation
     \/ creation = [step |-> "verify"]
     \/ creation \in [step : {"build"}, verifier : Builds]
     \/ creation \in [step : {"wait"}, verifier : Builds, lock : Builds]
  /\ creation # NoCreation => server # Down
  /\ creation.step \in {"build", "wait"} =>
       account = NoAccount /\ creation.verifier = Hash(server.deployment, "verifier_p256")

AccountOK == account \in [lock : Builds, verifier : Builds] \cup {NoAccount}

\* An open page is for the account that is there, under a deployment with its code.
PageInv ==
  /\ page.open \in BOOLEAN
  /\ page.open =>
       /\ account # NoAccount
       /\ page.deps \in Deployments /\ RecordsOfLanded(page.deps)
       /\ Hash(page.deps, "account_lock") = account.lock
       /\ Hash(page.deps, "verifier_p256") = account.verifier

\* The inductive invariant.
DemoInv == DeployInv /\ ServerInv /\ CreationInv /\ AccountOK /\ PageInv

LEMMA RequiredAre ==
  /\ Required = {"account_lock", "verifier_p256"} /\ Cardinality(Required) = 2
  /\ PHASED_P256_ARTIFACTS[1] = "account_lock" /\ PHASED_P256_ARTIFACTS[2] = "verifier_p256"
<1>1. PHASED_P256_ARTIFACTS[1] = "account_lock" /\ PHASED_P256_ARTIFACTS[2] = "verifier_p256"
  BY DEF PHASED_P256_ARTIFACTS
<1>2. Required = {"account_lock", "verifier_p256"}
  BY <1>1 DEF Required
<1>3. Cardinality({"account_lock", "verifier_p256"}) = 2
  <2>1. IsFiniteSet({"account_lock"}) /\ Cardinality({"account_lock"}) = 1
    BY FS_Singleton
  <2>2. "verifier_p256" \notin {"account_lock"}
    OBVIOUS
  <2>3. {"account_lock"} \cup {"verifier_p256"} = {"account_lock", "verifier_p256"}
    OBVIOUS
  <2> QED
    BY <2>1, <2>2, <2>3, FS_AddElement
<1> QED
  BY <1>1, <1>2, <1>3

\* A deployment the server or a page holds names builds.
LEMMA DeploymentHashes ==
  ASSUME NEW m \in RecordMaps
  PROVE  \A n \in DOMAIN m : m[n] \in Records /\ m[n].dataHash \in Builds /\ m[n].cell \in 1..MaxCells
BY RecordMapsAre DEF Records

LEMMA ServerFields ==
  ASSUME ServerInv, server # Down
  PROVE  /\ server \in ServerState
         /\ server.verification \in {"none", "running", "done"} /\ server.checked \in 0..2
         /\ server.deployment \in RecordMaps /\ DOMAIN server.deployment = Required
         /\ server.dead \subseteq Required
         /\ Hash(server.deployment, "account_lock") \in Builds
         /\ Hash(server.deployment, "verifier_p256") \in Builds
<1>1. /\ server \in ServerState
      /\ server.verification \in {"none", "running", "done"} /\ server.checked \in 0..2
      /\ server.deployment \in Deployments /\ server.dead \subseteq Required
  BY DEF ServerInv, ServerState
<1>2. server.deployment \in RecordMaps /\ DOMAIN server.deployment = Required
  BY <1>1 DEF Deployments
<1> QED
  BY <1>1, <1>2, DeploymentHashes, RequiredAre DEF Hash

\* A build is not the absence of one.
LEMMA AccountsAre ==
  ASSUME NEW l \in Builds, NEW v \in Builds
  PROVE  [lock |-> l, verifier |-> v] # NoAccount
<1>1. l # 0
  BY DEF Builds
<1> QED
  BY <1>1 DEF NoAccount

\* The deploy tool, the operator and the chain.
LEMMA DeployKeepsDemoInv ==
  ASSUME DemoInv, [Next]_vars, UNCHANGED demoVars
  PROVE  DemoInv'
<1>1. DeployInv' /\ CellsStay
  BY NextDeployInv, NextCellsStay DEF DemoInv
<1>2. UNCHANGED <<server, creation, account, answer, page>>
  BY DEF demoVars
<1>3. CreationInv' /\ AccountOK'
  BY <1>2 DEF DemoInv, CreationInv, AccountOK, Hash
<1>4. ServerInv'
  <2>1. CASE server = Down
    BY <1>2, <2>1 DEF ServerInv, ServerState
  <2>2. CASE server # Down
    <3>1. RecordsOfLanded(server.deployment)
      BY <2>2 DEF DemoInv, ServerInv
    <3>2. RecordsOfLanded(server.deployment)'
      BY <1>1, <1>2, <3>1, RecordsStay DEF RecordsOfLanded
    <3>3. ASSUME NEW n \in server.dead
          PROVE  cells'[server.deployment[n].cell].status = "consumed"
      <4>1. cells[server.deployment[n].cell].status = "consumed"
        BY <2>2 DEF DemoInv, ServerInv
      <4>2. n \in DOMAIN server.deployment
        BY <2>2, ServerFields DEF DemoInv
      <4>3. server.deployment[n].cell \in DOMAIN cells
        BY <3>1, <4>2 DEF RecordsOfLanded, Landed
      <4> QED
        BY <1>1, <4>1, <4>3 DEF CellsStay
    <3> QED
      BY <1>2, <2>2, <3>2, <3>3 DEF DemoInv, ServerInv, ServerState
  <2> QED
    BY <2>1, <2>2
<1>5. PageInv'
  <2>1. CASE ~page.open
    BY <1>2, <2>1 DEF DemoInv, PageInv
  <2>2. CASE page.open
    <3>1. RecordsOfLanded(page.deps)
      BY <2>2 DEF DemoInv, PageInv
    <3>2. RecordsOfLanded(page.deps)'
      BY <1>1, <1>2, <3>1, RecordsStay DEF RecordsOfLanded
    <3> QED
      BY <1>2, <2>2, <3>2 DEF DemoInv, PageInv, Hash
  <2> QED
    BY <2>1, <2>2
<1> QED
  BY <1>1, <1>3, <1>4, <1>5 DEF DemoInv

\* The server with another state of its verification.
WithVerification(v, k) ==
  [verification |-> v, checked |-> k, deployment |-> server.deployment, dead |-> server.dead]

LEMMA ServerExcept ==
  ASSUME server \in ServerState, NEW v, NEW k
  PROVE  /\ [server EXCEPT !.verification = v, !.checked = k] = WithVerification(v, k)
         /\ [server EXCEPT !.checked = k, !.verification = v] = WithVerification(v, k)
         /\ [server EXCEPT !.verification = v] = WithVerification(v, server.checked)
<1>1. server = [verification |-> server.verification, checked |-> server.checked,
                deployment |-> server.deployment, dead |-> server.dead]
  BY DEF ServerState
<1>2. [server EXCEPT !.verification = v] = WithVerification(v, server.checked)
  BY <1>1 DEF WithVerification
<1>3. [server EXCEPT !.checked = k] = WithVerification(server.verification, k)
  BY <1>1 DEF WithVerification
<1>4. [WithVerification(v, server.checked) EXCEPT !.checked = k] = WithVerification(v, k)
  BY DEF WithVerification
<1>5. [WithVerification(server.verification, k) EXCEPT !.verification = v] = WithVerification(v, k)
  BY DEF WithVerification
<1> QED
  BY <1>2, <1>3, <1>4, <1>5

\* A step of the verification keeps what the server read.
LEMMA VerificationKeepsServerInv ==
  ASSUME ServerInv, server # Down, UNCHANGED cells,
         NEW v \in {"none", "running", "done"}, NEW k \in 0..2,
         server' = WithVerification(v, k),
         v = "running" => k = 0 \/ (k = 1 /\ "account_lock" \notin server.dead),
         v = "done" => server.dead = {}
  PROVE  /\ ServerInv' /\ server' # Down
         /\ server'.deployment = server.deployment /\ server'.verification = v
<1>1. server \in ServerState
  BY ServerFields
<1>2. server.deployment \in Deployments /\ server.dead \in SUBSET Required
  BY <1>1 DEF ServerState
<1>3. server' \in ServerState
  BY <1>2 DEF ServerState, WithVerification
<1>4. /\ server'.verification = v /\ server'.checked = k
      /\ server'.deployment = server.deployment /\ server'.dead = server.dead
  BY DEF WithVerification
<1>5. server' # Down
  BY <1>4 DEF Down
<1>6. RecordsOfLanded(server.deployment)'
  BY <1>4 DEF ServerInv, RecordsOfLanded, Landed
<1> QED
  BY <1>3, <1>4, <1>5, <1>6 DEF ServerInv

\* Verification starts, or is under way or done already.
LEMMA VerifyingFacts ==
  ASSUME ServerInv, server # Down, UNCHANGED cells, Verifying
  PROVE  ServerInv' /\ server' # Down /\ server'.deployment = server.deployment
<1>1. server \in ServerState
  BY ServerFields
<1>2. CASE server.verification = "none"
  <2>1. server' = WithVerification("running", 0)
    BY <1>1, <1>2, ServerExcept DEF Verifying
  <2> QED
    BY <2>1, VerificationKeepsServerInv
<1>3. CASE server.verification # "none"
  BY <1>3 DEF Verifying, ServerInv, RecordsOfLanded, Landed
<1> QED
  BY <1>2, <1>3

\* A page keeps what it is for while the account is the same or there was none.
LEMMA PageStays ==
  ASSUME PageInv, UNCHANGED <<cells, page>>, account = NoAccount \/ UNCHANGED account
  PROVE  PageInv'
<1>1. CASE ~page.open
  BY <1>1 DEF PageInv
<1>2. CASE page.open
  BY <1>2 DEF PageInv, RecordsOfLanded, Landed, Hash
<1> QED
  BY <1>1, <1>2

\* One cell is verified: it is live, so it was not gone when the server started.
LEMMA VerifyCellKeepsServerInv ==
  ASSUME ServerInv, UNCHANGED cells, VerifyCell
  PROVE  ServerInv' /\ server' # Down /\ server'.deployment = server.deployment
<1>1. /\ server # Down /\ server.verification = "running" /\ CellVerified
      /\ server' = [server EXCEPT !.checked = server.checked + 1,
                                  !.verification = IF server.checked + 1 = Cardinality(Required)
                                                     THEN "done" ELSE "running"]
  BY DEF VerifyCell, Running
<1>2. server \in ServerState /\ server.checked \in 0..1 /\ server.dead \subseteq Required
  BY <1>1, ServerFields DEF ServerInv
<1>3. server' = WithVerification(IF server.checked + 1 = 2 THEN "done" ELSE "running",
                                 server.checked + 1)
  BY <1>1, <1>2, ServerExcept, RequiredAre
<1>4. PHASED_P256_ARTIFACTS[server.checked + 1] \notin server.dead
  <2>1. cells[server.deployment[PHASED_P256_ARTIFACTS[server.checked + 1]].cell].status = "live"
    BY <1>1 DEF CellVerified, Live, NextRecord
  <2> QED
    BY <1>1, <2>1 DEF ServerInv
<1>5. CASE server.checked = 0
  <2>1. server' = WithVerification("running", 1)
    BY <1>3, <1>5
  <2>2. "account_lock" \notin server.dead
    BY <1>4, <1>5, RequiredAre
  <2> QED
    BY <1>1, <2>1, <2>2, VerificationKeepsServerInv
<1>6. CASE server.checked = 1
  <2>1. server' = WithVerification("done", 2)
    BY <1>3, <1>6
  <2>2. "verifier_p256" \notin server.dead
    BY <1>4, <1>6, RequiredAre
  <2>3. "account_lock" \notin server.dead
    BY <1>1, <1>6 DEF ServerInv
  <2>4. server.dead = {}
    BY <1>2, <2>2, <2>3, RequiredAre
  <2> QED
    BY <1>1, <2>1, <2>4, VerificationKeepsServerInv
<1> QED
  BY <1>2, <1>5, <1>6

\* What the steps of a creation in progress are.
LEMMA CreationSteps ==
  ASSUME CreationInv
  PROVE  /\ creation.step \in {"none", "verify", "build", "wait"}
         /\ creation.step = "none" <=> creation = NoCreation
         /\ creation.step \in {"build", "wait"} => creation.verifier \in Builds
         /\ creation.step = "wait" => creation.lock \in Builds
<1>1. CASE creation = NoCreation
  BY <1>1 DEF NoCreation
<1>2. CASE creation = [step |-> "verify"]
  BY <1>2 DEF NoCreation
<1>3. CASE creation \in [step : {"build"}, verifier : Builds]
  BY <1>3 DEF NoCreation
<1>4. CASE creation \in [step : {"wait"}, verifier : Builds, lock : Builds]
  BY <1>4 DEF NoCreation
<1> QED
  BY <1>1, <1>2, <1>3, <1>4 DEF CreationInv

\* The server is started: what it reads are the records of the file.
LEMMA StartKeepsDemoInv ==
  ASSUME DemoInv, UNCHANGED vars, StartServer
  PROVE  ServerInv' /\ CreationInv' /\ AccountOK' /\ PageInv'
<1> DEFINE gone == {n \in Required : ~Live(file[n])}
<1>1. /\ server = Down /\ DOMAIN file = Required
      /\ server' = [verification |-> "none", checked |-> 0, deployment |-> file, dead |-> gone]
      /\ UNCHANGED <<creation, account, answer, page>>
      /\ cells' = cells
  BY DEF StartServer, DeploymentManifestSchema, vars
<1>2. file \in Deployments /\ RecordsOfLanded(file)
  BY <1>1 DEF DemoInv, DeployInv, FilesOK, Deployments
<1>3. ASSUME NEW n \in gone PROVE cells[file[n].cell].status = "consumed"
  <2>1. file[n].cell \in Landed /\ cells[file[n].cell].status # "live"
    BY <1>1, <1>2, <1>3 DEF RecordsOfLanded, Live
  <2> QED
    BY <2>1 DEF Landed
<1>4. gone \subseteq Required
  OBVIOUS
<1> HIDE DEF gone
<1>5. server' \in ServerState
  BY <1>1, <1>2, <1>4 DEF ServerState
<1>6. /\ server'.verification = "none" /\ server'.deployment = file /\ server'.dead = gone
  BY <1>1
<1>7. RecordsOfLanded(server.deployment)'
  BY <1>1, <1>2, <1>6 DEF RecordsOfLanded, Landed
<1>8. ServerInv'
  BY <1>1, <1>3, <1>5, <1>6, <1>7 DEF ServerInv
<1>9. CreationInv'
  <2>1. creation = NoCreation
    BY <1>1 DEF DemoInv, CreationInv
  <2> QED
    BY <1>1, <2>1 DEF CreationInv, NoCreation
<1> QED
  BY <1>1, <1>8, <1>9, PageStays DEF DemoInv, AccountOK

\* It is stopped; a creation ends with it.
LEMMA StopKeepsDemoInv ==
  ASSUME DemoInv, UNCHANGED vars, StopServer
  PROVE  ServerInv' /\ CreationInv' /\ AccountOK' /\ PageInv'
<1>1. /\ server' = Down /\ creation' = NoCreation /\ UNCHANGED <<account, page>> /\ cells' = cells
  BY DEF StopServer, vars
<1>2. ServerInv' /\ CreationInv'
  BY <1>1 DEF ServerInv, CreationInv, NoCreation
<1> QED
  BY <1>1, <1>2, PageStays DEF DemoInv, AccountOK

\* A creation that goes on with the same deployment and account stays right.
LEMMA CreationStays ==
  ASSUME CreationInv, creation' \in {creation, NoCreation}, account' = account, server' # Down,
         server'.deployment = server.deployment
  PROVE  CreationInv'
<1>1. CASE creation' = NoCreation
  BY <1>1 DEF CreationInv, NoCreation
<1>2. CASE creation' = creation
  BY <1>2 DEF CreationInv, Hash
<1> QED
  BY <1>1, <1>2

\* Asking for the status, starting a creation, and verifying.
LEMMA VerificationKeepsDemoInv ==
  ASSUME DemoInv, UNCHANGED vars, AskStatus \/ Bootstrap \/ VerifyCell \/ VerifyFails
  PROVE  ServerInv' /\ CreationInv' /\ AccountOK' /\ PageInv'
<1>1. server # Down /\ UNCHANGED <<account, page>> /\ cells' = cells
  BY DEF AskStatus, Bootstrap, VerifyCell, VerifyFails, Running, vars
<1>2. AccountOK' /\ PageInv'
  BY <1>1, PageStays DEF DemoInv, AccountOK
<1>3. CASE AskStatus
  BY <1>1, <1>2, <1>3, VerifyingFacts, CreationStays DEF DemoInv, AskStatus
<1>4. CASE Bootstrap
  <2>1. ServerInv' /\ server' # Down
    BY <1>1, <1>4, VerifyingFacts DEF DemoInv, Bootstrap
  <2>2. creation' = [step |-> "verify"]
    BY <1>4 DEF Bootstrap
  <2> QED
    BY <1>2, <2>1, <2>2 DEF CreationInv
<1>5. CASE VerifyCell
  <2>1. creation' = creation
    BY <1>5 DEF VerifyCell
  <2> QED
    BY <1>1, <1>2, <1>5, <2>1, VerifyCellKeepsServerInv, CreationStays DEF DemoInv
<1>6. CASE VerifyFails
  <2>1. server' = WithVerification("none", server.checked) /\ server.checked \in 0..2
    BY <1>1, <1>6, ServerFields, ServerExcept DEF DemoInv, VerifyFails
  <2>2. ServerInv' /\ server' # Down /\ server'.deployment = server.deployment
    BY <1>1, <2>1, VerificationKeepsServerInv DEF DemoInv
  <2>3. creation' \in {creation, NoCreation}
    BY <1>6 DEF VerifyFails, Answered
  <2> QED
    BY <1>1, <1>2, <2>2, <2>3, CreationStays DEF DemoInv
<1> QED
  BY <1>3, <1>4, <1>5, <1>6

\* The steps of a creation.
LEMMA CreationKeepsDemoInv ==
  ASSUME DemoInv, UNCHANGED vars, ExportState \/ BuildAccount \/ RecordAccount \/ CreationFails
  PROVE  ServerInv' /\ CreationInv' /\ AccountOK' /\ PageInv'
<1>1. UNCHANGED <<server, page>> /\ cells' = cells
  BY DEF ExportState, BuildAccount, RecordAccount, CreationFails, vars
<1>2. ServerInv'
  BY <1>1 DEF DemoInv, ServerInv, RecordsOfLanded, Landed
<1>3. creation # NoCreation /\ server # Down
  BY DEF ExportState, BuildAccount, RecordAccount, CreationFails, NoCreation, DemoInv, CreationInv
<1>4. ASSUME creation' = NoCreation, account' = account
      PROVE  CreationInv' /\ AccountOK' /\ PageInv'
  BY <1>1, <1>3, <1>4, CreationStays, PageStays DEF DemoInv, AccountOK
<1>5. CASE ExportState
  <2> DEFINE v == Hash(server.deployment, "verifier_p256")
  <2>1. account' = account
    BY <1>5 DEF ExportState
  <2>2. CASE creation' = NoCreation
    BY <1>2, <1>4, <2>1, <2>2
  <2>3. CASE creation' # NoCreation
    <3>1. account = NoAccount /\ creation' = [step |-> "build", verifier |-> v]
      BY <1>5, <2>3 DEF ExportState, Answered
    <3>2. v \in Builds
      BY <1>3, ServerFields DEF DemoInv
    <3>3. v = Hash(server'.deployment, "verifier_p256")
      BY <1>1
    <3> HIDE DEF v
    <3>4. /\ creation' \in [step : {"build"}, verifier : Builds] /\ creation'.step = "build"
          /\ creation'.verifier = v
      BY <3>1, <3>2
    <3>5. CreationInv'
      BY <1>1, <1>3, <2>1, <3>1, <3>3, <3>4 DEF CreationInv
    <3> QED
      BY <1>1, <1>2, <2>1, <3>5, PageStays DEF DemoInv, AccountOK
  <2> QED
    BY <2>2, <2>3
<1>6. CASE BuildAccount
  <2> DEFINE l == Hash(file, "account_lock")
  <2>1. /\ creation.step = "build" /\ "account_lock" \in DOMAIN file
        /\ creation' = [step |-> "wait", verifier |-> creation.verifier, lock |-> l]
        /\ account' = account
    BY <1>6 DEF BuildAccount
  <2>2. l \in Builds
    BY <2>1, DeploymentHashes DEF DemoInv, DeployInv, FilesOK, Hash
  <2> HIDE DEF l
  <2>3. /\ creation.verifier \in Builds /\ account = NoAccount
        /\ creation.verifier = Hash(server.deployment, "verifier_p256")
    BY <2>1, CreationSteps DEF DemoInv, CreationInv
  <2>4. /\ creation' \in [step : {"wait"}, verifier : Builds, lock : Builds]
        /\ creation'.verifier = creation.verifier
    BY <2>1, <2>2, <2>3
  <2>5. CreationInv'
    BY <1>1, <1>3, <2>1, <2>3, <2>4 DEF CreationInv, Hash
  <2> QED
    BY <1>1, <1>2, <2>1, <2>5, PageStays DEF DemoInv, AccountOK
<1>7. CASE RecordAccount
  <2>1. /\ creation.step = "wait" /\ creation' = NoCreation
        /\ account' = [lock |-> creation.lock, verifier |-> creation.verifier]
    BY <1>7 DEF RecordAccount, Answered
  <2>2. creation.lock \in Builds /\ creation.verifier \in Builds /\ account = NoAccount
    BY <2>1, CreationSteps DEF DemoInv, CreationInv
  <2>3. AccountOK'
    BY <2>1, <2>2 DEF AccountOK
  <2>4. CreationInv'
    BY <2>1 DEF CreationInv, NoCreation
  <2> QED
    BY <1>1, <1>2, <2>2, <2>3, <2>4, PageStays DEF DemoInv
<1>8. CASE CreationFails
  BY <1>2, <1>4, <1>8 DEF CreationFails, Answered
<1> QED
  BY <1>5, <1>6, <1>7, <1>8

\* The client opens a spend under what the server shows it.
LEMMA OpenKeepsDemoInv ==
  ASSUME DemoInv, UNCHANGED vars, OpenSpend
  PROVE  ServerInv' /\ CreationInv' /\ AccountOK' /\ PageInv'
<1>1. /\ server # Down /\ account # NoAccount
      /\ account.lock = Hash(server.deployment, "account_lock")
      /\ account.verifier = Hash(server.deployment, "verifier_p256")
      /\ page' = [open |-> TRUE, deps |-> server.deployment]
      /\ UNCHANGED <<server, creation, account>> /\ cells' = cells
  BY DEF OpenSpend, Running, validateAccount, parseAccountState, vars
<1>2. ServerInv' /\ CreationInv' /\ AccountOK'
  BY <1>1 DEF DemoInv, ServerInv, CreationInv, AccountOK, RecordsOfLanded, Landed, Hash
<1>3. page'.open = TRUE /\ page'.deps = server.deployment
  BY <1>1
<1>4. server.deployment \in Deployments /\ RecordsOfLanded(server.deployment)
  BY <1>1, ServerFields DEF DemoInv, ServerInv, Deployments
<1>5. RecordsOfLanded(page.deps)'
  BY <1>1, <1>3, <1>4 DEF RecordsOfLanded, Landed
<1>6. PageInv'
  BY <1>1, <1>3, <1>4, <1>5 DEF PageInv, Hash
<1> QED
  BY <1>2, <1>6

LEMMA NextDemoInv ==
  ASSUME DemoInv, [DemoNext]_allVars
  PROVE  DemoInv'
<1>1. CASE DemoStep /\ UNCHANGED vars
  <2>1. DeployInv'
    BY <1>1, NextDeployInv DEF DemoInv
  <2> QED
    BY <1>1, <2>1, StartKeepsDemoInv, StopKeepsDemoInv, VerificationKeepsDemoInv,
       CreationKeepsDemoInv, OpenKeepsDemoInv DEF DemoInv, DemoStep, ServerWork
<1>2. CASE Next /\ UNCHANGED demoVars
  BY <1>2, DeployKeepsDemoInv
<1>3. CASE UNCHANGED allVars
  BY <1>3, DeployKeepsDemoInv DEF allVars
<1> QED
  BY <1>1, <1>2, <1>3 DEF DemoNext

LEMMA InitDemoInv == DemoInit => DemoInv
<1> SUFFICES ASSUME DemoInit PROVE DemoInv
  OBVIOUS
<1>1. DeployInv
  BY InitDeployInv DEF DemoInit
<1>2. ServerInv /\ CreationInv /\ AccountOK
  BY DEF DemoInit, ServerInv, CreationInv, AccountOK, NoCreation
<1>3. PageInv
  BY DEF DemoInit, PageInv, NoPage
<1> QED
  BY <1>1, <1>2, <1>3 DEF DemoInv

\* The invariant holds throughout.
THEOREM DemoInvariant == DemoSpec => []DemoInv
<1>1. DemoInit => DemoInv
  BY InitDemoInv
<1>2. DemoInv /\ [DemoNext]_allVars => DemoInv'
  BY NextDemoInv
<1> QED
  BY <1>1, <1>2, PTL DEF DemoSpec

\* A server that says its deployment is verified read a manifest whose cells were all
\* there when it started, however often the verification failed or was retried.
THEOREM VerifiedDeploymentWasLive == DemoSpec => []VerificationWasTrue
<1>1. DemoInv => VerificationWasTrue
  BY DEF DemoInv, ServerInv, VerificationWasTrue, Running
<1> QED
  BY <1>1, DemoInvariant, PTL

\* Whatever is rebuilt and published while a page is open, the cells it offers as
\* deps hold the lock and the verifier the account needs.
THEOREM PageDepsHoldAccountCode == DemoSpec => []DepsHoldAccountCode
<1>1. ASSUME DemoInv, page.open, NEW n \in Required
      PROVE  /\ cells[page.deps[n].cell].name = n
             /\ cells[page.deps[n].cell].data =
                  IF n = "account_lock" THEN account.lock ELSE account.verifier
  <2>1. n \in DOMAIN page.deps /\ RecordsOfLanded(page.deps)
    BY <1>1 DEF DemoInv, PageInv, Deployments
  <2>2. /\ cells[page.deps[n].cell].name = n
        /\ cells[page.deps[n].cell].data = page.deps[n].dataHash
    BY <2>1 DEF RecordsOfLanded
  <2>3. page.deps[n].dataHash = IF n = "account_lock" THEN account.lock ELSE account.verifier
    BY <1>1, RequiredAre DEF DemoInv, PageInv, Hash
  <2> QED
    BY <2>2, <2>3
<1>2. DemoInv => DepsHoldAccountCode
  BY <1>1 DEF DepsHoldAccountCode
<1> QED
  BY <1>2, DemoInvariant, PTL

\* An account the service answers with needs exactly the code of the deployment that
\* service verified: the one it found, or the one it has just recorded, which took
\* its lock from a manifest that may have changed since.
THEOREM AnsweredAccountsFitDeployment == DemoSpec => AnswersUnderVerifiedCode
<1> DEFINE lock == Hash(server.deployment, "account_lock")
           verifier == Hash(server.deployment, "verifier_p256")
           A == creation # NoCreation /\ creation' = NoCreation /\ Running' /\ answer' = "ok" =>
                  account' = [lock |-> lock, verifier |-> verifier]
<1>1. ASSUME DemoInv, DemoStep, creation # NoCreation, creation' = NoCreation,
             Running', answer' = "ok"
      PROVE  account' = [lock |-> lock, verifier |-> verifier]
  <2>1. \/ ExportState \/ RecordAccount
    BY <1>1 DEF DemoStep, ServerWork, StartServer, StopServer, AskStatus, Bootstrap, VerifyCell,
                VerifyFails, BuildAccount, CreationFails, OpenSpend, Answered, Running, NoCreation
  <2>2. CASE ExportState
    <3>1. account # NoAccount
      BY <1>1, <2>2 DEF ExportState, NoCreation
    <3>2. account' = account /\ account.lock = lock /\ account.verifier = verifier
      BY <1>1, <2>2, <3>1 DEF ExportState, Answered, parseAccount
    <3>3. account \in [lock : Builds, verifier : Builds]
      BY <1>1, <3>1 DEF DemoInv, AccountOK
    <3> QED
      BY <3>2, <3>3
  <2>3. CASE RecordAccount
    <3>1. /\ creation.step = "wait"
          /\ account' = [lock |-> creation.lock, verifier |-> creation.verifier]
          /\ account'.lock = lock
      BY <1>1, <2>3 DEF RecordAccount, Answered, parseAccount
    <3>2. creation.verifier = verifier
      BY <1>1, <3>1 DEF DemoInv, CreationInv
    <3> QED
      BY <3>1, <3>2
  <2> QED
    BY <2>1, <2>2, <2>3
<1>2. DemoInv /\ [DemoNext]_allVars => [A]_allVars
  <2> SUFFICES ASSUME DemoInv, [DemoNext]_allVars, ~UNCHANGED allVars PROVE A
    OBVIOUS
  <2>1. CASE DemoStep
    BY <1>1, <2>1
  <2>2. CASE UNCHANGED demoVars
    BY <2>2 DEF demoVars
  <2> QED
    BY <2>1, <2>2 DEF DemoNext
<1> QED
  BY <1>2, DemoInvariant, PTL DEF DemoSpec, AnswersUnderVerifiedCode

\* Beside a running demo the deploy tool keeps its invariants and, if its invocations
\* do not overlap, its promise: the demo changes nothing of its state.
THEOREM DemoKeepsPromise ==
  ASSUME OneAtATime
  PROVE  DemoSpec => KeepsPromise
<1>1. DemoInit => Init
  BY DEF DemoInit
<1>2. [DemoNext]_allVars => [Next]_vars
  BY DEF DemoNext, allVars
<1> QED
  BY <1>1, <1>2, OneToolKeepsPromise, PTL DEF DemoSpec

\* Every cell beside the demo is an identified build.
THEOREM DemoIdentifiedBuildsOnly == DemoSpec => []OnlyIdentifiedBuildsLand
<1>1. DemoInv => OnlyIdentifiedBuildsLand
  BY DEF DemoInv, DeployInv, CellsOK, Cell, OnlyIdentifiedBuildsLand
<1> QED
  BY <1>1, DemoInvariant, PTL
=============================================================================

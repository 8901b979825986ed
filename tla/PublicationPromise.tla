-------------------------- MODULE PublicationPromise --------------------------
(***************************************************************************)
(* What publishing code cells promises of deploy/testnet-deployments.json. *)
(* The manifest is not readable while it is rewritten.  Afterwards it has  *)
(* every record it had before, or in its place the record of a cell that   *)
(* has landed and is newer.  A rewriting that is cut short loses all       *)
(* records, and the manifest stays unreadable until it is cleared away: a  *)
(* readable manifest never silently misses a record.                       *)
(***************************************************************************)
EXTENDS Naturals

CONSTANT Names
VARIABLES
  shown,     \* artifact -> its record, as a reader finds them; none in an unreadable manifest
  readable,
  held,      \* what the next readable manifest retains
  landed     \* outpoints, numbered in the order of their transactions; none is given up

vars == <<shown, readable, held, landed>>

Empty == [n \in {} |-> 0]

Init == shown = Empty /\ readable = TRUE /\ held = Empty /\ landed = {}

Rewrite ==
  /\ readable /\ readable' = FALSE
  /\ shown' = Empty
  /\ UNCHANGED <<held, landed>>

\* The record of n after a publication is an old one or that of a newly landed cell.
Recorded(n, record) ==
  \/ n \in DOMAIN held /\ record = held[n]
  \/ /\ record.cell \in landed
     /\ n \in DOMAIN held => record.cell > held[n].cell

Record ==
  /\ ~readable /\ readable' = TRUE
  /\ DOMAIN held \subseteq DOMAIN held' /\ DOMAIN held' \subseteq Names
  /\ \A n \in DOMAIN held' : Recorded(n, held'[n])
  /\ shown' = held'
  /\ UNCHANGED landed

Lose ==
  /\ ~readable
  /\ held' = Empty
  /\ UNCHANGED <<shown, readable, landed>>

Clear ==
  /\ ~readable /\ readable' = TRUE
  /\ held = Empty
  /\ UNCHANGED <<shown, held, landed>>

Land ==
  /\ landed \subseteq landed'
  /\ UNCHANGED <<shown, readable, held>>

Next == Rewrite \/ Record \/ Lose \/ Clear \/ Land

Spec == Init /\ [][Next]_vars
=============================================================================

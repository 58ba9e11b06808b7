--------------------------- MODULE ReferenceData ---------------------------
(***************************************************************************)
(* The reference data of the toolkit and its first consumer: the channel   *)
(* library, deconfliction with the definitions it holds, and the FCC       *)
(* archives.                                                               *)
(***************************************************************************)
EXTENDS Deconfliction, FccReference

vars == <<libraryVars, planVars, deconflictionVars, ruleGate, fccVars>>

Init == LibraryInit /\ DeconflictionInit /\ FccInit

Library == UNCHANGED <<planVars, deconflictionVars, ruleGate, fccVars>>
Planning == UNCHANGED <<libraryVars, deconflictionVars, ruleGate, fccVars>>
Analysing == UNCHANGED <<libraryVars, planVars, ruleGate, fccVars>>
Fcc == UNCHANGED <<libraryVars, planVars, deconflictionVars, ruleGate>>

Next ==
    \/ \E w \in LibraryWorkers, p \in DOMAIN Payloads :
          BeginImport(w, p) /\ Library
    \/ \E w \in LibraryWorkers : CommitImport(w) /\ Library
    \/ \E w \in LibraryWorkers : RollBackImport(w) /\ Library
    \/ ApproveRevision /\ Planning
    \/ \E k \in DOMAIN revision : LateDelete(k) /\ Planning
    \/ \E k \in DOMAIN revision : LateLink(k) /\ Planning
    \/ ArchiveIncident /\ Planning
    \/ \E w \in Analysts : BeginAnalysis(w) /\ Analysing
    \/ \E w \in Analysts, a \in Analyses : FinishAnalysis(w, a) /\ Analysing
    \/ \E w \in Analysts : RefuseAnalysis(w) /\ Analysing
    \/ \E a \in Analyses : ApproveAnalysis(a) /\ Analysing
    \/ \E a \in Analyses : \E key \in KeysOf(a) : Dispose(a, key) /\ Analysing
    \/ \E i \in Importers, d \in DOMAIN Parsed : ImportLookup(i, d) /\ Fcc
    \/ \E i \in Importers : ImportClear(i) /\ Fcc
    \/ \E i \in Importers : ImportCleared(i) /\ Fcc
    \/ \E i \in Importers : ImportCommit(i) /\ Fcc
    \/ \E i \in Importers : ImportAbort(i) /\ Fcc
    \/ \E r \in Readers : ReadStructure(r) /\ Fcc
    \/ \E r \in Readers : ReadCount(r) /\ Fcc
    \/ \E r \in Readers : ReadPage(r) /\ Fcc
    \/ \E r \in Readers : ReadLocations(r) /\ Fcc

Spec == Init /\ [][Next]_vars
=============================================================================

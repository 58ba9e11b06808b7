------------------------ MODULE ReferenceDataProofs ------------------------
(***************************************************************************)
(* The imports of reference data, for every set of archives and payloads   *)
(* and every number of importers: what an FCC import clears and leaves     *)
(* current, and that CISA releases of the channel library were reviewed.   *)
(***************************************************************************)
EXTENDS ReferenceData, FiniteSetTheorems, WellFoundedInduction, TLAPS

(* What an import knows: the batches its UPDATE saw are of its own kind,   *)
(* those it has cleared are among them, and once it loads, a batch it saw  *)
(* and that is still current is one it has cleared.                        *)
ImportInv(r) ==
    /\ r = [step |-> r.step, digest |-> r.digest, target |-> r.target,
            held |-> r.held]
    /\ r.held \subseteq r.target
    /\ r.target \subseteq stored
    /\ \A e \in r.target : DatasetOf(e) = DatasetOf(r.digest)
    /\ r.step = "load" => r.target \cap current \subseteq r.held
    /\ r.step = "clear" => r.target = {}
    /\ r.step # "load" => r.held = {}

FccInv ==
    /\ import = [i \in Importers |-> import[i]]
    /\ current \subseteq stored
    /\ \A i \in Importers : ImportInv(import[i])
    /\ CurrentKept

(* The batches are of archives that were parsed, and every row of them is  *)
(* stored; there are finitely many, for each took an import.               *)
BatchInv ==
    /\ stored \subseteq {d \in DOMAIN Parsed : Storable(Parsed[d])}
    /\ IsFiniteSet(stored)
    /\ \A i \in Importers : import[i].step # "idle" => import[i].digest \in DOMAIN Parsed

(* What tower_details() would list if the batches in set were current.     *)
LicensesIn(set, tower) ==
    UNION {{d} \X {l.license : l \in {r \in Parsed[d].locations.rows :
                                         r.tower = tower}} : d \in set}

(* What a reader has read: a page of what was current when it counted, or  *)
(* of something else that was; and where it already looked and found no    *)
(* location, the batch is no longer current, nor ever will be.             *)
ReaderInv(x) ==
    /\ x = [step |-> x.step, tower |-> x.tower, count |-> x.count, seen |-> x.seen,
            page |-> x.page, left |-> x.left, located |-> x.located]
    /\ x.step \in {"idle", "count", "page", "locations", "done"}
    /\ x.seen \subseteq stored
    /\ x.page \subseteq LicensesIn(stored, x.tower)
    /\ x.left \subseteq x.page
    /\ x.step \in {"idle", "count", "page"} => x.page = {} /\ x.located = {}
    /\ x.step = "page" => x.count = Cardinality(LicensesIn(x.seen, x.tower))
    /\ x.step = "done" => x.left = {}
    /\ \A license \in (x.page \ x.left) \ x.located : license[1] \notin current
    /\ x.step \in {"locations", "done"} =>
          \/ x.seen # current
          \/ (x.count > Cardinality(x.page))
                = (x.page # LicensesIn(x.seen, x.tower))

ReadersInv ==
    /\ reader = [r \in Readers |-> reader[r]]
    /\ \A r \in Readers : ReaderInv(reader[r])

TablesInv == FccInv /\ BatchInv /\ ReadersInv

-----------------------------------------------------------------------------
(* A step of the reference data, by what it does to the FCC tables.        *)
FccStep(i) ==
    \/ \E d \in DOMAIN Parsed : ImportLookup(i, d)
    \/ ImportClear(i)
    \/ ImportCleared(i)
    \/ ImportCommit(i)
    \/ ImportAbort(i)

LEMMA FccSteps ==
    ASSUME [Next]_vars
    PROVE  \/ UNCHANGED <<stored, current, import>>
           \/ \E i \in Importers : FccStep(i)
  BY DEF Next, vars, fccVars, Library, Planning, Analysing, FccStep,
         ReadStructure, ReadCount, ReadPage, ReadLocations

LEMMA IdleImport == ImportInv(Idle)
  BY DEF ImportInv, Idle

(* A step that changes one import, and no batch.                           *)
LEMMA QuietSteps ==
    ASSUME FccInv, stored' = stored, current' = current, NEW i \in Importers,
           NEW r, ImportInv(r), import' = [import EXCEPT ![i] = r]
    PROVE  FccInv'
<1>1. \A j \in Importers : ImportInv(import'[j])
  BY DEF FccInv
<1>2. \A j \in Importers : ImportInv(import[j])'
  BY <1>1 DEF ImportInv
<1>3. CurrentKept'
  BY DEF FccInv, CurrentKept, OfDataset
<1> QED
  BY <1>2, <1>3 DEF FccInv

LEMMA ImportClearInv ==
    ASSUME FccInv, NEW i \in Importers, ImportClear(i)
    PROVE  FccInv'
<1> SUFFICES ASSUME NEW t, t = OfDataset(current, DatasetOf(import[i].digest))
             PROVE  FccInv'
  OBVIOUS
<1> DEFINE r == [step |-> "wait", digest |-> import[i].digest, target |-> t,
                 held |-> import[i].held]
<1>1. ImportInv(import[i]) /\ import[i].step = "clear"
  BY DEF FccInv, ImportClear
<1>2. ASSUME NEW n, n = [import EXCEPT ![i].step = "wait", ![i].target = t]
      PROVE  n = [import EXCEPT ![i] = r]
  <2>1. import[i] = [step |-> "clear", digest |-> import[i].digest,
                     target |-> import[i].target, held |-> import[i].held]
    BY <1>1 DEF ImportInv
  <2>2. n[i] = r
    BY <1>2, <2>1 DEF FccInv
  <2>3. \A j \in Importers : j # i => n[j] = import[j]
    BY <1>2 DEF FccInv
  <2>4. n = [j \in Importers |-> n[j]]
    BY <1>2 DEF FccInv
  <2> HIDE DEF r
  <2> QED
    BY <2>2, <2>3, <2>4 DEF FccInv
<1>3. t \subseteq stored /\ \A e \in t : DatasetOf(e) = DatasetOf(import[i].digest)
  BY DEF FccInv, OfDataset
<1>4. ImportInv(r)
  BY <1>1, <1>3 DEF ImportInv
<1>5. import' = [import EXCEPT ![i] = r] /\ stored' = stored /\ current' = current
  BY <1>2 DEF ImportClear
<1> QED
  BY <1>4, <1>5, QuietSteps

LEMMA ImportClearedInv ==
    ASSUME FccInv, NEW i \in Importers, ImportCleared(i)
    PROVE  FccInv'
<1> DEFINE h == import[i].target \cap current
           r == [step |-> "load", digest |-> import[i].digest,
                 target |-> import[i].target, held |-> h]
<1>1. ImportInv(import[i]) /\ import[i].step = "wait"
  BY DEF FccInv, ImportCleared
<1>2. ASSUME NEW n, n = [import EXCEPT ![i].step = "load", ![i].held = h]
      PROVE  n = [import EXCEPT ![i] = r]
  <2>1. import[i] = [step |-> "wait", digest |-> import[i].digest,
                     target |-> import[i].target, held |-> {}]
    BY <1>1 DEF ImportInv
  <2>2. n[i] = r
    <3> HIDE DEF h
    <3> QED
      BY <1>2, <2>1 DEF FccInv
  <2>3. \A j \in Importers : j # i => n[j] = import[j]
    BY <1>2 DEF FccInv
  <2>4. n = [j \in Importers |-> n[j]]
    BY <1>2 DEF FccInv
  <2> HIDE DEF r
  <2> QED
    BY <2>2, <2>3, <2>4 DEF FccInv
<1>3. ImportInv(r)
  BY <1>1 DEF ImportInv
<1>4. import' = [import EXCEPT ![i] = r] /\ stored' = stored /\ current' = current
  BY <1>2 DEF ImportCleared
<1> QED
  BY <1>3, <1>4, QuietSteps

-----------------------------------------------------------------------------
(* A commit takes away batches of its own kind only, and adds one of it.   *)
LEMMA ImportCommitInv ==
    ASSUME FccInv, NEW i \in Importers, ImportCommit(i)
    PROVE  FccInv'
<1> DEFINE d == import[i].digest
<1>1. /\ d \notin stored
      /\ stored' = stored \cup {d}
      /\ current' = (current \ import[i].held) \cup {d}
      /\ import' = [import EXCEPT ![i] = Idle]
  BY DEF ImportCommit
<1>2. ImportInv(import[i])
  BY DEF FccInv
<1>3. ASSUME NEW j \in Importers PROVE ImportInv(import[j])'
  <2>1. CASE j = i
    <3>1. import'[j] = Idle
      BY <1>1, <2>1 DEF FccInv
    <3> QED
      BY <3>1 DEF ImportInv, Idle
  <2>2. CASE j # i
    <3>1. import'[j] = import[j] /\ ImportInv(import[j])
      BY <1>1, <2>2 DEF FccInv
    <3>2. d \notin import[j].target
      BY <1>1, <3>1 DEF ImportInv
    <3> QED
      BY <1>1, <3>1, <3>2 DEF ImportInv
  <2> QED
    BY <2>1, <2>2
<1>4. CurrentKept'
  <2> SUFFICES ASSUME NEW dataset \in Datasets, NEW e \in stored',
                      DatasetOf(e) = dataset
               PROVE  \E f \in current' : DatasetOf(f) = dataset
    BY DEF CurrentKept, OfDataset
  <2>1. CASE DatasetOf(d) = dataset
    BY <1>1, <2>1
  <2>2. CASE DatasetOf(d) # dataset
    <3>1. e \in stored
      BY <1>1, <2>2
    <3>2. PICK f \in current : DatasetOf(f) = dataset
      BY <3>1 DEF FccInv, CurrentKept, OfDataset
    <3>3. f \notin import[i].held
      BY <1>2, <2>2, <3>2 DEF ImportInv
    <3> QED
      BY <1>1, <3>2, <3>3
  <2> QED
    BY <2>1, <2>2
<1> QED
  BY <1>1, <1>3, <1>4 DEF FccInv

LEMMA FccInvInit == Init => FccInv
  BY IdleImport DEF Init, FccInit, FccInv, CurrentKept, OfDataset

LEMMA FccInvNext == FccInv /\ [Next]_vars => FccInv'
<1> SUFFICES ASSUME FccInv, [Next]_vars PROVE FccInv'
  OBVIOUS
<1>1. CASE UNCHANGED <<stored, current, import>>
  BY <1>1 DEF FccInv, ImportInv, CurrentKept, OfDataset
<1>2. ASSUME NEW i \in Importers, NEW d \in DOMAIN Parsed, ImportLookup(i, d)
      PROVE  FccInv'
  <2> DEFINE r == [step |-> "clear", digest |-> d, target |-> {}, held |-> {}]
  <2>1. ASSUME NEW n, n = [Idle EXCEPT !.digest = d, !.step = "clear"] PROVE n = r
    BY <2>1 DEF Idle
  <2>2. ImportInv(r)
    BY DEF ImportInv
  <2>3. \/ import' = [import EXCEPT ![i] = Idle]
        \/ import' = [import EXCEPT ![i] = r]
    BY <1>2, <2>1 DEF ImportLookup
  <2> QED
    BY <1>2, <2>2, <2>3, IdleImport, QuietSteps DEF ImportLookup
<1>3. ASSUME NEW i \in Importers, ImportAbort(i) PROVE FccInv'
  BY <1>3, IdleImport, QuietSteps DEF ImportAbort
<1> QED
  BY <1>1, <1>2, <1>3, ImportClearInv, ImportClearedInv, ImportCommitInv, FccSteps
     DEF FccStep

-----------------------------------------------------------------------------
(* A dataset that has ever been imported has a current batch, whichever    *)
(* imports race or roll back: the UPDATE that clears is_current in         *)
(* apply_complete_archive() reaches batches of its own dataset only, and   *)
(* takes effect with the batch that replaces them.                         *)
THEOREM ImportsKeepCurrent == Spec => []CurrentKept
<1>1. FccInv => CurrentKept
  BY DEF FccInv
<1> QED
  BY <1>1, FccInvInit, FccInvNext, PTL DEF Spec

(* A commit with no other import since its UPDATE began is the one         *)
(* current batch of its dataset: an "ambiguous" dataset_status() is undone *)
(* by the next quiet import.                                               *)
LEMMA CommitLeavesOne ==
    ASSUME FccInv, NEW i \in Importers, ImportCommit(i), NEW d,
           d = import[i].digest,
           OfDataset(current, DatasetOf(d)) \subseteq import[i].target
    PROVE  OfDataset(current', DatasetOf(d)) = {d}
<1>1. import[i].target \cap current \subseteq import[i].held
  BY DEF FccInv, ImportInv, ImportCommit
<1>2. current' = (current \ import[i].held) \cup {d}
  BY DEF ImportCommit
<1> QED
  BY <1>1, <1>2 DEF OfDataset

(* The same for every dataset and importer at a step of the system: only   *)
(* the commit itself stores the archive of an import that it ends.         *)
LEMMA QuietStep ==
    ASSUME FccInv, [Next]_vars, NEW i \in Importers,
           import[i].digest \in stored' \ stored, import'[i] = Idle,
           OfDataset(current, DatasetOf(import[i].digest)) \subseteq import[i].target
    PROVE  Cardinality(OfDataset(current', DatasetOf(import[i].digest))) = 1
<1> DEFINE d == import[i].digest
<1>1. PICK j \in Importers : ImportCommit(j)
  BY FccSteps DEF FccStep, ImportLookup, ImportClear, ImportCleared, ImportAbort
<1>2. import[j].digest = d
  BY <1>1 DEF ImportCommit
<1>3. OfDataset(current, DatasetOf(d)) \subseteq import[j].target
  <2>1. CASE i = j
    BY <2>1
  <2>2. CASE i # j
    <3>1. import[i] = Idle
      BY <1>1, <2>2 DEF ImportCommit, FccInv
    <3> QED
      BY <3>1 DEF Idle
  <2> QED
    BY <2>1, <2>2
<1>4. OfDataset(current', DatasetOf(d)) = {d}
  BY <1>1, <1>2, <1>3, CommitLeavesOne
<1> QED
  BY <1>4, FS_Singleton

(* A quiet import leaves one current batch, however many there were.       *)
THEOREM QuietImportsSettle == Spec => QuietImportLeavesOne
<1>1. FccInv /\ [Next]_vars =>
        [\A i \in Importers :
           import[i].digest \in stored' \ stored /\ import'[i] = Idle =>
              LET dataset == DatasetOf(import[i].digest)
              IN  OfDataset(current, dataset) \subseteq import[i].target =>
                      Cardinality(OfDataset(current', dataset)) = 1]_fccVars
  BY QuietStep
<1> QED
  BY <1>1, FccInvInit, FccInvNext, PTL DEF Spec, QuietImportLeavesOne

-----------------------------------------------------------------------------
(* What an import relies on when it commits: its payload was approved, the *)
(* slug it creates is still free and created by nobody else, and the       *)
(* source it found, which nothing changes, has its provenance.             *)
Founded(underway) ==
    LET p == Payloads[underway.payload]
    IN  /\ ReferenceApproved(p)
        /\ underway.creates => p.slug \notin DOMAIN source
        /\ ~ underway.creates => p.slug \in DOMAIN source /\ ProvenanceAgrees(p)

Creates(w, slug) ==
    importing[w] # None /\ importing[w].creates
        /\ Payloads[importing[w].payload].slug = slug

LibraryInv ==
    /\ importing = [w \in LibraryWorkers |-> importing[w]]
    /\ \A w \in LibraryWorkers : importing[w] # None => Founded(importing[w])
    /\ \A v, w \in LibraryWorkers : \A slug :
           Creates(v, slug) /\ Creates(w, slug) => v = w
    /\ \A key \in DOMAIN release : key[1] \in DOMAIN source
    /\ CisaReleasesReviewed

LEMMA BeginImportInv ==
    ASSUME LibraryInv, NEW w \in LibraryWorkers, NEW id, BeginImport(w, id)
    PROVE  LibraryInv'
<1> DEFINE p == Payloads[id]
           underway == [payload |-> id, creates |-> p.slug \notin DOMAIN source]
<1>1. /\ ReferenceApproved(p) /\ ProvenanceAgrees(p)
      /\ p.slug \in DOMAIN source \/ ~ SlugHeld(w, p.slug)
      /\ importing' = [importing EXCEPT ![w] = underway]
      /\ source' = source /\ release' = release
  BY DEF BeginImport
<1>2. /\ importing'[w] = underway
      /\ \A v \in LibraryWorkers \ {w} : importing'[v] = importing[v]
      /\ importing' = [v \in LibraryWorkers |-> importing'[v]]
  BY <1>1 DEF LibraryInv
<1>3. /\ underway.payload = id
      /\ underway.creates <=> p.slug \notin DOMAIN source
  OBVIOUS
<1>4. Founded(underway)
  BY <1>1, <1>3 DEF Founded
<1> HIDE DEF underway
<1>5. \A v \in LibraryWorkers : importing'[v] # None => Founded(importing[v])'
  BY <1>1, <1>2, <1>4 DEF LibraryInv, Founded, ProvenanceAgrees
<1>6. ASSUME NEW v \in LibraryWorkers \ {w}, NEW slug, Creates(v, slug)', Creates(w, slug)'
      PROVE  FALSE
  <2>1. slug = p.slug /\ p.slug \notin DOMAIN source
    BY <1>2, <1>3, <1>6 DEF Creates
  <2>2. ~ SlugHeld(w, slug)
    BY <1>1, <2>1
  <2> QED
    BY <1>2, <1>6, <2>2 DEF Creates, SlugHeld
<1>7. \A u, v \in LibraryWorkers : \A slug :
          Creates(u, slug)' /\ Creates(v, slug)' => u = v
  <2>1. \A v \in LibraryWorkers \ {w} : \A slug : Creates(v, slug)' => Creates(v, slug)
    BY <1>2 DEF Creates
  <2> QED
    BY <1>6, <2>1 DEF LibraryInv
<1>8. CisaReleasesReviewed'
  BY <1>1 DEF LibraryInv, CisaReleasesReviewed
<1> QED
  BY <1>1, <1>2, <1>5, <1>7, <1>8 DEF LibraryInv

(* The source that an import commits under has its type and URL.           *)
LEMMA CommitImportInv ==
    ASSUME LibraryInv, NEW w \in LibraryWorkers, CommitImport(w)
    PROVE  LibraryInv'
<1> DEFINE id == importing[w].payload
           p == Payloads[id]
           new == <<p.slug, p.version>>
<1>1. /\ importing[w] # None
      /\ new \notin DOMAIN release
      /\ source' = IF importing[w].creates THEN Inserted(source, p.slug, id) ELSE source
      /\ release' = Inserted(release, new, id)
      /\ importing' = [importing EXCEPT ![w] = None]
  BY DEF CommitImport
<1>2. /\ importing'[w] = None
      /\ \A v \in LibraryWorkers \ {w} : importing'[v] = importing[v]
      /\ importing' = [v \in LibraryWorkers |-> importing'[v]]
  BY <1>1 DEF LibraryInv
<1>3. /\ ReferenceApproved(p)
      /\ importing[w].creates => p.slug \notin DOMAIN source
      /\ ~ importing[w].creates => p.slug \in DOMAIN source /\ ProvenanceAgrees(p)
  BY <1>1 DEF LibraryInv, Founded
<1>4. /\ DOMAIN source' = DOMAIN source \cup {p.slug}
      /\ \A slug \in DOMAIN source : source'[slug] = source[slug]
      /\ importing[w].creates => source'[p.slug] = id
  BY <1>1, <1>3 DEF Inserted
<1>5. /\ DOMAIN release' = DOMAIN release \cup {new}
      /\ \A key \in DOMAIN release : release'[key] = release[key]
      /\ release'[new] = id
      /\ new[1] = p.slug /\ new[2] = p.version
  BY <1>1 DEF Inserted
<1> HIDE DEF new
<1>6. /\ Payloads[source'[p.slug]].type = p.type
      /\ Payloads[source'[p.slug]].url = p.url
  BY <1>3, <1>4 DEF ProvenanceAgrees
<1>7. ASSUME NEW v \in LibraryWorkers, importing'[v] # None
      PROVE  Founded(importing[v])'
  <2> DEFINE q == Payloads[importing[v].payload]
  <2>1. v # w /\ importing'[v] = importing[v] /\ Founded(importing[v])
    BY <1>2, <1>7 DEF LibraryInv
  <2>2. ASSUME importing[v].creates PROVE q.slug \notin DOMAIN source'
    <3>1. importing[w].creates => q.slug # p.slug
      BY <1>1, <1>2, <1>7, <2>1, <2>2 DEF LibraryInv, Creates
    <3> QED
      BY <1>3, <1>4, <2>1, <2>2, <3>1 DEF Founded
  <2>3. ASSUME ~ importing[v].creates
        PROVE  /\ q.slug \in DOMAIN source'
               /\ \A field \in {"name", "type", "url"} :
                      Payloads[source'[q.slug]][field] = q[field]
    BY <1>4, <2>1, <2>3 DEF Founded, ProvenanceAgrees
  <2> QED
    BY <2>1, <2>2, <2>3 DEF Founded, ProvenanceAgrees
<1>8. \A u, v \in LibraryWorkers : \A slug :
          Creates(u, slug)' /\ Creates(v, slug)' => u = v
  <2>1. \A v \in LibraryWorkers : \A slug : Creates(v, slug)' => Creates(v, slug)
    BY <1>2 DEF Creates
  <2> QED
    BY <2>1 DEF LibraryInv
<1>9. \A key \in DOMAIN release' : key[1] \in DOMAIN source'
  BY <1>4, <1>5 DEF LibraryInv
<1>10. CisaReleasesReviewed'
  <2> SUFFICES ASSUME NEW key \in DOMAIN release',
                      Payloads[source'[key[1]]].type \in CisaTypes
               PROVE  Reviewed(Payloads[source'[key[1]]].type,
                               Payloads[source'[key[1]]].url, key[2],
                               Payloads[release'[key]].digest)
    BY DEF CisaReleasesReviewed, Reviewed
  <2>1. CASE key = new
    BY <1>3, <1>5, <1>6, <2>1 DEF ReferenceApproved
  <2>2. CASE key \in DOMAIN release
    BY <1>4, <1>5, <2>2 DEF LibraryInv, CisaReleasesReviewed
  <2> QED
    BY <1>5, <2>1, <2>2
<1> QED
  BY <1>2, <1>7, <1>8, <1>9, <1>10 DEF LibraryInv

LEMMA RollBackImportInv ==
    ASSUME LibraryInv, NEW w \in LibraryWorkers, RollBackImport(w)
    PROVE  LibraryInv'
<1>1. /\ importing' = [importing EXCEPT ![w] = None]
      /\ source' = source /\ release' = release
  BY DEF RollBackImport
<1>2. /\ importing'[w] = None
      /\ \A v \in LibraryWorkers \ {w} : importing'[v] = importing[v]
      /\ importing' = [v \in LibraryWorkers |-> importing'[v]]
  BY <1>1 DEF LibraryInv
<1>3. \A v \in LibraryWorkers : \A slug : Creates(v, slug)' => Creates(v, slug)
  BY <1>2 DEF Creates
<1>4. \A v \in LibraryWorkers : importing'[v] # None => Founded(importing[v])'
  BY <1>1, <1>2 DEF LibraryInv, Founded, ProvenanceAgrees
<1>5. CisaReleasesReviewed'
  BY <1>1 DEF LibraryInv, CisaReleasesReviewed
<1> QED
  BY <1>1, <1>2, <1>3, <1>4, <1>5 DEF LibraryInv

LEMMA LibraryInvInit == Init => LibraryInv
<1>1. DOMAIN << >> = {}
  OBVIOUS
<1> SUFFICES ASSUME LibraryInit PROVE LibraryInv
  BY DEF Init
<1> QED
  BY <1>1 DEF LibraryInit, LibraryInv, Creates, CisaReleasesReviewed

LEMMA LibraryInvNext == LibraryInv /\ [Next]_vars => LibraryInv'
<1> SUFFICES ASSUME LibraryInv, [Next]_vars PROVE LibraryInv'
  OBVIOUS
<1>1. CASE UNCHANGED libraryVars
  BY <1>1 DEF libraryVars, LibraryInv, Founded, ProvenanceAgrees, Creates,
     CisaReleasesReviewed
<1>2. CASE \E w \in LibraryWorkers :
              \/ \E id \in DOMAIN Payloads : BeginImport(w, id)
              \/ CommitImport(w) \/ RollBackImport(w)
  BY <1>2, BeginImportInv, CommitImportInv, RollBackImportInv
<1> QED
  BY <1>1, <1>2 DEF Next, vars, Planning, Analysing, Fcc

(* CisaReleasesReviewed: a release listed under a source of any CISA type  *)
(* declares type, URL, version and digest that are one approved entry,     *)
(* although the gate of apply_import() looks at the payload and the source *)
(* may have been created by another import (get_or_create()).              *)
THEOREM CisaReleasesStayReviewed == Spec => []CisaReleasesReviewed
<1>1. LibraryInv => CisaReleasesReviewed
  BY DEF LibraryInv
<1> QED
  BY <1>1, LibraryInvInit, LibraryInvNext, PTL DEF Spec

-----------------------------------------------------------------------------
(* What parsing yields: a number of rows that is the number of rows.       *)
RowsOf(records, s) == {records[k] : k \in s}
SpoolStep(records, s, spool) ==
    IF s = {} THEN Nothing
    ELSE Append1(records[CHOOSE x \in s : TRUE], spool[s \ {CHOOSE x \in s : TRUE}])

LEMMA SpoolUnfolded ==
    ASSUME NEW records, NEW S
    PROVE  Spooled(records, S)
              = (CHOOSE f : f = [s \in SUBSET S |-> SpoolStep(records, s, f)])[S]
  BY DEF Spooled, FoldFunctionOnSet, MapThenFoldSet, SpoolStep

(* Induction over the subsets of a finite set.                             *)
LEMMA SubsetInduction ==
    ASSUME NEW S, IsFiniteSet(S), NEW Good,
           \A T \in SUBSET S : (\A U \in SUBSET T : U # T => U \in Good) => T \in Good
    PROVE  S \in Good
<1> DEFINE Misses == {T \in SUBSET S : T \notin Good}
<1>1. SUFFICES ASSUME S \notin Good PROVE FALSE
  OBVIOUS
<1>2. Misses \subseteq FiniteSubsetsOf(S) /\ Misses # {}
  BY <1>1, FS_Subset DEF FiniteSubsetsOf
<1>3. PICK T \in Misses : \A U \in Misses : <<U, T>> \notin StrictSubsetOrdering(S)
  <2> HIDE DEF Misses
  <2> QED
    BY <1>2, FS_StrictSubsetOrderingWellFounded, WFMin
<1>4. ASSUME NEW U \in SUBSET T, U # T PROVE U \in Good
  <2>1. <<U, T>> \in StrictSubsetOrdering(S)
    BY <1>3, <1>4 DEF StrictSubsetOrdering
  <2> QED
    BY <1>3, <1>4, <2>1
<1>5. T \in SUBSET S /\ T \notin Good
  BY <1>3
<1> QED
  BY <1>4, <1>5

(* What the spool holds: INSERT OR IGNORE keeps one of equal records, and  *)
(* counts it once, whichever record comes first.                           *)
LEMMA SpoolCounts ==
    ASSUME NEW records, NEW S, IsFiniteSet(S)
    PROVE  Spooled(records, S) = [rows |-> RowsOf(records, S),
                                  count |-> Cardinality(RowsOf(records, S))]
           /\ IsFiniteSet(RowsOf(records, S))
<1> DEFINE g == [s \in SUBSET S |-> [rows |-> RowsOf(records, s),
                                     count |-> Cardinality(RowsOf(records, s))]]
    F == CHOOSE f : f = [s \in SUBSET S |-> SpoolStep(records, s, f)]
    Fin == {T \in SUBSET S : IsFiniteSet(RowsOf(records, T))}
<1>1. ASSUME NEW T \in SUBSET S, T # {}, NEW x, x = CHOOSE y \in T : TRUE
      PROVE /\ x \in T
            /\ T \ {x} \in SUBSET S /\ T \ {x} # T
            /\ RowsOf(records, T) = RowsOf(records, T \ {x}) \cup {records[x]}
  BY <1>1 DEF RowsOf
<1>2. ASSUME NEW T \in SUBSET S PROVE IsFiniteSet(RowsOf(records, T))
  <2>1. IsFiniteSet(T)
    BY FS_Subset
  <2>2. ASSUME NEW U \in SUBSET T, \A V \in SUBSET U : V # U => V \in Fin
        PROVE U \in Fin
    <3>1. CASE U = {}
      BY <3>1, FS_EmptySet DEF RowsOf
    <3>2. CASE U # {}
      <4>1. PICK x : x = CHOOSE y \in U : TRUE
        OBVIOUS
      <4>2. /\ U \ {x} \in SUBSET U /\ U \ {x} # U
            /\ RowsOf(records, U) = RowsOf(records, U \ {x}) \cup {records[x]}
        BY <4>1, <3>2, <1>1
      <4>3. U \ {x} \in Fin
        BY <4>2, <2>2
      <4> QED
        BY <4>2, <4>3, FS_AddElement
    <3> QED
      BY <3>1, <3>2
  <2> HIDE DEF Fin
  <2>3. T \in Fin
    BY <2>1, <2>2, SubsetInduction
  <2> QED
    BY <2>3 DEF Fin
<1>3. g = [s \in SUBSET S |-> SpoolStep(records, s, g)]
  <2>1. ASSUME NEW T \in SUBSET S PROVE g[T] = SpoolStep(records, T, g)
    <3>1. CASE T = {}
      BY <3>1, FS_EmptySet DEF SpoolStep, Nothing, RowsOf
    <3>2. CASE T # {}
      <4> DEFINE x == CHOOSE y \in T : TRUE
      <4>1. /\ T \ {x} \in SUBSET S /\ x \in T
            /\ RowsOf(records, T) = RowsOf(records, T \ {x}) \cup {records[x]}
        BY <3>2, <1>1
      <4>2. g[T \ {x}] = [rows |-> RowsOf(records, T \ {x}),
                          count |-> Cardinality(RowsOf(records, T \ {x}))]
        BY <4>1
      <4>3. Cardinality(RowsOf(records, T))
             = IF records[x] \in RowsOf(records, T \ {x}) THEN Cardinality(RowsOf(records, T \ {x}))
               ELSE Cardinality(RowsOf(records, T \ {x})) + 1
        <5>1. IsFiniteSet(RowsOf(records, T \ {x}))
          BY <4>1, <1>2
        <5> HIDE DEF x
        <5> QED
          BY <4>1, <5>1, FS_AddElement
      <4>4. SpoolStep(records, T, g) = Append1(records[x], g[T \ {x}])
        BY <3>2 DEF SpoolStep
      <4>5. Append1(records[x], g[T \ {x}]) = [rows |-> RowsOf(records, T),
                          count |-> Cardinality(RowsOf(records, T))]
        <5> HIDE DEF x, g
        <5> QED
          BY <4>1, <4>2, <4>3 DEF Append1
      <4> QED
        BY <4>4, <4>5
    <3> QED
      BY <3>1, <3>2
  <2> HIDE DEF g
  <2>2. g = [s \in SUBSET S |-> g[s]]
    BY DEF g
  <2> QED
    BY <2>1, <2>2
<1>4. F = [s \in SUBSET S |-> SpoolStep(records, s, F)]
  <2> HIDE DEF g
  <2> QED
    BY <1>3
<1>5. F[S] = g[S]
  <2> DEFINE Same == {T \in SUBSET S : F[T] = g[T]}
  <2> HIDE DEF F, g
  <2>1. ASSUME NEW T \in SUBSET S, \A V \in SUBSET T : V # T => V \in Same
        PROVE T \in Same
    <3>1. F[T] = SpoolStep(records, T, F) /\ g[T] = SpoolStep(records, T, g)
      BY <1>3, <1>4
    <3>2. CASE T = {}
      BY <3>1, <3>2 DEF SpoolStep
    <3>3. CASE T # {}
      <4>1. PICK x : x = CHOOSE y \in T : TRUE
        OBVIOUS
      <4>2. T \ {x} \in Same
        BY <4>1, <3>3, <1>1, <2>1
      <4> QED
        BY <4>1, <4>2, <3>1, <3>3 DEF SpoolStep
    <3> QED
      BY <3>2, <3>3
  <2> HIDE DEF Same
  <2>2. S \in Same
    BY <2>1, SubsetInduction
  <2> QED
    BY <2>2 DEF Same
<1>6. Spooled(records, S) = F[S]
  BY SpoolUnfolded
<1> QED
  BY <1>2, <1>5, <1>6

LEMMA ImageFinite ==
    ASSUME NEW D, IsFiniteSet(D), NEW f
    PROVE  /\ IsFiniteSet(RowsOf(f, D))
           /\ Cardinality(RowsOf(f, D)) <= Cardinality(D)
<1> DEFINE g == [k \in D |-> f[k]]
<1>1. g \in Surjection(D, RowsOf(f, D))
  BY DEF Surjection, RowsOf
<1> QED
  BY <1>1, FS_Surjection
Exact(t) == IsFiniteSet(t.rows) /\ t.count = Cardinality(t.rows)

LEMMA NothingExact == Exact(Nothing)
  BY FS_EmptySet DEF Exact, Nothing

LEMMA SpooledExact ==
    ASSUME NEW rows, IsFiniteSet(DOMAIN rows), NEW records, NEW kept \in SUBSET DOMAIN rows
    PROVE  Exact(Spooled(records, kept))
<1>1. IsFiniteSet(kept)
  BY FS_Subset
<1>2. /\ Spooled(records, kept)
           = [rows |-> RowsOf(records, kept),
              count |-> Cardinality(RowsOf(records, kept))]
      /\ IsFiniteSet(RowsOf(records, kept))
  BY <1>1, SpoolCounts
<1> QED
  BY <1>2 DEF Exact

(* Rows whose key is unique are as many as the rows of the file.           *)
LEMMA ListedExact ==
    ASSUME NEW records, NEW kept, IsFiniteSet(kept), NEW key,
           DOMAIN key = Listed(records, kept).rows,
           Cardinality(RowsOf(key, Listed(records, kept).rows))
              = Listed(records, kept).count
    PROVE  Exact(Listed(records, kept))
<1> DEFINE R == RowsOf(records, kept)
<1>1. Listed(records, kept).rows = R /\ Listed(records, kept).count = Cardinality(kept)
  BY DEF Listed, RowsOf
<1>2. IsFiniteSet(R) /\ Cardinality(R) <= Cardinality(kept)
  BY ImageFinite
<1>3. Cardinality(RowsOf(key, R)) <= Cardinality(R) /\ Cardinality(RowsOf(key, R)) = Cardinality(kept)
  <2> HIDE DEF R
  <2> QED
    BY <1>1, <1>2, ImageFinite
<1>4. Cardinality(R) \in Nat /\ Cardinality(kept) \in Nat
  BY <1>2, FS_CardinalityType
<1> QED
  BY <1>1, <1>2, <1>3, <1>4 DEF Exact

(* A required member of a valid archive is one of its members.             *)
LEMMA RowsFinite ==
    ASSUME NEW d \in Digests, Valid(Archives[d]),
           NEW name \in RequiredMembers(Archives[d].dataset)
    PROVE  IsFiniteSet(DOMAIN Rows(Archives[d], name))
<1> DEFINE a == Archives[d]
<1>1. PICK k \in DOMAIN a.members : a.members[k].name = name
  <2>1. name \in Range([k \in DOMAIN a.members |-> a.members[k].name])
    BY DEF Valid, ValidMembers
  <2> QED
    BY <2>1 DEF Range
<1>2. PICK j \in DOMAIN a.members : Rows(a, name) = a.members[j].rows
  BY <1>1 DEF Rows
<1> QED
  BY <1>2, FccAssumption DEF Digests

(* The counts that the parser reports are the numbers of rows it stores,   *)
(* if the database accepts the rows.                                       *)
LEMMA ParsedExact ==
    ASSUME NEW d \in DOMAIN Parsed, Storable(Parsed[d]), NEW c \in Collections
    PROVE  Exact(Parsed[d][c])
<1> DEFINE a == Archives[d]
           p == ParseArchive(a)
<1>1. d \in Digests /\ Valid(a) /\ Parsed[d] = p
  BY DEF Parsed
<1>2. CASE a.dataset = "asr"
  <2> DEFINE S == Structures(a)
             L == Listed(S, DOMAIN S)
  <2>1. p = [dataset |-> a.dataset, structures |-> L, licenses |-> Nothing,
             locations |-> Nothing, frequencies |-> Nothing, emissions |-> Nothing]
    BY <1>2 DEF ParseArchive
  <2>2. IsFiniteSet(DOMAIN S)
    <3>1. DOMAIN S = DOMAIN Rows(a, "RA")
      BY DEF Structures
    <3>2. "RA" \in RequiredMembers(a.dataset)
      BY <1>2 DEF RequiredMembers
    <3> QED
      BY <1>1, <3>1, <3>2, RowsFinite
  <2>3. Cardinality({r.registration : r \in L.rows}) = L.count
    <3>1. p.structures = L
      BY <2>1
    <3> QED
      BY <1>1, <3>1 DEF Storable
  <2>4. Exact(L)
    <3> DEFINE key == [r \in L.rows |-> r.registration]
    <3>1. RowsOf(key, L.rows) = {r.registration : r \in L.rows}
      BY DEF RowsOf
    <3>2. DOMAIN key = L.rows
      OBVIOUS
    <3>3. PICK s : s = S
      OBVIOUS
    <3> HIDE DEF key, S
    <3> QED
      BY <2>2, <2>3, <3>1, <3>2, ListedExact
  <2>5. p[c] = L \/ p[c] = Nothing
    BY <2>1 DEF Collections
  <2> QED
    BY <1>1, <2>4, <2>5, NothingExact
<1>3. CASE a.dataset # "asr"
  <2> DEFINE L == Listed(Rows(a, "HD"), Licenses(a))
  <2>1. p = [dataset |-> a.dataset, structures |-> Nothing, licenses |-> L,
             locations |-> LocationRows(a), frequencies |-> FrequencyRows(a),
             emissions |-> EmissionRows(a)]
    BY <1>3 DEF ParseArchive
  <2>2. ASSUME NEW name \in {"HD", "LO", "FR", "EM"}
        PROVE  IsFiniteSet(DOMAIN Rows(a, name))
    <3>1. name \in RequiredMembers(a.dataset)
      BY <1>3 DEF RequiredMembers
    <3> QED
      BY <1>1, <3>1, RowsFinite
  <2>3. Exact(L)
    <3> DEFINE key == [r \in L.rows |-> r.id]
    <3>1. Cardinality({r.id : r \in L.rows}) = L.count
      <4>1. p.licenses = L
        BY <2>1
      <4> QED
        BY <1>1, <4>1 DEF Storable
    <3>2. RowsOf(key, L.rows) = {r.id : r \in L.rows} /\ DOMAIN key = L.rows
      BY DEF RowsOf
    <3>3. IsFiniteSet(Licenses(a))
      BY <2>2, FS_Subset DEF Licenses
    <3> HIDE DEF key
    <3> QED
      BY <3>1, <3>2, <3>3, ListedExact
  <2>4. Exact(LocationRows(a))
    BY <2>2, SpooledExact DEF LocationRows
  <2>5. Exact(FrequencyRows(a))
    BY <2>2, SpooledExact DEF FrequencyRows
  <2>6. Exact(EmissionRows(a))
    BY <2>2, SpooledExact DEF EmissionRows
  <2>7. p[c] \in {Nothing, L, LocationRows(a), FrequencyRows(a), EmissionRows(a)}
    BY <2>1 DEF Collections
  <2> QED
    BY <1>1, <2>3, <2>4, <2>5, <2>6, <2>7, NothingExact
<1> QED
  BY <1>2, <1>3
-----------------------------------------------------------------------------
(* Finitely many licenses have a location on a tower.                      *)
LicensesOf(d, tower) ==
    {d} \X {l.license : l \in {r \in Parsed[d].locations.rows : r.tower = tower}}

LEMMA LicensesOfFinite ==
    ASSUME NEW d \in DOMAIN Parsed, Storable(Parsed[d]), NEW tower
    PROVE  IsFiniteSet(LicensesOf(d, tower))
<1> DEFINE L == {r \in Parsed[d].locations.rows : r.tower = tower}
           pair == [r \in L |-> <<d, r.license>>]
<1>1. IsFiniteSet(Parsed[d].locations.rows)
  BY ParsedExact DEF Exact, Collections
<1>2. IsFiniteSet(L)
  BY <1>1, FS_Subset
<1>3. LicensesOf(d, tower) = RowsOf(pair, L)
  <2>1. \A x : x \in LicensesOf(d, tower) <=> \E r \in L : x = <<d, r.license>>
    BY DEF LicensesOf
  <2>2. \A x : x \in RowsOf(pair, L) <=> \E r \in L : x = <<d, r.license>>
    BY DEF RowsOf
  <2> HIDE DEF L, pair
  <2> QED
    BY <2>1, <2>2
<1> HIDE DEF pair, L
<1> QED
  BY <1>2, <1>3, ImageFinite

LEMMA LicensesFinite ==
    ASSUME NEW set, IsFiniteSet(set), NEW tower,
           set \subseteq {d \in DOMAIN Parsed : Storable(Parsed[d])}
    PROVE  IsFiniteSet(LicensesIn(set, tower))
<1> DEFINE Fin == {T \in SUBSET set : IsFiniteSet(LicensesIn(T, tower))}
<1>1. ASSUME NEW T \in SUBSET set, \A U \in SUBSET T : U # T => U \in Fin
      PROVE  T \in Fin
  <2>1. CASE T = {}
    <3>1. LicensesIn(T, tower) = {}
      BY <2>1 DEF LicensesIn
    <3> QED
      BY <3>1, FS_EmptySet
  <2>2. CASE T # {}
    <3>1. PICK d \in T : TRUE
      BY <2>2
    <3>2. T \ {d} \in SUBSET T /\ T \ {d} # T
      BY <3>1
    <3>3. T \ {d} \in Fin
      BY <1>1, <3>2
    <3>4. LicensesIn(T, tower)
             = LicensesIn(T \ {d}, tower) \cup LicensesOf(d, tower)
      BY <3>1 DEF LicensesIn, LicensesOf
    <3>5. IsFiniteSet(LicensesOf(d, tower))
      BY <3>1, LicensesOfFinite
    <3> QED
      BY <3>3, <3>4, <3>5, FS_Union
  <2> QED
    BY <2>1, <2>2
<1> HIDE DEF Fin
<1>2. set \in Fin
  BY <1>1, SubsetInduction
<1> QED
  BY <1>2 DEF Fin

-----------------------------------------------------------------------------
(* What a step does to the tables: nothing, or one batch that never was    *)
(* stored becomes current.                                                 *)
TablesKept == stored' = stored /\ current' = current
OneStored ==
    \E d \in DOMAIN Parsed :
        /\ Storable(Parsed[d]) /\ d \notin stored
        /\ stored' = stored \cup {d}
        /\ d \in current' /\ current' \subseteq current \cup {d}

LEMMA BatchStep ==
    ASSUME TablesInv, [Next]_vars
    PROVE  BatchInv' /\ (TablesKept \/ OneStored)
<1>1. CASE UNCHANGED <<stored, current, import>>
  BY <1>1 DEF TablesInv, BatchInv, TablesKept
<1>2. ASSUME NEW i \in Importers, FccStep(i)
      PROVE  BatchInv' /\ (TablesKept \/ OneStored)
  <2>1. ASSUME NEW j \in Importers, j # i PROVE import'[j] = import[j]
    BY <1>2, <2>1 DEF FccStep, ImportLookup, ImportClear, ImportCleared, ImportCommit,
       ImportAbort, TablesInv, FccInv
  <2>2. import'[i].step # "idle" => import'[i].digest \in DOMAIN Parsed
    <3>1. ASSUME NEW d \in DOMAIN Parsed, ImportLookup(i, d)
          PROVE  import'[i].step # "idle" => import'[i].digest \in DOMAIN Parsed
      <4> DEFINE r == [step |-> "clear", digest |-> d, target |-> {}, held |-> {}]
      <4>1. ASSUME NEW n, n = [Idle EXCEPT !.digest = d, !.step = "clear"] PROVE n = r
        BY <4>1 DEF Idle
      <4>2. import'[i] = Idle \/ import'[i] = r
        BY <3>1, <4>1 DEF ImportLookup, TablesInv, FccInv
      <4> QED
        BY <4>2 DEF Idle
    <3>2. CASE ImportClear(i)
      <4>1. ASSUME NEW t, NEW n, n = [import EXCEPT ![i].step = "wait", ![i].target = t]
            PROVE  n[i].digest = import[i].digest
        <5>1. import[i] = [step |-> import[i].step, digest |-> import[i].digest,
                           target |-> import[i].target, held |-> import[i].held]
          BY DEF TablesInv, FccInv, ImportInv
        <5>2. n[i] = [step |-> "wait", digest |-> import[i].digest, target |-> t,
                      held |-> import[i].held]
          BY <4>1, <5>1 DEF TablesInv, FccInv
        <5> QED
          BY <5>2
      <4>2. import'[i].digest = import[i].digest
        BY <3>2, <4>1 DEF ImportClear
      <4> QED
        BY <3>2, <4>2 DEF ImportClear, TablesInv, BatchInv
    <3>3. CASE ImportCleared(i)
      <4>1. import'[i].digest = import[i].digest
        BY <3>3 DEF ImportCleared, TablesInv, FccInv, ImportInv
      <4> QED
        BY <3>3, <4>1 DEF ImportCleared, TablesInv, BatchInv
    <3>4. CASE ImportCommit(i) \/ ImportAbort(i)
      <4>1. import'[i] = Idle
        BY <3>4 DEF ImportCommit, ImportAbort, TablesInv, FccInv
      <4> QED
        BY <4>1 DEF Idle
    <3> QED
      BY <1>2, <3>1, <3>2, <3>3, <3>4 DEF FccStep
  <2>3. \A j \in Importers : import'[j].step # "idle" => import'[j].digest \in DOMAIN Parsed
    BY <2>1, <2>2 DEF TablesInv, BatchInv
  <2>4. CASE ImportCommit(i)
    <3>1. PICK d : d = import[i].digest
      OBVIOUS
    <3>2. /\ d \in DOMAIN Parsed /\ Storable(Parsed[d]) /\ d \notin stored
          /\ stored' = stored \cup {d}
          /\ current' = (current \ import[i].held) \cup {d}
      BY <2>4, <3>1 DEF ImportCommit, TablesInv, BatchInv
    <3>3. IsFiniteSet(stored')
      BY <3>2, FS_AddElement DEF TablesInv, BatchInv
    <3>4. OneStored
      BY <3>2 DEF OneStored
    <3> QED
      BY <2>3, <3>2, <3>3, <3>4 DEF TablesInv, BatchInv
  <2>5. CASE ~ ImportCommit(i)
    <3>1. TablesKept
      BY <1>2, <2>5 DEF FccStep, ImportLookup, ImportClear, ImportCleared, ImportAbort,
         TablesKept
    <3> QED
      BY <2>3, <3>1 DEF TablesInv, BatchInv, TablesKept
  <2> QED
    BY <2>4, <2>5
<1> QED
  BY <1>1, <1>2, FccSteps

-----------------------------------------------------------------------------
(* A reader that takes no step keeps what it knows: a batch that is no     *)
(* longer current does not become current again, and what is current       *)
(* never returns to what it was.                                           *)
LEMMA ReaderKept ==
    ASSUME TablesInv, TablesKept \/ OneStored, NEW x, ReaderInv(x)
    PROVE  ReaderInv(x)'
<1>1. CASE TablesKept
  BY <1>1 DEF TablesKept, ReaderInv
<1>2. CASE OneStored
  <2>1. PICK d \in DOMAIN Parsed :
           /\ d \notin stored /\ stored' = stored \cup {d}
           /\ d \in current' /\ current' \subseteq current \cup {d}
    BY <1>2 DEF OneStored
  <2>2. x.seen \subseteq stored' /\ x.seen # current'
    BY <2>1 DEF ReaderInv
  <2>3. x.page \subseteq LicensesIn(stored', x.tower)
    BY <2>1 DEF ReaderInv, LicensesIn
  <2>4. \A license \in x.page : license[1] \in stored
    BY DEF ReaderInv, LicensesIn
  <2>5. \A license \in (x.page \ x.left) \ x.located : license[1] \notin current'
    BY <2>1, <2>4 DEF ReaderInv
  <2> QED
    BY <2>2, <2>3, <2>5 DEF ReaderInv
<1> QED
  BY <1>1, <1>2

LEMMA NotReadingInv == current \subseteq stored => ReaderInv(NotReading)
  BY DEF ReaderInv, NotReading
(* A query of a reader: it changes what that one has read.                 *)
LEMMA QueryInv ==
    ASSUME ReadersInv, stored' = stored, current' = current,
           NEW r \in Readers, NEW x, ReaderInv(x),
           reader' = [reader EXCEPT ![r] = x]
    PROVE  ReadersInv'
<1>1. \A q \in Readers : ReaderInv(reader'[q])
  BY DEF ReadersInv
<1>2. \A q \in Readers : ReaderInv(reader[q])'
  BY <1>1 DEF ReaderInv
<1> QED
  BY <1>2 DEF ReadersInv

LEMMA ReadStructureInv ==
    ASSUME TablesInv, NEW r \in Readers, ReadStructure(r)
    PROVE  ReadersInv'
<1>1. PICK t : reader' = [reader EXCEPT ![r] =
                             [NotReading EXCEPT !.step = "count", !.tower = t]]
  BY DEF ReadStructure
<1> DEFINE x == [step |-> "count", tower |-> t, count |-> 0, seen |-> {}, page |-> {},
                 left |-> {}, located |-> {}]
<1>2. ASSUME NEW n, n = [NotReading EXCEPT !.step = "count", !.tower = t]
      PROVE  n = x
  BY <1>2 DEF NotReading
<1>3. reader' = [reader EXCEPT ![r] = x]
  BY <1>1, <1>2
<1>4. ReaderInv(x)
  BY DEF ReaderInv
<1> QED
  BY <1>3, <1>4, QueryInv DEF TablesInv, ReadStructure

LEMMA ReadCountInv ==
    ASSUME TablesInv, NEW r \in Readers, ReadCount(r)
    PROVE  ReadersInv'
<1>1. PICK y : y = reader[r]
  OBVIOUS
<1>2. ReaderInv(y) /\ y.step = "count"
  BY <1>1 DEF TablesInv, ReadersInv, ReadCount
<1>3. PICK c : c = Cardinality(LicensesOn(y.tower))
  OBVIOUS
<1> DEFINE x == [step |-> "page", tower |-> y.tower, count |-> c, seen |-> current,
                 page |-> y.page, left |-> y.left, located |-> y.located]
<1>4. ASSUME NEW n, n = [reader EXCEPT ![r].step = "page", ![r].count = c,
                                       ![r].seen = current]
      PROVE  n = [reader EXCEPT ![r] = x]
  <2>1. y = [step |-> y.step, tower |-> y.tower, count |-> y.count, seen |-> y.seen,
             page |-> y.page, left |-> y.left, located |-> y.located]
    BY <1>2 DEF ReaderInv
  <2>2. n[r] = x
    BY <1>1, <1>4, <2>1 DEF TablesInv, ReadersInv
  <2>3. \A q \in Readers : q # r => n[q] = reader[q]
    BY <1>4 DEF TablesInv, ReadersInv
  <2>4. n = [q \in Readers |-> n[q]]
    BY <1>4 DEF TablesInv, ReadersInv
  <2> HIDE DEF x
  <2> QED
    BY <2>2, <2>3, <2>4 DEF TablesInv, ReadersInv
<1>5. reader' = [reader EXCEPT ![r] = x]
  BY <1>1, <1>3, <1>4 DEF ReadCount
<1>6. c = Cardinality(LicensesIn(current, y.tower))
  BY <1>3 DEF LicensesOn, LicensesIn
<1>7. ReaderInv(x)
  BY <1>2, <1>6 DEF ReaderInv, TablesInv, FccInv
<1> QED
  BY <1>5, <1>7, QueryInv DEF TablesInv, ReadCount

(* The page lists everything, or fewer than were counted, if nothing was   *)
(* imported after the count.                                               *)
LEMMA ReadPageInv ==
    ASSUME TablesInv, NEW r \in Readers, ReadPage(r)
    PROVE  ReadersInv'
<1>1. PICK y : y = reader[r]
  OBVIOUS
<1>2. ReaderInv(y) /\ y.step = "page"
  BY <1>1 DEF TablesInv, ReadersInv, ReadPage
<1>3. PICK found : found = LicensesIn(current, y.tower)
  OBVIOUS
<1>4. PICK page \in SUBSET found :
        /\ Cardinality(page) = IF Cardinality(found) < PageSize
                               THEN Cardinality(found) ELSE PageSize
        /\ reader' = [reader EXCEPT
              ![r].step = IF page = {} THEN "done" ELSE "locations",
              ![r].page = page, ![r].left = page]
  <2>1. LicensesOn(reader[r].tower) = found
    BY <1>1, <1>3 DEF LicensesOn, LicensesIn
  <2> QED
    BY <2>1 DEF ReadPage
<1>5. PICK s : s = IF page = {} THEN "done" ELSE "locations"
  OBVIOUS
<1> DEFINE x == [step |-> s, tower |-> y.tower, count |-> y.count, seen |-> y.seen,
                 page |-> page, left |-> page, located |-> y.located]
<1>6. ASSUME NEW n, n = [reader EXCEPT ![r].step = s, ![r].page = page, ![r].left = page]
      PROVE  n = [reader EXCEPT ![r] = x]
  <2>1. y = [step |-> y.step, tower |-> y.tower, count |-> y.count, seen |-> y.seen,
             page |-> y.page, left |-> y.left, located |-> y.located]
    BY <1>2 DEF ReaderInv
  <2>2. n[r] = x
    BY <1>1, <1>6, <2>1 DEF TablesInv, ReadersInv
  <2>3. \A q \in Readers : q # r => n[q] = reader[q]
    BY <1>6 DEF TablesInv, ReadersInv
  <2>4. n = [q \in Readers |-> n[q]]
    BY <1>6 DEF TablesInv, ReadersInv
  <2> HIDE DEF x
  <2> QED
    BY <2>2, <2>3, <2>4 DEF TablesInv, ReadersInv
<1>7. reader' = [reader EXCEPT ![r] = x]
  BY <1>4, <1>5, <1>6
<1>8. (Cardinality(found) > Cardinality(page)) = (page # found)
  <2>1. current \subseteq stored
    BY DEF TablesInv, FccInv
  <2>2. IsFiniteSet(current)
    BY <2>1, FS_Subset DEF TablesInv, BatchInv
  <2>3. IsFiniteSet(found)
    BY <1>3, <2>1, <2>2, LicensesFinite DEF TablesInv, BatchInv
  <2>4. /\ Cardinality(page) <= Cardinality(found)
        /\ Cardinality(found) = Cardinality(page) => found = page
        /\ IsFiniteSet(page)
    BY <2>3, FS_Subset
  <2>5. Cardinality(found) \in Nat /\ Cardinality(page) \in Nat
    BY <2>3, <2>4, FS_CardinalityType
  <2> QED
    BY <2>4, <2>5
<1>9. found \subseteq LicensesIn(stored, y.tower)
  BY <1>3 DEF LicensesIn, TablesInv, FccInv
<1>10. y.seen # current
         \/ (y.count > Cardinality(page)) = (page # LicensesIn(y.seen, y.tower))
  BY <1>2, <1>3, <1>8 DEF ReaderInv
<1>11. ReaderInv(x)
  BY <1>2, <1>5, <1>9, <1>10 DEF ReaderInv
<1> QED
  BY <1>7, <1>11, QueryInv DEF TablesInv, ReadPage

LEMMA ReadLocationsInv ==
    ASSUME TablesInv, NEW r \in Readers, ReadLocations(r)
    PROVE  ReadersInv'
<1>1. PICK y : y = reader[r]
  OBVIOUS
<1>2. ReaderInv(y) /\ y.step = "locations"
  BY <1>1 DEF TablesInv, ReadersInv, ReadLocations
<1>3. PICK license \in y.left :
        reader' = [reader EXCEPT
           ![r].step = IF reader[r].left = {license} THEN "done" ELSE "locations",
           ![r].left = @ \ {license},
           ![r].located = IF LocationsOf(license, reader[r].tower) = {}
                          THEN @ ELSE @ \cup {license}]
  BY <1>1 DEF ReadLocations
<1>4. PICK s : s = IF y.left = {license} THEN "done" ELSE "locations"
  OBVIOUS
<1>5. PICK found : found = (LocationsOf(license, y.tower) # {})
  OBVIOUS
<1> DEFINE l == IF found THEN y.located \cup {license} ELSE y.located
           x == [step |-> s, tower |-> y.tower, count |-> y.count, seen |-> y.seen,
                 page |-> y.page, left |-> y.left \ {license}, located |-> l]
<1>6. ASSUME NEW n, n = reader'
      PROVE  n = [reader EXCEPT ![r] = x]
  <2>1. y = [step |-> y.step, tower |-> y.tower, count |-> y.count, seen |-> y.seen,
             page |-> y.page, left |-> y.left, located |-> y.located]
    BY <1>2 DEF ReaderInv
  <2>2. n[r] = x
    BY <1>1, <1>3, <1>4, <1>5, <1>6, <2>1 DEF TablesInv, ReadersInv
  <2>3. \A q \in Readers : q # r => n[q] = reader[q]
    BY <1>3, <1>6 DEF TablesInv, ReadersInv
  <2>4. n = [q \in Readers |-> n[q]]
    BY <1>3, <1>6 DEF TablesInv, ReadersInv
  <2> HIDE DEF x
  <2> QED
    BY <2>2, <2>3, <2>4 DEF TablesInv, ReadersInv
<1>7. ~ found => license[1] \notin current
  <2>1. license \in LicensesIn(stored, y.tower)
    BY <1>2 DEF ReaderInv
  <2>2. PICK d \in stored : \E q \in Parsed[d].locations.rows :
           q.tower = y.tower /\ license = <<d, q.license>>
    BY <2>1 DEF LicensesIn
  <2>3. PICK q \in Parsed[d].locations.rows :
           q.tower = y.tower /\ license = <<d, q.license>>
    BY <2>2
  <2>4. license[1] = d /\ license[2] = q.license
    BY <2>3
  <2>5. d \in current => q \in LocationsOf(license, y.tower)
    BY <2>3, <2>4 DEF LocationsOf
  <2> QED
    BY <1>5, <2>4, <2>5
<1>8. ReaderInv(x)
  <2>1. \A m \in (y.page \ (y.left \ {license})) \ l : m[1] \notin current
    BY <1>2, <1>7 DEF ReaderInv
  <2>2. s = "done" => y.left \ {license} = {}
    BY <1>4
  <2> HIDE DEF l
  <2> QED
    BY <1>2, <1>4, <2>1, <2>2 DEF ReaderInv
<1> QED
  BY <1>6, <1>8, QueryInv DEF TablesInv, ReadLocations

-----------------------------------------------------------------------------
LEMMA TablesInvInit == Init => TablesInv
  BY FccInvInit, NotReadingInv, FS_EmptySet
     DEF Init, FccInit, TablesInv, BatchInv, ReadersInv, Idle

LEMMA TablesInvNext == TablesInv /\ [Next]_vars => TablesInv'
<1> SUFFICES ASSUME TablesInv, [Next]_vars PROVE TablesInv'
  OBVIOUS
<1>1. FccInv' /\ BatchInv'
  BY FccInvNext, BatchStep DEF TablesInv
<1>2. CASE reader' = reader
  <2>1. \A r \in Readers : ReaderInv(reader[r])'
    <3>1. \A r \in Readers : ReaderInv(reader'[r])
      BY <1>2 DEF TablesInv, ReadersInv
    <3> SUFFICES ASSUME NEW r \in Readers PROVE ReaderInv(reader[r])'
      OBVIOUS
    <3>2. PICK x : x = reader[r] /\ reader'[r] = x
      BY <1>2
    <3>3. ReaderInv(x)'
      BY <3>1, <3>2, ReaderKept, BatchStep
    <3> QED
      BY <3>2, <3>3 DEF ReaderInv
  <2> QED
    BY <1>1, <1>2, <2>1 DEF TablesInv, ReadersInv
<1>3. CASE \E r \in Readers : ReadStructure(r) \/ ReadCount(r) \/ ReadPage(r)
                                 \/ ReadLocations(r)
  BY <1>1, <1>3, ReadStructureInv, ReadCountInv, ReadPageInv, ReadLocationsInv
     DEF TablesInv
<1> QED
  BY <1>2, <1>3 DEF Next, vars, fccVars, Library, Planning, Analysing,
     ImportLookup, ImportClear, ImportCleared, ImportCommit, ImportAbort

(* Whatever archives are imported while a request reads, the tower search  *)
(* omits a location only if its batch was replaced meanwhile, and reports  *)
(* "truncated" rightly unless an import came between count and page.       *)
THEOREM TowerDetailsExplained == Spec => []DetailsExplained
<1>1. TablesInv => DetailsExplained
  BY DEF TablesInv, ReadersInv, ReaderInv, DetailsExplained, Truncated, LicensesOn,
     LicensesIn
<1> QED
  BY <1>1, TablesInvInit, TablesInvNext, PTL DEF Spec

(* For every set of archives: where dataset_status() says "available", its *)
(* counts are those of the rows, doubled rows and ids included.            *)
THEOREM AvailableCountsExact == Spec => []AvailableIsExact
<1>1. TablesInv => AvailableIsExact
  <2> SUFFICES ASSUME TablesInv, NEW dataset \in Datasets,
                      DatasetStatus(dataset).status = "available",
                      NEW d \in OfDataset(current, dataset), NEW c \in Collections
               PROVE  DatasetStatus(dataset).counts[c] = Cardinality(Parsed[d][c].rows)
    BY DEF AvailableIsExact
  <2> DEFINE batches == OfDataset(current, dataset)
  <2>1. batches \subseteq stored
    BY DEF OfDataset, TablesInv, FccInv
  <2>2. IsFiniteSet(batches) /\ batches # {}
    BY <2>1, FS_Subset DEF TablesInv, BatchInv
  <2>3. Cardinality(batches) \in Nat /\ Cardinality(batches) # 0
    BY <2>2, FS_CardinalityType, FS_EmptySet
  <2>4. ~ Cardinality(batches) > 1
    BY <2>2 DEF DatasetStatus
  <2>5. batches = {d}
    BY <2>2, <2>3, <2>4, FS_Singleton
  <2>6. DatasetStatus(dataset).counts[c] = Parsed[CHOOSE e \in batches : TRUE][c].count
    BY <2>2, <2>4 DEF DatasetStatus
  <2>7. (CHOOSE e \in batches : TRUE) = d
    BY <2>5
  <2>8. Exact(Parsed[d][c])
    BY <2>1, ParsedExact DEF TablesInv, BatchInv
  <2> QED
    BY <2>6, <2>7, <2>8 DEF Exact
<1> QED
  BY <1>1, TablesInvInit, TablesInvNext, PTL DEF Spec
-----------------------------------------------------------------------------
(* Deconfliction.  The rows of an analysis are those of an approved plan,  *)
(* and what is stored of it is what the rules say of its own input.        *)
Ids(seq) ==
    /\ DOMAIN seq \subseteq Nat \ {0}
    /\ \A k \in DOMAIN seq : seq[k] \in DOMAIN Assignments
InputRow(r) == r.tx \in Int \cup {None} /\ r.areas \subseteq Areas
AnalysisRow(x) ==
    /\ x = [input |-> x.input, status |-> x.status, result |-> x.result]
    /\ DOMAIN x.input \subseteq Nat \ {0}
    /\ \A k \in DOMAIN x.input : InputRow(x.input[k])
    /\ x.result = Evaluate(x.input)
AnalysesInv ==
    /\ revision \in Seq(DOMAIN Assignments)
    /\ analysing = [w \in Analysts |-> analysing[w]]
    /\ \A w \in Analysts : analysing[w] # None => Ids(analysing[w])
    /\ analysis = [a \in Analyses |-> analysis[a]]
    /\ \A a \in Analyses : analysis[a] # None => AnalysisRow(analysis[a])

LEMMA SnapshotRows ==
    ASSUME NEW ids, Ids(ids), NEW k \in DOMAIN ids
    PROVE  InputRow(Snapshot(ids)[k])
<1>1. Snapshot(ids)[k].tx = Assignments[ids[k]].tx
  BY DEF Snapshot
<1>2. Snapshot(ids)[k].areas = AreaSnapshot(ids[k])
  BY DEF Snapshot
<1>3. AreaSnapshot(ids[k]) \subseteq Areas
  BY AssignmentAssumption DEF AreaSnapshot, LinksNow, Judged, Areas, Ids
<1> QED
  BY <1>1, <1>2, <1>3, AssignmentAssumption DEF InputRow, Ids

LEMMA AnalysesInvInit == Init => AnalysesInv
  BY AssignmentAssumption DEF Init, DeconflictionInit, AnalysesInv

LEMMA LateDeleteInv ==
    ASSUME AnalysesInv, NEW k \in DOMAIN revision, LateDelete(k)
    PROVE  revision' \in Seq(DOMAIN Assignments)
<1>1. Len(revision) \in Nat \ {0} /\ k \in 1..Len(revision)
  BY DEF AnalysesInv
<1>2. revision' = [j \in 1..(Len(revision) - 1) |->
                      revision[IF j < k THEN j ELSE j + 1]]
  BY DEF LateDelete
<1>3. \A j \in 1..(Len(revision) - 1) : revision'[j] \in DOMAIN Assignments
  BY <1>1, <1>2 DEF AnalysesInv
<1> QED
  BY <1>1, <1>2, <1>3

LEMMA AnalysesInvNext == AnalysesInv /\ [Next]_vars => AnalysesInv'
<1> SUFFICES ASSUME AnalysesInv, [Next]_vars PROVE AnalysesInv'
  OBVIOUS
<1>1. CASE UNCHANGED <<revision, analysing, analysis>>
  BY <1>1 DEF AnalysesInv, Ids, AnalysisRow, InputRow
<1>2. ASSUME NEW k \in DOMAIN revision, LateDelete(k), Planning PROVE AnalysesInv'
  <2>1. revision' \in Seq(DOMAIN Assignments)
    BY <1>2, LateDeleteInv
  <2>2. UNCHANGED <<analysing, analysis>>
    BY <1>2 DEF Planning, deconflictionVars
  <2> QED
    BY <2>1, <2>2 DEF AnalysesInv, Ids, AnalysisRow, InputRow
<1>3. ASSUME NEW w \in Analysts, BeginAnalysis(w), Analysing PROVE AnalysesInv'
  <2>1. Ids(revision)
    BY DEF AnalysesInv, Ids
  <2>2. analysing' = [analysing EXCEPT ![w] = revision] /\ revision' = revision
        /\ analysis' = analysis
    BY <1>3 DEF BeginAnalysis, Analysing, planVars
  <2>3. \A v \in Analysts : analysing'[v] # None => Ids(analysing'[v])
    BY <2>1, <2>2 DEF AnalysesInv
  <2>4. analysing' = [v \in Analysts |-> analysing'[v]]
    BY <2>2 DEF AnalysesInv
  <2> QED
    BY <2>2, <2>3, <2>4 DEF AnalysesInv
<1>4. ASSUME NEW w \in Analysts, NEW a \in Analyses, FinishAnalysis(w, a), Analysing
      PROVE  AnalysesInv'
  <2>1. PICK ids : ids = analysing[w] /\ Ids(ids)
    BY <1>4 DEF FinishAnalysis, AnalysesInv
  <2>2. PICK x : x = Snapshot(ids)
    OBVIOUS
  <2> DEFINE r == [input |-> x, status |-> "draft", result |-> Evaluate(x)]
  <2>3. /\ analysis' = [analysis EXCEPT ![a] = r]
        /\ analysing' = [analysing EXCEPT ![w] = None] /\ revision' = revision
    BY <1>4, <2>1, <2>2 DEF FinishAnalysis, Analysing, planVars
  <2>4. AnalysisRow(r)
    <3>1. DOMAIN x = DOMAIN ids
      BY <2>2 DEF Snapshot
    <3>2. \A k \in DOMAIN x : InputRow(x[k])
      BY <2>1, <2>2, <3>1, SnapshotRows
    <3> QED
      BY <2>1, <3>1, <3>2 DEF AnalysisRow, Ids
  <2> HIDE DEF r
  <2>5. \A b \in Analyses : analysis'[b] # None => AnalysisRow(analysis'[b])
    BY <2>3, <2>4 DEF AnalysesInv
  <2>6. \A v \in Analysts : analysing'[v] # None => Ids(analysing'[v])
    BY <2>3 DEF AnalysesInv
  <2>7. /\ analysis' = [b \in Analyses |-> analysis'[b]]
        /\ analysing' = [v \in Analysts |-> analysing'[v]]
    BY <2>3 DEF AnalysesInv
  <2> QED
    BY <2>3, <2>5, <2>6, <2>7 DEF AnalysesInv
<1>5. ASSUME NEW w \in Analysts, RefuseAnalysis(w), Analysing PROVE AnalysesInv'
  <2>1. /\ analysing' = [analysing EXCEPT ![w] = None]
        /\ revision' = revision /\ analysis' = analysis
    BY <1>5 DEF RefuseAnalysis, Analysing, planVars
  <2>2. /\ \A v \in Analysts : analysing'[v] # None => Ids(analysing'[v])
        /\ analysing' = [v \in Analysts |-> analysing'[v]]
    BY <2>1 DEF AnalysesInv
  <2> QED
    BY <2>1, <2>2 DEF AnalysesInv
<1>6. ASSUME NEW a \in Analyses, ApproveAnalysis(a), Analysing PROVE AnalysesInv'
  <2>1. AnalysisRow(analysis[a])
    BY <1>6 DEF ApproveAnalysis, AnalysesInv
  <2>2. ASSUME NEW n, n = [analysis[a] EXCEPT !.status = "approved"]
        PROVE  AnalysisRow(n)
    BY <2>1, <2>2 DEF AnalysisRow
  <2>3. /\ analysis' = [analysis EXCEPT ![a] = [analysis[a] EXCEPT !.status = "approved"]]
        /\ revision' = revision /\ analysing' = analysing
    BY <1>6 DEF ApproveAnalysis, Analysing, planVars, AnalysesInv
  <2>4. \A b \in Analyses : analysis'[b] # None => AnalysisRow(analysis'[b])
    BY <2>2, <2>3 DEF AnalysesInv
  <2>5. analysis' = [b \in Analyses |-> analysis'[b]]
    BY <2>3 DEF AnalysesInv
  <2> QED
    BY <2>3, <2>4, <2>5 DEF AnalysesInv
<1> QED
  BY <1>1, <1>2, <1>3, <1>4, <1>5, <1>6 DEF Next, vars, planVars, deconflictionVars, Library,
     Planning, Analysing, Fcc, ApproveRevision, LateLink, ArchiveIncident, Dispose

-----------------------------------------------------------------------------
(* What the rules say of two transmitters that are close.                  *)
LEMMA OverlapJudged ==
    ASSUME NEW r, NEW s, InputRow(r), InputRow(s), r.tx # None, s.tx # None,
           r.tx - s.tx \in (-Threshold)..Threshold, Overlaps(r, s) # {}
    PROVE  \E f \in OverlapFindings(r, s) :
              f.ids = <<r.id, s.id>> /\ f.rule \in {"RF-001", "RF-002"}
<1>1. OverlapEvidence(r, s) \in Overlaps(r, s)
  BY DEF OverlapEvidence
<1>2. Overlaps(r, s) \subseteq Areas \X Areas
  BY DEF Overlaps, InputRow
<1>3. OverlapEvidence(r, s) # None
  BY <1>1, <1>2, AssignmentAssumption
<1>4. Separation(r, s) \in Nat /\ Separation(r, s) <= Threshold
  BY AssignmentAssumption DEF Separation, InputRow
<1>5. OverlapRule(r, s) \in {"RF-001", "RF-002"} /\ OverlapRule(r, s) # None
  BY <1>3, <1>4, AssignmentAssumption DEF OverlapRule
<1> DEFINE f == Finding(OverlapRule(r, s), <<r.id, s.id>>,
                        <<r.tx, s.tx, OverlapEvidence(r, s), r.txCode # s.txCode>>)
<1>6. f \in OverlapFindings(r, s)
  BY <1>5 DEF OverlapFindings
<1>7. f.ids = <<r.id, s.id>> /\ f.rule = OverlapRule(r, s)
  BY DEF Finding
<1> QED
  BY <1>5, <1>6, <1>7

LEMMA NoOverlapExplained ==
    ASSUME NEW r, NEW s, InputRow(r), InputRow(s), r.tx # None, s.tx # None,
           Overlaps(r, s) = {}
    PROVE  \/ Apart(r, s)
           \/ \E row \in {r, s} : \E t \in StatusesOf(row) :
                 t.id = row.id /\ {"RF-001", "RF-002"} \subseteq t.affects
<1>1. ASSUME NEW row \in {r, s}, row.areas = {}
      PROVE  \E t \in StatusesOf(row) :
                t.id = row.id /\ {"RF-001", "RF-002"} \subseteq t.affects
  <2>1. CASE NotFixed(row)
    <3> DEFINE t == Status("RF-STATUS-001", row,
                           {"RF-001", "RF-002", "RF-003", "RF-004"})
    <3>1. t \in StatusesOf(row)
      BY <2>1 DEF StatusesOf
    <3>2. t.id = row.id /\ {"RF-001", "RF-002"} \subseteq t.affects
      BY DEF Status
    <3> QED
      BY <3>1, <3>2
  <2>2. CASE ~ NotFixed(row)
    <3> DEFINE t == Status("RF-007", row, {"RF-001", "RF-002"})
    <3>1. AreaMissing(row)
      BY <1>1, <2>2 DEF AreaMissing, NotFixed
    <3>2. t \in StatusesOf(row)
      BY <3>1 DEF StatusesOf
    <3>3. t.id = row.id /\ {"RF-001", "RF-002"} \subseteq t.affects
      BY DEF Status
    <3> QED
      BY <3>2, <3>3
  <2> QED
    BY <2>1, <2>2
<1>2. ASSUME NEW a \in r.areas, NEW b \in s.areas
      PROVE  Distance(a, b) > a.radius + b.radius
  <2>1. a \in Areas /\ b \in Areas
    BY DEF InputRow
  <2>2. Distance(a, b) \in Int /\ a.radius \in Int /\ b.radius \in Int
    BY <2>1 DEF Distance, Areas
  <2>3. ~ (Distance(a, b) <= a.radius + b.radius)
    <3>1. PICK pair : pair = <<a, b>>
      OBVIOUS
    <3>2. pair \in r.areas \X s.areas /\ pair[1] = a /\ pair[2] = b
      BY <3>1
    <3> QED
      BY <3>2 DEF Overlaps
  <2> QED
    BY <2>2, <2>3
<1> QED
  BY <1>1, <1>2 DEF Apart

(* For every plan, whatever edits slip behind its approval: an analysis    *)
(* that does not report two close transmitters knows them apart, or says   *)
(* which of them it did not judge (rules.py).                              *)
THEOREM NothingPassedInSilence == Spec => []SilenceExplained
<1>1. AnalysesInv => SilenceExplained
  <2> SUFFICES ASSUME AnalysesInv, NEW n \in {m \in Analyses : analysis[m] # None},
                      NEW j \in DOMAIN analysis[n].input,
                      NEW k \in DOMAIN analysis[n].input,
                      j < k, analysis[n].input[j].tx # None,
                      analysis[n].input[k].tx # None,
                      analysis[n].input[j].tx - analysis[n].input[k].tx
                         \in (-Threshold)..Threshold
               PROVE  \/ \E f \in analysis[n].result.findings :
                            /\ f.ids = <<analysis[n].input[j].id, analysis[n].input[k].id>>
                            /\ f.rule \in {"RF-001", "RF-002"}
                      \/ Apart(analysis[n].input[j], analysis[n].input[k])
                      \/ \E t \in analysis[n].result.statuses :
                            /\ t.id = analysis[n].input[j].id
                            /\ {"RF-001", "RF-002"} \subseteq t.affects
                      \/ \E t \in analysis[n].result.statuses :
                            /\ t.id = analysis[n].input[k].id
                            /\ {"RF-001", "RF-002"} \subseteq t.affects
    BY Zenon DEF SilenceExplained
  <2>0. PICK input : input = analysis[n].input
    OBVIOUS
  <2>1. /\ j \in 1..(k - 1)
        /\ InputRow(input[j]) /\ InputRow(input[k])
        /\ analysis[n].result = Evaluate(input)
    BY <2>0 DEF AnalysesInv, AnalysisRow
  <2>2. CASE Overlaps(input[j], input[k]) # {}
    <3>1. OverlapFindings(input[j], input[k]) \subseteq Evaluate(input).findings
      <4> DEFINE both(i, m) == OverlapFindings(input[i], input[m])
                               \cup ReversedFindings(input[i], input[m])
                               \cup DuplicateFindings(input[i], input[m])
             upTo(m) == UNION {both(i, m) : i \in 1..(m - 1)}
      <4>1. both(j, k) \subseteq upTo(k)
        BY <2>1
      <4>2. upTo(k) \subseteq UNION {upTo(m) : m \in DOMAIN input}
        <5>1. k \in DOMAIN input
          BY <2>0
        <5> HIDE DEF upTo
        <5> QED
          BY <5>1
      <4>3. PairFindings(input) = UNION {upTo(m) : m \in DOMAIN input}
        BY Zenon DEF PairFindings
      <4>4. PairFindings(input) \subseteq Evaluate(input).findings
        BY DEF Evaluate
      <4> QED
        BY <4>1, <4>2, <4>3, <4>4
    <3> QED
      BY <2>0, <2>1, <2>2, <3>1, OverlapJudged
  <2>3. CASE Overlaps(input[j], input[k]) = {}
    <3>1. /\ StatusesOf(input[j]) \subseteq Evaluate(input).statuses
          /\ StatusesOf(input[k]) \subseteq Evaluate(input).statuses
      <4>1. Evaluate(input).statuses = UNION {StatusesOf(input[m]) : m \in DOMAIN input}
        BY Zenon DEF Evaluate
      <4>2. j \in DOMAIN input /\ k \in DOMAIN input
        BY <2>0
      <4> QED
        BY <4>1, <4>2
    <3> QED
      BY <2>0, <2>1, <2>3, <3>1, NoOverlapExplained
  <2> QED
    BY <2>2, <2>3
<1> QED
  BY <1>1, AnalysesInvInit, AnalysesInvNext, PTL DEF Spec
=============================================================================

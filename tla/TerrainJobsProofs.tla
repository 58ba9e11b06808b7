------------------------- MODULE TerrainJobsProofs -------------------------
(***************************************************************************)
(* Terrain jobs and the evidence below them, for every number of rows,     *)
(* places, profiles and configurations: a run meets the job and the site   *)
(* that it locked, and what is built upon is complete, approved and about  *)
(* the right place, source and time.                                       *)
(***************************************************************************)
EXTENDS TerrainJobs, FiniteSetTheorems, SequenceTheorems, WellFoundedInduction,
        TLAPS

(* A row with the columns of the table, whatever they hold.                *)
Columns(row) ==
    row = [input |-> row.input, job |-> row.job, failure |-> row.failure,
           origin |-> row.origin, result |-> row.result, status |-> row.status,
           supersedes |-> row.supersedes]

FromInput(row) == row.job = "complete" => row.origin = row.input.location
RowInv(row) == row # None => Columns(row) /\ FromInput(row)

(* The locks of a run: its job stays queued, and its site where it was.    *)
RunInv ==
    run # None =>
        /\ run.job \in Terrains
        /\ terrain[run.job] # None
        /\ terrain[run.job].job = "queued"
        /\ run.site = site

JobsInv ==
    /\ terrain = [t \in Terrains |-> terrain[t]]
    /\ \A t \in Terrains : RowInv(terrain[t])
    /\ RunInv

-----------------------------------------------------------------------------
(* What a step does to a row that ends.                                    *)
LEMMA FailedRow ==
    ASSUME NEW row, NEW code, Columns(row)
    PROVE  Columns(Failed(row, code)) /\ FromInput(Failed(row, code))
<1> SUFFICES ASSUME NEW n, n = Failed(row, code) PROVE Columns(n) /\ FromInput(n)
  OBVIOUS
<1> QED
  BY DEF Failed, Columns, FromInput

LEMMA CompleteRow ==
    ASSUME NEW row, NEW origin, NEW result, Columns(row), origin = row.input.location,
           NEW n, n = [row EXCEPT !.job = "complete", !.origin = origin, !.result = result]
    PROVE  Columns(n) /\ FromInput(n)
  BY DEF Columns, FromInput

(* A run ends its job with a profile taken at the site that its input      *)
(* snapshot names.                                                         *)
LEMMA OutcomeRows ==
    ASSUME NEW row, Columns(row), run.site = site, NEW n \in Outcomes(row)
    PROVE  Columns(n) /\ FromInput(n)
<1>1. CASE \E code \in Failures : n = Failed(row, code)
  BY <1>1, FailedRow
<1>2. CASE \E result : /\ n = [row EXCEPT !.job = "complete", !.origin = run.site,
                                          !.result = result]
                       /\ CurrentInput(row.input.coverage) = row.input
  <2>1. row.input.location = site
    BY <1>2 DEF CurrentInput
  <2> QED
    BY <1>2, <2>1, CompleteRow
<1> QED
  BY <1>1, <1>2 DEF Outcomes, Failures

(* The steps, by what they do to the jobs.                                 *)
Others ==
    /\ UNCHANGED <<terrain, run>>
    /\ site' = site \/ run = None

LEMMA OtherSteps ==
    ASSUME [Next]_vars
    PROVE  \/ Others
           \/ Restart
           \/ \E t \in Terrains, c \in Coverages : QueueTerrain(t, c)
           \/ \E t, old \in Terrains : RetryTerrain(t, old)
           \/ \E t \in Terrains : StartRun(t)
           \/ FinishRun
           \/ CrashRun
           \/ \E t \in Terrains : CancelTerrain(t)
           \/ \E t \in Terrains : ApproveTerrain(t)
<1>1. CASE UNCHANGED vars
  BY <1>1 DEF vars, Others, haatVars
<1>2. ASSUME NEW h \in Haats, NEW i, NEW e,
             CreateHaat(h, i, e) /\ UNCHANGED <<coverageVars, terrain, run>>
      PROVE  Others
  BY <1>2 DEF CreateHaat, HaatFromCache, HaatFetched, Others
<1>3. ASSUME NEW h \in Haats, NEW old, NEW e,
             RetryHaat(h, old, e) /\ UNCHANGED <<coverageVars, terrain, run>>
      PROVE  Others
  BY <1>3 DEF RetryHaat, HaatFetched, Others
<1>4. ASSUME NEW h \in Haats, ApproveHaat(h) /\ UNCHANGED <<coverageVars, terrain, run>>
      PROVE  Others
  BY <1>4 DEF ApproveHaat, Others
<1>5. ASSUME NEW i, ArchiveInput(i) /\ UNCHANGED <<coverageVars, terrain, run>>
      PROVE  Others
  BY <1>5 DEF ArchiveInput, Others
<1>6. ASSUME Tick /\ UNCHANGED <<coverageVars, terrain, run>> PROVE Others
  BY <1>6 DEF Tick, Others
<1>7. ASSUME NEW c, NEW h, NEW environment, NEW preset, Unlocked,
             CreateCoverage(c, h, environment, preset), UNCHANGED <<terrain, run>>
      PROVE  Others
  BY <1>7 DEF Unlocked, Others
<1>8. ASSUME NEW c, ApproveCoverage(c) /\ UNCHANGED <<terrain, run>> PROVE Others
  BY <1>8 DEF ApproveCoverage, haatVars, Others
<1>9. ASSUME NEW d, NEW h, NEW s, NEW environment, NEW preset, Unlocked,
             CreateDirectional(d, h, s, environment, preset), UNCHANGED <<terrain, run>>
      PROVE  Others
  BY <1>9 DEF Unlocked, Others
<1>10. ASSUME NEW d, ApproveDirectional(d) /\ UNCHANGED <<terrain, run>> PROVE Others
  BY <1>10 DEF ApproveDirectional, haatVars, Others
<1>11. ASSUME NEW location, MoveSite(location) PROVE Others
  BY <1>11 DEF MoveSite, Unlocked, Others
<1> QED
  BY <1>1, <1>2, <1>3, <1>4, <1>5, <1>6, <1>7, <1>8, <1>9, <1>10, <1>11 DEF Next

(* A step that writes one row, one that no run has locked, or ends the run.*)
LEMMA RowSteps ==
    ASSUME JobsInv, NEW t \in Terrains, NEW row, RowInv(row),
           terrain' = [terrain EXCEPT ![t] = row],
           \/ run' = None
           \/ run' = run /\ site' = site /\ NoRunOf(t)
    PROVE  JobsInv'
<1>1. terrain' = [u \in Terrains |-> IF u = t THEN row ELSE terrain[u]]
  BY DEF JobsInv
<1>2. \A u \in Terrains : RowInv(terrain[u])'
  BY <1>1 DEF JobsInv, RowInv, Columns, FromInput
<1>3. RunInv'
  BY <1>1 DEF JobsInv, RunInv, NoRunOf
<1> QED
  BY <1>1, <1>2, <1>3 DEF JobsInv

LEMMA JobsInvInit == Init => JobsInv
  BY DEF Init, JobsInv, RowInv, RunInv

LEMMA JobsInvNext ==
    ASSUME JobsInv, [Next]_vars
    PROVE  JobsInv'
<1>1. CASE Others
  BY <1>1 DEF Others, JobsInv, RowInv, RunInv, Columns, FromInput
<1>2. CASE Restart \/ CrashRun
  BY <1>2 DEF Restart, CrashRun, JobsInv, RowInv, RunInv, Columns, FromInput
<1>3. ASSUME NEW t \in Terrains, NEW c, NEW old, QueueAllowed(c),
             terrain' = [terrain EXCEPT ![t] = Queued(c, old)],
             UNCHANGED <<haatVars, coverageVars, run>>
      PROVE  JobsInv'
  <2>1. RowInv(Queued(c, old))
    BY DEF RowInv, Queued, Columns, FromInput
  <2>2. run' = None
    BY <1>3 DEF QueueAllowed, Unlocked
  <2> QED
    BY <1>3, <2>1, <2>2, RowSteps
<1>4. ASSUME NEW t \in Terrains, StartRun(t) PROVE JobsInv'
  BY <1>4 DEF StartRun, haatVars, JobsInv, RowInv, RunInv, Columns, FromInput
<1>5. CASE FinishRun
  <2>1. run # None
    BY <1>5 DEF FinishRun
  <2>2. /\ run.job \in Terrains
        /\ run.site = site
        /\ Columns(terrain[run.job])
    BY <2>1 DEF JobsInv, RunInv, RowInv
  <2>3. PICK row \in Outcomes(terrain[run.job]) :
          terrain' = [terrain EXCEPT ![run.job] = row]
    BY <1>5 DEF FinishRun
  <2>4. RowInv(row)
    BY <2>2, OutcomeRows DEF RowInv
  <2>5. run' = None
    BY <1>5 DEF FinishRun
  <2> QED
    BY <2>2, <2>3, <2>4, <2>5, RowSteps
<1>6. ASSUME NEW t \in Terrains, CancelTerrain(t) PROVE JobsInv'
  <2> DEFINE row == [terrain[t] EXCEPT !.job = "cancelled"]
  <2>1. Columns(terrain[t])
    BY <1>6 DEF CancelTerrain, Cancellable, JobsInv, RowInv
  <2>2. ASSUME NEW n, n = row PROVE RowInv(n)
    BY <2>1, <2>2 DEF RowInv, Columns, FromInput
  <2>3. terrain' = [terrain EXCEPT ![t] = row]
    BY <1>6 DEF CancelTerrain, JobsInv
  <2>4. run' = run /\ site' = site /\ NoRunOf(t)
    BY <1>6 DEF CancelTerrain, Cancellable, haatVars
  <2> QED
    BY <2>2, <2>3, <2>4, RowSteps
<1>7. ASSUME NEW t \in Terrains, ApproveTerrain(t) PROVE JobsInv'
  <2> DEFINE row == [terrain[t] EXCEPT !.status = "approved"]
  <2>1. Columns(terrain[t]) /\ FromInput(terrain[t])
    BY <1>7 DEF ApproveTerrain, TerrainApprovable, JobsInv, RowInv
  <2>2. ASSUME NEW n, n = row PROVE RowInv(n)
    BY <2>1, <2>2 DEF RowInv, Columns, FromInput
  <2>3. terrain' = [terrain EXCEPT ![t] = row]
    BY <1>7 DEF ApproveTerrain, JobsInv
  <2>4. run' = run /\ site' = site /\ NoRunOf(t)
    BY <1>7 DEF ApproveTerrain, TerrainApprovable, haatVars
  <2> QED
    BY <2>2, <2>3, <2>4, RowSteps
<1> QED
  BY <1>1, <1>2, <1>3, <1>4, <1>5, <1>6, <1>7, OtherSteps DEF QueueTerrain, RetryTerrain

-----------------------------------------------------------------------------
(* A finished profile starts at the coordinates of its input snapshot:     *)
(* run_terrain_analysis() locks the site in the query that it reads it     *)
(* with, so moving it there and back cannot come between.                  *)
THEOREM ProfilesStartAtInput == Spec => []PathFromInput
<1>1. JobsInv => PathFromInput
  BY DEF JobsInv, RowInv, FromInput, PathFromInput
<1> QED
  BY <1>1, JobsInvInit, JobsInvNext, PTL DEF Spec

(* What a step leaves of a job that had ended.                             *)
Kept(t) ==
    /\ [terrain'[t] EXCEPT !.status = "draft"] = [terrain[t] EXCEPT !.status = "draft"]
    /\ terrain[t].status = "approved" => terrain'[t] = terrain[t]

LEMMA EndedJobsKept ==
    ASSUME JobsInv, [Next]_vars, NEW t \in Terrains, terrain[t] # None,
           terrain[t].job # "queued"
    PROVE  Kept(t)
<1>1. CASE terrain'[t] = terrain[t]
  BY <1>1 DEF Kept
<1>2. CASE ApproveTerrain(t)
  <2>1. Columns(terrain[t]) /\ terrain[t].status = "draft"
    BY <1>2 DEF ApproveTerrain, TerrainApprovable, JobsInv, RowInv
  <2>2. terrain'[t] = [terrain[t] EXCEPT !.status = "approved"]
    BY <1>2 DEF ApproveTerrain, JobsInv
  <2>3. [terrain'[t] EXCEPT !.status = "draft"] = terrain[t]
    BY <2>1, <2>2 DEF Columns
  <2>4. [terrain[t] EXCEPT !.status = "draft"] = terrain[t]
    BY <2>1 DEF Columns
  <2> QED
    BY <2>1, <2>3, <2>4 DEF Kept
<1>3. terrain'[t] = terrain[t] \/ ApproveTerrain(t)
  <2>1. CASE Others \/ Restart \/ CrashRun
    BY <2>1 DEF Others, Restart, CrashRun
  <2>2. ASSUME NEW u \in Terrains, NEW c, QueueTerrain(u, c) PROVE terrain'[t] = terrain[t]
    BY <2>2 DEF QueueTerrain, JobsInv
  <2>3. ASSUME NEW u \in Terrains, NEW old \in Terrains, RetryTerrain(u, old)
        PROVE  terrain'[t] = terrain[t]
    BY <2>3 DEF RetryTerrain, JobsInv
  <2>4. ASSUME NEW u \in Terrains, StartRun(u) PROVE terrain'[t] = terrain[t]
    BY <2>4 DEF StartRun
  <2>5. CASE FinishRun
    BY <2>5 DEF FinishRun, JobsInv, RunInv
  <2>6. ASSUME NEW u \in Terrains, CancelTerrain(u) PROVE terrain'[t] = terrain[t]
    BY <2>6 DEF CancelTerrain, Cancellable, JobsInv
  <2>7. ASSUME NEW u \in Terrains, ApproveTerrain(u), u # t PROVE terrain'[t] = terrain[t]
    BY <2>7 DEF ApproveTerrain, JobsInv
  <2> QED
    BY <2>1, <2>2, <2>3, <2>4, <2>5, <2>6, <2>7, OtherSteps
<1> QED
  BY <1>1, <1>2, <1>3

(* The outcome of a job is final, and so is an approval, whatever runs,    *)
(* cancellations and retries race: both the run and the cancellation need  *)
(* the lock of the job (select_for_update() in terrain.py).                *)
THEOREM TerrainOutcomesKept == Spec => OutcomesKept
<1>1. JobsInv /\ [Next]_vars =>
        [\A t \in Terrains :
           (terrain[t] # None /\ terrain[t].job # "queued") =>
              /\ [terrain'[t] EXCEPT !.status = "draft"]
                     = [terrain[t] EXCEPT !.status = "draft"]
              /\ terrain[t].status = "approved" => terrain'[t] = terrain[t]]_vars
  BY EndedJobsKept DEF Kept
<1> QED
  BY <1>1, JobsInvInit, JobsInvNext, PTL DEF Spec, OutcomesKept
-----------------------------------------------------------------------------
(* A calculation rests on a stored elevation that fits, one that is        *)
(* complete if the calculation is.                                         *)
FitsElevation(r) ==
    /\ r.elevation \in Elevations
    /\ elevation[r.elevation] # None
    /\ elevation[r.elevation].location = r.location
    /\ elevation[r.elevation].provider = r.provider
    /\ r.at < elevation[r.elevation].staleAt
    /\ r.state = "complete" => elevation[r.elevation].state = "complete"

HaatColumns(r) ==
    r = [location |-> r.location, provider |-> r.provider, input |-> r.input,
         elevation |-> r.elevation, state |-> r.state, height |-> r.height,
         status |-> r.status, at |-> r.at, supersedes |-> r.supersedes]
CoverageColumns(r) ==
    r = [haat |-> r.haat, center |-> r.center, preset |-> r.preset,
         range |-> r.range, status |-> r.status]
DirectionalColumns(r) ==
    r = [haat |-> r.haat, subscriber |-> r.subscriber, center |-> r.center,
         preset |-> r.preset, state |-> r.state, out |-> r.out, in |-> r.in,
         twoWay |-> r.twoWay, limit |-> r.limit, status |-> r.status]

BuiltUpon(h) == h \in Haats /\ Approvable(h)

(* Rows are never overwritten, so what was built upon stays.               *)
WorldInv == site \in Locations /\ clock \in Nat /\ settings \in Settings
CalculationsInv ==
    /\ elevation = [e \in Elevations |-> elevation[e]]
    /\ haat = [h \in Haats |-> haat[h]]
    /\ \A h \in Haats : haat[h] # None => HaatColumns(haat[h]) /\ FitsElevation(haat[h])
BuiltInv ==
    /\ coverage = [c \in Coverages |-> coverage[c]]
    /\ directional = [d \in Directionals |-> directional[d]]
    /\ \A c \in Coverages : coverage[c] # None =>
           CoverageColumns(coverage[c]) /\ BuiltUpon(coverage[c].haat)
    /\ \A d \in Directionals : directional[d] # None =>
           DirectionalColumns(directional[d]) /\ BuiltUpon(directional[d].haat)
EvidenceInv == WorldInv /\ CalculationsInv /\ BuiltInv

(* What a provider returned is stored as a row, which is not NULL.         *)
LEMMA ElevationTyped ==
    ASSUME WorldInv, NEW samples \in Samples
    PROVE  NewElevation(samples) \in ElevationRow
<1>1. samples \in [Points -> SampleStates]
  BY FixtureAssumption DEF Samples, AllMissing, FetchPoints, Points, SampleStates
<1>2. AcquisitionState(samples) \in AcquisitionStates
  BY DEF AcquisitionState, AcquisitionStates, SampleStates
<1>3. settings.provider \in Providers /\ clock + TTL \in Nat
  BY SettingsAssumption, TimeAssumption DEF WorldInv
<1> QED
  BY <1>1, <1>2, <1>3 DEF NewElevation, ElevationRow, WorldInv

LEMMA StoredElevation ==
    ASSUME WorldInv, NEW samples \in Samples
    PROVE  NewElevation(samples) # None
  BY ElevationTyped, NullAssumption

(* What is built upon stays so while no row of a calculation is            *)
(* overwritten.                                                            *)
LEMMA BuiltStays ==
    ASSUME BuiltInv, UNCHANGED coverageVars,
           \A h \in Haats : Approvable(h) => haat'[h] = haat[h]
    PROVE  BuiltInv'
<1>1. \A h \in Haats : BuiltUpon(h) => BuiltUpon(h)'
  BY DEF BuiltUpon, Approvable
<1>2. \A h : BuiltUpon(h) => BuiltUpon(h)'
  BY <1>1 DEF BuiltUpon
<1> QED
  BY <1>2 DEF BuiltInv, coverageVars, CoverageColumns, DirectionalColumns

(* A new calculation, from a row that was cached or was fetched for it.    *)
LEMMA NewCalculation ==
    ASSUME EvidenceInv, NEW h \in Haats, NEW i, NEW e \in Elevations, NEW previous,
           haat[h] = None,
           haat' = [haat EXCEPT ![h] = NewHaat(i, e, elevation'[e], previous)],
           elevation' = [c \in Elevations |-> elevation'[c]],
           \A c \in Elevations : elevation[c] # None => elevation'[c] = elevation[c],
           elevation'[e] # None,
           elevation'[e].location = site,
           elevation'[e].provider = settings.provider,
           clock < elevation'[e].staleAt,
           UNCHANGED <<site, settings, clock, coverageVars>>
    PROVE  EvidenceInv'
<1> DEFINE new == NewHaat(i, e, elevation'[e], previous)
<1>1. haat'[h] = new /\ \A g \in Haats \ {h} : haat'[g] = haat[g]
  BY DEF EvidenceInv, CalculationsInv
<1>2. HaatColumns(new)
  BY DEF HaatColumns, NewHaat
<1>3. /\ new.elevation = e /\ new.location = site /\ new.provider = settings.provider
      /\ new.at = clock /\ new.state = HaatState(elevation'[e])
  BY DEF NewHaat
<1> HIDE DEF new
<1>4. HaatState(elevation'[e]) = "complete" => elevation'[e].state = "complete"
  BY DEF HaatState
<1>5. FitsElevation(haat[h])'
  BY <1>1, <1>3, <1>4 DEF FitsElevation
<1>6. ASSUME NEW g \in Haats \ {h}, haat'[g] # None
      PROVE  HaatColumns(haat'[g]) /\ FitsElevation(haat[g])'
  <2>1. haat'[g] = haat[g] /\ HaatColumns(haat[g]) /\ FitsElevation(haat[g])
    BY <1>1, <1>6 DEF EvidenceInv, CalculationsInv
  <2>2. elevation'[haat[g].elevation] = elevation[haat[g].elevation]
    BY <2>1 DEF FitsElevation
  <2> QED
    BY <2>1, <2>2 DEF FitsElevation
<1>7. CalculationsInv'
  <2>1. \A g \in Haats : haat'[g] # None =>
            HaatColumns(haat'[g]) /\ FitsElevation(haat[g])'
    BY <1>1, <1>2, <1>5, <1>6
  <2>2. haat' = [g \in Haats |-> haat'[g]]
    BY DEF EvidenceInv, CalculationsInv
  <2> QED
    BY <2>1, <2>2 DEF CalculationsInv, HaatColumns
<1>8. BuiltInv'
  BY <1>1, BuiltStays DEF EvidenceInv, Approvable
<1>9. WorldInv'
  BY DEF EvidenceInv, WorldInv
<1> QED
  BY <1>7, <1>8, <1>9 DEF EvidenceInv

LEMMA FetchedCalculation ==
    ASSUME EvidenceInv, NEW h \in Haats, NEW i, NEW e \in Elevations,
           NEW samples \in Samples, NEW previous,
           HaatFetched(h, i, e, samples, previous), UNCHANGED coverageVars
    PROVE  EvidenceInv'
<1> DEFINE row == NewElevation(samples)
<1>1. /\ haat[h] = None /\ elevation[e] = None
      /\ elevation' = [elevation EXCEPT ![e] = row]
      /\ haat' = [haat EXCEPT ![h] = NewHaat(i, e, row, previous)]
      /\ UNCHANGED <<site, archived, settings, clock>>
  BY DEF HaatFetched
<1>2. row # None
  BY StoredElevation DEF EvidenceInv
<1>3. row.location = site /\ row.provider = settings.provider /\ clock < row.staleAt
  BY TimeAssumption DEF NewElevation, EvidenceInv, WorldInv
<1> HIDE DEF row
<1>4. /\ elevation'[e] = row
      /\ elevation' = [c \in Elevations |-> elevation'[c]]
      /\ \A c \in Elevations : elevation[c] # None => elevation'[c] = elevation[c]
  BY <1>1 DEF EvidenceInv, CalculationsInv
<1> QED
  BY <1>1, <1>2, <1>3, <1>4, NewCalculation

LEMMA CachedCalculation ==
    ASSUME EvidenceInv, NEW h \in Haats, NEW i, NEW e \in Elevations,
           HaatFromCache(h, i, e), UNCHANGED coverageVars
    PROVE  EvidenceInv'
<1>1. /\ haat[h] = None /\ Cached(e)
      /\ haat' = [haat EXCEPT ![h] = NewHaat(i, e, elevation[e], None)]
      /\ UNCHANGED <<site, archived, settings, clock, elevation>>
  BY DEF HaatFromCache
<1>2. /\ elevation[e] # None /\ elevation[e].location = site
      /\ elevation[e].provider = settings.provider /\ elevation[e].staleAt > clock
  BY <1>1 DEF Cached
<1>3. clock < elevation[e].staleAt
  BY <1>2
<1>4. elevation' = [c \in Elevations |-> elevation'[c]]
  BY <1>1 DEF EvidenceInv, CalculationsInv
<1> QED
  BY <1>1, <1>2, <1>3, <1>4, NewCalculation

(* An approval changes no column but the status, of a draft that nothing   *)
(* was built upon.                                                         *)
LEMMA ApproveHaatInv ==
    ASSUME EvidenceInv, NEW h \in Haats, ApproveHaat(h), UNCHANGED coverageVars
    PROVE  EvidenceInv'
<1>1. /\ haat[h] # None /\ haat[h].status = "draft"
      /\ haat' = [haat EXCEPT ![h].status = "approved"]
      /\ UNCHANGED <<site, archived, settings, clock, elevation>>
  BY DEF ApproveHaat, HaatApprovable
<1>2. HaatColumns(haat[h]) /\ FitsElevation(haat[h])
  BY <1>1 DEF EvidenceInv, CalculationsInv
<1>3. /\ haat'[h] = [haat[h] EXCEPT !.status = "approved"]
      /\ haat' = [g \in Haats |-> haat'[g]]
      /\ \A g \in Haats \ {h} : haat'[g] = haat[g]
  BY <1>1 DEF EvidenceInv, CalculationsInv
<1>4. ASSUME NEW n, n = [haat[h] EXCEPT !.status = "approved"]
      PROVE  /\ HaatColumns(n)
             /\ n.elevation = haat[h].elevation /\ n.location = haat[h].location
             /\ n.provider = haat[h].provider /\ n.at = haat[h].at
             /\ n.state = haat[h].state
  BY <1>2, <1>4 DEF HaatColumns
<1>5. HaatColumns(haat'[h]) /\ FitsElevation(haat[h])'
  BY <1>1, <1>2, <1>3, <1>4 DEF FitsElevation
<1>6. \A g \in Haats : haat'[g] # None => HaatColumns(haat'[g]) /\ FitsElevation(haat[g])'
  BY <1>1, <1>3, <1>5 DEF EvidenceInv, CalculationsInv, FitsElevation
<1>7. CalculationsInv'
  BY <1>1, <1>3, <1>6 DEF EvidenceInv, CalculationsInv, HaatColumns
<1>8. BuiltInv'
  BY <1>1, <1>3, BuiltStays DEF EvidenceInv, Approvable
<1> QED
  BY <1>1, <1>7, <1>8 DEF EvidenceInv, WorldInv

(* Estimates and analyses are created from a calculation that is approved, *)
(* and approved without changing it.                                       *)
LEMMA CoverageInv ==
    ASSUME EvidenceInv, NEW c \in Coverages, UNCHANGED <<haatVars, directional>>,
           NEW row, coverage' = [coverage EXCEPT ![c] = row],
           CoverageColumns(row), BuiltUpon(row.haat)
    PROVE  EvidenceInv'
<1>1. coverage' = [b \in Coverages |-> IF b = c THEN row ELSE coverage[b]]
  BY DEF EvidenceInv, BuiltInv
<1>2. \A h : BuiltUpon(h) => BuiltUpon(h)'
  BY DEF BuiltUpon, Approvable, haatVars
<1>3. BuiltInv'
  BY <1>1, <1>2 DEF EvidenceInv, BuiltInv, CoverageColumns, DirectionalColumns
<1> QED
  BY <1>3 DEF EvidenceInv, WorldInv, CalculationsInv, HaatColumns, FitsElevation, haatVars

LEMMA DirectionalInv ==
    ASSUME EvidenceInv, NEW d \in Directionals, UNCHANGED <<haatVars, coverage>>,
           NEW row, directional' = [directional EXCEPT ![d] = row],
           DirectionalColumns(row), BuiltUpon(row.haat)
    PROVE  EvidenceInv'
<1>1. directional' = [b \in Directionals |-> IF b = d THEN row ELSE directional[b]]
  BY DEF EvidenceInv, BuiltInv
<1>2. \A h : BuiltUpon(h) => BuiltUpon(h)'
  BY DEF BuiltUpon, Approvable, haatVars
<1>3. BuiltInv'
  BY <1>1, <1>2 DEF EvidenceInv, BuiltInv, CoverageColumns, DirectionalColumns
<1> QED
  BY <1>3 DEF EvidenceInv, WorldInv, CalculationsInv, HaatColumns, FitsElevation, haatVars

LEMMA BuildSteps ==
    ASSUME EvidenceInv,
           \/ \E c \in Coverages, h \in Haats, environment \in DOMAIN MarginOf,
                 preset \in DOMAIN PresetOf : CreateCoverage(c, h, environment, preset)
           \/ \E c \in Coverages : ApproveCoverage(c)
           \/ \E d \in Directionals, h \in Haats, s \in RfInputs,
                 environment \in DOMAIN MarginOf, preset \in DOMAIN PresetOf :
                  CreateDirectional(d, h, s, environment, preset)
           \/ \E d \in Directionals : ApproveDirectional(d)
    PROVE  EvidenceInv'
<1>1. ASSUME NEW c \in Coverages, NEW h \in Haats, NEW environment, NEW preset,
             CreateCoverage(c, h, environment, preset)
      PROVE  EvidenceInv'
  <2> DEFINE row == NewCoverage(h, environment, preset)
  <2>1. CoverageColumns(row) /\ row.haat = h
    BY DEF NewCoverage, CoverageColumns
  <2> QED
    BY <1>1, <2>1, CoverageInv DEF CreateCoverage, BuiltUpon
<1>2. ASSUME NEW c \in Coverages, ApproveCoverage(c) PROVE EvidenceInv'
  <2> DEFINE row == [coverage[c] EXCEPT !.status = "approved"]
  <2>1. CoverageColumns(coverage[c]) /\ BuiltUpon(coverage[c].haat)
    BY <1>2 DEF ApproveCoverage, CoverageApprovable, EvidenceInv, BuiltInv
  <2>2. ASSUME NEW n, n = row PROVE CoverageColumns(n) /\ n.haat = coverage[c].haat
    BY <2>1, <2>2 DEF CoverageColumns
  <2>3. coverage' = [coverage EXCEPT ![c] = row]
    BY <1>2 DEF ApproveCoverage, EvidenceInv, BuiltInv
  <2> QED
    BY <1>2, <2>1, <2>2, <2>3, CoverageInv DEF ApproveCoverage
<1>3. ASSUME NEW d \in Directionals, NEW h \in Haats, NEW s, NEW environment, NEW preset,
             CreateDirectional(d, h, s, environment, preset)
      PROVE  EvidenceInv'
  <2> DEFINE row == Directional(h, s, environment, preset)
  <2>1. DirectionalColumns(row) /\ row.haat = h
    BY DEF Directional, DirectionalColumns
  <2> QED
    BY <1>3, <2>1, DirectionalInv DEF CreateDirectional, DirectionalAllowed, BuiltUpon
<1>4. ASSUME NEW d \in Directionals, ApproveDirectional(d) PROVE EvidenceInv'
  <2> DEFINE row == [directional[d] EXCEPT !.status = "approved"]
  <2>1. DirectionalColumns(directional[d]) /\ BuiltUpon(directional[d].haat)
    BY <1>4 DEF ApproveDirectional, DirectionalApprovable, EvidenceInv, BuiltInv
  <2>2. ASSUME NEW n, n = row PROVE DirectionalColumns(n) /\ n.haat = directional[d].haat
    BY <2>1, <2>2 DEF DirectionalColumns
  <2>3. directional' = [directional EXCEPT ![d] = row]
    BY <1>4 DEF ApproveDirectional, EvidenceInv, BuiltInv
  <2> QED
    BY <1>4, <2>1, <2>2, <2>3, DirectionalInv DEF ApproveDirectional
<1> QED
  BY <1>1, <1>2, <1>3, <1>4

LEMMA EvidenceInvInit == Init => EvidenceInv
  BY DEF Init, CoverageInit, HaatInit, EvidenceInv, WorldInv, CalculationsInv, BuiltInv

LEMMA EvidenceInvNext ==
    ASSUME EvidenceInv, [Next]_vars
    PROVE  EvidenceInv'
<1>1. ASSUME UNCHANGED <<elevation, haat, coverageVars>>,
             site' \in Locations, clock' \in Nat, settings' \in Settings
      PROVE  EvidenceInv'
  BY <1>1 DEF EvidenceInv, WorldInv, CalculationsInv, BuiltInv, HaatColumns,
     FitsElevation, BuiltUpon, Approvable, CoverageColumns, DirectionalColumns,
     coverageVars
<1>2. ASSUME NEW h \in Haats, NEW i \in RfInputs, NEW e \in Elevations,
             CreateHaat(h, i, e), UNCHANGED coverageVars
      PROVE  EvidenceInv'
  BY <1>2, CachedCalculation, FetchedCalculation DEF CreateHaat
<1>3. ASSUME NEW h \in Haats, NEW old \in Haats, NEW e \in Elevations,
             RetryHaat(h, old, e), UNCHANGED coverageVars
      PROVE  EvidenceInv'
  BY <1>3, FetchedCalculation DEF RetryHaat
<1>4. ASSUME NEW h \in Haats, ApproveHaat(h), UNCHANGED coverageVars
      PROVE  EvidenceInv'
  BY <1>4, ApproveHaatInv
<1>5. CASE \/ \E i \in RfInputs : ArchiveInput(i) /\ UNCHANGED coverageVars
           \/ Tick /\ UNCHANGED coverageVars
           \/ \E location \in Locations : MoveSite(location)
           \/ Restart
  BY <1>1, <1>5 DEF ArchiveInput, Tick, MoveSite, EditSite, Restart, EvidenceInv, WorldInv
<1>6. CASE UNCHANGED <<haatVars, coverageVars>>
  BY <1>1, <1>6 DEF haatVars, EvidenceInv, WorldInv
<1>7. CASE \/ \E t \in Terrains, c \in Coverages : QueueTerrain(t, c)
           \/ \E t, old \in Terrains : RetryTerrain(t, old)
           \/ \E t \in Terrains : StartRun(t) \/ CancelTerrain(t) \/ ApproveTerrain(t)
           \/ FinishRun \/ CrashRun \/ UNCHANGED vars
  BY <1>6, <1>7 DEF QueueTerrain, RetryTerrain, StartRun, CancelTerrain, ApproveTerrain,
     FinishRun, CrashRun, vars
<1> QED
  BY <1>2, <1>3, <1>4, <1>5, <1>7, BuildSteps DEF Next

(* Nothing is ever built upon partial terrain, or on the terrain of        *)
(* another place, source or time, wherever the site moves and whatever the *)
(* configuration, the cache and the retries are                            *)
(* (acquire_elevation_snapshot(), create_coverage_estimate() and           *)
(* create_directional_analysis()).                                         *)
THEOREM EvidenceChainHolds == Spec => []EvidenceChain
<1>1. EvidenceInv => EvidenceChain
  BY DEF EvidenceInv, CalculationsInv, BuiltInv, BuiltUpon, Approvable, FitsElevation,
     ElevationFits, EvidenceChain
<1> QED
  BY <1>1, EvidenceInvInit, EvidenceInvNext, PTL DEF Spec
-----------------------------------------------------------------------------
(* Multiples of a step, and how many of them there are up to an end.       *)
LEMMA Products ==
    ASSUME NEW step \in Nat \ {0}, NEW j \in Int, NEW k \in Int, j < k
    PROVE  j * step + step <= k * step
<1>1. PICK d \in Nat : k = j + 1 + d
  <2>1. k - j - 1 \in Nat /\ k = j + 1 + (k - j - 1)
    OBVIOUS
  <2> QED
    BY <2>1
<1>2. k * step = j * step + step + d * step
  BY <1>1
<1>3. d * step >= 0
  BY <1>1
<1> QED
  BY <1>2, <1>3

LEMMA Division ==
    ASSUME NEW a \in Nat, NEW step \in Nat \ {0}
    PROVE  /\ a \div step \in Nat /\ a % step \in 0..(step - 1)
           /\ a = (a \div step) * step + (a % step)
<1>1. a = step * (a \div step) + (a % step)
  OBVIOUS
<1>2. a \div step \in Int /\ a % step \in 0..(step - 1)
  OBVIOUS
<1>3. a \div step >= 0
  <2>1. CASE a \div step < 0
    <3>1. (a \div step) * step + step <= 0
      BY <1>2, <2>1, Products
    <3> QED
      BY <1>1, <1>2, <3>1
  <2> QED
    BY <1>2, <2>1
<1> QED
  BY <1>1, <1>2, <1>3

LEMMA StepsCounted ==
    ASSUME NEW a \in Int, NEW n \in Nat, NEW step \in Nat \ {0}
    PROVE  /\ IsFiniteSet({a + k * step : k \in 0..n})
           /\ Cardinality({a + k * step : k \in 0..n}) = n + 1
<1> DEFINE S == {a + k * step : k \in 0..n}
           f == [k \in 0..n |-> a + k * step]
<1>1. ASSUME NEW j \in 0..n, NEW k \in 0..n, f[j] = f[k] PROVE j = k
  <2>1. j * step = k * step
    BY <1>1
  <2>2. ~ (j < k) /\ ~ (k < j)
    BY <2>1, Products
  <2> QED
    BY <2>2
<1>2. f \in Bijection(0..n, S)
  BY <1>1 DEF Bijection, Injection, IsInjective, Surjection
<1>3. IsFiniteSet(0..n) /\ Cardinality(0..n) = n + 1
  BY FS_Interval
<1> HIDE DEF S, f
<1>4. IsFiniteSet(S) /\ Cardinality(S) = n + 1
  BY <1>2, <1>3, FS_Bijection DEF ExistsBijection
<1> QED
  BY <1>4 DEF S

(* The samples of a radial and of a path, for every range and every step:  *)
(* the outer end is counted once, also when a step meets it.               *)
LEMMA DistancesCounted ==
    ASSUME NEW inner \in Int, NEW outer \in Int, inner < outer, NEW step \in Nat \ {0}
    PROVE  DistanceCount(inner, outer, step) = Cardinality(Distances(inner, outer, step))
<1> DEFINE span == outer - inner
           steps == {inner + k * step : k \in 0..(span \div step)}
<1>1. span \in Nat /\ outer = inner + span
  OBVIOUS
<1>2. PICK q \in Nat, r \in 0..(step - 1) :
         /\ q = span \div step /\ r = span % step /\ span = q * step + r
  BY <1>1, Division
<1>3. outer \in steps <=> r = 0
  <2>1. ASSUME NEW k \in 0..q, outer = inner + k * step PROVE r = 0
    <3>1. k * step = q * step + r
      BY <1>1, <1>2, <2>1
    <3>2. CASE k = q
      BY <3>1, <3>2
    <3>3. CASE k < q
      <4>1. k * step + step <= q * step
        BY <3>3, Products
      <4> QED
        BY <3>1, <4>1
    <3> QED
      BY <3>2, <3>3
  <2>2. ASSUME r = 0 PROVE outer = inner + q * step
    BY <1>1, <1>2, <2>2
  <2>3. outer \in steps <=> \E k \in 0..q : outer = inner + k * step
    BY <1>2
  <2>4. q \in 0..q
    OBVIOUS
  <2> HIDE DEF steps
  <2> QED
    BY <2>1, <2>2, <2>3, <2>4
<1>4. steps = {inner + k * step : k \in 0..q}
  BY <1>2
<1>5. IsFiniteSet(steps) /\ Cardinality(steps) = q + 1
  BY <1>4, StepsCounted
<1>6. Distances(inner, outer, step) = steps \cup {outer}
  BY DEF Distances, StepsInto
<1>7. DistanceCount(inner, outer, step) = q + 1 + (IF r = 0 THEN 0 ELSE 1)
  BY <1>2 DEF DistanceCount
<1> HIDE DEF steps
<1>8. Cardinality(steps \cup {outer}) = IF outer \in steps THEN q + 1 ELSE q + 2
  BY <1>5, FS_AddElement
<1> QED
  BY <1>3, <1>6, <1>7, <1>8

LEMMA PathDistancesCounted ==
    ASSUME NEW maximum \in Nat \ {0}, NEW step \in Nat \ {0}
    PROVE  PathCount(maximum, step) = Cardinality(PathDistances(maximum, step))
<1> DEFINE before == {j \in 0..maximum : j * step < maximum}
           inside == {k * step : k \in before}
<1>1. PICK q \in Nat, r \in 0..(step - 1) :
         /\ q = (maximum + step - 1) \div step /\ maximum + step - 1 = q * step + r
  <2>1. maximum + step - 1 \in Nat
    OBVIOUS
  <2> QED
    BY <2>1, Division
<1>2. q >= 1
  <2>1. CASE q = 0
    <3>1. q * step = 0
      BY <2>1
    <3> QED
      BY <1>1, <3>1
  <2> QED
    BY <2>1
<1>3. ASSUME NEW j \in Nat PROVE j * step < maximum <=> j < q
  <2>1. CASE j < q
    <3>1. j * step + step <= q * step
      BY <2>1, Products
    <3> QED
      BY <1>1, <2>1, <3>1
  <2>2. CASE j >= q
    <3>1. j * step >= q * step
      BY <2>2, Products
    <3> QED
      BY <1>1, <2>2, <3>1
  <2> QED
    BY <2>1, <2>2
<1>4. q - 1 <= maximum
  <2>1. (q - 1) * step < maximum
    BY <1>2, <1>3
  <2>2. (q - 1) * step >= q - 1
    BY <1>2
  <2> QED
    BY <2>1, <2>2
<1>5. before = 0..(q - 1)
  BY <1>2, <1>3, <1>4
<1>6. inside = {0 + k * step : k \in 0..(q - 1)}
  <2> DEFINE upTo == 0..(q - 1)
  <2>1. inside = {k * step : k \in upTo}
    BY Zenon, <1>5
  <2>2. \A k \in upTo : 0 + k * step = k * step
    OBVIOUS
  <2> HIDE DEF upTo
  <2>3. inside = {0 + k * step : k \in upTo}
    BY Zenon, <2>1, <2>2
  <2> QED
    BY <2>3 DEF upTo
<1>7. IsFiniteSet(inside) /\ Cardinality(inside) = q
  <2> DEFINE n == q - 1
  <2>1. n \in Nat /\ 0 \in Int /\ n + 1 = q
    BY <1>2
  <2> HIDE DEF n
  <2>2. /\ IsFiniteSet({0 + k * step : k \in 0..n})
        /\ Cardinality({0 + k * step : k \in 0..n}) = n + 1
    BY Zenon, <2>1, StepsCounted
  <2> QED
    BY Zenon, <1>6, <2>1, <2>2 DEF n
<1>8. maximum \notin inside
  OBVIOUS
<1>9. PathDistances(maximum, step) = inside \cup {maximum}
  BY DEF PathDistances
<1>10. PathCount(maximum, step) = q + 1
  BY <1>1 DEF PathCount
<1> HIDE DEF inside
<1> QED
  BY <1>7, <1>8, <1>9, <1>10, FS_AddElement

(* The limits on a grid and on a path hold against exactly the samples     *)
(* that will be requested (validate_parameters() and                       *)
(* queue_terrain_analysis()).                                              *)
THEOREM SamplesCounted == Spec => []SampleCountsExact
<1>1. SampleCountsExact
  <2>1. ASSUME NEW inner \in 1..3, NEW outer \in 2..9, NEW step \in 1..8, inner < outer
        PROVE  DistanceCount(inner, outer, step) = Cardinality(Distances(inner, outer, step))
    BY <2>1, DistancesCounted
  <2>2. ASSUME NEW maximum \in 1..9, NEW step \in 1..9
        PROVE  PathCount(maximum, step) = Cardinality(PathDistances(maximum, step))
    BY <2>2, PathDistancesCounted
  <2> QED
    BY <2>1, <2>2 DEF SampleCountsExact
<1> QED
  BY <1>1, PTL

-----------------------------------------------------------------------------
(* Induction over the naturals, for a set of them.                         *)
LEMMA NaturalsReached ==
    ASSUME NEW Good, 0 \in Good, \A n \in Nat : n \in Good => n + 1 \in Good
    PROVE  Nat \subseteq Good
<1> DEFINE Rest == Nat \ Good
<1> SUFFICES ASSUME Rest # {} PROVE FALSE
  OBVIOUS
<1>1. PICK m \in Rest : \A k \in Rest : ~ (<<k, m>> \in OpToRel(<, Nat))
  BY NatLessThanWellFounded, WFMin, Zenon
<1>2. \A k \in Rest : ~ (k < m)
  BY <1>1 DEF OpToRel
<1>3. m - 1 \in Nat /\ m - 1 < m /\ m = (m - 1) + 1
  OBVIOUS
<1> QED
  BY <1>2, <1>3

(* Slopes are compared as fractions, and so they are ordered.              *)
LEMMA Scaled ==
    ASSUME NEW a \in Int, NEW b \in Int, NEW x \in Nat \ {0}
    PROVE  a >= b <=> a * x >= b * x
<1>1. CASE a = b
  BY <1>1
<1>2. CASE a > b
  BY <1>2, Products
<1>3. CASE a < b
  BY <1>3, Products
<1> QED
  BY <1>1, <1>2, <1>3

LEMMA SlopesOrdered ==
    ASSUME NEW a \in Int, NEW b \in Int, NEW c \in Int,
           NEW x \in Nat \ {0}, NEW y \in Nat \ {0}, NEW z \in Nat \ {0},
           a * y >= b * x, b * z >= c * y
    PROVE  a * z >= c * x
<1>1. (a * y) * z >= (b * x) * z
  BY Scaled
<1>2. (b * z) * x >= (c * y) * x
  BY Scaled
<1>3. (a * z) * y >= (c * x) * y
  BY <1>1, <1>2
<1>4. a * z \in Int /\ c * x \in Int
  OBVIOUS
<1> QED
  BY <1>3, <1>4, Scaled

(* One pass: r and t are the heights of the receivers and of the terrain   *)
(* over the antenna, known where K says so.                                *)
Seen(r, t, k) == \A j \in 2..(k - 1) : r[k] * (j - 1) >= t[j] * (k - 1)
Clear(K, r, t, k) == \A j \in 1..k : j \in K /\ (j > 1 => Seen(r, t, j))

AccColumns(acc) ==
    acc = [steepest |-> acc.steepest, clear |-> acc.clear, reach |-> acc.reach,
           first |-> acc.first, gaps |-> acc.gaps]
Steepest(K, t, k, slope) ==
    \/ slope = None /\ \A j \in 2..k : j \notin K
    \/ \E m \in 2..k :
          /\ slope = <<t[m], m - 1>>
          /\ \A j \in 2..k : j \in K => t[m] * (j - 1) >= t[j] * (m - 1)
ReachUpTo(K, r, t, k, p, acc) ==
    /\ p \in 0..k
    /\ \A i \in 1..k : Clear(K, r, t, i) <=> i <= p
    /\ p = k => acc.clear = TRUE
    /\ p # k => acc.clear = FALSE
    /\ p = 0 => acc.reach = 0
    /\ p # 0 => acc.reach = p - 1
PassInv(K, r, t, k, acc) ==
    /\ AccColumns(acc)
    /\ Steepest(K, t, k, acc.steepest)
    /\ \E p : ReachUpTo(K, r, t, k, p, acc)

LEMMA PassStart ==
    ASSUME NEW K, NEW r, NEW t
    PROVE  PassInv(K, r, t, 0, Start)
<1>1. ReachUpTo(K, r, t, 0, 0, Start)
  BY DEF ReachUpTo, Start
<1> QED
  BY <1>1 DEF PassInv, AccColumns, Steepest, Start

LEMMA PassGap ==
    ASSUME NEW n \in Nat, NEW K \in SUBSET (1..n), NEW r \in [1..n -> Int],
           NEW t \in [1..n -> Int], NEW k \in 1..n, k \notin K,
           NEW acc, PassInv(K, r, t, k - 1, acc)
    PROVE  PassInv(K, r, t, k, AtGap(acc, k - 1))
<1>1. ASSUME NEW new, new = AtGap(acc, k - 1)
      PROVE  PassInv(K, r, t, k, new)
  <2>1. /\ AccColumns(new)
        /\ new.steepest = acc.steepest /\ new.clear = FALSE /\ new.reach = acc.reach
    BY <1>1 DEF AtGap, PassInv, AccColumns
  <2>2. Steepest(K, t, k, acc.steepest)
    <3>1. Steepest(K, t, k - 1, acc.steepest)
      BY DEF PassInv
    <3>2. \A j \in 2..k : j \in K => j \in 2..(k - 1)
      OBVIOUS
    <3>3. 2..(k - 1) \subseteq 2..k
      OBVIOUS
    <3> QED
      BY <3>1, <3>2, <3>3 DEF Steepest
  <2>3. PICK p : ReachUpTo(K, r, t, k - 1, p, acc)
    BY DEF PassInv
  <2>4. ~ Clear(K, r, t, k)
    BY DEF Clear
  <2>5. ReachUpTo(K, r, t, k, p, new)
    BY <2>1, <2>3, <2>4 DEF ReachUpTo
  <2> QED
    BY <2>1, <2>2, <2>5 DEF PassInv
<1> QED
  BY <1>1

LEMMA PassFirst ==
    ASSUME NEW n \in Nat, NEW K \in SUBSET (1..n), NEW r \in [1..n -> Int],
           NEW t \in [1..n -> Int], 1 \in K, NEW acc, PassInv(K, r, t, 0, acc)
    PROVE  PassInv(K, r, t, 1, acc)
<1>1. PICK p : ReachUpTo(K, r, t, 0, p, acc)
  BY DEF PassInv
<1>2. p = 0 /\ acc.clear = TRUE /\ acc.reach = 0
  BY <1>1 DEF ReachUpTo
<1>3. Clear(K, r, t, 1)
  BY DEF Clear
<1>4. ReachUpTo(K, r, t, 1, 1, acc)
  BY <1>2, <1>3 DEF ReachUpTo
<1>5. Steepest(K, t, 1, acc.steepest)
  BY DEF PassInv, Steepest
<1> QED
  BY <1>4, <1>5 DEF PassInv

(* A sample is seen if it is over the steepest terrain before it.          *)
LEMMA SeenOverSteepest ==
    ASSUME NEW n \in Nat, NEW K \in SUBSET (1..n), NEW r \in [1..n -> Int],
           NEW t \in [1..n -> Int], NEW k \in 2..n, NEW slope,
           Steepest(K, t, k - 1, slope), \A j \in 2..(k - 1) : j \in K
    PROVE  SlopeAtLeast(r[k], k - 1, slope) <=> Seen(r, t, k)
<1>1. CASE slope = None /\ \A j \in 2..(k - 1) : j \notin K
  BY <1>1 DEF SlopeAtLeast, Seen
<1>2. ASSUME NEW m \in 2..(k - 1), slope = <<t[m], m - 1>>,
             \A j \in 2..(k - 1) : j \in K => t[m] * (j - 1) >= t[j] * (m - 1)
      PROVE  SlopeAtLeast(r[k], k - 1, slope) <=> Seen(r, t, k)
  <2>1. t[m] \in Int /\ m - 1 \in Int /\ r[k] \in Int /\ k - 1 \in Nat \ {0}
    OBVIOUS
  <2>2. slope # None
    BY <1>2, <2>1, SlopeAssumption
  <2>3. SlopeAtLeast(r[k], k - 1, slope) <=> r[k] * (m - 1) >= t[m] * (k - 1)
    BY <1>2, <2>2 DEF SlopeAtLeast
  <2>4. ASSUME r[k] * (m - 1) >= t[m] * (k - 1), NEW j \in 2..(k - 1)
        PROVE  r[k] * (j - 1) >= t[j] * (k - 1)
    <3>1. t[m] * (j - 1) >= t[j] * (m - 1)
      BY <1>2
    <3>2. m - 1 \in Nat \ {0} /\ j - 1 \in Nat \ {0} /\ t[j] \in Int
      OBVIOUS
    <3> QED
      BY <2>1, <2>4, <3>1, <3>2, SlopesOrdered
  <2> QED
    BY <2>3, <2>4 DEF Seen
<1> QED
  BY <1>1, <1>2 DEF Steepest

LEMMA SteepestKept ==
    ASSUME NEW n \in Nat, NEW K \in SUBSET (1..n), NEW t \in [1..n -> Int],
           NEW k \in 2..n, k \in K, NEW slope, Steepest(K, t, k - 1, slope)
    PROVE  Steepest(K, t, k, IF SlopeAtLeast(t[k], k - 1, slope)
                             THEN <<t[k], k - 1>> ELSE slope)
<1>1. CASE slope = None /\ \A j \in 2..(k - 1) : j \notin K
  <2>1. SlopeAtLeast(t[k], k - 1, slope)
    BY <1>1 DEF SlopeAtLeast
  <2>2. \A j \in 2..k : j \in K => j = k
    BY <1>1
  <2>3. \A j \in 2..k : j \in K => t[k] * (j - 1) >= t[j] * (k - 1)
    BY <2>2
  <2> QED
    BY <2>1, <2>3 DEF Steepest
<1>2. ASSUME NEW m \in 2..(k - 1), slope = <<t[m], m - 1>>,
             \A j \in 2..(k - 1) : j \in K => t[m] * (j - 1) >= t[j] * (m - 1)
      PROVE  Steepest(K, t, k, IF SlopeAtLeast(t[k], k - 1, slope)
                               THEN <<t[k], k - 1>> ELSE slope)
  <2>1. /\ t[m] \in Int /\ m - 1 \in Nat \ {0} /\ m - 1 \in Int
        /\ t[k] \in Int /\ k - 1 \in Nat \ {0}
    OBVIOUS
  <2>2. slope # None
    BY <1>2, <2>1, SlopeAssumption
  <2>3. SlopeAtLeast(t[k], k - 1, slope) <=> t[k] * (m - 1) >= t[m] * (k - 1)
    BY <1>2, <2>2 DEF SlopeAtLeast
  <2>4. CASE t[k] * (m - 1) >= t[m] * (k - 1)
    <3>1. ASSUME NEW j \in 2..k, j \in K PROVE t[k] * (j - 1) >= t[j] * (k - 1)
      <4>1. CASE j = k
        BY <4>1
      <4>2. CASE j \in 2..(k - 1)
        <5>1. t[m] * (j - 1) >= t[j] * (m - 1)
          BY <1>2, <3>1, <4>2
        <5>2. j - 1 \in Nat \ {0} /\ t[j] \in Int
          BY <4>2
        <5> QED
          BY <2>1, <2>4, <5>1, <5>2, SlopesOrdered
      <4> QED
        BY <4>1, <4>2
    <3> QED
      BY <2>3, <2>4, <3>1 DEF Steepest
  <2>5. CASE ~ (t[k] * (m - 1) >= t[m] * (k - 1))
    <3>1. t[m] * (k - 1) >= t[k] * (m - 1)
      <4>1. t[k] * (m - 1) \in Int /\ t[m] * (k - 1) \in Int
        BY <2>1
      <4> QED
        BY <2>5, <4>1
    <3>2. \A j \in 2..k : j \in K => t[m] * (j - 1) >= t[j] * (m - 1)
      <4>1. \A j \in 2..k : j = k \/ j \in 2..(k - 1)
        OBVIOUS
      <4> QED
        BY Zenon, <1>2, <3>1, <4>1
    <3>3. m \in 2..k
      OBVIOUS
    <3> QED
      BY <1>2, <2>3, <2>5, <3>2, <3>3 DEF Steepest
  <2> QED
    BY <2>4, <2>5
<1> QED
  BY <1>1, <1>2 DEF Steepest

LEMMA PassSample ==
    ASSUME NEW n \in Nat, NEW K \in SUBSET (1..n), NEW r \in [1..n -> Int],
           NEW t \in [1..n -> Int], NEW k \in 2..n, k \in K,
           NEW acc, PassInv(K, r, t, k - 1, acc)
    PROVE  PassInv(K, r, t, k, AtSample(acc, k - 1, r[k], t[k]))
<1> DEFINE seen == SlopeAtLeast(r[k], k - 1, acc.steepest)
<1>0. seen \in BOOLEAN
  BY DEF SlopeAtLeast
<1>1. ASSUME NEW new, new = AtSample(acc, k - 1, r[k], t[k])
      PROVE  PassInv(K, r, t, k, new)
  <2>1. /\ AccColumns(new)
        /\ new.clear = (acc.clear /\ seen)
        /\ new.reach = IF acc.clear /\ seen THEN k - 1 ELSE acc.reach
        /\ new.steepest = IF SlopeAtLeast(t[k], k - 1, acc.steepest)
                          THEN <<t[k], k - 1>> ELSE acc.steepest
    BY <1>1 DEF AtSample, PassInv, AccColumns
  <2>2. Steepest(K, t, k, new.steepest)
    BY <2>1, SteepestKept DEF PassInv
  <2>3. PICK p : ReachUpTo(K, r, t, k - 1, p, acc)
    BY DEF PassInv
  <2>4. CASE p = k - 1
    <3>1. \A j \in 2..(k - 1) : j \in K
      <4>1. Clear(K, r, t, k - 1)
        BY <2>3, <2>4 DEF ReachUpTo
      <4> QED
        BY <4>1 DEF Clear
    <3>2. seen <=> Seen(r, t, k)
      BY <3>1, SeenOverSteepest DEF PassInv
    <3>3. Clear(K, r, t, k) <=> Seen(r, t, k)
      <4>1. Clear(K, r, t, k - 1)
        BY <2>3, <2>4 DEF ReachUpTo
      <4> QED
        BY <4>1 DEF Clear
    <3>4. acc.clear = TRUE /\ acc.reach = k - 2
      BY <2>3, <2>4 DEF ReachUpTo
    <3> HIDE DEF seen
    <3>5. CASE seen
      <4>1. new.clear = TRUE /\ new.reach = k - 1
        BY <2>1, <3>4, <3>5
      <4>2. \A i \in 1..k : Clear(K, r, t, i)
        BY <2>3, <2>4, <3>2, <3>3, <3>5 DEF ReachUpTo
      <4>3. ReachUpTo(K, r, t, k, k, new)
        BY <4>1, <4>2 DEF ReachUpTo
      <4> QED
        BY <2>1, <2>2, <4>3 DEF PassInv
    <3>6. CASE ~ seen
      <4>1. new.clear = FALSE /\ new.reach = k - 2
        BY <2>1, <3>4, <3>6
      <4>2. ReachUpTo(K, r, t, k, k - 1, new)
        BY <2>3, <2>4, <3>2, <3>3, <3>6, <4>1 DEF ReachUpTo
      <4> QED
        BY <2>1, <2>2, <4>2 DEF PassInv
    <3> QED
      BY <3>5, <3>6
  <2>5. CASE p # k - 1
    <3>1. acc.clear = FALSE
      BY <2>3, <2>5 DEF ReachUpTo
    <3>2. new.clear = FALSE /\ new.reach = acc.reach
      BY <2>1, <3>1
    <3>3. ~ Clear(K, r, t, k)
      <4>1. ~ Clear(K, r, t, k - 1)
        BY <2>3, <2>5 DEF ReachUpTo
      <4> QED
        BY <4>1 DEF Clear
    <3>4. ReachUpTo(K, r, t, k, p, new)
      BY <2>3, <2>5, <3>2, <3>3 DEF ReachUpTo
    <3> QED
      BY <2>1, <2>2, <3>4 DEF PassInv
  <2> QED
    BY <2>4, <2>5
<1> QED
  BY <1>1

(* The pass over the samples, one at a time.                               *)
PassStep(samples, antenna, receiver, clearance, k, acc) ==
    IF samples[k] = None THEN AtGap(acc, k - 1)
    ELSE IF k = 1 THEN acc
    ELSE AtSample(acc, k - 1, samples[k] + receiver - antenna,
                  samples[k] + clearance - antenna)

LEMMA PassUnfolded ==
    ASSUME NEW samples, Len(samples) \in Nat, NEW antenna, NEW receiver, NEW clearance
    PROVE  \E f : /\ f[0] = Start
                  /\ \A k \in 1..Len(samples) :
                        f[k] = PassStep(samples, antenna, receiver, clearance, k, f[k - 1])
                  /\ LineOfSight(samples, antenna, receiver, clearance) = f[Len(samples)]
<1> DEFINE step(k, acc) == PassStep(samples, antenna, receiver, clearance, k, acc)
           Runs(n, f) == /\ f = [k \in 0..n |-> f[k]]
                         /\ f[0] = Start
                         /\ \A k \in 1..n : f[k] = step(k, f[k - 1])
           Good == {n \in Nat : \E f : Runs(n, f)}
           Pass(f) == [k \in 0..Len(samples) |->
               IF k = 0 THEN Start
               ELSE IF samples[k] = None THEN AtGap(f[k - 1], k - 1)
               ELSE IF k = 1 THEN f[0]
               ELSE AtSample(f[k - 1], k - 1, samples[k] + receiver - antenna,
                             samples[k] + clearance - antenna)]
<1>1. Nat \subseteq Good
  <2>1. 0 \in Good
    <3> HIDE DEF step
    <3>1. Runs(0, [k \in 0..0 |-> Start])
      OBVIOUS
    <3> QED
      BY <3>1
  <2>2. ASSUME NEW n \in Nat, n \in Good PROVE n + 1 \in Good
    <3> HIDE DEF step
    <3>1. PICK f : Runs(n, f)
      BY <2>2
    <3> DEFINE g == [k \in 0..(n + 1) |-> IF k = n + 1 THEN step(n + 1, f[n]) ELSE f[k]]
    <3>2. \A k \in 0..n : g[k] = f[k]
      OBVIOUS
    <3>3. g[n + 1] = step(n + 1, f[n])
      OBVIOUS
    <3>4. g = [k \in 0..(n + 1) |-> g[k]]
      OBVIOUS
    <3> HIDE DEF g
    <3>5. g[0] = Start
      BY <3>1, <3>2
    <3>6. ASSUME NEW k \in 1..(n + 1) PROVE g[k] = step(k, g[k - 1])
      <4>1. CASE k = n + 1
        <5>1. k - 1 = n /\ n \in 0..n
          BY <4>1
        <5> QED
          BY <3>2, <3>3, <4>1, <5>1
      <4>2. CASE k \in 1..n
        <5>1. f[k] = step(k, f[k - 1])
          BY <3>1, <4>2
        <5>2. k \in 0..n /\ k - 1 \in 0..n
          BY <4>2
        <5> QED
          BY <3>2, <5>1, <5>2
      <4> QED
        BY <4>1, <4>2
    <3>7. Runs(n + 1, g)
      BY <3>4, <3>5, <3>6
    <3> HIDE DEF Runs
    <3>8. n + 1 \in Nat /\ \E h : Runs(n + 1, h)
      BY <3>7
    <3> QED
      BY Zenon, <3>8
  <2> HIDE DEF Good
  <2> QED
    BY <2>1, <2>2, NaturalsReached
<1>2. \E f : f = Pass(f)
  <2>1. PICK f : Runs(Len(samples), f)
    BY <1>1
  <2>2. f[0] = Start /\ f = [k \in 0..Len(samples) |-> f[k]]
    BY <2>1
  <2>3. ASSUME NEW k \in 0..Len(samples), k # 0
        PROVE  f[k] = IF samples[k] = None THEN AtGap(f[k - 1], k - 1)
                      ELSE IF k = 1 THEN f[0]
                      ELSE AtSample(f[k - 1], k - 1, samples[k] + receiver - antenna,
                                    samples[k] + clearance - antenna)
    <3>1. k \in 1..Len(samples) /\ (k = 1 => k - 1 = 0)
      BY <2>3
    <3>2. f[k] = step(k, f[k - 1])
      BY <2>1, <3>1
    <3> QED
      BY <3>1, <3>2 DEF PassStep
  <2>4. f = Pass(f)
    BY <2>2, <2>3
  <2> QED
    BY <2>4
<1>3. LineOfSight(samples, antenna, receiver, clearance)
        = (CHOOSE f : f = Pass(f))[Len(samples)]
  BY DEF LineOfSight
<1> DEFINE pass == CHOOSE f : f = Pass(f)
<1>4. pass = Pass(pass)
  <2> HIDE DEF Pass
  <2> QED
    BY <1>2
<1>5. LineOfSight(samples, antenna, receiver, clearance) = pass[Len(samples)]
  BY <1>3
<1> HIDE DEF pass
<1>6. pass[0] = Start
  BY <1>4
<1>7. ASSUME NEW k \in 1..Len(samples) PROVE pass[k] = step(k, pass[k - 1])
  <2>1. pass[k] = IF samples[k] = None THEN AtGap(pass[k - 1], k - 1)
                  ELSE IF k = 1 THEN pass[0]
                  ELSE AtSample(pass[k - 1], k - 1, samples[k] + receiver - antenna,
                                samples[k] + clearance - antenna)
    BY <1>4
  <2>2. k = 1 => k - 1 = 0
    OBVIOUS
  <2> QED
    BY <2>1, <2>2 DEF PassStep
<1> QED
  BY <1>5, <1>6, <1>7

(* The pass over a profile, whatever its length.                           *)
Rise(samples, antenna, height) ==
    [k \in DOMAIN samples |-> IF samples[k] = None THEN 0 ELSE samples[k] + height - antenna]

LEMMA PassReaches ==
    ASSUME NEW samples \in Seq(Int \cup {None}), NEW antenna \in Int,
           NEW receiver \in Int, NEW clearance \in Int,
           NEW K, K = Known(samples),
           NEW r, r = Rise(samples, antenna, receiver),
           NEW t, t = Rise(samples, antenna, clearance)
    PROVE  \E p \in 0..Len(samples) :
              /\ \A i \in 1..Len(samples) : Clear(K, r, t, i) <=> i <= p
              /\ LineOfSight(samples, antenna, receiver, clearance).reach
                    = IF p = 0 THEN 0 ELSE p - 1
<1>0. PICK n : n = Len(samples)
  OBVIOUS
<1>1. n \in Nat /\ DOMAIN samples = 1..n
  BY <1>0
<1>2. \A k \in 1..n : samples[k] # None => samples[k] \in Int
  BY <1>1
<1>3. K \in SUBSET (1..n) /\ \A k \in 1..n : k \in K <=> samples[k] # None
  BY <1>1 DEF Known
<1>4. /\ r \in [1..n -> Int] /\ t \in [1..n -> Int]
      /\ \A k \in K : r[k] = samples[k] + receiver - antenna
                      /\ t[k] = samples[k] + clearance - antenna
  BY <1>1, <1>2, <1>3 DEF Rise
<1>5. PICK f : /\ f[0] = Start
               /\ \A k \in 1..n :
                     f[k] = PassStep(samples, antenna, receiver, clearance, k, f[k - 1])
               /\ LineOfSight(samples, antenna, receiver, clearance) = f[n]
  BY <1>0, <1>1, PassUnfolded
<1> DEFINE Good == {k \in Nat : k <= n => PassInv(K, r, t, k, f[k])}
<1>6. 0 \in Good
  BY <1>5, PassStart
<1>7. ASSUME NEW m \in Nat, m \in Good PROVE m + 1 \in Good
  <2> DEFINE k == m + 1
  <2>0. k \in Nat /\ k - 1 = m
    OBVIOUS
  <2> SUFFICES ASSUME k <= n PROVE PassInv(K, r, t, k, f[k])
    BY <2>0
  <2>a. k \in 1..n /\ PassInv(K, r, t, m, f[m])
    BY <1>1, <1>7
  <2> HIDE DEF k
  <2>1. k \in 1..n /\ PassInv(K, r, t, k - 1, f[k - 1])
    BY <2>0, <2>a
  <2>2. f[k] = PassStep(samples, antenna, receiver, clearance, k, f[k - 1])
    BY <1>5, <2>1
  <2>3. CASE k \notin K
    <3>1. f[k] = AtGap(f[k - 1], k - 1)
      BY <1>3, <2>1, <2>2, <2>3 DEF PassStep
    <3> QED
      BY <1>1, <1>3, <1>4, <2>1, <2>3, <3>1, PassGap
  <2>4. CASE k \in K /\ k = 1
    <3>1. f[1] = f[0] /\ 1 \in K
      BY <1>3, <2>1, <2>2, <2>4 DEF PassStep
    <3>2. PassInv(K, r, t, 0, f[0])
      BY <2>1, <2>4
    <3> QED
      BY <1>1, <1>3, <1>4, <2>4, <3>1, <3>2, PassFirst
  <2>5. CASE k \in K /\ k # 1
    <3>1. f[k] = AtSample(f[k - 1], k - 1, r[k], t[k])
      BY <1>3, <1>4, <2>1, <2>2, <2>5 DEF PassStep
    <3>2. k \in 2..n
      BY <2>1, <2>5
    <3> QED
      BY <1>1, <1>3, <1>4, <2>1, <2>5, <3>1, <3>2, PassSample
  <2> QED
    BY <2>3, <2>4, <2>5
<1>8. PassInv(K, r, t, n, f[n])
  <2>1. n \in Good
    <3> HIDE DEF Good
    <3> QED
      BY <1>1, <1>6, <1>7, NaturalsReached
  <2> QED
    BY <1>1, <2>1
<1>9. PICK p : ReachUpTo(K, r, t, n, p, f[n])
  BY <1>8 DEF PassInv
<1> QED
  BY <1>0, <1>5, <1>9 DEF ReachUpTo

(* The clear stretch of a profile, and the distance of its last sample.    *)
ClearSamples(samples, antenna, receiver, clearance) ==
    LET seen(k) == \A j \in 2..(k - 1) :
            (samples[k] + receiver - antenna) * (j - 1)
                >= (samples[j] + clearance - antenna) * (k - 1)
    IN  {k \in DOMAIN samples : \A j \in 1..k :
            samples[j] # None /\ (j > 1 => seen(j))}

ReachOf(clear) == IF clear = {} THEN 0 ELSE Cardinality(clear) - 1

LEMMA ReachExact ==
    ASSUME NEW samples \in Seq(Int \cup {None}), NEW antenna \in Int,
           NEW receiver \in Int, NEW clearance \in Int,
           NEW clear, clear = ClearSamples(samples, antenna, receiver, clearance)
    PROVE  LineOfSight(samples, antenna, receiver, clearance).reach = ReachOf(clear)
<1> DEFINE K == Known(samples)
           r == Rise(samples, antenna, receiver)
           t == Rise(samples, antenna, clearance)
<1>0. PICK n \in Nat : n = Len(samples) /\ DOMAIN samples = 1..n
  OBVIOUS
<1>1. PICK p \in 0..n :
         /\ \A i \in 1..n : Clear(K, r, t, i) <=> i <= p
         /\ LineOfSight(samples, antenna, receiver, clearance).reach
               = IF p = 0 THEN 0 ELSE p - 1
  BY <1>0, PassReaches
<1>2. ASSUME NEW k \in 1..n PROVE k \in clear <=> Clear(K, r, t, k)
  <2>1. \A j \in 1..k : j \in 1..n /\ (j \in K <=> samples[j] # None)
    BY <1>0 DEF Known
  <2>2. \A j \in 1..n : samples[j] # None =>
            r[j] = samples[j] + receiver - antenna /\ t[j] = samples[j] + clearance - antenna
    BY <1>0 DEF Rise
  <2> HIDE DEF K, r, t
  <2>3. ASSUME NEW j \in 1..k, \A i \in 1..j : samples[i] # None
        PROVE  Seen(r, t, j) <=> \A i \in 2..(j - 1) :
                   (samples[j] + receiver - antenna) * (i - 1)
                       >= (samples[i] + clearance - antenna) * (j - 1)
    <3>1. \A i \in 1..j : i \in 1..n
      OBVIOUS
    <3>2. \A i \in 2..(j - 1) : i \in 1..j
      OBVIOUS
    <3>3. /\ r[j] = samples[j] + receiver - antenna
          /\ \A i \in 2..(j - 1) : t[i] = samples[i] + clearance - antenna
      BY <2>2, <2>3, <3>1, <3>2
    <3> QED
      BY <3>3 DEF Seen
  <2>4. ASSUME NEW j \in 1..k PROVE \A i \in 1..j : i \in 1..k
    OBVIOUS
  <2>5. k \in clear <=> \A j \in 1..k :
            samples[j] # None /\ (j > 1 => \A i \in 2..(j - 1) :
                (samples[j] + receiver - antenna) * (i - 1)
                    >= (samples[i] + clearance - antenna) * (j - 1))
    BY <1>0 DEF ClearSamples
  <2>6. CASE \A j \in 1..k : samples[j] # None
    <3>1. \A j \in 1..k : Seen(r, t, j) <=> \A i \in 2..(j - 1) :
                   (samples[j] + receiver - antenna) * (i - 1)
                       >= (samples[i] + clearance - antenna) * (j - 1)
      BY <2>3, <2>4, <2>6
    <3> QED
      BY Zenon, <2>1, <2>5, <2>6, <3>1 DEF Clear
  <2>7. CASE ~ \A j \in 1..k : samples[j] # None
    BY Zenon, <2>1, <2>5, <2>7 DEF Clear
  <2> QED
    BY <2>6, <2>7
<1>3. clear \subseteq 1..n
  BY <1>0 DEF ClearSamples
<1> HIDE DEF K, r, t
<1>4. \A k : k \in clear <=> k \in 1..p
  BY <1>1, <1>2, <1>3
<1>5. clear = 1..p
  BY <1>4
<1>6. Cardinality(1..p) = p
  BY FS_Interval
<1>7. 1..p = {} <=> p = 0
  <2>1. p # 0 => 1 \in 1..p
    OBVIOUS
  <2> QED
    BY <2>1
<1> QED
  BY <1>1, <1>5, <1>6, <1>7 DEF ReachOf

(* The clear distance that the pass reports, which compares each sample    *)
(* with the steepest one so far, is that of the definition by all earlier  *)
(* samples (ProvisionalSampledLineOfSightEngine.calculate()); by           *)
(* ReachExact, for profiles of every length, height and clearance.         *)
THEOREM LineOfSightClear == Spec => []LineOfSightExact
<1>1. LineOfSightExact
  <2> SUFFICES ASSUME NEW samples \in [1..4 -> 0..3 \cup {None}],
                      NEW receiver \in 0..1, NEW clearance \in 0..1
               PROVE  LET seen(k) == \A j \in 2..(k - 1) :
                              (samples[k] + receiver - 2) * (j - 1)
                                  >= (samples[j] + clearance - 2) * (k - 1)
                          clear == {k \in 1..4 : \A j \in 1..k :
                                       samples[j] # None /\ (j > 1 => seen(j))}
                      IN  LineOfSight(samples, 2, receiver, clearance).reach
                              = IF clear = {} THEN 0 ELSE Cardinality(clear) - 1
    BY DEF LineOfSightExact
  <2>1. samples \in Seq(Int \cup {None}) /\ DOMAIN samples = 1..4
    <3>1. 0..3 \cup {None} \subseteq Int \cup {None} /\ 4 \in Nat
      OBVIOUS
    <3>2. samples \in [1..4 -> Int \cup {None}]
      BY <3>1
    <3> DEFINE values == Int \cup {None}
    <3> HIDE DEF values
    <3>3. samples \in UNION {[1..n -> values] : n \in Nat}
      BY Zenon, <3>1, <3>2 DEF values
    <3>4. samples \in Seq(values)
      BY Zenon, <3>3, SeqDef
    <3> QED
      BY <3>2, <3>4 DEF values
  <2>2. 2 \in Int /\ receiver \in Int /\ clearance \in Int
    OBVIOUS
  <2>3. LineOfSight(samples, 2, receiver, clearance).reach
           = ReachOf(ClearSamples(samples, 2, receiver, clearance))
    <3>1. PICK antenna \in Int : antenna = 2
      OBVIOUS
    <3>2. ASSUME NEW clear, clear = ClearSamples(samples, antenna, receiver, clearance)
          PROVE  LineOfSight(samples, antenna, receiver, clearance).reach = ReachOf(clear)
      BY <2>1, <2>2, <3>2, ReachExact
    <3> QED
      BY <3>1, <3>2
  <2> QED
    BY Zenon, <2>1, <2>3 DEF ClearSamples, ReachOf
<1> QED
  BY <1>1, PTL
-----------------------------------------------------------------------------
(* The types of the rows.  A calculation that is not "unavailable" has a   *)
(* height, which is what estimates and analyses compute with.              *)
HeightsKnown ==
    \A h \in Haats :
        haat[h] # None /\ haat[h].state # "unavailable" => haat[h].height \in Int
RowsTyped == TypeOK /\ HeightsKnown

(* Distances come out of every request that the engine supports, whatever  *)
(* the numbers: rounded, and never below one rounding step.                *)
LEMMA RoundedTyped ==
    ASSUME NEW d \in Int, NEW q \in Nat \ {0}
    PROVE  RoundHalfEven(d, q) \in Int
  BY DEF RoundHalfEven

LEMMA DistanceTyped ==
    ASSUME NEW d \in Int, NEW horizon \in Int, NEW p, p.maximum \in Int,
           p.rounding \in Nat \ {0}
    PROVE  BoundedAndRounded(d, horizon, p) \in Nat
<1>1. Lesser(Lesser(d, horizon), p.maximum) \in Int
  BY DEF Lesser
<1>2. RoundHalfEven(Lesser(Lesser(d, horizon), p.maximum), p.rounding) \in Int
  BY <1>1, RoundedTyped
<1> QED
  BY <1>2 DEF BoundedAndRounded, Greater

(* The numbers of a request to the engine.                                 *)
Numbers(r) ==
    /\ r.preset \in DOMAIN PresetOf
    /\ {r.erp, r.sensitivity, r.height, r.receiver} \subseteq Int

LEMMA CalculateTyped ==
    ASSUME NEW r, Numbers(r)
    PROVE  Calculate(r) \in EstimateResult
<1>1. CASE ~ IsSupported(r)
  BY <1>1 DEF Calculate, Unsupported, EstimateResult
<1>2. CASE IsSupported(r)
  <2> DEFINE p == PresetOf[r.preset]
             base == MarginOf[r.environment] + p.fade
             horizon == Greater(0, r.height) + r.receiver
             at(margin) == BoundedAndRounded(Budget(r, margin), horizon, p)
  <2>1. /\ p.fade \in Int /\ p.uncertainty \in Int /\ p.maximum \in Int
        /\ p.rounding \in Nat \ {0}
    BY <1>2, PresetAssumption DEF IsSupported, Numbers
  <2>2. base \in Int /\ horizon \in Int
    BY <1>2, <2>1, PresetAssumption DEF IsSupported, Numbers, Greater
  <2>3. ASSUME NEW margin \in Int PROVE at(margin) \in Nat
    <3>1. Budget(r, margin) \in Int
      BY DEF Budget, Greater, Numbers
    <3> HIDE DEF p, horizon
    <3> QED
      BY <2>1, <2>2, <3>1, DistanceTyped
  <2>4. base + p.uncertainty \in Int /\ Greater(0, base - p.uncertainty) \in Int
    <3> HIDE DEF base, p
    <3> QED
      BY <2>1, <2>2 DEF Greater
  <2>5. Calculate(r) =
          [state |-> "complete", nominal |-> at(base),
           conservative |-> Lesser(at(base), at(base + p.uncertainty)),
           optimistic |-> Greater(at(base), at(Greater(0, base - p.uncertainty)))]
    BY <1>2 DEF Calculate
  <2> HIDE DEF p, base, at
  <2>6. /\ at(base) \in Nat /\ at(base + p.uncertainty) \in Nat
        /\ at(Greater(0, base - p.uncertainty)) \in Nat
    BY <2>2, <2>3, <2>4
  <2> QED
    BY <2>5, <2>6 DEF EstimateResult, Lesser, Greater
<1> QED
  BY <1>1, <1>2

-----------------------------------------------------------------------------
(* A calculation, from an elevation row that is there.                     *)
LEMMA HaatTyped ==
    ASSUME RowsTyped, NEW i \in RfInputs, Analyzable(i), NEW e \in Elevations,
           NEW row, NEW previous \in Haats \cup {None}
    PROVE  /\ NewHaat(i, e, row, previous) \in HaatRow
           /\ NewHaat(i, e, row, previous).state # "unavailable" =>
                  NewHaat(i, e, row, previous).height \in Int
<1>1. HaatState(row) \in HaatStates
  BY DEF HaatState, HaatStates
<1>2. InputOf[i].agl + ReliefOf[site] \in Int
  BY InputAssumption DEF Analyzable, RowsTyped, TypeOK, CoverageTypeOK, HaatTypeOK
<1>3. /\ Height(i, HaatState(row)) \in Int \cup {None}
      /\ HaatState(row) # "unavailable" => Height(i, HaatState(row)) \in Int
  BY <1>2 DEF Height
<1>4. /\ site \in Locations /\ settings.provider \in Providers /\ clock \in Nat
  BY SettingsAssumption, TimeAssumption DEF RowsTyped, TypeOK, CoverageTypeOK, HaatTypeOK
<1> QED
  BY <1>1, <1>3, <1>4 DEF NewHaat, HaatRow

LEMMA HaatWritten ==
    ASSUME RowsTyped, NEW h \in Haats, NEW new \in HaatRow,
           new.state # "unavailable" => new.height \in Int,
           haat' = [haat EXCEPT ![h] = new],
           elevation' \in [Elevations -> ElevationRow \cup {None}],
           UNCHANGED <<site, archived, settings, clock, coverageVars, terrain, run>>
    PROVE  RowsTyped'
<1>1. haat \in [Haats -> HaatRow \cup {None}]
  BY DEF RowsTyped, TypeOK, CoverageTypeOK, HaatTypeOK
<1>2. haat' \in [Haats -> HaatRow \cup {None}]
  BY <1>1
<1>3. \A g \in Haats : haat'[g] = new \/ haat'[g] = haat[g]
  BY <1>1
<1>4. HeightsKnown'
  BY <1>3 DEF RowsTyped, HeightsKnown
<1> QED
  BY <1>2, <1>4 DEF RowsTyped, TypeOK, CoverageTypeOK, HaatTypeOK, coverageVars

LEMMA FetchedTyped ==
    ASSUME RowsTyped, NEW h \in Haats, NEW i \in RfInputs, NEW e \in Elevations,
           NEW samples \in Samples, NEW previous \in Haats \cup {None},
           HaatFetched(h, i, e, samples, previous),
           UNCHANGED <<coverageVars, terrain, run>>
    PROVE  RowsTyped'
<1> DEFINE row == NewElevation(samples)
<1>1. WorldInv
  BY TimeAssumption DEF RowsTyped, TypeOK, CoverageTypeOK, HaatTypeOK, WorldInv
<1>2. row \in ElevationRow
  BY <1>1, ElevationTyped
<1> HIDE DEF row
<1>3. elevation' \in [Elevations -> ElevationRow \cup {None}]
  <2>1. elevation' = [elevation EXCEPT ![e] = row]
    BY DEF HaatFetched, row
  <2> QED
    BY <1>2, <2>1 DEF RowsTyped, TypeOK, CoverageTypeOK, HaatTypeOK
<1> DEFINE new == NewHaat(i, e, row, previous)
<1>4. new \in HaatRow /\ (new.state # "unavailable" => new.height \in Int)
  BY HaatTyped DEF HaatFetched
<1>5. haat' = [haat EXCEPT ![h] = new]
  BY DEF HaatFetched, row
<1> HIDE DEF new
<1> QED
  BY <1>3, <1>4, <1>5, HaatWritten DEF HaatFetched

LEMMA CachedTyped ==
    ASSUME RowsTyped, NEW h \in Haats, NEW i \in RfInputs, NEW e \in Elevations,
           HaatFromCache(h, i, e), UNCHANGED <<coverageVars, terrain, run>>
    PROVE  RowsTyped'
<1> DEFINE new == NewHaat(i, e, elevation[e], None)
<1>1. new \in HaatRow /\ (new.state # "unavailable" => new.height \in Int)
  BY HaatTyped DEF HaatFromCache
<1>2. haat' = [haat EXCEPT ![h] = new]
  BY DEF HaatFromCache
<1> HIDE DEF new
<1> QED
  BY <1>1, <1>2, HaatWritten
     DEF HaatFromCache, RowsTyped, TypeOK, CoverageTypeOK, HaatTypeOK

LEMMA ApprovedHaatTyped ==
    ASSUME RowsTyped, NEW h \in Haats, ApproveHaat(h),
           UNCHANGED <<coverageVars, terrain, run>>
    PROVE  RowsTyped'
<1>1. haat[h] \in HaatRow
  BY DEF RowsTyped, TypeOK, CoverageTypeOK, HaatTypeOK, ApproveHaat, HaatApprovable
<1> DEFINE new == [haat[h] EXCEPT !.status = "approved"]
<1>2. new \in HaatRow /\ new.state = haat[h].state /\ new.height = haat[h].height
  BY <1>1 DEF HaatRow
<1>3. haat' = [haat EXCEPT ![h] = new]
  BY DEF ApproveHaat
<1>4. new.state # "unavailable" => new.height \in Int
  BY <1>2 DEF RowsTyped, HeightsKnown, ApproveHaat, HaatApprovable
<1> HIDE DEF new
<1> QED
  BY <1>2, <1>3, <1>4, HaatWritten
     DEF ApproveHaat, RowsTyped, TypeOK, CoverageTypeOK, HaatTypeOK

-----------------------------------------------------------------------------
(* Estimates and analyses, from calculations that are complete.            *)
LEMMA BuiltUponTyped ==
    ASSUME RowsTyped, NEW h \in Haats, Approvable(h)
    PROVE  haat[h].input \in RfInputs /\ haat[h].height \in Int
  BY DEF RowsTyped, TypeOK, CoverageTypeOK, HaatTypeOK, HaatRow, HeightsKnown, Approvable

LEMMA CoverageTyped ==
    ASSUME RowsTyped, NEW h \in Haats, Approvable(h),
           HasValues(haat[h].input, {"tx", "erp", "sensitivity"}),
           NEW environment, NEW preset \in DOMAIN PresetOf
    PROVE  NewCoverage(h, environment, preset) \in CoverageRow
<1> DEFINE r == CoverageRequest(h, environment, preset)
<1>1. haat[h].input \in RfInputs /\ haat[h].height \in Int
  BY BuiltUponTyped
<1>2. InputOf[haat[h].input].erp \in Int /\ InputOf[haat[h].input].sensitivity \in Int
  BY <1>1, InputAssumption DEF HasValues
<1>3. Numbers(r)
  BY <1>1, <1>2, PresetAssumption DEF CoverageRequest, Numbers
<1>4. Calculate(r) \in EstimateResult
  BY <1>3, CalculateTyped
<1>5. site \in Locations
  BY DEF RowsTyped, TypeOK, CoverageTypeOK, HaatTypeOK
<1> HIDE DEF r
<1>6. NewCoverage(h, environment, preset)
        = [haat |-> h, center |-> site, preset |-> preset, range |-> Calculate(r),
           status |-> "draft"]
  BY DEF NewCoverage, r
<1> QED
  BY <1>4, <1>5, <1>6 DEF CoverageRow

LEMMA PathTyped ==
    ASSUME NEW sender, NEW receiver, NEW h, NEW agl \in Int, NEW environment,
           NEW preset \in DOMAIN PresetOf, sender.erp \in Int,
           receiver.sensitivity \in Int, haat[h].height \in Int
    PROVE  Path(sender, receiver, h, agl, environment, preset).nominal \in Nat \cup {None}
<1> DEFINE r == [frequency |-> sender.tx, erp |-> sender.erp,
                 sensitivity |-> receiver.sensitivity,
                 height |-> haat[h].height, receiver |-> agl,
                 environment |-> environment, preset |-> preset]
<1>1. Numbers(r)
  BY DEF Numbers
<1>2. Path(sender, receiver, h, agl, environment, preset) = Calculate(r)
  BY DEF Path
<1>3. Calculate(r) \in EstimateResult
  BY <1>1, CalculateTyped
<1> QED
  BY <1>2, <1>3 DEF EstimateResult

(* Both ways are known where the lesser one is taken.                      *)
LEMMA DirectionalTyped ==
    ASSUME RowsTyped, NEW h \in Haats, NEW s \in RfInputs, DirectionalAllowed(h, s),
           NEW environment, NEW preset \in DOMAIN PresetOf
    PROVE  Directional(h, s, environment, preset) \in DirectionalRow
<1> DEFINE infra == InputOf[haat[h].input]
           sub == InputOf[s]
           out == Path(infra, sub, h, sub.agl, environment, preset).nominal
           in == Path(sub, infra, h, sub.agl, environment, preset).nominal
           outMatch == infra.tx = sub.rx
           inMatch == sub.tx = infra.rx
           both == outMatch /\ inMatch /\ out # None /\ in # None
<1>1. haat[h].input \in RfInputs /\ haat[h].height \in Int
  BY BuiltUponTyped DEF DirectionalAllowed
<1>2. /\ infra.erp \in Int /\ infra.sensitivity \in Int
      /\ sub.erp \in Int /\ sub.sensitivity \in Int /\ sub.agl \in Int
  BY <1>1, InputAssumption DEF HasValues, DirectionalAllowed
<1>3. out \in Nat \cup {None} /\ in \in Nat \cup {None}
  <2> HIDE DEF infra, sub
  <2> QED
    BY <1>1, <1>2, PathTyped
<1>4. site \in Locations
  BY DEF RowsTyped, TypeOK, CoverageTypeOK, HaatTypeOK
<1>5. Directional(h, s, environment, preset) =
        [haat |-> h, subscriber |-> s, center |-> site, preset |-> preset,
         state |-> IF both THEN "complete" ELSE "unsupported",
         out |-> IF outMatch THEN out ELSE None,
         in |-> IF inMatch THEN in ELSE None,
         twoWay |-> IF both THEN Lesser(out, in) ELSE None,
         limit |-> IF ~ both THEN "none"
                   ELSE IF out < in THEN "talk_out"
                   ELSE IF in < out THEN "talk_in" ELSE "equal",
         status |-> "draft"]
  BY DEF Directional
<1>6. (IF both THEN Lesser(out, in) ELSE None) \in Nat \cup {None}
  <2> HIDE DEF out, in, outMatch, inMatch
  <2> QED
    BY <1>3 DEF Lesser
<1> HIDE DEF out, in, outMatch, inMatch, both
<1> QED
  BY <1>3, <1>4, <1>5, <1>6 DEF DirectionalRow

LEMMA BuildStepsTyped ==
    ASSUME RowsTyped, UNCHANGED <<terrain, run>>,
           \/ \E c \in Coverages, h \in Haats, environment \in DOMAIN MarginOf,
                 preset \in DOMAIN PresetOf : CreateCoverage(c, h, environment, preset)
           \/ \E c \in Coverages : ApproveCoverage(c)
           \/ \E d \in Directionals, h \in Haats, s \in RfInputs,
                 environment \in DOMAIN MarginOf, preset \in DOMAIN PresetOf :
                  CreateDirectional(d, h, s, environment, preset)
           \/ \E d \in Directionals : ApproveDirectional(d)
    PROVE  RowsTyped'
<1>1. /\ coverage \in [Coverages -> CoverageRow \cup {None}]
      /\ directional \in [Directionals -> DirectionalRow \cup {None}]
  BY DEF RowsTyped, TypeOK, CoverageTypeOK
<1>2. ASSUME NEW c \in Coverages, NEW row \in CoverageRow,
             coverage' = [coverage EXCEPT ![c] = row], UNCHANGED <<haatVars, directional>>
      PROVE  RowsTyped'
  <2>1. coverage' \in [Coverages -> CoverageRow \cup {None}]
    BY <1>1, <1>2
  <2> QED
    BY <1>2, <2>1
       DEF RowsTyped, HeightsKnown, TypeOK, CoverageTypeOK, HaatTypeOK, haatVars
<1>3. ASSUME NEW d \in Directionals, NEW row \in DirectionalRow,
             directional' = [directional EXCEPT ![d] = row], UNCHANGED <<haatVars, coverage>>
      PROVE  RowsTyped'
  <2>1. directional' \in [Directionals -> DirectionalRow \cup {None}]
    BY <1>1, <1>3
  <2> QED
    BY <1>3, <2>1
       DEF RowsTyped, HeightsKnown, TypeOK, CoverageTypeOK, HaatTypeOK, haatVars
<1>4. ASSUME NEW c \in Coverages, NEW h \in Haats, NEW environment,
             NEW preset \in DOMAIN PresetOf, CreateCoverage(c, h, environment, preset)
      PROVE  RowsTyped'
  BY <1>2, <1>4, CoverageTyped DEF CreateCoverage
<1>5. ASSUME NEW c \in Coverages, ApproveCoverage(c) PROVE RowsTyped'
  <2>1. coverage[c] \in CoverageRow
    BY <1>1, <1>5 DEF ApproveCoverage, CoverageApprovable
  <2>2. [coverage[c] EXCEPT !.status = "approved"] \in CoverageRow
    BY <2>1 DEF CoverageRow
  <2> QED
    BY <1>2, <1>5, <2>2 DEF ApproveCoverage
<1>6. ASSUME NEW d \in Directionals, NEW h \in Haats, NEW s \in RfInputs, NEW environment,
             NEW preset \in DOMAIN PresetOf, CreateDirectional(d, h, s, environment, preset)
      PROVE  RowsTyped'
  BY <1>3, <1>6, DirectionalTyped DEF CreateDirectional
<1>7. ASSUME NEW d \in Directionals, ApproveDirectional(d) PROVE RowsTyped'
  <2>1. directional[d] \in DirectionalRow
    BY <1>1, <1>7 DEF ApproveDirectional, DirectionalApprovable
  <2>2. [directional[d] EXCEPT !.status = "approved"] \in DirectionalRow
    BY <2>1 DEF DirectionalRow
  <2> QED
    BY <1>3, <1>7, <2>2 DEF ApproveDirectional
<1> QED
  BY <1>4, <1>5, <1>6, <1>7

-----------------------------------------------------------------------------
(* Jobs, which are queued, end once and are approved.                      *)
LEMMA QueuedTyped ==
    ASSUME RowsTyped, NEW c \in Coverages, NEW old \in Terrains \cup {None}
    PROVE  Queued(c, old) \in TerrainRow
<1>1. site \in Locations /\ settings.terrain.source \in STRING
  BY SettingsAssumption DEF RowsTyped, TypeOK, CoverageTypeOK, HaatTypeOK
<1> QED
  BY <1>1 DEF Queued, CurrentInput, TerrainInput, TerrainRow, JobStates

LEMMA OutcomesTyped ==
    ASSUME NEW row \in TerrainRow, NEW n \in Outcomes(row), run.site \in Locations
    PROVE  n \in TerrainRow
<1>1. CASE \E code \in Failures : n = Failed(row, code)
  BY <1>1 DEF Failed, TerrainRow, JobStates
<1>2. CASE \E b : n = [row EXCEPT !.job = "complete", !.origin = run.site,
                                  !.result = ResultState(b)]
  <2>1. PICK b : n = [row EXCEPT !.job = "complete", !.origin = run.site,
                                 !.result = ResultState(b)]
    BY <1>2
  <2>2. ResultState(b) \in AnalysisStates
    BY DEF ResultState, AnalysisStates
  <2> QED
    BY <2>1, <2>2 DEF TerrainRow, JobStates
<1> QED
  BY <1>1, <1>2 DEF Outcomes, Failures

LEMMA JobWritten ==
    ASSUME RowsTyped, NEW t \in Terrains, NEW row \in TerrainRow,
           terrain' = [terrain EXCEPT ![t] = row], UNCHANGED <<haatVars, coverageVars>>,
           run' \in [job : Terrains, site : Locations] \cup {None}
    PROVE  RowsTyped'
<1>1. terrain' \in [Terrains -> TerrainRow \cup {None}]
  BY DEF RowsTyped, TypeOK
<1> QED
  BY <1>1 DEF RowsTyped, HeightsKnown, TypeOK, CoverageTypeOK, HaatTypeOK, haatVars,
     coverageVars

LEMMA RowsTypedInit == Init => RowsTyped
  BY TimeAssumption DEF Init, CoverageInit, HaatInit, RowsTyped, HeightsKnown, TypeOK,
     CoverageTypeOK, HaatTypeOK

LEMMA RowsTypedNext ==
    ASSUME RowsTyped, JobsInv, [Next]_vars
    PROVE  RowsTyped'
<1>1. /\ terrain \in [Terrains -> TerrainRow \cup {None}]
      /\ run \in [job : Terrains, site : Locations] \cup {None}
  BY DEF RowsTyped, TypeOK
<1>2. ASSUME NEW h \in Haats, NEW i \in RfInputs, NEW e \in Elevations,
             CreateHaat(h, i, e), UNCHANGED <<coverageVars, terrain, run>>
      PROVE  RowsTyped'
  BY <1>2, CachedTyped, FetchedTyped DEF CreateHaat
<1>3. ASSUME NEW h \in Haats, NEW old \in Haats, NEW e \in Elevations,
             RetryHaat(h, old, e), UNCHANGED <<coverageVars, terrain, run>>
      PROVE  RowsTyped'
  <2>1. haat[old].input \in RfInputs
    BY <1>3 DEF RetryHaat, RowsTyped, TypeOK, CoverageTypeOK, HaatTypeOK, HaatRow
  <2> QED
    BY <1>3, <2>1, FetchedTyped DEF RetryHaat
<1>4. ASSUME NEW h \in Haats, ApproveHaat(h), UNCHANGED <<coverageVars, terrain, run>>
      PROVE  RowsTyped'
  BY <1>4, ApprovedHaatTyped
<1>5. ASSUME site' \in Locations, archived' \subseteq RfInputs, clock' \in 0..MaxTime,
             settings' \in Settings, UNCHANGED <<elevation, haat, coverageVars, terrain>>,
             run' \in [job : Terrains, site : Locations] \cup {None}
      PROVE  RowsTyped'
  BY <1>5 DEF RowsTyped, HeightsKnown, TypeOK, CoverageTypeOK, HaatTypeOK, coverageVars
<1>6. ASSUME NEW i \in RfInputs, ArchiveInput(i), UNCHANGED <<coverageVars, terrain, run>>
      PROVE  RowsTyped'
  BY <1>5, <1>6 DEF ArchiveInput, RowsTyped, TypeOK, CoverageTypeOK, HaatTypeOK
<1>7. ASSUME Tick, UNCHANGED <<coverageVars, terrain, run>> PROVE RowsTyped'
  <2>1. clock' \in 0..MaxTime
    BY <1>7, TimeAssumption DEF Tick, RowsTyped, TypeOK, CoverageTypeOK, HaatTypeOK
  <2> QED
    BY <1>5, <1>7, <2>1 DEF Tick, RowsTyped, TypeOK, CoverageTypeOK, HaatTypeOK
<1>8. ASSUME NEW location \in Locations, MoveSite(location) PROVE RowsTyped'
  BY <1>5, <1>8 DEF MoveSite, EditSite, RowsTyped, TypeOK, CoverageTypeOK, HaatTypeOK
<1>9. CASE Restart
  BY <1>5, <1>9 DEF Restart, RowsTyped, TypeOK, CoverageTypeOK, HaatTypeOK
<1>10. ASSUME NEW t \in Terrains, NEW c \in Coverages, QueueTerrain(t, c) PROVE RowsTyped'
  BY <1>1, <1>10, QueuedTyped, JobWritten DEF QueueTerrain
<1>11. ASSUME NEW t \in Terrains, NEW old \in Terrains, RetryTerrain(t, old) PROVE RowsTyped'
  <2>1. terrain[old].input.coverage \in Coverages
    BY <1>1, <1>11 DEF RetryTerrain, TerrainRow, TerrainInput
  <2> QED
    BY <1>1, <1>11, <2>1, QueuedTyped, JobWritten DEF RetryTerrain
<1>12. ASSUME NEW t \in Terrains, StartRun(t) PROVE RowsTyped'
  BY <1>5, <1>12 DEF StartRun, haatVars, RowsTyped, TypeOK, CoverageTypeOK, HaatTypeOK
<1>13. CASE FinishRun
  <2>1. run # None /\ run \in [job : Terrains, site : Locations]
    BY <1>1, <1>13 DEF FinishRun
  <2>2. terrain[run.job] \in TerrainRow
    BY <1>1, <2>1 DEF JobsInv, RunInv
  <2>3. PICK row \in Outcomes(terrain[run.job]) :
          terrain' = [terrain EXCEPT ![run.job] = row]
    BY <1>13 DEF FinishRun
  <2>4. row \in TerrainRow
    BY <2>1, <2>2, OutcomesTyped
  <2> QED
    BY <1>13, <2>1, <2>3, <2>4, JobWritten DEF FinishRun
<1>14. CASE CrashRun
  BY <1>5, <1>14 DEF CrashRun, haatVars, RowsTyped, TypeOK, CoverageTypeOK, HaatTypeOK
<1>15. ASSUME NEW t \in Terrains, CancelTerrain(t) PROVE RowsTyped'
  <2>1. terrain[t] \in TerrainRow
    BY <1>1, <1>15 DEF CancelTerrain, Cancellable
  <2>2. [terrain[t] EXCEPT !.job = "cancelled"] \in TerrainRow
    BY <2>1 DEF TerrainRow, JobStates
  <2> QED
    BY <1>1, <1>15, <2>2, JobWritten DEF CancelTerrain
<1>16. ASSUME NEW t \in Terrains, ApproveTerrain(t) PROVE RowsTyped'
  <2>1. terrain[t] \in TerrainRow
    BY <1>1, <1>16 DEF ApproveTerrain, TerrainApprovable
  <2>2. [terrain[t] EXCEPT !.status = "approved"] \in TerrainRow
    BY <2>1 DEF TerrainRow
  <2> QED
    BY <1>1, <1>16, <2>2, JobWritten DEF ApproveTerrain
<1>17. CASE UNCHANGED vars
  BY <1>5, <1>17 DEF vars, haatVars, RowsTyped, TypeOK, CoverageTypeOK, HaatTypeOK
<1> QED
  BY <1>2, <1>3, <1>4, <1>6, <1>7, <1>8, <1>9, <1>10, <1>11, <1>12, <1>13, <1>14, <1>15,
     <1>16, <1>17, BuildStepsTyped DEF Next

(* Whatever the places, inputs, presets and configurations: a calculation  *)
(* that can be built upon has a height, every estimate and direction of an *)
(* analysis is a distance or says that it has none, and jobs keep the      *)
(* states of their table (haat.py, coverage.py, directional.py,            *)
(* terrain.py).                                                            *)
THEOREM EvidenceTypeCorrect == Spec => []TypeOK
<1>1. RowsTyped => TypeOK
  BY DEF RowsTyped
<1>2. Init => JobsInv /\ RowsTyped
  BY JobsInvInit, RowsTypedInit
<1>3. (JobsInv /\ RowsTyped) /\ [Next]_vars => (JobsInv /\ RowsTyped)'
  BY JobsInvNext, RowsTypedNext
<1> QED
  BY <1>1, <1>2, <1>3, PTL DEF Spec
=============================================================================

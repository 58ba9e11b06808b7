---------------------------- MODULE TerrainJobs ----------------------------
(***************************************************************************)
(* Terrain analyses of rf_analysis (terrain.py): a job is queued with a    *)
(* snapshot of its inputs, run by a later request, and approved if its     *)
(* evidence is complete and still current.                                 *)
(*                                                                         *)
(* A run is one transaction (ATOMIC_REQUESTS): its first query locks the   *)
(* job, the site, the estimate and the HAAT row until the request ends, so *)
(* "running" is never seen by another request, and a crash leaves the job  *)
(* queued.                                                                 *)
(***************************************************************************)
EXTENDS CoverageEvidence

CONSTANTS
    Terrains,       \* ids of TerrainAnalysis rows
    Settings,       \* the configurations the server may be started with
    PathLength,     \* number of points of the path
    Profiles        \* what the terrain provider may return along the path

ASSUME SettingsAssumption ==
    \A s \in Settings : s.provider \in Providers /\ s.terrain.source \in STRING

(* None is neither a height nor a slope.                                   *)
ASSUME SlopeAssumption == None \notin Int \cup (Int \X Int)

VARIABLES
    terrain,        \* TerrainAnalysis rows by id, or None
    run             \* the run in progress, or None

vars == <<haatVars, coverageVars, terrain, run>>

-----------------------------------------------------------------------------
(* A profile of the terrain provider is the terrain at each distance from  *)
(* the site, as seen over the effective earth, or None in a gap.           *)
JobStates == {"queued", "complete", "failed", "cancelled"}
AnalysisStates == {"complete", "partial", "unsupported"}
Failures == {"configuration_not_approved", "configuration_changed",
             "terrain_provider_unavailable", "terrain_source_invalid",
             "terrain_internal_error"}

TerrainInput == [location : Locations, coverage : Coverages, source : STRING]
TerrainRow ==
    [input : TerrainInput, job : JobStates, failure : Failures \cup {None},
     origin : Locations \cup {None}, result : AnalysisStates \cup {None},
     status : {"draft", "approved"}, supersedes : Terrains \cup {None}]

-----------------------------------------------------------------------------
(* _profile_points(): the distances sampled along the path, and the count  *)
(* that queue_terrain_analysis() holds against the limit.                  *)
PathDistances(maximum, step) ==
    {k * step : k \in {j \in 0..maximum : j * step < maximum}} \cup {maximum}
PathCount(maximum, step) == (maximum + step - 1) \div step + 1

(* ProvisionalSampledLineOfSightEngine.calculate(): one pass over the      *)
(* samples.  A sample s at distance d is seen if its slope from the        *)
(* antenna is not under the steepest one before it; slopes are compared as *)
(* fractions.  A gap ends the clear stretch.                               *)
SlopeAtLeast(n, d, slope) == slope = None \/ n * slope[2] >= slope[1] * d

Start == [steepest |-> None, clear |-> TRUE, reach |-> 0, first |-> None,
          gaps |-> 0]
OverGap(acc, d) == [acc EXCEPT !.gaps = @ + 1]
AtGap(acc, d) ==
    [acc EXCEPT !.clear = FALSE, !.gaps = @ + 1,
                !.first = IF @ = None THEN d ELSE @]
AtSample(acc, d, toReceiver, toTerrain) ==
    LET seen == SlopeAtLeast(toReceiver, d, acc.steepest)
    IN  [acc EXCEPT
            !.clear = @ /\ seen,
            !.reach = IF acc.clear /\ seen THEN d ELSE @,
            !.first = IF @ = None /\ ~ seen THEN d ELSE @,
            !.steepest = IF SlopeAtLeast(toTerrain, d, @)
                         THEN <<toTerrain, d>> ELSE @]
LineOfSight(samples, antenna, receiver, clearance) ==
    LET pass[k \in 0..Len(samples)] ==
            IF k = 0 THEN Start
            ELSE IF samples[k] = None THEN AtGap(pass[k - 1], k - 1)
            ELSE IF k = 1 THEN pass[0]
            ELSE AtSample(pass[k - 1], k - 1, samples[k] + receiver - antenna,
                          samples[k] + clearance - antenna)
    IN  pass[Len(samples)]

(* fetch() names what it found; _validate_profile_batch() wants an answer  *)
(* for every point of the path.                                            *)
Known(samples) == {k \in DOMAIN samples : samples[k] # None}
Fetched(samples) ==
    [samples |-> samples,
     claimed |-> IF Known(samples) = {} THEN "missing"
                 ELSE IF Known(samples) # DOMAIN samples THEN "partial"
                 ELSE "complete"]
BatchValid(batch) == Len(batch.samples) = PathLength

(* What a validated batch amounts to.                                      *)
ResultState(batch) ==
    IF settings.terrain.resolution > settings.terrain.interval
        \/ Cardinality(Known(batch.samples)) < 2
    THEN "unsupported"
    ELSE IF LineOfSight(batch.samples, 2, 1, 0).gaps > 0
        \/ batch.claimed # "complete"
    THEN "partial"
    ELSE "complete"

-----------------------------------------------------------------------------
(* configuration_is_approved(), and the part of _input_snapshot() that can *)
(* change: the site, the estimate and the configured source.               *)
TerrainApproved ==
    settings.terrain.source # "disabled" /\ settings.terrain.approved
CurrentInput(c) ==
    [location |-> site, coverage |-> c, source |-> settings.terrain.source]
CoverageReady(c) ==
    /\ coverage[c] # None
    /\ coverage[c].status = "approved"
    /\ coverage[c].range.state = "complete"

(* Who has to wait for the run's locks.                                    *)
NoRunOf(t) == IF run = None THEN TRUE ELSE run.job # t
Unlocked == run = None

Init ==
    /\ CoverageInit
    /\ settings \in Settings
    /\ terrain = [t \in Terrains |-> None]
    /\ run = None

(* queue_terrain_analysis(), also for a retry of failed or cancelled work. *)
Queued(c, old) ==
    [input |-> CurrentInput(c), job |-> "queued", failure |-> None,
     origin |-> None, result |-> None, status |-> "draft", supersedes |-> old]

QueueAllowed(c) == Unlocked /\ CoverageReady(c) /\ TerrainApproved

QueueTerrain(t, c) ==
    /\ terrain[t] = None
    /\ QueueAllowed(c)
    /\ terrain' = [terrain EXCEPT ![t] = Queued(c, None)]
    /\ UNCHANGED <<haatVars, coverageVars, run>>

RetryTerrain(t, old) ==
    /\ terrain[t] = None
    /\ terrain[old] # None
    /\ terrain[old].job \in {"failed", "cancelled"}
    /\ QueueAllowed(terrain[old].input.coverage)
    /\ terrain' = [terrain EXCEPT ![t] = Queued(terrain[old].input.coverage, old)]
    /\ UNCHANGED <<haatVars, coverageVars, run>>

-----------------------------------------------------------------------------
(* run_terrain_analysis(): the locking query reads the site the path will  *)
(* start from ...                                                          *)
StartRun(t) ==
    /\ Unlocked
    /\ terrain[t] # None
    /\ terrain[t].job = "queued"
    /\ run' = [job |-> t, site |-> site]
    /\ UNCHANGED <<haatVars, coverageVars, terrain>>

FailedWithText(row, code) == [row EXCEPT !.job = "failed", !.failure = "error"]
Failed(row, code) == [row EXCEPT !.job = "failed", !.failure = code]

(* ... then approval, inputs, provider and batch are checked in order, and *)
(* the job ends failed or complete.                                        *)
Outcomes(row) ==
    IF ~ CoverageReady(row.input.coverage)
    THEN {Failed(row, "terrain_source_invalid")}
    ELSE IF ~ TerrainApproved
    THEN {Failed(row, "configuration_not_approved")}
    ELSE IF CurrentInput(row.input.coverage) # row.input
    THEN {Failed(row, "configuration_changed")}
    ELSE {Failed(row, "terrain_provider_unavailable"),
          Failed(row, "terrain_internal_error")}
         \cup {IF ~ BatchValid(b) THEN Failed(row, "terrain_source_invalid")
               ELSE [row EXCEPT !.job = "complete", !.origin = run.site,
                                !.result = ResultState(b)] :
                   b \in {Fetched(p) : p \in Profiles}}

FinishRun ==
    /\ run # None
    /\ \E row \in Outcomes(terrain[run.job]) :
           terrain' = [terrain EXCEPT ![run.job] = row]
    /\ run' = None
    /\ UNCHANGED <<haatVars, coverageVars>>

CrashRun ==
    /\ run # None
    /\ run' = None
    /\ UNCHANGED <<haatVars, coverageVars, terrain>>

CancelAnyway(t) ==
    /\ terrain[t] # None
    /\ terrain[t].job = "queued"
    /\ terrain' = [terrain EXCEPT ![t].job = "cancelled"]
    /\ UNCHANGED <<haatVars, coverageVars, run>>
Cancellable(t) == NoRunOf(t) /\ terrain[t] # None /\ terrain[t].job = "queued"
CancelTerrain(t) ==
    /\ Cancellable(t)
    /\ terrain' = [terrain EXCEPT ![t].job = "cancelled"]
    /\ UNCHANGED <<haatVars, coverageVars, run>>

(* terrain_stale_reasons() is empty: the estimate and the HAAT row cannot  *)
(* change, the rest is compared.                                           *)
Current(t) ==
    TerrainApproved /\ terrain[t].input = CurrentInput(terrain[t].input.coverage)

(* approve_terrain_analysis().                                             *)
TerrainApprovable(t) ==
    /\ NoRunOf(t)
    /\ terrain[t] # None
    /\ terrain[t].status = "draft"
    /\ terrain[t].job = "complete"
    /\ terrain[t].result = "complete"
    /\ Current(t)

ApproveTerrain(t) ==
    /\ TerrainApprovable(t)
    /\ terrain' = [terrain EXCEPT ![t].status = "approved"]
    /\ UNCHANGED <<haatVars, coverageVars, run>>

-----------------------------------------------------------------------------
(* The other requests; those that lock or write a row of the run wait for  *)
(* it.  A restart with another configuration ends the run.                 *)
MoveSiteAnyway(location) ==
    EditSite(location) /\ UNCHANGED <<coverageVars, terrain, run>>
MoveSite(location) ==
    Unlocked /\ EditSite(location) /\ UNCHANGED <<coverageVars, terrain, run>>

Restart ==
    /\ settings' \in Settings
    /\ run' = None
    /\ UNCHANGED <<site, archived, clock, elevation, haat, coverageVars, terrain>>

Next ==
    \/ \E h \in Haats, i \in RfInputs, e \in Elevations :
          CreateHaat(h, i, e) /\ UNCHANGED <<coverageVars, terrain, run>>
    \/ \E h, old \in Haats, e \in Elevations :
          RetryHaat(h, old, e) /\ UNCHANGED <<coverageVars, terrain, run>>
    \/ \E h \in Haats :
          ApproveHaat(h) /\ UNCHANGED <<coverageVars, terrain, run>>
    \/ \E i \in RfInputs :
          ArchiveInput(i) /\ UNCHANGED <<coverageVars, terrain, run>>
    \/ Tick /\ UNCHANGED <<coverageVars, terrain, run>>
    \/ \E c \in Coverages, h \in Haats, environment \in DOMAIN MarginOf,
          preset \in DOMAIN PresetOf :
          /\ Unlocked
          /\ CreateCoverage(c, h, environment, preset)
          /\ UNCHANGED <<terrain, run>>
    \/ \E c \in Coverages : ApproveCoverage(c) /\ UNCHANGED <<terrain, run>>
    \/ \E d \in Directionals, h \in Haats, s \in RfInputs,
          environment \in DOMAIN MarginOf, preset \in DOMAIN PresetOf :
          /\ Unlocked
          /\ CreateDirectional(d, h, s, environment, preset)
          /\ UNCHANGED <<terrain, run>>
    \/ \E d \in Directionals : ApproveDirectional(d) /\ UNCHANGED <<terrain, run>>
    \/ \E location \in Locations : MoveSite(location)
    \/ Restart
    \/ \E t \in Terrains, c \in Coverages : QueueTerrain(t, c)
    \/ \E t, old \in Terrains : RetryTerrain(t, old)
    \/ \E t \in Terrains : StartRun(t)
    \/ FinishRun
    \/ CrashRun
    \/ \E t \in Terrains : CancelTerrain(t)
    \/ \E t \in Terrains : ApproveTerrain(t)

Spec == Init /\ [][Next]_vars

-----------------------------------------------------------------------------
TypeOK ==
    /\ CoverageTypeOK
    /\ settings \in Settings
    /\ terrain \in [Terrains -> TerrainRow \cup {None}]
    /\ run \in [job : Terrains, site : Locations] \cup {None}

(* A finished profile starts at the coordinates that its input snapshot    *)
(* names, although the run reads the site once for the path and once more  *)
(* for the comparison of inputs, and the site may be moved and moved back. *)
PathFromInput ==
    \A t \in Terrains :
        (terrain[t] # None /\ terrain[t].job = "complete") =>
            terrain[t].origin = terrain[t].input.location

(* A job that has ended keeps its outcome, and an approved one everything: *)
(* a cancellation cannot slip under a run, nor a run over a cancellation.  *)
OutcomesKept ==
    [][\A t \in Terrains :
          (terrain[t] # None /\ terrain[t].job # "queued") =>
              /\ [terrain'[t] EXCEPT !.status = "draft"]
                     = [terrain[t] EXCEPT !.status = "draft"]
              /\ terrain[t].status = "approved" => terrain'[t] = terrain[t]]_vars

(* The next two, being about every profile and every grid, are evaluated   *)
(* before the first calculation only.                                      *)
NoHaatYet == \A h \in Haats : haat[h] = None

(* The clear distance is the farthest sample such that it and all before   *)
(* it are known and each is seen over all the terrain in between.          *)
LineOfSightExact ==
    NoHaatYet =>
    \A samples \in [1..4 -> 0..3 \cup {None}], receiver, clearance \in 0..1 :
        LET seen(k) == \A j \in 2..(k - 1) :
                (samples[k] + receiver - 2) * (j - 1)
                    >= (samples[j] + clearance - 2) * (k - 1)
            clear == {k \in 1..4 : \A j \in 1..k :
                         samples[j] # None /\ (j > 1 => seen(j))}
        IN  LineOfSight(samples, 2, receiver, clearance).reach
                = IF clear = {} THEN 0 ELSE Cardinality(clear) - 1

(* The limits on a grid and on a path, computed by division, count the     *)
(* samples that the loop which builds them will request, outer end         *)
(* included, for every radius and step.                                    *)
SampleCountsExact ==
    NoHaatYet =>
        /\ \A inner \in 1..3, outer \in 2..9, step \in 1..8 :
               (inner < outer /\ step <= outer - inner) =>
                   DistanceCount(inner, outer, step)
                       = Cardinality(Distances(inner, outer, step))
        /\ \A maximum \in 1..9, step \in 1..9 :
               PathCount(maximum, step) = Cardinality(PathDistances(maximum, step))
=============================================================================

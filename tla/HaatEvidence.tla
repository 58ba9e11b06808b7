---------------------------- MODULE HaatEvidence ----------------------------
(***************************************************************************)
(* Elevation snapshots and the HAAT calculations of rf_analysis made from  *)
(* them (haat.py, elevation.py, usgs_3dep.py), for one site that may be    *)
(* moved and a provider configuration that may change at a restart.        *)
(*                                                                         *)
(* A request reads the site once and inserts its rows at the end of its    *)
(* transaction, so creating a calculation is one action.  Requests that    *)
(* are refused change nothing and are left out.                            *)
(***************************************************************************)
EXTENDS Integers, Sequences, FiniteSets

CONSTANTS
    Locations,      \* coordinates the site may have
    ReliefOf,       \* elevation of each over the average terrain around it
    RfInputs,       \* ids of RFAnalysisInputSnapshot rows
    InputOf,        \* what those rows hold (copied at approval, immutable)
    Elevations,     \* ids of ElevationSnapshot rows
    Haats,          \* ids of HAATCalculation rows
    TerrainPoints,  \* keys of the grid around the site
    Fixtures,       \* sample states of the synthetic provider's modes
    MaxTime,        \* bound of the clock
    TTL,            \* ICT_ELEVATION_CACHE_TTL_SECONDS
    None            \* SQL NULL

ASSUME TimeAssumption == MaxTime \in Nat /\ TTL \in Nat \ {0}
ASSUME FixtureAssumption ==
    Fixtures \subseteq [{"site"} \cup TerrainPoints ->
                           {"complete", "missing", "out_of_coverage"}]

VARIABLES
    site,           \* RadioSite: its coordinates
    archived,       \* the RF input snapshots that have been archived
    settings,       \* the server's configuration
    clock,
    elevation,      \* ElevationSnapshot rows by id, or None
    haat            \* HAATCalculation rows by id, or None

haatVars == <<site, archived, settings, clock, elevation, haat>>

-----------------------------------------------------------------------------
Points == {"site"} \cup TerrainPoints
Providers == {"disabled", "synthetic", "usgs"}
SampleStates == {"complete", "missing", "out_of_coverage"}
AcquisitionStates == SampleStates \cup {"partial"}
HaatStates == {"complete", "partial", "unavailable"}

ElevationRow == [location : Locations, provider : Providers,
                 samples : [Points -> SampleStates], state : AcquisitionStates,
                 staleAt : Nat]
HaatRow == [location : Locations, provider : Providers, input : RfInputs,
            elevation : Elevations, state : HaatStates,
            height : Int \cup {None},
            status : {"draft", "approved"}, at : Nat,
            supersedes : Haats \cup {None}]

ASSUME NullAssumption == None \notin ElevationRow

(* Heights and powers are numbers; a snapshot may lack them.               *)
ASSUME InputAssumption ==
    /\ \A location \in Locations : ReliefOf[location] \in Int
    /\ \A i \in RfInputs :
           {InputOf[i].agl, InputOf[i].erp, InputOf[i].sensitivity}
               \subseteq Int \cup {None}

(* The configuration that this module reads: the provider, and whether     *)
(* exactly its source descriptor is in ICT_APPROVED_ELEVATION_SOURCES.     *)
SourceApproved == settings.provider # "disabled" /\ settings.approved

-----------------------------------------------------------------------------
(* build_query(): the distances at which a radial is sampled; the outer    *)
(* end is added when the step misses it.                                   *)
StepsInto(span, step) == span \div step
Distances(inner, outer, step) ==
    {inner + k * step : k \in 0..StepsInto(outer - inner, step)} \cup {outer}

(* validate_parameters() limits the grid by this count.                    *)
FlooredCount(inner, outer, step) == (outer - inner) \div step + 1
DistanceCount(inner, outer, step) ==
    (outer - inner) \div step + 1
        + (IF (outer - inner) % step = 0 THEN 0 ELSE 1)

-----------------------------------------------------------------------------
(* What the providers return.  The disabled one and every failure leave    *)
(* all samples missing; the synthetic one returns a fixture; USGS returns  *)
(* all points or, when one of its concurrent calls fails, none.            *)
AllMissing == [p \in Points |-> "missing"]
FetchPoints == {[p \in Points |-> "complete"], AllMissing}
Samples ==
    IF ~ SourceApproved THEN {AllMissing}
    ELSE IF settings.provider = "usgs" THEN FetchPoints
    ELSE Fixtures \cup {AllMissing}

(* _validate_batch(): the state that the samples amount to; a batch that   *)
(* claims another one is refused.                                          *)
AcquisitionState(samples) ==
    LET states == {samples[p] : p \in Points}
    IN  IF states = {"complete"} THEN "complete"
        ELSE IF states = {"out_of_coverage"} THEN "out_of_coverage"
        ELSE IF "complete" \notin states THEN "missing"
        ELSE "partial"

(* create_haat_calculation(): no HAAT without the site's own elevation and *)
(* some terrain; an excluded sample makes it partial.                      *)
Usable(samples) == {p \in TerrainPoints : samples[p] = "complete"}
HaatState(e) ==
    IF e.samples["site"] # "complete" \/ Usable(e.samples) = {}
    THEN "unavailable"
    ELSE IF Usable(e.samples) # TerrainPoints \/ e.state # "complete"
    THEN "partial"
    ELSE "complete"

-----------------------------------------------------------------------------
(* acquire_elevation_snapshot(): a row made for the same coordinates and   *)
(* source that is not stale is used again.  Here and below, a definition   *)
(* right before another with the same parameters is that one with a slip:  *)
(* no specification uses it, and its substitution shows that a property    *)
(* notices.                                                                *)
CachedForSite(e) ==
    /\ elevation[e] # None
    /\ elevation[e].provider = settings.provider
    /\ elevation[e].staleAt > clock
Cached(e) ==
    /\ elevation[e] # None
    /\ elevation[e].location = site
    /\ elevation[e].provider = settings.provider
    /\ elevation[e].staleAt > clock

NewElevation(samples) ==
    [location |-> site, provider |-> settings.provider, samples |-> samples,
     state |-> AcquisitionState(samples), staleAt |-> clock + TTL]

(* The calculation, from an elevation row and the live site.  The antenna  *)
(* height is read from the profile version, which has the value of its     *)
(* snapshot as long as it stays approved (see ProfileVersions).            *)
Height(i, state) ==
    IF state = "unavailable" THEN None ELSE InputOf[i].agl + ReliefOf[site]
NewHaat(i, e, row, previous) ==
    [location |-> site, provider |-> settings.provider, input |-> i,
     elevation |-> e, state |-> HaatState(row),
     height |-> Height(i, HaatState(row)), status |-> "draft",
     at |-> clock, supersedes |-> previous]

Analyzable(i) == i \notin archived /\ InputOf[i].agl # None

-----------------------------------------------------------------------------
HaatInit ==
    /\ site \in Locations
    /\ archived = {}
    /\ clock = 0
    /\ elevation = [e \in Elevations |-> None]
    /\ haat = [h \in Haats |-> None]

(* A calculation from a cached row ...                                     *)
HaatFromCache(h, i, e) ==
    /\ haat[h] = None
    /\ Analyzable(i)
    /\ Cached(e)
    /\ haat' = [haat EXCEPT ![h] = NewHaat(i, e, elevation[e], None)]
    /\ UNCHANGED <<site, archived, settings, clock, elevation>>

(* ... or from the provider's answer, which is stored with it; a retry     *)
(* always asks the provider.                                               *)
HaatFetched(h, i, e, samples, previous) ==
    /\ haat[h] = None
    /\ elevation[e] = None
    /\ Analyzable(i)
    /\ samples \in Samples
    /\ elevation' = [elevation EXCEPT ![e] = NewElevation(samples)]
    /\ haat' = [haat EXCEPT ![h] =
                   NewHaat(i, e, NewElevation(samples), previous)]
    /\ UNCHANGED <<site, archived, settings, clock>>

CreateHaat(h, i, e) ==
    \/ HaatFromCache(h, i, e)
    \/ \E samples \in Samples, refresh \in BOOLEAN :
          /\ refresh \/ \A c \in Elevations : ~ Cached(c)
          /\ HaatFetched(h, i, e, samples, None)

RetryHaat(h, old, e) ==
    /\ haat[old] # None
    /\ \E samples \in Samples : HaatFetched(h, haat[old].input, e, samples, old)

(* approve_haat_calculation(): under a lock of the row.                    *)
HaatApprovable(h) ==
    /\ haat[h] # None
    /\ haat[h].status = "draft"
    /\ haat[h].state = "complete"

ApproveHaat(h) ==
    /\ HaatApprovable(h)
    /\ haat' = [haat EXCEPT ![h].status = "approved"]
    /\ UNCHANGED <<site, archived, settings, clock, elevation>>

(* The site is moved, an input snapshot is archived, time passes, the      *)
(* server is restarted with another configuration.                         *)
EditSite(location) ==
    /\ site' = location
    /\ UNCHANGED <<archived, settings, clock, elevation, haat>>

ArchiveInput(i) ==
    /\ archived' = archived \cup {i}
    /\ UNCHANGED <<site, settings, clock, elevation, haat>>

Tick ==
    /\ clock < MaxTime
    /\ clock' = clock + 1
    /\ UNCHANGED <<site, archived, settings, elevation, haat>>

-----------------------------------------------------------------------------
HaatTypeOK ==
    /\ site \in Locations
    /\ archived \subseteq RfInputs
    /\ clock \in 0..MaxTime
    /\ elevation \in [Elevations -> ElevationRow \cup {None}]
    /\ haat \in [Haats -> HaatRow \cup {None}]

(* A calculation rests on elevations taken at the place it is about, from  *)
(* the source configured when it was made, and fresh at that time: the     *)
(* cache never answers for a site that has been moved meanwhile.           *)
ElevationFits ==
    \A h \in Haats : haat[h] # None =>
        LET e == elevation[haat[h].elevation]
        IN  /\ e.location = haat[h].location
            /\ e.provider = haat[h].provider
            /\ haat[h].at < e.staleAt
=============================================================================

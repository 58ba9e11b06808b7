-------------------------- MODULE FieldCalibration --------------------------
(***************************************************************************)
(* Field observations, their reviews, calibration sets and Phase 2         *)
(* validation bundles of rf_analysis (calibration.py,                      *)
(* phase2_validation.py) for one incident.                                 *)
(*                                                                         *)
(* Reviews, corrections and new calibration sets lock their observations   *)
(* and, through select_related(), the incident row: they exclude one       *)
(* another, and each is one action.  Approvals and runs lock only the set  *)
(* or the bundle and read observations and reviews unlocked; they take two *)
(* actions, between which reviews and corrections may be committed.        *)
(* Requests that are refused change nothing and are left out.              *)
(***************************************************************************)
EXTENDS Integers, Sequences, FiniteSets, SequencesExt

CONSTANTS
    Observations, Sets, Bundles,    \* ids of rows
    Workers,        \* server threads with an approval or a run under way
    Names,          \* names of calibration sets
    Forms,          \* observations that may be recorded (see FormType)
    Analyses,       \* HAAT, coverage and directional rows to choose from
    Contents,       \* of the approved revision: a traced and a contact part
    Settings,       \* configurations the server may be started with
    Meters,         \* precisions in meters that forms declare
    LatitudeStep,   \* the step in latitude for each of them
    LongitudeStep,  \* the step in longitude for each, by exact latitude
    Limit,          \* the largest latitude; twice that for longitudes
    Bounds,         \* minimum_samples, and four times the two ratios
    MaxReviews,     \* bound: reviews of one observation
    None

ASSUME BoundsAssumption ==
    /\ Limit \in Nat /\ MaxReviews \in Nat
    /\ Bounds \in [samples : Nat \ {0}, minimum : 1..4, maximum : Nat]
    /\ Bounds.maximum > Bounds.minimum
    /\ Settings \subseteq [method : BOOLEAN, profile : BOOLEAN, version : STRING]
    /\ Contents \subseteq [traced : STRING, contact : STRING]

(* A meter is a fixed part of a degree of latitude, but its part of a      *)
(* degree of longitude is divided by the cosine of the exact latitude.     *)
Latitudes == (0 - Limit)..Limit
Longitudes == (0 - 2 * Limit)..(2 * Limit)
Points == [latitude : Latitudes, longitude : Longitudes]

ASSUME StepsAssumption ==
    /\ Meters \subseteq Nat \ {0}
    /\ LatitudeStep \in [Meters -> Nat \ {0}]
    /\ \A m \in Meters, x \in Latitudes : LongitudeStep[m][x] \in Nat \ {0}

VARIABLES
    observation,    \* FieldObservation rows by id, or None
    reviews,        \* FieldObservationReview rows of each, oldest first
    set,            \* CalibrationSet rows with their links, or None
    bundle,         \* Phase2ValidationBundle rows, or None
    plan,           \* what the approved revision holds
    expired,        \* the elevation snapshot is stale
    settings,       \* which allowlists name the built-in methods
    pending         \* what each worker is doing

vars == <<observation, reviews, set, bundle, plan, expired, settings, pending>>

-----------------------------------------------------------------------------
Decisions == {"approved", "excluded"}
Precisions == {"exact", "generalized", "redacted"}
Verdicts == {"within_tolerance", "outside_tolerance", "not_comparable"}
JobStates == {"queued", "complete", "failed", "cancelled"}
FailureCodes == {"source_changed", "stale_elevation",
                 "source_validation_failed", "validation_internal_error",
                 "cancelled_by_user"}

(* CreateFieldObservationSerializer: the RF input pair it names, the       *)
(* analysis it rests on, the distances (None if one is missing), where,    *)
(* and how precisely (location_precision_m).                               *)
FormType ==
    [rf : STRING, evidence : {"measured", "operator", "imported", "modeled"},
     recordId : BOOLEAN, analysis : Analyses \cup {None},
     pair : (Nat \X Nat) \cup {None}, precision : Precisions,
     meters : Meters \cup {None}, point : Points \cup {None}]

(* A grid includes the limits, at which rounded coordinates are cut.  The  *)
(* grid of a longitude is that of some latitude within half a step of the  *)
(* stored one: the code does not round by the latitude that it stores.     *)
GridOf(step, limit) == {k * step : k \in Latitudes \cup Longitudes}
                           \cup {limit, 0 - limit}
Near(x, y, step) == 2 * (x - y) <= step /\ 2 * (y - x) <= step
Coarse(point, meters) ==
    /\ point.latitude \in GridOf(LatitudeStep[meters], Limit)
    /\ \E x \in Latitudes :
           /\ Near(x, point.latitude, LatitudeStep[meters])
           /\ point.longitude \in GridOf(LongitudeStep[meters][x], 2 * Limit)

StoredAs(precision, meters, point) ==
    CASE precision = "redacted" -> meters = None /\ point = None
      [] precision = "generalized" -> point \in Points /\ Coarse(point, meters)
      [] precision = "exact" -> point \in Points

ObservationRow ==
    [rf : STRING, pair : (Nat \X Nat) \cup {None}, precision : Precisions,
     meters : Meters \cup {None}, point : Points \cup {None},
     supersedes : Observations \cup {None}]
ReviewRow == [decision : Decisions, reason : {"reviewed"}]
SetRow ==
    [name : Names, version : Nat \ {0}, status : {"draft", "approved"},
     state : {"complete", "insufficient_data"},
     links : UNION {[m -> Seq(ReviewRow)] : m \in SUBSET Observations},
     multiplier : Nat \cup {None}]
BundleRow ==
    [analysis : Analyses, set : Sets,
     input : [plan : STRING, version : STRING], job : JobStates,
     failure : FailureCodes \cup {None},
     result : [Verdicts -> Nat] \cup {None},
     status : {"draft", "approved"}, supersedes : Bundles \cup {None}]

(* Rows are finitely many; the serializer has read the forms.              *)
ASSUME RowsAssumption ==
    /\ IsFiniteSet(Observations) /\ IsFiniteSet(Sets)
    /\ Forms \subseteq FormType
    /\ None \notin SetRow

-----------------------------------------------------------------------------
(* _generalize_coordinates(): the nearest multiple of the step, ties to    *)
(* the even one, cut at the limit.                                         *)
NearestStep(x, step) ==
    LET k == x \div step
    IN  IF 2 * (x % step) > step \/ (2 * (x % step) = step /\ k % 2 = 1)
        THEN k + 1 ELSE k
Rounded(x, step, limit) ==
    LET g == NearestStep(x, step) * step
    IN  IF g > limit THEN limit ELSE IF g < 0 - limit THEN 0 - limit ELSE g
Generalized(point, meters) ==
    [latitude |-> Rounded(point.latitude, LatitudeStep[meters], Limit),
     longitude |-> Rounded(point.longitude,
                           LongitudeStep[meters][point.latitude], 2 * Limit)]

(* _sanitize_location(): what is stored.  As in the other modules, a       *)
(* definition right before another with the same parameters is that one    *)
(* with a slip, used only to show that a property notices.                 *)
SanitizedUnlessGiven(f) ==
    IF f.precision = "generalized" THEN Generalized(f.point, f.meters) ELSE f.point
SanitizedLocation(f) ==
    CASE f.precision = "redacted" -> None
      [] f.precision = "generalized" -> Generalized(f.point, f.meters)
      [] f.precision = "exact" -> f.point
SanitizedPrecision(f) == IF f.precision = "redacted" THEN None ELSE f.meters

(* _validate_sources(), and the location's own requirement.                *)
SourcesAccepted(f) ==
    /\ f.evidence = "modeled" => f.analysis # None
    /\ f.evidence = "imported" => f.recordId
    /\ IF f.analysis = None THEN TRUE
       ELSE f.analysis.approved /\ f.analysis.rf = f.rf
LocationAccepted(f) ==
    /\ f.precision # "redacted" => f.point # None /\ f.meters # None
    /\ f.precision = "generalized" => f.meters >= 100

Recorded(o) == observation[o] # None
Superseded(o) ==
    \E s \in Observations :
        IF Recorded(s) THEN observation[s].supersedes = o ELSE FALSE

(* create_field_observation(), with or without a row that it corrects.     *)
NewObservation(f, old) ==
    [rf |-> f.rf, pair |-> f.pair, precision |-> f.precision,
     meters |-> SanitizedPrecision(f), point |-> SanitizedLocation(f),
     supersedes |-> old]

CreateObservation(o, f, old) ==
    /\ ~ Recorded(o)
    /\ SourcesAccepted(f)
    /\ LocationAccepted(f)
    /\ old # None => Recorded(old) /\ ~ Superseded(old)
    /\ observation' = [observation EXCEPT ![o] = NewObservation(f, old)]
    /\ UNCHANGED <<reviews, set, bundle, plan, expired, settings, pending>>

(* The evidence digest of a review covers that of the review before it, so *)
(* the digest of the latest one stands for the whole history.              *)
DigestUnchained(history) == SubSeq(history, Len(history), Len(history))
Digest(history) == history

CurrentReviewState(o) ==
    IF reviews[o] = <<>> THEN "pending" ELSE Last(reviews[o]).decision

(* review_field_observation().                                             *)
Reviewable(o, decision) ==
    /\ Recorded(o)
    /\ decision = "approved" => ~ Superseded(o)
    /\ CurrentReviewState(o) # decision

ReviewObservation(o, decision) ==
    /\ Reviewable(o, decision)
    /\ Len(reviews[o]) < MaxReviews
    /\ reviews' = [reviews EXCEPT ![o] =
                      Append(@, [decision |-> decision, reason |-> "reviewed"])]
    /\ UNCHANGED <<observation, set, bundle, plan, expired, settings, pending>>

-----------------------------------------------------------------------------
(* create_calibration_set().  Ratios are counted in quarters, rounded down.*)
Ratio(pair) == (4 * pair[1]) \div pair[2]
HasPair(o) ==
    IF observation[o].pair = None THEN FALSE
    ELSE observation[o].pair[1] > 0 /\ observation[o].pair[2] > 0
Included(o) ==
    /\ HasPair(o)
    /\ Ratio(observation[o].pair) \in Bounds.minimum..Bounds.maximum

(* _median(), twice the value so that it stays whole.                      *)
Ordered(values) ==
    LET order == CHOOSE p \in Bijection(DOMAIN values, DOMAIN values) :
            \A i, j \in DOMAIN values : i < j => values[p[i]] <= values[p[j]]
    IN  [i \in DOMAIN values |-> values[order[i]]]
Median(values) ==
    LET ordered == Ordered(values)
        midpoint == Len(values) \div 2
    IN  IF Len(values) % 2 = 1 THEN 2 * ordered[midpoint + 1]
        ELSE ordered[midpoint] + ordered[midpoint + 1]

Fitted(members) == {o \in members : Included(o)}
Ratios(members) ==
    LET os == SetToSeq(Fitted(members))
    IN  [k \in 1..Len(os) |-> Ratio(observation[os[k]].pair)]
CalculationState(members) ==
    IF Cardinality(Fitted(members)) >= Bounds.samples
    THEN "complete" ELSE "insufficient_data"

SetRows == {c \in Sets : set[c] # None}
NextVersion(name) ==
    LET numbers == {set[c].version : c \in {d \in SetRows : set[d].name = name}}
    IN  1 + (IF numbers = {} THEN 0 ELSE Max(numbers))

Selectable(members) ==
    /\ members # {}
    /\ \A o \in members : /\ Recorded(o)
                          /\ ~ Superseded(o)
                          /\ CurrentReviewState(o) = "approved"
NewSet(name, members) ==
    [name |-> name, version |-> NextVersion(name), status |-> "draft",
     state |-> CalculationState(members),
     links |-> [o \in members |-> Digest(reviews[o])],
     multiplier |-> IF CalculationState(members) = "complete"
                    THEN Median(Ratios(members)) ELSE None]

CreateSet(c, name, members) ==
    /\ set[c] = None
    /\ Selectable(members)
    /\ set' = [set EXCEPT ![c] = NewSet(name, members)]
    /\ UNCHANGED <<observation, reviews, bundle, plan, expired, settings, pending>>

(* A link is as its set found it: the observation has no correction, and   *)
(* its latest review is the one that the set names.                        *)
LinkFresh(c, o) ==
    /\ ~ Superseded(o)
    /\ CurrentReviewState(o) = "approved"
    /\ Digest(reviews[o]) = set[c].links[o]
LinksFresh(c) == \A o \in DOMAIN set[c].links : LinkFresh(c, o)

-----------------------------------------------------------------------------
(* The row locks: one request at a time works on a set or a bundle.        *)
Idle(w) == pending[w] = None
Locked(kind, id) ==
    \E w \in Workers :
        IF Idle(w) THEN FALSE ELSE pending[w].on = kind /\ pending[w].id = id
Working(w, doing) == IF Idle(w) THEN FALSE ELSE pending[w].doing = doing

(* approve_calibration_set(): lock and check, then update.                 *)
BeginApproveSet(w, c) ==
    /\ Idle(w)
    /\ set[c] # None
    /\ ~ Locked("set", c)
    /\ set[c].status = "draft"
    /\ set[c].state = "complete"
    /\ settings.method
    /\ LinksFresh(c)
    /\ pending' = [pending EXCEPT ![w] =
           [doing |-> "approve_set", on |-> "set", id |-> c, sound |-> TRUE]]
    /\ UNCHANGED <<observation, reviews, set, bundle, plan, expired, settings>>

FinishApproveSet(w) ==
    /\ Working(w, "approve_set")
    /\ set' = [set EXCEPT ![pending[w].id].status = "approved"]
    /\ pending' = [pending EXCEPT ![w] = None]
    /\ UNCHANGED <<observation, reviews, bundle, plan, expired, settings>>

-----------------------------------------------------------------------------
(* _validate_source_chain().  Approved rows never change, so what it asks  *)
(* of the HAAT, coverage and directional rows depends on the selection     *)
(* only, and so do the digests that it recomputes from them.               *)
SourcesOf(a) ==
    /\ a.approved
    /\ a.complete
    /\ a.sameHaat
SetIgnored(c) == set[c] # None
SetReady(c) ==
    /\ set[c] # None
    /\ set[c].status = "approved"
    /\ set[c].state = "complete"
PairsMatch(a, c) == \A o \in DOMAIN set[c].links : observation[o].rf = a.rf
ChainValid(a, c) ==
    /\ SourcesOf(a)
    /\ SetReady(c)
    /\ ~ expired
    /\ PairsMatch(a, c)
    /\ LinksFresh(c)

(* _plan_snapshot() leaves contact names and remarks out; _input_snapshot()*)
(* adds the version of the application.  The sources it also names do not  *)
(* change.                                                                 *)
PlanSnapshot == plan.traced
InputSnapshot == [plan |-> PlanSnapshot, version |-> settings.version]

(* queue_validation_bundle().                                              *)
QueuedBundle(a, c, old) ==
    [analysis |-> a, set |-> c, input |-> InputSnapshot, job |-> "queued",
     failure |-> None, result |-> None, status |-> "draft", supersedes |-> old]

QueueBundle(b, a, c) ==
    /\ bundle[b] = None
    /\ IF set[c] = None THEN FALSE ELSE ChainValid(a, c)
    /\ bundle' = [bundle EXCEPT ![b] = QueuedBundle(a, c, None)]
    /\ UNCHANGED <<observation, reviews, set, plan, expired, settings, pending>>

RetryBundle(b, old) ==
    /\ bundle[b] = None
    /\ bundle[old] # None
    /\ bundle[old].job \in {"failed", "cancelled"}
    /\ ChainValid(bundle[old].analysis, bundle[old].set)
    /\ bundle' = [bundle EXCEPT ![b] =
                     QueuedBundle(bundle[old].analysis, bundle[old].set, old)]
    /\ UNCHANGED <<observation, reviews, set, plan, expired, settings, pending>>

-----------------------------------------------------------------------------
(* _distance_comparisons(): a verdict for each observation of the set, in  *)
(* quarters: 0.75 <= ratio <= 1.25.                                        *)
Verdict(o) ==
    IF ~ HasPair(o) THEN "not_comparable"
    ELSE LET p == observation[o].pair
         IN  IF 3 * p[2] <= 4 * p[1] /\ 4 * p[1] <= 5 * p[2]
             THEN "within_tolerance" ELSE "outside_tolerance"
ResultSnapshot(c) ==
    [v \in Verdicts |->
        Cardinality({o \in DOMAIN set[c].links : Verdict(o) = v})]

(* run_validation_bundle(): lock a queued bundle and validate its sources  *)
(* ...                                                                     *)
StartBundle(w, b) ==
    /\ Idle(w)
    /\ bundle[b] # None
    /\ ~ Locked("bundle", b)
    /\ bundle[b].job = "queued"
    /\ pending' = [pending EXCEPT ![w] =
           [doing |-> "run", on |-> "bundle", id |-> b,
            sound |-> ChainValid(bundle[b].analysis, bundle[b].set)]]
    /\ UNCHANGED <<observation, reviews, set, bundle, plan, expired, settings>>

(* ... then compare the inputs, look at the elevation and compute.         *)
FailedBundle(row, code) == [row EXCEPT !.job = "failed", !.failure = code]
BundleOutcomes(row, sound) ==
    {FailedBundle(row, "validation_internal_error"),
     IF ~ sound THEN FailedBundle(row, "source_validation_failed")
     ELSE IF InputSnapshot # row.input THEN FailedBundle(row, "source_changed")
     ELSE IF expired THEN FailedBundle(row, "stale_elevation")
     ELSE [row EXCEPT !.job = "complete", !.result = ResultSnapshot(row.set)]}

(* save() refuses to change a job that has ended.                          *)
FinishBundle(w) ==
    /\ Working(w, "run")
    /\ LET b == pending[w].id
       IN  /\ bundle[b].job = "queued"
           /\ \E row \in BundleOutcomes(bundle[b], pending[w].sound) :
                  bundle' = [bundle EXCEPT ![b] = row]
    /\ pending' = [pending EXCEPT ![w] = None]
    /\ UNCHANGED <<observation, reviews, set, plan, expired, settings>>

Cancelled(row) ==
    [row EXCEPT !.job = "cancelled", !.failure = "cancelled_by_user"]

CancelBundle(b) ==
    /\ bundle[b] # None
    /\ ~ Locked("bundle", b)
    /\ bundle[b].job = "queued"
    /\ bundle' = [bundle EXCEPT ![b] = Cancelled(@)]
    /\ UNCHANGED <<observation, reviews, set, plan, expired, settings, pending>>

(* stale_reasons() is empty.                                               *)
Stale(b) ==
    \/ PlanSnapshot # bundle[b].input.plan
    \/ expired
    \/ ~ LinksFresh(bundle[b].set)

BeginApproveBundle(w, b) ==
    /\ Idle(w)
    /\ bundle[b] # None
    /\ ~ Locked("bundle", b)
    /\ bundle[b].status = "draft"
    /\ bundle[b].job = "complete"
    /\ ~ Stale(b)
    /\ settings.profile
    /\ pending' = [pending EXCEPT ![w] =
           [doing |-> "approve_bundle", on |-> "bundle", id |-> b, sound |-> TRUE]]
    /\ UNCHANGED <<observation, reviews, set, bundle, plan, expired, settings>>

FinishApproveBundle(w) ==
    /\ Working(w, "approve_bundle")
    /\ bundle' = [bundle EXCEPT ![pending[w].id].status = "approved"]
    /\ pending' = [pending EXCEPT ![w] = None]
    /\ UNCHANGED <<observation, reviews, set, plan, expired, settings>>

(* A request fails or its server stops: the transaction is undone.         *)
Abort(w) ==
    /\ ~ Idle(w)
    /\ pending' = [pending EXCEPT ![w] = None]
    /\ UNCHANGED <<observation, reviews, set, bundle, plan, expired, settings>>

(* The surroundings: an edit of the plan that overtakes its approval (see  *)
(* PlanRequests), the age of the elevations, and a restart.                *)
PlanChanges ==
    /\ plan' \in Contents
    /\ UNCHANGED <<observation, reviews, set, bundle, expired, settings, pending>>

ElevationExpires ==
    /\ expired' = TRUE
    /\ UNCHANGED <<observation, reviews, set, bundle, plan, settings, pending>>

Restart ==
    /\ settings' \in Settings
    /\ pending' = [w \in Workers |-> None]
    /\ UNCHANGED <<observation, reviews, set, bundle, plan, expired>>

-----------------------------------------------------------------------------
Init ==
    /\ observation = [o \in Observations |-> None]
    /\ reviews = [o \in Observations |-> <<>>]
    /\ set = [c \in Sets |-> None]
    /\ bundle = [b \in Bundles |-> None]
    /\ plan \in Contents
    /\ expired = FALSE
    /\ settings \in Settings
    /\ pending = [w \in Workers |-> None]

Next ==
    \/ \E o \in Observations, f \in Forms, old \in Observations \cup {None} :
          CreateObservation(o, f, old)
    \/ \E o \in Observations, d \in Decisions : ReviewObservation(o, d)
    \/ \E c \in Sets, name \in Names, members \in SUBSET Observations :
          CreateSet(c, name, members)
    \/ \E w \in Workers, c \in Sets : BeginApproveSet(w, c)
    \/ \E w \in Workers : FinishApproveSet(w)
    \/ \E b \in Bundles, a \in Analyses, c \in Sets : QueueBundle(b, a, c)
    \/ \E b, old \in Bundles : RetryBundle(b, old)
    \/ \E w \in Workers, b \in Bundles : StartBundle(w, b)
    \/ \E w \in Workers : FinishBundle(w)
    \/ \E b \in Bundles : CancelBundle(b)
    \/ \E w \in Workers, b \in Bundles : BeginApproveBundle(w, b)
    \/ \E w \in Workers : FinishApproveBundle(w)
    \/ \E w \in Workers : Abort(w)
    \/ PlanChanges
    \/ ElevationExpires
    \/ Restart

Spec == Init /\ [][Next]_vars

-----------------------------------------------------------------------------
(* Rows have their types.  A withheld location leaves nothing, and a       *)
(* generalized one is on a grid of the declared precision: in latitude a   *)
(* fixed one, in longitude that of a latitude near the stored one.         *)
TypeOK ==
    /\ \A o \in Observations : Recorded(o) =>
           /\ observation[o] \in ObservationRow
           /\ StoredAs(observation[o].precision, observation[o].meters,
                       observation[o].point)
    /\ \A o \in Observations, k \in 1..MaxReviews :
           k <= Len(reviews[o]) => reviews[o][k] \in ReviewRow
    /\ \A c \in SetRows :
           /\ set[c].version \in 1..Cardinality(Sets)
           /\ DOMAIN set[c].links \subseteq Observations
           /\ set[c].multiplier # None => set[c].multiplier \in Nat
    /\ bundle \in [Bundles -> BundleRow \cup {None}]
    /\ plan \in Contents /\ expired \in BOOLEAN

(* Evidence that has gone stale stays stale: an observation that is        *)
(* excluded and approved again, or corrected, never makes an earlier       *)
(* calibration set look fresh, because review digests are chained.         *)
StaleForGood ==
    [][\A c \in SetRows : ~ LinksFresh(c) => ~ LinksFresh(c)']_vars

(* A bundle only ever rests on an approved set with enough usable          *)
(* observations, all of the RF pair of the bundle's own analyses, which    *)
(* share one HAAT calculation.                                             *)
BundlesSound ==
    \A b \in Bundles : bundle[b] # None =>
        LET c == bundle[b].set
        IN  /\ set[c].status = "approved"
            /\ Cardinality(Fitted(DOMAIN set[c].links)) >= Bounds.samples
            /\ \A o \in DOMAIN set[c].links :
                   observation[o].rf = bundle[b].analysis.rf
            /\ bundle[b].analysis.sameHaat
=============================================================================

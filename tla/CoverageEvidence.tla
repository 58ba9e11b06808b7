-------------------------- MODULE CoverageEvidence --------------------------
(***************************************************************************)
(* Coverage estimates and directional analyses of rf_analysis              *)
(* (coverage.py, directional.py): each is made from an approved, complete  *)
(* HAAT calculation, then approved if the engine, preset and rule are on   *)
(* the server's allowlists.  Creating one locks the HAAT row and the rows  *)
(* joined to it, approving one locks its own row: both are single actions. *)
(***************************************************************************)
EXTENDS HaatEvidence

CONSTANTS
    Coverages,      \* ids of CoverageEstimate rows
    Directionals,   \* ids of DirectionalCoverageAnalysis rows
    Bands,          \* frequencies inside a reviewed band group
    MarginOf,       \* the margin of each environment, in dB
    PresetOf        \* the configured presets

(* The engine refuses a preset with another rounding, or without numbers.  *)
ASSUME PresetAssumption ==
    /\ \A environment \in DOMAIN MarginOf : MarginOf[environment] \in Int
    /\ \A preset \in DOMAIN PresetOf :
           LET p == PresetOf[preset]
           IN  p # None => /\ {p.fade, p.uncertainty, p.receiver, p.maximum} \subseteq Int
                           /\ p.rounding \in Nat \ {0}

VARIABLES
    coverage,       \* CoverageEstimate rows by id, or None
    directional     \* DirectionalCoverageAnalysis rows by id, or None

coverageVars == <<coverage, directional>>

-----------------------------------------------------------------------------
EstimateResult ==
    [state : {"complete", "unsupported"}, nominal : Nat \cup {None},
     conservative : Nat \cup {None}, optimistic : Nat \cup {None}]
CoverageRow == [haat : Haats, center : Locations, preset : DOMAIN PresetOf,
                range : EstimateResult, status : {"draft", "approved"}]
DirectionalRow ==
    [haat : Haats, subscriber : RfInputs, center : Locations,
     preset : DOMAIN PresetOf, state : {"complete", "unsupported"},
     out : Nat \cup {None}, in : Nat \cup {None}, twoWay : Nat \cup {None},
     limit : {"talk_out", "talk_in", "equal", "none"},
     status : {"draft", "approved"}]

-----------------------------------------------------------------------------
(* ProvisionalFsplHorizonEngine.calculate().  Distances are in units in    *)
(* which the free-space budget is linear in dB; only that it falls with    *)
(* the margin matters.                                                     *)
Lesser(a, b) == IF a <= b THEN a ELSE b
Greater(a, b) == IF a >= b THEN a ELSE b

Budget(r, margin) == Greater(0, r.erp - r.sensitivity - margin)

(* quantize() rounds half to even.                                         *)
RoundHalfEven(d, q) ==
    LET k == d \div q
    IN  IF 2 * (d % q) > q \/ (2 * (d % q) = q /\ k % 2 = 1)
        THEN (k + 1) * q ELSE k * q
BoundedAndRounded(d, horizon, p) ==
    Greater(p.rounding,
            RoundHalfEven(Lesser(Lesser(d, horizon), p.maximum), p.rounding))

Unsupported == [state |-> "unsupported", nominal |-> None,
                conservative |-> None, optimistic |-> None]
IsSupported(r) ==
    /\ r.frequency \in Bands
    /\ r.environment \in DOMAIN MarginOf
    /\ PresetOf[r.preset] # None
    /\ r.erp > 0
    /\ r.sensitivity < 0

Calculate(r) ==
    IF ~ IsSupported(r) THEN Unsupported
    ELSE LET p == PresetOf[r.preset]
             base == MarginOf[r.environment] + p.fade
             horizon == Greater(0, r.height) + r.receiver
             at(margin) == BoundedAndRounded(Budget(r, margin), horizon, p)
             nominal == at(base)
         IN  [state |-> "complete", nominal |-> nominal,
              conservative |-> Lesser(nominal, at(base + p.uncertainty)),
              optimistic |->
                  Greater(nominal, at(Greater(0, base - p.uncertainty)))]

(* configuration_is_approved(): engine and preset with their versions.     *)
PresetApproved(preset) == preset \in settings.presets

-----------------------------------------------------------------------------
(* A HAAT calculation that may be built upon.                              *)
Approvable(h) ==
    /\ haat[h] # None
    /\ haat[h].status = "approved"
    /\ haat[h].state = "complete"

CoverageInit ==
    /\ HaatInit
    /\ coverage = [c \in Coverages |-> None]
    /\ directional = [d \in Directionals |-> None]

CoverageRequest(h, environment, preset) ==
    LET i == InputOf[haat[h].input]
    IN  [frequency |-> i.tx, erp |-> i.erp, sensitivity |-> i.sensitivity,
         height |-> haat[h].height, environment |-> environment,
         preset |-> preset, receiver |->
             IF PresetOf[preset] = None THEN 0 ELSE PresetOf[preset].receiver]

(* create_coverage_estimate(): centred where the site is now.              *)
HasValues(i, fields) == \A f \in fields : InputOf[i][f] # None
NewCoverage(h, environment, preset) ==
    [haat |-> h, center |-> site, preset |-> preset,
     range |-> Calculate(CoverageRequest(h, environment, preset)),
     status |-> "draft"]

CreateCoverage(c, h, environment, preset) ==
    /\ coverage[c] = None
    /\ Approvable(h)
    /\ HasValues(haat[h].input, {"tx", "erp", "sensitivity"})
    /\ coverage' = [coverage EXCEPT ![c] = NewCoverage(h, environment, preset)]
    /\ UNCHANGED <<haatVars, directional>>

(* approve_coverage_estimate().                                            *)
CoverageApprovable(c) ==
    /\ coverage[c] # None
    /\ coverage[c].status = "draft"
    /\ coverage[c].range.state = "complete"
    /\ PresetApproved(coverage[c].preset)

ApproveCoverage(c) ==
    /\ CoverageApprovable(c)
    /\ coverage' = [coverage EXCEPT ![c].status = "approved"]
    /\ UNCHANGED <<haatVars, directional>>

-----------------------------------------------------------------------------
(* create_directional_analysis(): talk-out with the infrastructure's power *)
(* and the subscriber's receiver, talk-in the other way round.             *)
Path(sender, receiver, h, agl, environment, preset) ==
    Calculate([frequency |-> sender.tx, erp |-> sender.erp,
               sensitivity |-> receiver.sensitivity,
               height |-> haat[h].height, receiver |-> agl,
               environment |-> environment, preset |-> preset])

Directional(h, s, environment, preset) ==
    LET infra == InputOf[haat[h].input]
        sub == InputOf[s]
        out == Path(infra, sub, h, sub.agl, environment, preset).nominal
        in == Path(sub, infra, h, sub.agl, environment, preset).nominal
        outMatch == infra.tx = sub.rx
        inMatch == sub.tx = infra.rx
        both == outMatch /\ inMatch /\ out # None /\ in # None
    IN  [haat |-> h, subscriber |-> s, center |-> site, preset |-> preset,
         state |-> IF both THEN "complete" ELSE "unsupported",
         out |-> IF outMatch THEN out ELSE None,
         in |-> IF inMatch THEN in ELSE None,
         twoWay |-> IF both THEN Lesser(out, in) ELSE None,
         limit |-> IF ~ both THEN "none"
                   ELSE IF out < in THEN "talk_out"
                   ELSE IF in < out THEN "talk_in" ELSE "equal",
         status |-> "draft"]

DirectionalAllowed(h, s) ==
    /\ Approvable(h)
    /\ s \notin archived
    /\ s # haat[h].input
    /\ HasValues(haat[h].input, {"tx", "rx", "erp", "sensitivity"})
    /\ HasValues(s, {"tx", "rx", "erp", "sensitivity", "agl"})

CreateDirectional(d, h, s, environment, preset) ==
    /\ directional[d] = None
    /\ DirectionalAllowed(h, s)
    /\ directional' = [directional EXCEPT ![d] =
                          Directional(h, s, environment, preset)]
    /\ UNCHANGED <<haatVars, coverage>>

(* approve_directional_analysis().                                         *)
DirectionalApprovable(d) ==
    /\ directional[d] # None
    /\ directional[d].status = "draft"
    /\ directional[d].state = "complete"
    /\ PresetApproved(directional[d].preset)
    /\ settings.rule

ApproveDirectional(d) ==
    /\ DirectionalApprovable(d)
    /\ directional' = [directional EXCEPT ![d].status = "approved"]
    /\ UNCHANGED <<haatVars, coverage>>

-----------------------------------------------------------------------------
CoverageTypeOK ==
    /\ HaatTypeOK
    /\ coverage \in [Coverages -> CoverageRow \cup {None}]
    /\ directional \in [Directionals -> DirectionalRow \cup {None}]

(* Every estimate and analysis rests on a HAAT calculation that is         *)
(* approved and was computed from complete elevations, and those on        *)
(* elevations that fit: nothing is ever built upon partial terrain, or on  *)
(* the terrain of another place, source or time.                           *)
EvidenceChain ==
    LET sound(h) ==
            /\ haat[h].status = "approved"
            /\ elevation[haat[h].elevation].state = "complete"
    IN  /\ ElevationFits
        /\ \A c \in Coverages : coverage[c] # None => sound(coverage[c].haat)
        /\ \A d \in Directionals :
               directional[d] # None => sound(directional[d].haat)
=============================================================================

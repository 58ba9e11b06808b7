--------------------------- MODULE Deconfliction ---------------------------
(***************************************************************************)
(* RF deconfliction of an approved plan: the rule set of rules.py over a   *)
(* snapshot of the revision's assignments, the retained analyses, their    *)
(* approval, and the practitioner's dispositions of their findings.  The   *)
(* channel definitions that assignments select come from ChannelLibrary.   *)
(* An analysis is one READ COMMITTED transaction that holds the revision   *)
(* row; edits that passed the draft check before the approval still land   *)
(* after it (see PlanRequests).                                            *)
(***************************************************************************)
EXTENDS ChannelLibrary

CONSTANTS
    Assignments,    \* plan rows as approved, by id
    Plans,          \* revisions that may be approved: sequences of ids
    Analyses,       \* ids of DeconflictionAnalysis rows
    Analysts,       \* requests that create an analysis
    Threshold,      \* CLOSE_FREQUENCY_THRESHOLD_HZ
    MaxLate,        \* bound: edits that land after the approval
    MaxDispositions \* bound: dispositions recorded

VARIABLES
    revision,       \* the rows of the revision, by id, in position order
    unfrozen,       \* rows with a site link that has no snapshot
    approved,       \* whether the revision is approved
    closed,         \* whether the incident is archived
    analysis,       \* DeconflictionAnalysis rows by id, or None
    disposition,    \* DeconflictionFindingDisposition rows, in order
    analysing,      \* the rows each analyst has read, or None
    ruleGate,       \* ICT_APPROVED_DECONFLICTION_RULESETS has this version
    late            \* edits that have landed since the approval

planVars == <<revision, unfrozen, approved, closed, late>>
deconflictionVars == <<analysis, disposition, analysing>>

(* Frequencies, places and radii are whole numbers (of hertz and units of  *)
(* length), a row links a place once, and None is none of the values that  *)
(* it stands in for.                                                       *)
Areas == [at : Int, radius : Int]
ASSUME AssignmentAssumption ==
    /\ Threshold \in Nat
    /\ Plans \subseteq Seq(DOMAIN Assignments)
    /\ \A id \in DOMAIN Assignments :
          /\ Assignments[id].tx \in Int \cup {None}
          /\ \A l \in Assignments[id].links :
                l.at \in Int /\ \A ring \in l.rings : ring.radius \in Int
          /\ \A l, m \in Assignments[id].links : l.at = m.at => l = m
    /\ None \notin (Areas \X Areas) \cup {"RF-001", "RF-002"}

-----------------------------------------------------------------------------
(* Rows.  A place is a point on a line; an area is a place and a radius.   *)
(* _area_snapshot(): the operational and coordination rings of the frozen  *)
(* site links; a link without a snapshot or a radius out of range refuses  *)
(* the analysis.  A row that is gone has no links.                         *)
InRevision(id) == \E k \in DOMAIN revision : revision[k] = id
LinksNow(id) == IF InRevision(id) THEN Assignments[id].links ELSE {}
Judged(link) ==
    {r \in link.rings : r.type \in {"operational", "coordination"}}
AreasValid(id) ==
    /\ ~ InRevision(id) \/ id \notin unfrozen
    /\ \A link \in LinksNow(id) : \A ring \in Judged(link) : ring.radius >= 1
AreaSnapshot(id) ==
    UNION {{[at |-> link.at, radius |-> ring.radius] : ring \in Judged(link)} :
           link \in LinksNow(id)}

(* The expected access codes: those of the selected channel definition     *)
(* come before those of the subscriber profile, also when they are blank.  *)
Definition(channel) ==
    LET records == Payloads[release[channel[1]]].channels
    IN  records[CHOOSE k \in DOMAIN records :
                    records[k].identifier = channel[2]]
Selects(id) ==
    Assignments[id].channel # None =>
        Assignments[id].channel[1] \in DOMAIN release
CodeSource(row) ==
    IF row.channel # None
    THEN [rx |-> Definition(row.channel).rx, tx |-> Definition(row.channel).tx]
    ELSE row.profile

-----------------------------------------------------------------------------
(* rules.py.  Findings and statuses keep the rule, the rows and what the   *)
(* evidence is computed from.                                              *)
Distance(a, b) == IF a.at < b.at THEN b.at - a.at ELSE a.at - b.at

(* _overlap_evidence(): the pairs of areas that touch; the first one, in   *)
(* the order of the areas, is the evidence.                                *)
Overlaps(first, second) ==
    {pair \in first.areas \X second.areas :
        Distance(pair[1], pair[2]) <= pair[1].radius + pair[2].radius}
OverlapEvidence(first, second) ==
    IF Overlaps(first, second) = {} THEN None
    ELSE CHOOSE pair \in Overlaps(first, second) : TRUE

Separation(first, second) ==
    IF first.tx < second.tx THEN second.tx - first.tx ELSE first.tx - second.tx

Finding(rule, ids, evidence) == [rule |-> rule, ids |-> ids, evidence |-> evidence]

(* RF-001 and RF-002: equal or close transmit frequencies in areas that    *)
(* overlap.                                                                *)
OverlapRule(first, second) ==
    IF \/ first.tx = None \/ second.tx = None
       \/ OverlapEvidence(first, second) = None
    THEN None
    ELSE IF Separation(first, second) = 0 THEN "RF-001"
    ELSE IF Separation(first, second) <= Threshold THEN "RF-002"
    ELSE None
OverlapFindings(first, second) ==
    IF OverlapRule(first, second) = None THEN {}
    ELSE {Finding(OverlapRule(first, second), <<first.id, second.id>>,
                  <<first.tx, second.tx, OverlapEvidence(first, second),
                    first.txCode # second.txCode>>)}

Paired(row) == row.cls = "fixed_pair" /\ row.rx # None /\ row.tx # None

(* RF-003: the pair of one is the pair of the other reversed.              *)
ReversedFindings(first, second) ==
    IF /\ Paired(first) /\ Paired(second)
       /\ first.rx = second.tx /\ first.tx = second.rx
       /\ first.rx # first.tx
    THEN {Finding("RF-003", <<first.id, second.id>>,
                  <<first.rx, first.tx, second.rx, second.tx>>)}
    ELSE {}

(* RF-004: the same pair under another name.                               *)
DuplicateFindings(first, second) ==
    IF /\ Paired(first) /\ Paired(second)
       /\ first.name # second.name
       /\ first.rx = second.rx /\ first.tx = second.tx
    THEN {Finding("RF-004", <<first.id, second.id>>, <<first.rx, first.tx>>)}
    ELSE {}

(* _access_code_results(): the directions a classification uses, compared  *)
(* each with its own expected code.                                        *)
Directions(row) ==
    CASE row.cls = "transmit_only" -> {"tx"}
      [] row.cls = "receive_only"  -> {"rx"}
      [] OTHER                     -> {"rx", "tx"}
Entered(row) == [rx |-> row.rxCode, tx |-> row.txCode]
Expected(row, d) == IF row.codes = None THEN None ELSE row.codes[d]
Unevaluated(row) == {d \in Directions(row) : Expected(row, d) = None}
Mismatches(row) ==
    {d \in Directions(row) :
        Expected(row, d) # None /\ Entered(row)[d] # Expected(row, d)}
AccessFindings(row) ==
    IF Mismatches(row) = {} THEN {}
    ELSE {Finding("RF-008", <<row.id>>,
                  <<row.codes, Mismatches(row), Unevaluated(row)>>)}

(* The statuses: why a rule says nothing about a row.                      *)
Status(status, row, rules) ==
    [status |-> status, id |-> row.id, affects |-> rules]
NotFixed(row) == row.cls \notin {"fixed_pair", "transmit_only"}
AreaMissingForPairs(row) ==
    row.tx # None /\ row.cls = "fixed_pair" /\ row.areas = {}
AreaMissing(row) ==
    /\ row.tx # None
    /\ row.cls \in {"fixed_pair", "transmit_only"}
    /\ row.areas = {}
StatusesOf(row) ==
    (IF NotFixed(row)
     THEN {Status("RF-STATUS-001", row, {"RF-001", "RF-002", "RF-003", "RF-004"})}
     ELSE {})
    \cup (IF AreaMissing(row)
          THEN {Status("RF-007", row, {"RF-001", "RF-002"})} ELSE {})
    \cup (IF Unevaluated(row) # {}
          THEN {Status("RF-STATUS-002", row, {"RF-008"})} ELSE {})

(* evaluate(): every row, and every two rows in the order of the plan.     *)
PairFindings(rows) ==
    UNION {UNION {OverlapFindings(rows[j], rows[k])
                  \cup ReversedFindings(rows[j], rows[k])
                  \cup DuplicateFindings(rows[j], rows[k]) :
                      j \in 1..(k - 1)} : k \in DOMAIN rows}
Evaluate(rows) ==
    [findings |-> PairFindings(rows)
                  \cup UNION {AccessFindings(rows[k]) : k \in DOMAIN rows},
     statuses |-> UNION {StatusesOf(rows[k]) : k \in DOMAIN rows}]

(* The key of a finding is a digest of its rule, its rows and its evidence.*)
FindingKey(f) == <<f.rule, f.ids, f.evidence>>

-----------------------------------------------------------------------------
(* The plan around it: approval freezes the sites (every link has its      *)
(* snapshot), an edit that was under way deletes a row or links a site     *)
(* without one, the incident is archived.                                  *)
ApproveRevision ==
    /\ ~ approved
    /\ approved' = TRUE
    /\ UNCHANGED <<revision, unfrozen, closed, late>>

LateDelete(k) ==
    /\ approved
    /\ late < MaxLate
    /\ k \in DOMAIN revision
    /\ revision' = [j \in 1..(Len(revision) - 1) |->
                       revision[IF j < k THEN j ELSE j + 1]]
    /\ late' = late + 1
    /\ UNCHANGED <<unfrozen, approved, closed>>

LateLink(k) ==
    /\ approved
    /\ late < MaxLate
    /\ k \in DOMAIN revision
    /\ unfrozen' = unfrozen \cup {revision[k]}
    /\ late' = late + 1
    /\ UNCHANGED <<revision, approved, closed>>

ArchiveIncident ==
    /\ ~ closed
    /\ closed' = TRUE
    /\ UNCHANGED <<revision, unfrozen, approved, late>>

-----------------------------------------------------------------------------
(* create_deconfliction_analysis(): incident, approval and rows are        *)
(* checked with the revision locked, and the rows are read with the        *)
(* channel and profile they select ...                                     *)
BeginAnalysis(w) ==
    /\ analysing[w] = None
    /\ \A v \in Analysts : analysing[v] = None
    /\ ~ closed
    /\ approved
    /\ revision # <<>>
    /\ \A k \in DOMAIN revision : Selects(revision[k])
    /\ analysing' = [analysing EXCEPT ![w] = revision]
    /\ UNCHANGED <<analysis, disposition>>

(* ... then the site links of those rows, as they are now; the rules are   *)
(* applied, and input and result are stored together.                      *)
Snapshot(ids) ==
    [k \in DOMAIN ids |->
        LET row == Assignments[ids[k]]
        IN  [id |-> ids[k], cls |-> row.cls, name |-> row.name,
             rx |-> row.rx, tx |-> row.tx, rxCode |-> row.rxCode,
             txCode |-> row.txCode, codes |-> CodeSource(row),
             areas |-> AreaSnapshot(ids[k])]]
FinishAnalysis(w, a) ==
    /\ analysing[w] # None
    /\ analysis[a] = None
    /\ \A k \in DOMAIN analysing[w] : AreasValid(analysing[w][k])
    /\ analysis' = [analysis EXCEPT ![a] =
          [input |-> Snapshot(analysing[w]), status |-> "draft",
           result |-> Evaluate(Snapshot(analysing[w]))]]
    /\ analysing' = [analysing EXCEPT ![w] = None]
    /\ UNCHANGED disposition

RefuseAnalysis(w) ==
    /\ analysing[w] # None
    /\ analysing' = [analysing EXCEPT ![w] = None]
    /\ UNCHANGED <<analysis, disposition>>

(* approve_deconfliction_analysis(), under a lock of the row; the digests  *)
(* hold because nothing writes the row after its insert.                   *)
ApproveAnalysis(a) ==
    /\ analysis[a] # None
    /\ analysis[a].status = "draft"
    /\ ruleGate
    /\ analysis' = [analysis EXCEPT ![a].status = "approved"]
    /\ UNCHANGED <<disposition, analysing>>

(* disposition(): of a finding of this analysis, found by its key; earlier *)
(* dispositions stay.                                                      *)
Dispose(a, key) ==
    /\ analysis[a] # None
    /\ Len(disposition) < MaxDispositions
    /\ \E f \in analysis[a].result.findings :
          /\ FindingKey(f) = key
          /\ disposition' = Append(disposition,
                [analysis |-> a, key |-> key, rule |-> f.rule])
    /\ UNCHANGED <<analysis, analysing>>
KeysOf(a) ==
    IF analysis[a] = None THEN {}
    ELSE {FindingKey(f) : f \in analysis[a].result.findings}

-----------------------------------------------------------------------------
DeconflictionInit ==
    /\ revision \in Plans
    /\ unfrozen = {}
    /\ approved = FALSE
    /\ closed = FALSE
    /\ late = 0
    /\ analysis = [a \in Analyses |-> None]
    /\ disposition = <<>>
    /\ analysing = [w \in Analysts |-> None]
    /\ ruleGate \in BOOLEAN

-----------------------------------------------------------------------------
(* Two transmitters that are equal or close in frequency are reported, or  *)
(* they have areas that are known and apart, or a status of one of them    *)
(* says that the overlap rules did not judge it.  A row is known by the    *)
(* areas it has: a link without one beside a link with one goes unsaid.    *)
Apart(r, s) ==
    /\ r.areas # {} /\ s.areas # {}
    /\ \A a \in r.areas, b \in s.areas : Distance(a, b) > a.radius + b.radius
SilenceExplained ==
    \A n \in {m \in Analyses : analysis[m] # None} :
        LET input == analysis[n].input
            unjudged(id) == \E t \in analysis[n].result.statuses :
                t.id = id /\ {"RF-001", "RF-002"} \subseteq t.affects
            reported(r, s) == \E f \in analysis[n].result.findings :
                f.ids = <<r.id, s.id>> /\ f.rule \in {"RF-001", "RF-002"}
        IN  \A j, k \in DOMAIN input :
                j < k /\ input[j].tx # None /\ input[k].tx # None
                /\ input[j].tx - input[k].tx \in (-Threshold)..Threshold
                => \/ reported(input[j], input[k])
                   \/ Apart(input[j], input[k])
                   \/ unjudged(input[j].id) \/ unjudged(input[k].id)
=============================================================================

----------------------- MODULE FieldCalibrationProofs -----------------------
(***************************************************************************)
(* Calibration evidence, for every number of observations, sets, bundles   *)
(* and workers, every number of reviews and every observation recorded:    *)
(* what a set found when it was made is told apart from what holds now,    *)
(* for good, bundles rest on approved sets that never change, and what is  *)
(* stored of a location is as coarse as its row says.                      *)
(***************************************************************************)
EXTENDS FieldCalibration, FiniteSetTheorems, WellFoundedInduction, TLAPS

(* The reviews that review_field_observation() writes.                     *)
Written == {[decision |-> d, reason |-> "reviewed"] : d \in Decisions}

(* What a set keeps of a history of reviews: an approval as the latest,    *)
(* and the whole history or a shorter one.                                 *)
LinkInv(link, history) ==
    /\ link \in Seq(Written)
    /\ link # <<>>
    /\ link[Len(link)].decision = "approved"
    /\ link = history \/ Len(link) < Len(history)

SetColumns(r) ==
    r = [name |-> r.name, version |-> r.version, status |-> r.status,
         state |-> r.state, links |-> r.links, multiplier |-> r.multiplier]
SetInv(r) ==
    /\ SetColumns(r)
    /\ \A o \in DOMAIN r.links :
           /\ o \in Observations
           /\ Recorded(o)
           /\ LinkInv(r.links[o], reviews[o])
    /\ r.state = "complete" => Cardinality(Fitted(DOMAIN r.links)) >= Bounds.samples

BundleColumns(r) ==
    r = [analysis |-> r.analysis, set |-> r.set, input |-> r.input, job |-> r.job,
         failure |-> r.failure, result |-> r.result, status |-> r.status,
         supersedes |-> r.supersedes]
BundleInv(r) ==
    /\ BundleColumns(r)
    /\ r.set \in Sets
    /\ set[r.set] # None
    /\ set[r.set].status = "approved"
    /\ set[r.set].state = "complete"
    /\ \A o \in DOMAIN set[r.set].links : observation[o].rf = r.analysis.rf
    /\ r.analysis.sameHaat

(* The row lock of an approval: nobody else approves the set, which stays  *)
(* a draft until then.                                                     *)
ApprovesSet(w) == pending[w] # None /\ pending[w].doing = "approve_set"
PendingInv(w) ==
    /\ ApprovesSet(w) =>
          /\ pending[w].on = "set"
          /\ pending[w].id \in Sets
          /\ SetInv(set[pending[w].id])
          /\ set[pending[w].id].status = "draft"
          /\ \A v \in Workers \ {w} :
                ApprovesSet(v) => pending[v].id # pending[w].id
    /\ (pending[w] # None /\ pending[w].doing \in {"run", "approve_bundle"}) =>
          /\ pending[w].id \in Bundles
          /\ BundleInv(bundle[pending[w].id])

CalibrationInv ==
    /\ observation = [o \in Observations |-> observation[o]]
    /\ reviews \in [Observations -> Seq(Written)]
    /\ set = [c \in Sets |-> set[c]]
    /\ bundle = [b \in Bundles |-> bundle[b]]
    /\ pending = [w \in Workers |-> pending[w]]
    /\ \A c \in Sets : set[c] # None => SetInv(set[c])
    /\ \A b \in Bundles : bundle[b] # None => BundleInv(bundle[b])
    /\ \A w \in Workers : PendingInv(w)

-----------------------------------------------------------------------------
(* What every step leaves of the evidence: recorded observations stay as   *)
(* they are, and histories of reviews only grow.                           *)
Grows ==
    /\ \A o \in Observations : Recorded(o) => observation'[o] = observation[o]
    /\ \A o \in Observations : reviews'[o] = reviews[o] \/ Len(reviews[o]) < Len(reviews'[o])

LEMMA StepsGrow ==
    ASSUME CalibrationInv, [Next]_vars
    PROVE  Grows
<1>1. ASSUME NEW o \in Observations, NEW f \in Forms, NEW old, CreateObservation(o, f, old)
      PROVE  Grows
  BY <1>1 DEF CreateObservation, CalibrationInv, Grows
<1>2. ASSUME NEW o \in Observations, NEW d \in Decisions, ReviewObservation(o, d)
      PROVE  Grows
  <2>1. \A p \in Observations : p # o => reviews'[p] = reviews[p]
    BY <1>2 DEF ReviewObservation, CalibrationInv
  <2>2. PICK r : reviews'[o] = Append(reviews[o], r)
    BY <1>2 DEF ReviewObservation, CalibrationInv
  <2>3. Len(reviews'[o]) = Len(reviews[o]) + 1
    BY <2>2 DEF CalibrationInv
  <2>4. Len(reviews[o]) \in Nat
    BY DEF CalibrationInv
  <2> QED
    BY <1>2, <2>1, <2>3, <2>4 DEF ReviewObservation, Grows
<1>3. CASE UNCHANGED <<observation, reviews>>
  BY <1>3 DEF Grows
<1> QED
  BY <1>1, <1>2, <1>3
     DEF Next, vars, CreateSet, BeginApproveSet, FinishApproveSet, QueueBundle,
         RetryBundle, StartBundle, FinishBundle, CancelBundle, BeginApproveBundle,
         FinishApproveBundle, Abort, PlanChanges, ElevationExpires, Restart

LEMMA FittedKept ==
    ASSUME Grows, NEW m, m \subseteq Observations, \A o \in m : Recorded(o)
    PROVE  Fitted(m)' = Fitted(m)
<1>1. \A o \in m : observation'[o] = observation[o]
  BY DEF Grows
<1> QED
  BY <1>1 DEF Fitted, Included, HasPair

LEMMA LinkKept ==
    ASSUME CalibrationInv, Grows, NEW o \in Observations, NEW link,
           LinkInv(link, reviews[o]), Len(reviews'[o]) \in Nat
    PROVE  LinkInv(link, reviews'[o])
<1>1. Len(reviews[o]) \in Nat /\ Len(link) \in Nat
  BY DEF CalibrationInv, LinkInv
<1> QED
  BY <1>1 DEF Grows, LinkInv

(* A set keeps its invariant under every step, its links being what they   *)
(* were.                                                                   *)
LEMMA SetKept ==
    ASSUME CalibrationInv, Grows, reviews' \in [Observations -> Seq(Written)],
           NEW r, SetInv(r), NEW n, SetColumns(n), n.links = r.links, n.state = r.state
    PROVE  SetInv(n)'
<1> DEFINE m == DOMAIN r.links
<1>1. m \subseteq Observations /\ \A o \in m : Recorded(o)
  BY DEF SetInv
<1>2. \A o \in m : Recorded(o)'
  BY <1>1 DEF Grows, Recorded
<1>3. ASSUME NEW o \in m PROVE LinkInv(n.links[o], reviews'[o])
  <2>1. o \in Observations /\ LinkInv(n.links[o], reviews[o])
    BY DEF SetInv
  <2>2. Len(reviews'[o]) \in Nat
    BY <2>1
  <2> QED
    BY <2>1, <2>2, LinkKept
<1>4. Fitted(m)' = Fitted(m)
  BY <1>1, FittedKept
<1>5. n.state = "complete" => Cardinality(Fitted(DOMAIN n.links)') >= Bounds.samples
  BY <1>4 DEF SetInv
<1> QED
  BY <1>1, <1>2, <1>3, <1>5 DEF SetInv, SetColumns, LinkInv

(* A set starts with the histories that it was made from.                  *)
LEMMA NewSetInv ==
    ASSUME CalibrationInv, NEW name, NEW members \in SUBSET Observations,
           Selectable(members)
    PROVE  SetInv(NewSet(name, members))
<1> SUFFICES ASSUME NEW n, n = NewSet(name, members) PROVE SetInv(n)
  OBVIOUS
<1>1. /\ SetColumns(n)
      /\ n.links = [o \in members |-> reviews[o]]
      /\ n.state = CalculationState(members)
  BY DEF NewSet, SetColumns, Digest
<1>2. ASSUME NEW o \in members
      PROVE  Recorded(o) /\ LinkInv(reviews[o], reviews[o])
  BY DEF Selectable, CurrentReviewState, Last, LinkInv, CalibrationInv
<1>3. n.state = "complete" => Cardinality(Fitted(members)) >= Bounds.samples
  BY <1>1 DEF CalculationState
<1> QED
  BY <1>1, <1>2, <1>3 DEF SetInv

(* A bundle keeps its invariant under every step that leaves its set.      *)
LEMMA BundleKept ==
    ASSUME CalibrationInv, Grows, NEW r, BundleInv(r), set'[r.set] = set[r.set],
           NEW n, BundleColumns(n), n.set = r.set, n.analysis = r.analysis
    PROVE  BundleInv(n)'
<1>1. SetInv(set[r.set])
  BY DEF CalibrationInv, BundleInv
<1>2. \A o \in DOMAIN set[r.set].links : observation'[o] = observation[o]
  BY <1>1 DEF SetInv, Grows
<1> QED
  BY <1>2 DEF BundleInv, BundleColumns

-----------------------------------------------------------------------------
LEMMA ReviewsTyped ==
    ASSUME CalibrationInv, [Next]_vars
    PROVE  reviews' \in [Observations -> Seq(Written)]
<1>1. ASSUME NEW o \in Observations, NEW d \in Decisions, ReviewObservation(o, d)
      PROVE  reviews' \in [Observations -> Seq(Written)]
  <2> DEFINE r == [decision |-> d, reason |-> "reviewed"]
  <2>1. r \in Written
    BY DEF Written
  <2>2. Append(reviews[o], r) \in Seq(Written)
    <3>1. reviews[o] \in Seq(Written)
      BY DEF CalibrationInv
    <3> HIDE DEF r
    <3> QED
      BY <2>1, <3>1
  <2>3. reviews' = [reviews EXCEPT ![o] = Append(reviews[o], r)]
    BY <1>1 DEF ReviewObservation
  <2>4. reviews \in [Observations -> Seq(Written)]
    BY DEF CalibrationInv
  <2> HIDE DEF r
  <2> QED
    BY <2>2, <2>3, <2>4
<1>2. CASE UNCHANGED reviews
  BY <1>2 DEF CalibrationInv
<1> QED
  BY <1>1, <1>2
     DEF Next, vars, CreateObservation, CreateSet, BeginApproveSet, FinishApproveSet,
         QueueBundle, RetryBundle, StartBundle, FinishBundle, CancelBundle,
         BeginApproveBundle, FinishApproveBundle, Abort, PlanChanges,
         ElevationExpires, Restart

(* A step that changes neither sets nor bundles nor requests.              *)
LEMMA EvidenceSteps ==
    ASSUME CalibrationInv, Grows, reviews' \in [Observations -> Seq(Written)],
           observation' = [o \in Observations |-> observation'[o]],
           UNCHANGED <<set, bundle, pending>>
    PROVE  CalibrationInv'
<1>1. ASSUME NEW c \in Sets, SetInv(set[c]) PROVE SetInv(set[c])'
  BY <1>1, SetKept DEF SetInv, SetColumns
<1>2. ASSUME NEW b \in Bundles, BundleInv(bundle[b]) PROVE BundleInv(bundle[b])'
  BY <1>2, BundleKept DEF BundleInv, BundleColumns
<1> QED
  BY <1>1, <1>2 DEF CalibrationInv, PendingInv, ApprovesSet

(* A step that leaves all rows alone and ends requests, or gives a worker  *)
(* a bundle to run or to approve.                                          *)
LEMMA BundleRequestSteps ==
    ASSUME CalibrationInv, UNCHANGED <<observation, reviews, set, bundle>>,
           pending' = [w \in Workers |-> pending'[w]],
           \A w \in Workers :
               \/ pending'[w] = pending[w]
               \/ pending'[w] = None
               \/ /\ pending'[w].doing \in {"run", "approve_bundle"}
                  /\ pending'[w].id \in Bundles
                  /\ BundleInv(bundle[pending'[w].id])
    PROVE  CalibrationInv'
<1>1. \A r : SetInv(r)' <=> SetInv(r)
  BY DEF SetInv, Recorded, Fitted, Included, HasPair
<1>2. \A r : BundleInv(r)' <=> BundleInv(r)
  BY DEF BundleInv
<1>3. ASSUME NEW w \in Workers PROVE PendingInv(w)'
  <2>1. CASE pending'[w] = pending[w]
    <3>1. \A v \in Workers : ApprovesSet(v)' => ApprovesSet(v) /\ pending'[v] = pending[v]
      BY DEF ApprovesSet
    <3> QED
      BY <1>1, <1>2, <2>1, <3>1 DEF CalibrationInv, PendingInv, ApprovesSet
  <2>2. CASE pending'[w] = None
    BY <2>2 DEF PendingInv, ApprovesSet
  <2>3. CASE /\ pending'[w].doing \in {"run", "approve_bundle"}
             /\ pending'[w].id \in Bundles
             /\ BundleInv(bundle[pending'[w].id])
    BY <1>2, <2>3 DEF PendingInv, ApprovesSet
  <2> QED
    BY <2>1, <2>2, <2>3
<1> QED
  BY <1>1, <1>2, <1>3 DEF CalibrationInv

LEMMA BeginApproveSetInv ==
    ASSUME CalibrationInv, NEW w \in Workers, NEW c \in Sets, BeginApproveSet(w, c)
    PROVE  CalibrationInv'
<1>1. /\ set[c] # None
      /\ set[c].status = "draft"
      /\ UNCHANGED <<observation, reviews, set, bundle>>
      /\ pending' = [pending EXCEPT ![w] =
             [doing |-> "approve_set", on |-> "set", id |-> c, sound |-> TRUE]]
  BY DEF BeginApproveSet
<1>2. \A v \in Workers : ApprovesSet(v) => pending[v].id # c
  BY DEF BeginApproveSet, Locked, Idle, ApprovesSet, CalibrationInv, PendingInv
<1>3. \A r : SetInv(r)' <=> SetInv(r)
  BY <1>1 DEF SetInv, Recorded, Fitted, Included, HasPair
<1>4. \A r : BundleInv(r)' <=> BundleInv(r)
  BY <1>1 DEF BundleInv
<1>5. ASSUME NEW v \in Workers PROVE PendingInv(v)'
  <2>1. CASE v = w
    <3>1. /\ pending'[v].doing = "approve_set"
          /\ pending'[v].on = "set"
          /\ pending'[v].id = c
      BY <1>1, <2>1 DEF CalibrationInv
    <3>2. \A u \in Workers \ {v} : pending'[u] = pending[u]
      BY <1>1, <2>1 DEF CalibrationInv
    <3>3. \A u \in Workers \ {v} : ApprovesSet(u)' => pending'[u].id # c
      BY <1>2, <3>2 DEF ApprovesSet
    <3>4. SetInv(set[c])
      BY <1>1 DEF CalibrationInv
    <3> QED
      BY <1>1, <1>3, <3>1, <3>3, <3>4 DEF PendingInv, ApprovesSet
  <2>2. CASE v # w
    <3>1. pending'[v] = pending[v] /\ PendingInv(v)
      BY <1>1, <2>2 DEF CalibrationInv
    <3>2. \A u \in Workers \ {v} :
             ApprovesSet(v) /\ ApprovesSet(u)' => pending'[u].id # pending[v].id
      BY <1>1, <1>2, <3>1 DEF CalibrationInv, PendingInv, ApprovesSet
    <3> QED
      BY <1>1, <1>3, <1>4, <3>1, <3>2 DEF PendingInv, ApprovesSet
  <2> QED
    BY <2>1, <2>2
<1>6. pending' = [v \in Workers |-> pending'[v]]
  BY <1>1 DEF CalibrationInv
<1> QED
  BY <1>1, <1>3, <1>4, <1>5, <1>6 DEF CalibrationInv

(* An approval finishes on a draft that is nobody else's, so on no set     *)
(* that a bundle rests on.                                                 *)
LEMMA FinishApproveSetInv ==
    ASSUME CalibrationInv, NEW w \in Workers, FinishApproveSet(w)
    PROVE  CalibrationInv'
<1> SUFFICES ASSUME NEW d, d = pending[w].id PROVE CalibrationInv'
  OBVIOUS
<1>1. /\ ApprovesSet(w)
      /\ UNCHANGED <<observation, reviews, bundle>>
      /\ set' = [set EXCEPT ![d].status = "approved"]
      /\ pending' = [pending EXCEPT ![w] = None]
  BY DEF FinishApproveSet, Working, Idle, ApprovesSet
<1>2. /\ d \in Sets
      /\ SetInv(set[d])
      /\ set[d].status = "draft"
      /\ \A v \in Workers \ {w} : ApprovesSet(v) => pending[v].id # d
  BY <1>1 DEF CalibrationInv, PendingInv
<1>3. /\ set' = [c \in Sets |-> set'[c]]
      /\ set'[d] = [set[d] EXCEPT !.status = "approved"]
      /\ \A c \in Sets \ {d} : set'[c] = set[c]
  BY <1>1, <1>2 DEF CalibrationInv
<1>4. reviews' \in [Observations -> Seq(Written)]
  BY <1>1 DEF CalibrationInv
<1>5. SetInv(set'[d])
  <2> SUFFICES ASSUME NEW n, n = [set[d] EXCEPT !.status = "approved"]
               PROVE  SetInv(n)
    BY <1>3
  <2>1. SetColumns(n) /\ n.links = set[d].links /\ n.state = set[d].state
    BY <1>2 DEF SetInv, SetColumns
  <2> QED
    BY <1>2, <2>1 DEF SetInv
<1>6. \A r : SetInv(r)' <=> SetInv(r)
  BY <1>1 DEF SetInv, Recorded, Fitted, Included, HasPair
<1>7. \A r : BundleInv(r) => BundleInv(r)'
  BY <1>1, <1>2, <1>3 DEF BundleInv
<1>8. \A c \in Sets : set'[c] # None => SetInv(set'[c])
  BY <1>3, <1>5, <1>6 DEF CalibrationInv
<1>9. \A b \in Bundles : bundle[b] # None => BundleInv(bundle[b])
  BY DEF CalibrationInv
<1>10. /\ pending' = [v \in Workers |-> pending'[v]]
       /\ pending'[w] = None
       /\ \A v \in Workers \ {w} : pending'[v] = pending[v]
  BY <1>1 DEF CalibrationInv
<1>11. ASSUME NEW v \in Workers PROVE PendingInv(v)'
  <2>1. CASE v = w
    BY <1>10, <2>1 DEF PendingInv, ApprovesSet
  <2>2. CASE v # w
    <3>1. pending'[v] = pending[v] /\ PendingInv(v)
      BY <1>10, <2>2 DEF CalibrationInv
    <3>2. \A u \in Workers : ApprovesSet(u)' => ApprovesSet(u) /\ pending'[u] = pending[u]
      BY <1>10 DEF ApprovesSet
    <3>3. ApprovesSet(v) => set'[pending[v].id] = set[pending[v].id]
      BY <1>2, <1>3, <2>2, <3>1 DEF PendingInv
    <3> QED
      BY <1>1, <1>6, <1>7, <3>1, <3>2, <3>3 DEF PendingInv, ApprovesSet
  <2> QED
    BY <2>1, <2>2
<1> QED
  BY <1>1, <1>3, <1>4, <1>6, <1>7, <1>8, <1>9, <1>10, <1>11 DEF CalibrationInv

LEMMA CreateSetInv ==
    ASSUME CalibrationInv, NEW c \in Sets, NEW name,
           NEW members \in SUBSET Observations, CreateSet(c, name, members)
    PROVE  CalibrationInv'
<1> SUFFICES ASSUME NEW n, n = NewSet(name, members) PROVE CalibrationInv'
  OBVIOUS
<1>1. /\ set[c] = None
      /\ Selectable(members)
      /\ set' = [set EXCEPT ![c] = n]
      /\ UNCHANGED <<observation, reviews, bundle, pending>>
  BY DEF CreateSet
<1>2. SetInv(n) /\ n.status = "draft"
  BY <1>1, NewSetInv DEF NewSet
<1>3. /\ set' = [d \in Sets |-> set'[d]]
      /\ set'[c] = n
      /\ \A d \in Sets \ {c} : set'[d] = set[d]
  BY <1>1 DEF CalibrationInv
<1>4. \A r : SetInv(r)' <=> SetInv(r)
  BY <1>1 DEF SetInv, Recorded, Fitted, Included, HasPair
<1>5. \A r : BundleInv(r) => BundleInv(r)'
  BY <1>1, <1>3 DEF BundleInv
<1>6. \A d \in Sets : set'[d] # None => SetInv(set'[d])
  BY <1>2, <1>3 DEF CalibrationInv
<1>7. \A b \in Bundles : bundle[b] # None => BundleInv(bundle[b])
  BY DEF CalibrationInv
<1>8. ASSUME NEW v \in Workers PROVE PendingInv(v)'
  <2>1. PendingInv(v) /\ \A u \in Workers : ApprovesSet(u)' <=> ApprovesSet(u)
    BY <1>1 DEF CalibrationInv, ApprovesSet
  <2>2. ApprovesSet(v) => /\ SetInv(set'[pending[v].id])
                          /\ set'[pending[v].id].status = "draft"
    BY <1>2, <1>3, <2>1 DEF PendingInv
  <2> QED
    BY <1>1, <1>4, <1>5, <2>1, <2>2 DEF PendingInv, ApprovesSet
<1> QED
  BY <1>1, <1>3, <1>4, <1>5, <1>6, <1>7, <1>8 DEF CalibrationInv

-----------------------------------------------------------------------------
(* A step that writes one bundle, and ends one request at most.            *)
LEMMA BundleSteps ==
    ASSUME CalibrationInv, UNCHANGED <<observation, reviews, set>>,
           NEW b \in Bundles, NEW row, BundleInv(row), bundle' = [bundle EXCEPT ![b] = row],
           pending' = [w \in Workers |-> pending'[w]],
           \A w \in Workers : pending'[w] = pending[w] \/ pending'[w] = None
    PROVE  CalibrationInv'
<1>1. \A r : SetInv(r)' <=> SetInv(r)
  BY DEF SetInv, Recorded, Fitted, Included, HasPair
<1>2. \A r : BundleInv(r)' <=> BundleInv(r)
  BY DEF BundleInv
<1>3. /\ bundle' = [a \in Bundles |-> bundle'[a]]
      /\ bundle'[b] = row
      /\ \A a \in Bundles \ {b} : bundle'[a] = bundle[a]
  BY DEF CalibrationInv
<1>4. \A a \in Bundles : bundle'[a] # None => BundleInv(bundle'[a])
  BY <1>3 DEF CalibrationInv
<1>5. ASSUME NEW w \in Workers PROVE PendingInv(w)'
  <2>1. CASE pending'[w] = pending[w]
    <3>1. PendingInv(w) /\ \A v \in Workers :
             ApprovesSet(v)' => ApprovesSet(v) /\ pending'[v] = pending[v]
      BY DEF CalibrationInv, ApprovesSet
    <3>2. (pending[w] # None /\ pending[w].doing \in {"run", "approve_bundle"}) =>
             BundleInv(bundle'[pending[w].id])
      BY <1>3, <3>1 DEF PendingInv
    <3> QED
      BY <1>1, <1>2, <2>1, <3>1, <3>2 DEF PendingInv, ApprovesSet
  <2>2. CASE pending'[w] = None
    BY <2>2 DEF PendingInv, ApprovesSet
  <2> QED
    BY <2>1, <2>2
<1> QED
  BY <1>1, <1>2, <1>3, <1>4, <1>5 DEF CalibrationInv

(* A bundle that has just been queued rests on a valid chain of sources.   *)
LEMMA QueuedBundleInv ==
    ASSUME NEW a, NEW c \in Sets, NEW old, ChainValid(a, c)
    PROVE  BundleInv(QueuedBundle(a, c, old))
<1> SUFFICES ASSUME NEW n, n = QueuedBundle(a, c, old) PROVE BundleInv(n)
  OBVIOUS
<1>1. BundleColumns(n) /\ n.set = c /\ n.analysis = a
  BY DEF QueuedBundle, BundleColumns
<1> QED
  BY <1>1 DEF BundleInv, ChainValid, SourcesOf, SetReady, PairsMatch

(* Ending or approving a bundle keeps its sources.                         *)
LEMMA EndedBundleInv ==
    ASSUME NEW r, BundleInv(r), NEW n,
           \/ \E code : n = FailedBundle(r, code)
           \/ \E result : n = [r EXCEPT !.job = "complete", !.result = result]
           \/ n = Cancelled(r)
           \/ n = [r EXCEPT !.status = "approved"]
    PROVE  BundleInv(n)
<1>1. BundleColumns(r)
  BY DEF BundleInv
<1>2. BundleColumns(n) /\ n.set = r.set /\ n.analysis = r.analysis
  <2>1. ASSUME NEW code, n = FailedBundle(r, code)
        PROVE  BundleColumns(n) /\ n.set = r.set /\ n.analysis = r.analysis
    BY <1>1, <2>1 DEF BundleColumns, FailedBundle
  <2>2. ASSUME NEW result, n = [r EXCEPT !.job = "complete", !.result = result]
        PROVE  BundleColumns(n) /\ n.set = r.set /\ n.analysis = r.analysis
    BY <1>1, <2>2 DEF BundleColumns
  <2>3. CASE n = Cancelled(r)
    BY <1>1, <2>3 DEF BundleColumns, Cancelled
  <2>4. CASE n = [r EXCEPT !.status = "approved"]
    BY <1>1, <2>4 DEF BundleColumns
  <2> QED
    BY <2>1, <2>2, <2>3, <2>4
<1> QED
  BY <1>2 DEF BundleInv

LEMMA EndedRequest ==
    ASSUME CalibrationInv, NEW w \in Workers, pending' = [pending EXCEPT ![w] = None]
    PROVE  /\ pending' = [v \in Workers |-> pending'[v]]
           /\ \A v \in Workers : pending'[v] = pending[v] \/ pending'[v] = None
  BY DEF CalibrationInv

LEMMA BeganRequest ==
    ASSUME CalibrationInv, NEW w \in Workers, NEW doing \in {"run", "approve_bundle"},
           NEW b \in Bundles, bundle[b] # None, NEW sound,
           UNCHANGED <<observation, reviews, set, bundle>>,
           pending' = [pending EXCEPT ![w] =
               [doing |-> doing, on |-> "bundle", id |-> b, sound |-> sound]]
    PROVE  CalibrationInv'
<1>1. /\ pending' = [v \in Workers |-> pending'[v]]
      /\ pending'[w].doing = doing /\ pending'[w].id = b
      /\ \A v \in Workers \ {w} : pending'[v] = pending[v]
  BY DEF CalibrationInv
<1>2. BundleInv(bundle[b])
  BY DEF CalibrationInv
<1> QED
  BY <1>1, <1>2, BundleRequestSteps

-----------------------------------------------------------------------------
LEMMA CalibrationInvInit == Init => CalibrationInv
  BY DEF Init, CalibrationInv, PendingInv, ApprovesSet

LEMMA CalibrationInvNext ==
    ASSUME CalibrationInv, [Next]_vars
    PROVE  CalibrationInv'
<1>1. Grows /\ reviews' \in [Observations -> Seq(Written)]
  BY StepsGrow, ReviewsTyped
<1>2. ASSUME NEW o \in Observations, NEW f \in Forms, NEW old, CreateObservation(o, f, old)
      PROVE  CalibrationInv'
  <2>1. observation' = [p \in Observations |-> observation'[p]]
    BY <1>2 DEF CreateObservation, CalibrationInv
  <2> QED
    BY <1>1, <1>2, <2>1, EvidenceSteps DEF CreateObservation
<1>3. CASE /\ UNCHANGED <<set, bundle, pending, observation>>
  <2>1. observation' = [p \in Observations |-> observation'[p]]
    BY <1>3 DEF CalibrationInv
  <2> QED
    BY <1>1, <1>3, <2>1, EvidenceSteps
<1>4. ASSUME NEW b \in Bundles, NEW a \in Analyses, NEW c \in Sets, QueueBundle(b, a, c)
      PROVE  CalibrationInv'
  <2>1. BundleInv(QueuedBundle(a, c, None))
    BY <1>4, QueuedBundleInv DEF QueueBundle
  <2>2. pending' = [w \in Workers |-> pending'[w]] /\ pending' = pending
    BY <1>4 DEF QueueBundle, CalibrationInv
  <2> QED
    BY <1>4, <2>1, <2>2, BundleSteps DEF QueueBundle
<1>5. ASSUME NEW b \in Bundles, NEW old \in Bundles, RetryBundle(b, old)
      PROVE  CalibrationInv'
  <2> DEFINE row == QueuedBundle(bundle[old].analysis, bundle[old].set, old)
  <2>1. bundle[old].set \in Sets
    BY <1>5 DEF RetryBundle, CalibrationInv, BundleInv
  <2>2. BundleInv(row)
    BY <1>5, <2>1, QueuedBundleInv DEF RetryBundle
  <2>3. pending' = [w \in Workers |-> pending'[w]] /\ pending' = pending
    BY <1>5 DEF RetryBundle, CalibrationInv
  <2> QED
    BY <1>5, <2>2, <2>3, BundleSteps DEF RetryBundle
<1>6. ASSUME NEW w \in Workers, NEW b \in Bundles, StartBundle(w, b) PROVE CalibrationInv'
  BY <1>6, BeganRequest DEF StartBundle
<1>7. ASSUME NEW w \in Workers, NEW b \in Bundles, BeginApproveBundle(w, b)
      PROVE  CalibrationInv'
  BY <1>7, BeganRequest DEF BeginApproveBundle
<1>8. ASSUME NEW w \in Workers, FinishBundle(w) PROVE CalibrationInv'
  <2>1. pending[w] # None /\ pending[w].doing = "run"
    BY <1>8 DEF FinishBundle, Working, Idle
  <2>2. pending[w].id \in Bundles /\ BundleInv(bundle[pending[w].id])
    BY <2>1 DEF CalibrationInv, PendingInv
  <2>3. PICK row \in BundleOutcomes(bundle[pending[w].id], pending[w].sound) :
          bundle' = [bundle EXCEPT ![pending[w].id] = row]
    BY <1>8 DEF FinishBundle
  <2>4. BundleInv(row)
    <3>1. \/ \E code : row = FailedBundle(bundle[pending[w].id], code)
          \/ \E result : row = [bundle[pending[w].id] EXCEPT !.job = "complete",
                                                            !.result = result]
      BY <2>3 DEF BundleOutcomes
    <3> QED
      BY <2>2, <3>1, EndedBundleInv
  <2> QED
    BY <1>8, <2>2, <2>3, <2>4, EndedRequest, BundleSteps DEF FinishBundle
<1>9. ASSUME NEW b \in Bundles, CancelBundle(b) PROVE CalibrationInv'
  <2>1. BundleInv(Cancelled(bundle[b]))
    BY <1>9, EndedBundleInv DEF CancelBundle, CalibrationInv
  <2>2. pending' = [w \in Workers |-> pending'[w]] /\ pending' = pending
    BY <1>9 DEF CancelBundle, CalibrationInv
  <2>3. bundle' = [bundle EXCEPT ![b] = Cancelled(bundle[b])]
    BY <1>9 DEF CancelBundle
  <2> QED
    BY <1>9, <2>1, <2>2, <2>3, BundleSteps DEF CancelBundle
<1>10. ASSUME NEW w \in Workers, FinishApproveBundle(w) PROVE CalibrationInv'
  <2> DEFINE row == [bundle[pending[w].id] EXCEPT !.status = "approved"]
  <2>1. pending[w] # None /\ pending[w].doing = "approve_bundle"
    BY <1>10 DEF FinishApproveBundle, Working, Idle
  <2>2. pending[w].id \in Bundles /\ BundleInv(bundle[pending[w].id])
    BY <2>1 DEF CalibrationInv, PendingInv
  <2>3. BundleInv(row)
    BY <2>2, EndedBundleInv
  <2>4. bundle' = [bundle EXCEPT ![pending[w].id] = row]
    BY <1>10, <2>2 DEF FinishApproveBundle
  <2> QED
    BY <1>10, <2>2, <2>3, <2>4, EndedRequest, BundleSteps DEF FinishApproveBundle
<1>11. ASSUME NEW w \in Workers, Abort(w) PROVE CalibrationInv'
  BY <1>11, EndedRequest, BundleRequestSteps DEF Abort
<1>12. CASE Restart
  BY <1>12, BundleRequestSteps DEF Restart
<1> QED
  BY <1>1, <1>2, <1>3, <1>4, <1>5, <1>6, <1>7, <1>8, <1>9, <1>10, <1>11, <1>12,
     CreateSetInv, BeginApproveSetInv, FinishApproveSetInv
     DEF Next, vars, ReviewObservation, PlanChanges, ElevationExpires

-----------------------------------------------------------------------------
(* The links of a set stay, while the reviews of an observation and what   *)
(* supersedes it only grow: links that are not fresh never are again.      *)
LEMMA StaleStep ==
    ASSUME CalibrationInv, [Next]_vars, NEW c \in Sets, set[c] # None, ~ LinksFresh(c)
    PROVE  ~ LinksFresh(c)'
<1>1. Grows /\ reviews' \in [Observations -> Seq(Written)]
  BY StepsGrow, ReviewsTyped
<1>2. set'[c].links = set[c].links
  <2>1. ASSUME NEW d \in Sets, NEW name, NEW members, CreateSet(d, name, members)
        PROVE  set'[c] = set[c]
    BY <2>1 DEF CreateSet, CalibrationInv
  <2>2. ASSUME NEW w \in Workers, FinishApproveSet(w) PROVE set'[c].links = set[c].links
    <3>1. SetColumns(set[c])
      BY DEF CalibrationInv, SetInv
    <3> QED
      BY <2>2, <3>1 DEF FinishApproveSet, CalibrationInv, SetColumns
  <2>3. CASE set' = set
    BY <2>3
  <2> QED
    BY <2>1, <2>2, <2>3
       DEF Next, vars, CreateObservation, ReviewObservation, BeginApproveSet,
           QueueBundle, RetryBundle, StartBundle, FinishBundle, CancelBundle,
           BeginApproveBundle, FinishApproveBundle, Abort, PlanChanges,
           ElevationExpires, Restart
<1>3. PICK o \in DOMAIN set[c].links : ~ LinkFresh(c, o)
  BY DEF LinksFresh
<1>4. o \in Observations /\ LinkInv(set[c].links[o], reviews[o])
  BY DEF CalibrationInv, SetInv
<1>5. CASE Superseded(o)
  <2>1. Superseded(o)'
    BY <1>1, <1>5 DEF Superseded, Grows, Recorded
  <2> QED
    BY <1>2, <2>1 DEF LinksFresh, LinkFresh
<1>6. CASE ~ Superseded(o)
  <2>1. set[c].links[o] # reviews[o]
    BY <1>3, <1>4, <1>6 DEF LinkFresh, LinkInv, CurrentReviewState, Last, Digest
  <2>2. Len(set[c].links[o]) < Len(reviews[o])
    BY <1>4, <2>1 DEF LinkInv
  <2>3. /\ Len(set[c].links[o]) \in Nat
        /\ Len(reviews[o]) \in Nat
        /\ Len(reviews'[o]) \in Nat
    BY <1>1, <1>4 DEF LinkInv, CalibrationInv
  <2>4. Len(set[c].links[o]) < Len(reviews'[o])
    BY <1>1, <1>4, <2>2, <2>3 DEF Grows
  <2>5. set'[c].links[o] # reviews'[o]
    BY <1>2, <2>3, <2>4
  <2> QED
    BY <1>2, <2>5 DEF LinksFresh, LinkFresh, Digest
<1> QED
  BY <1>5, <1>6

(* Stale evidence stays stale: because review digests are chained, no      *)
(* later review makes the history of an observation what a calibration set *)
(* found, and a correction is never taken back (what                       *)
(* approve_calibration_set() checks of each link).                         *)
THEOREM EvidenceStaleForGood == Spec => StaleForGood
<1>1. CalibrationInv /\ [Next]_vars =>
        [\A c \in SetRows : ~ LinksFresh(c) => ~ LinksFresh(c)']_vars
  BY StaleStep DEF SetRows
<1> QED
  BY <1>1, CalibrationInvInit, CalibrationInvNext, PTL DEF Spec, StaleForGood

(* A bundle rests on an approved set with enough usable observations of    *)
(* the pair of its own analyses, whatever approvals, reviews, retries and  *)
(* restarts race (_validate_source_chain() in phase2_validation.py).       *)
THEOREM BundlesAlwaysSound == Spec => []BundlesSound
<1>1. CalibrationInv => BundlesSound
  BY DEF CalibrationInv, BundleInv, SetInv, BundlesSound
<1> QED
  BY <1>1, CalibrationInvInit, CalibrationInvNext, PTL DEF Spec

-----------------------------------------------------------------------------
(* A finite set of numbers has a greatest one.                             *)
LEMMA GreatestExists ==
    ASSUME NEW S, IsFiniteSet(S), S \subseteq Nat, S # {}
    PROVE  \E x \in S : \A y \in S : x >= y
<1> DEFINE Misses == {T \in SUBSET S : T # {} /\ \A x \in T : \E y \in T : ~ (x >= y)}
<1>1. Misses = {}
  <2> SUFFICES ASSUME Misses # {} PROVE FALSE
    OBVIOUS
  <2>1. Misses \subseteq FiniteSubsetsOf(S)
    BY FS_Subset DEF FiniteSubsetsOf
  <2>2. PICK T \in Misses : \A U \in Misses : <<U, T>> \notin StrictSubsetOrdering(S)
    <3> HIDE DEF Misses
    <3> QED
      BY <2>1, FS_StrictSubsetOrderingWellFounded, WFMin
  <2>3. PICK x : x \in T /\ x \in Nat /\ T \in SUBSET S
    BY <2>2
  <2>4. T \ {x} \notin Misses
    <3>1. T \ {x} \in SUBSET S /\ T \ {x} # T
      BY <2>3
    <3>2. <<T \ {x}, T>> \in StrictSubsetOrdering(S)
      BY <2>3, <3>1 DEF StrictSubsetOrdering
    <3> QED
      BY <2>2, <3>2
  <2>5. CASE T \ {x} = {}
    <3>1. \A y \in T : x >= y
      BY <2>3, <2>5
    <3> QED
      BY <2>2, <2>3, <3>1
  <2>6. CASE T \ {x} # {}
    <3>1. PICK m \in T \ {x} : \A y \in T \ {x} : m >= y
      BY <2>3, <2>4, <2>6
    <3>2. m \in Nat /\ m \in T
      BY <2>3
    <3>3. CASE m >= x
      <4>1. \A y \in T : m >= y
        BY <3>1, <3>3
      <4> QED
        BY <2>2, <3>2, <4>1
    <3>4. CASE ~ (m >= x)
      <4>1. \A y \in T : x >= y
        BY <2>3, <3>1, <3>2, <3>4
      <4> QED
        BY <2>2, <2>3, <4>1
    <3> QED
      BY <3>3, <3>4
  <2> QED
    BY <2>5, <2>6
<1> QED
  BY <1>1

(* A factor of at least one brings no number closer to zero.               *)
LEMMA Farther ==
    ASSUME NEW k \in Int, NEW d \in Nat \ {0}
    PROVE  /\ k * d \in Int
           /\ k >= 0 => k <= k * d
           /\ k <= 0 => k * d <= k
  BY Z3

(* Division with a remainder, and the half that rounding decides by.       *)
LEMMA Division ==
    ASSUME NEW x \in Int, NEW d \in Nat \ {0}
    PROVE  /\ x \div d \in Int /\ x % d \in Int
           /\ 0 <= x % d /\ x % d < d
           /\ x = (x \div d) * d + (x % d)
  BY Z3

LEMMA NextMultiple ==
    ASSUME NEW k \in Int, NEW d \in Nat
    PROVE  (k + 1) * d = k * d + d /\ k * d \in Int
  BY Z3

(* The nearest multiple of a step is within half a step, and it is a       *)
(* multiple by a coordinate if it is on the map.                           *)
LEMMA RoundedNear ==
    ASSUME NEW step \in Nat \ {0}, NEW limit \in Nat,
           NEW x \in (0 - limit)..limit
    PROVE  /\ Rounded(x, step, limit) \in (0 - limit)..limit
           /\ Near(x, Rounded(x, step, limit), step)
           /\ \/ Rounded(x, step, limit) \in {limit, 0 - limit}
              \/ \E k \in (0 - limit)..limit : Rounded(x, step, limit) = k * step
<1>1. /\ x \in Int /\ x \div step \in Int /\ x % step \in Int
      /\ 0 <= x % step /\ x % step < step
      /\ x = (x \div step) * step + (x % step)
  BY Division
<1> DEFINE k == NearestStep(x, step)
           g == k * step
<1>2. \/ k = x \div step /\ 2 * (x % step) <= step
      \/ k = x \div step + 1 /\ 2 * (x % step) >= step
  BY <1>1 DEF NearestStep
<1>3. k \in Int
  BY <1>1, <1>2
<1>4. g \in Int /\ (k >= 0 => k <= g) /\ (k <= 0 => g <= k)
  BY <1>3, Farther
<1>5. 2 * (x - g) <= step /\ 2 * (g - x) <= step
  <2>1. CASE k = x \div step /\ 2 * (x % step) <= step
    <3>1. PICK q \in Int : q = (x \div step) * step
      BY <1>1, NextMultiple
    <3>2. x = q + (x % step) /\ g = q
      BY <1>1, <2>1, <3>1
    <3> HIDE DEF g, k
    <3> QED
      BY <1>1, <2>1, <3>2
  <2>2. CASE k = x \div step + 1 /\ 2 * (x % step) >= step
    <3>1. PICK q \in Int : q = (x \div step) * step
      BY <1>1, NextMultiple
    <3>2. x = q + (x % step)
      BY <1>1, <3>1
    <3>3. g = q + step
      BY <1>1, <2>2, <3>1, NextMultiple
    <3> HIDE DEF g, k
    <3> QED
      BY <1>1, <2>2, <3>2, <3>3
  <2> QED
    BY <1>2, <2>1, <2>2
<1>6. PICK r : r = Rounded(x, step, limit)
  OBVIOUS
<1>7. r = IF g > limit THEN limit ELSE IF g < 0 - limit THEN 0 - limit ELSE g
  BY <1>6 DEF Rounded, k
<1> HIDE DEF g
<1>8. /\ r \in (0 - limit)..limit
      /\ 2 * (x - r) <= step /\ 2 * (r - x) <= step
      /\ r = g \/ r \in {limit, 0 - limit}
  BY <1>4, <1>5, <1>7
<1>9. ASSUME r = g, r \notin {limit, 0 - limit}
      PROVE  k \in (0 - limit)..limit
  <2> HIDE DEF k
  <2> QED
    BY <1>3, <1>4, <1>8, <1>9
<1>10. r = g => r = k * step
  BY DEF g
<1> HIDE DEF k
<1> QED
  BY <1>6, <1>8, <1>9, <1>10 DEF Near

(* A generalized location is coarse in the sense of its precision, for     *)
(* every latitude, whatever the steps of their longitudes are.             *)
LEMMA GeneralizedCoarse ==
    ASSUME NEW point \in Points, NEW meters \in Meters
    PROVE  Generalized(point, meters) \in Points /\ Coarse(Generalized(point, meters), meters)
<1>1. /\ point.latitude \in Latitudes /\ point.longitude \in Longitudes
      /\ Limit \in Nat /\ 2 * Limit \in Nat /\ Limit <= 2 * Limit
      /\ 0 - 2 * Limit = 0 - (2 * Limit)
  BY BoundsAssumption DEF Points
<1>2. PICK a \in Nat \ {0} : a = LatitudeStep[meters]
  BY StepsAssumption
<1>3. PICK b \in Nat \ {0} : b = LongitudeStep[meters][point.latitude]
  BY <1>1, StepsAssumption
<1>4. PICK limit \in Nat : limit = 2 * Limit
  BY <1>1
<1>5. PICK lat : lat = Rounded(point.latitude, a, Limit)
  OBVIOUS
<1>6. PICK lon : lon = Rounded(point.longitude, b, limit)
  OBVIOUS
<1>7. /\ lat \in Latitudes /\ Near(point.latitude, lat, a)
      /\ lat \in {Limit, 0 - Limit} \/ \E k \in Latitudes : lat = k * a
  BY <1>1, <1>5, RoundedNear DEF Latitudes
<1>8. /\ lon \in Longitudes
      /\ lon \in {limit, 0 - limit} \/ \E k \in Longitudes : lon = k * b
  BY <1>1, <1>4, <1>6, RoundedNear DEF Longitudes
<1>9. lat \in GridOf(a, Limit) /\ lon \in GridOf(b, 2 * Limit)
  BY <1>4, <1>7, <1>8 DEF GridOf
<1>10. Generalized(point, meters) = [latitude |-> lat, longitude |-> lon]
  BY <1>2, <1>3, <1>4, <1>5, <1>6 DEF Generalized
<1>11. Coarse([latitude |-> lat, longitude |-> lon], meters)
  BY <1>1, <1>2, <1>3, <1>7, <1>9 DEF Coarse
<1> QED
  BY <1>7, <1>8, <1>10, <1>11 DEF Points

LEMMA ObservationTyped ==
    ASSUME NEW f \in Forms, LocationAccepted(f), NEW old \in Observations \cup {None}
    PROVE  /\ NewObservation(f, old) \in ObservationRow
           /\ StoredAs(NewObservation(f, old).precision, NewObservation(f, old).meters,
                       NewObservation(f, old).point)
<1>1. f \in FormType
  BY RowsAssumption
<1>2. f.rf \in STRING /\ f.pair \in (Nat \X Nat) \cup {None} /\ f.precision \in Precisions
      /\ f.point \in Points \cup {None} /\ f.meters \in Meters \cup {None}
  BY <1>1 DEF FormType
<1>3. PICK point : point = SanitizedLocation(f)
  OBVIOUS
<1>4. PICK meters : meters = SanitizedPrecision(f)
  OBVIOUS
<1>5. point \in Points \cup {None} /\ meters \in Meters \cup {None}
      /\ StoredAs(f.precision, meters, point)
  <2>1. CASE f.precision = "redacted"
    BY <1>3, <1>4, <2>1 DEF SanitizedLocation, SanitizedPrecision, StoredAs
  <2>2. CASE f.precision = "generalized"
    <3>1. f.point \in Points /\ f.meters \in Meters
      BY <1>2, <2>2 DEF LocationAccepted
    <3>2. point = Generalized(f.point, f.meters) /\ meters = f.meters
      BY <1>3, <1>4, <2>2 DEF SanitizedLocation, SanitizedPrecision
    <3> QED
      BY <2>2, <3>1, <3>2, GeneralizedCoarse DEF StoredAs
  <2>3. CASE f.precision = "exact"
    BY <1>2, <1>3, <1>4, <2>3
       DEF SanitizedLocation, SanitizedPrecision, StoredAs, LocationAccepted
  <2> QED
    BY <1>2, <2>1, <2>2, <2>3 DEF Precisions
<1>6. NewObservation(f, old) =
          [rf |-> f.rf, pair |-> f.pair, precision |-> f.precision,
           meters |-> meters, point |-> point, supersedes |-> old]
  BY <1>3, <1>4 DEF NewObservation
<1> QED
  BY <1>2, <1>5, <1>6 DEF ObservationRow

(* Induction over the naturals, for a set of them.                         *)
LEMMA NaturalsReached ==
    ASSUME NEW Good, 0 \in Good, \A n \in Nat : n \in Good => n + 1 \in Good
    PROVE  Nat \subseteq Good
<1> DEFINE Rest == Nat \ Good
<1> SUFFICES ASSUME Rest # {} PROVE FALSE
  OBVIOUS
<1>1. PICK m \in Rest : \A k \in Rest : ~ (<<k, m>> \in OpToRel(<, Nat))
  BY NatLessThanWellFounded, WFMin, Zenon
<1>2. \A k \in Rest : ~ (k < m)
  BY <1>1 DEF OpToRel
<1>3. m - 1 \in Nat /\ m - 1 < m /\ m = (m - 1) + 1
  OBVIOUS
<1> QED
  BY <1>2, <1>3

(* The indices of a sequence of numbers can be brought into the order of   *)
(* its values.                                                             *)
InOrder(values, m, S, p) ==
    /\ p \in [1..m -> S]
    /\ \A j \in S : \E i \in 1..m : p[i] = j
    /\ \A i, j \in 1..m : i < j => values[p[i]] <= values[p[j]]

LEMMA IndicesOrdered ==
    ASSUME NEW n \in Nat, NEW values \in [1..n -> Nat], NEW m \in Nat,
           NEW S \in SUBSET 1..n, Cardinality(S) = m
    PROVE  \E p : InOrder(values, m, S, p)
<1> DEFINE Good == {k \in Nat : \A T \in SUBSET 1..n :
                       Cardinality(T) = k => \E p : InOrder(values, k, T, p)}
<1>1. ASSUME NEW T \in SUBSET 1..n PROVE IsFiniteSet(T)
  <2>1. IsFiniteSet(1..n)
    BY FS_Interval
  <2> QED
    BY <2>1, FS_Subset
<1>2. 0 \in Good
  <2>1. ASSUME NEW T \in SUBSET 1..n, Cardinality(T) = 0
        PROVE  \E p : InOrder(values, 0, T, p)
    <3>1. T = {}
      BY <1>1, <2>1, FS_EmptySet
    <3>2. InOrder(values, 0, T, [i \in 1..0 |-> 0])
      BY <3>1 DEF InOrder
    <3> QED
      BY <3>2
  <2> QED
    BY <2>1
<1>3. ASSUME NEW k \in Nat, k \in Good PROVE k + 1 \in Good
  <2>1. ASSUME NEW T \in SUBSET 1..n, Cardinality(T) = k + 1
        PROVE  \E p : InOrder(values, k + 1, T, p)
    <3>1. T # {} /\ IsFiniteSet(T)
      BY <1>1, <2>1, FS_EmptySet
    <3>2. PICK last \in T : \A j \in T : values[j] <= values[last]
      <4> DEFINE V == {values[j] : j \in T}
      <4>1. V \subseteq Nat /\ V # {}
        BY <3>1
      <4>2. IsFiniteSet(V)
        <5>1. [j \in T |-> values[j]] \in Surjection(T, V)
          BY DEF Surjection
        <5> QED
          BY <3>1, <5>1, FS_Surjection
      <4>3. \E x \in V : \A y \in V : x >= y
        <5> HIDE DEF V
        <5> QED
          BY <4>1, <4>2, GreatestExists
      <4> QED
        BY <4>3
    <3> DEFINE U == T \ {last}
    <3>3. Cardinality(U) = k /\ U \in SUBSET 1..n
      <4>1. Cardinality(U) = Cardinality(T) - 1
        BY <3>1, FS_RemoveElement
      <4> QED
        BY <2>1, <4>1
    <3>4. PICK p : InOrder(values, k, U, p)
      BY <1>3, <3>3
    <3> DEFINE q == [i \in 1..(k + 1) |-> IF i = k + 1 THEN last ELSE p[i]]
    <3>5. /\ p \in [1..k -> U]
          /\ \A j \in U : \E i \in 1..k : p[i] = j
          /\ \A i, j \in 1..k : i < j => values[p[i]] <= values[p[j]]
      BY <3>4 DEF InOrder
    <3>6. /\ q[k + 1] = last
          /\ \A i \in 1..k : i \in 1..(k + 1) /\ q[i] = p[i] /\ q[i] \in U
          /\ \A i \in 1..(k + 1) : i = k + 1 \/ i \in 1..k
          /\ k + 1 \in 1..(k + 1)
      BY <3>5
    <3>7. q \in [1..(k + 1) -> T]
      BY <3>6
    <3> HIDE DEF q
    <3>8. \A j \in T : \E i \in 1..(k + 1) : q[i] = j
      <4>1. ASSUME NEW j \in T PROVE \E i \in 1..(k + 1) : q[i] = j
        <5>1. CASE j = last
          BY <3>6, <5>1
        <5>2. CASE j # last
          BY <3>5, <3>6, <5>2
        <5> QED
          BY <5>1, <5>2
      <4> QED
        BY <4>1
    <3>9. ASSUME NEW i \in 1..(k + 1), NEW j \in 1..(k + 1), i < j
          PROVE  values[q[i]] <= values[q[j]]
      <4>1. i \in 1..k /\ q[i] = p[i] /\ q[i] \in T
        BY <3>6, <3>9
      <4>2. CASE j = k + 1
        BY <3>2, <3>6, <4>1, <4>2
      <4>3. CASE j \in 1..k
        BY <3>5, <3>6, <3>9, <4>1, <4>3
      <4> QED
        BY <3>6, <4>2, <4>3
    <3>10. InOrder(values, k + 1, T, q)
      BY <3>7, <3>8, <3>9 DEF InOrder
    <3> QED
      BY <3>10
  <2> QED
    BY <2>1
<1>4. m \in Good
  <2> HIDE DEF Good
  <2> QED
    BY <1>2, <1>3, NaturalsReached
<1> QED
  BY <1>4

LEMMA OrderedTyped ==
    ASSUME NEW n \in Nat, NEW values \in [1..n -> Nat]
    PROVE  Ordered(values) \in [1..n -> Nat]
<1> DEFINE S == DOMAIN values
           Sorting(p) == \A i, j \in S : i < j => values[p[i]] <= values[p[j]]
<1>0. S = 1..n
  OBVIOUS
<1>1. Cardinality(S) = n /\ S \in SUBSET 1..n /\ IsFiniteSet(S)
  BY <1>0, FS_Interval
<1>2. \E p \in Bijection(S, S) : Sorting(p)
  <2>1. PICK p : InOrder(values, n, S, p)
    BY <1>1, IndicesOrdered
  <2>2. p \in Surjection(S, S) /\ Sorting(p)
    BY <1>0, <2>1 DEF InOrder, Surjection
  <2>3. p \in Injection(S, S)
    BY <1>1, <2>2, FS_Surjection
  <2> QED
    BY <2>2, <2>3 DEF Bijection
<1> DEFINE order == CHOOSE p \in Bijection(S, S) : Sorting(p)
<1>3. order \in Bijection(S, S)
  BY <1>2
<1>4. order \in [S -> S]
  BY <1>3 DEF Bijection, Injection
<1>5. Ordered(values) = [i \in S |-> values[order[i]]]
  BY Zenon DEF Ordered
<1> HIDE DEF order
<1> QED
  BY <1>0, <1>4, <1>5

LEMMA SequenceLength ==
    ASSUME NEW n \in Nat, NEW S, NEW s \in [1..n -> S]
    PROVE  s \in Seq(S) /\ Len(s) = n
<1>1. s \in Seq(S)
  OBVIOUS
<1>2. Len(s) \in Nat /\ DOMAIN s = 1..Len(s) /\ DOMAIN s = 1..n
  BY <1>1
<1>3. \A i \in Nat \ {0} : i <= n <=> i <= Len(s)
  BY <1>2
<1> QED
  BY <1>1, <1>2, <1>3

LEMMA RatiosTyped ==
    ASSUME NEW members \in SUBSET Observations
    PROVE  /\ Cardinality(Fitted(members)) \in Nat
           /\ Ratios(members) \in [1..Cardinality(Fitted(members)) -> Nat]
<1> DEFINE S == Fitted(members)
           n == Cardinality(S)
           os == SetToSeq(S)
<1>1. IsFiniteSet(S)
  <2>1. S \in SUBSET Observations
    BY DEF Fitted
  <2> QED
    BY <2>1, RowsAssumption, FS_Subset
<1>2. n \in Nat
  BY <1>1, FS_CardinalityType
<1>3. os \in [1..n -> S]
  <2>1. \E f \in [1..n -> S] : IsInjective(f)
    <3>1. ExistsBijection(1..n, S)
      BY <1>1, FS_CardinalityType
    <3> HIDE DEF n, S
    <3> QED
      BY <3>1 DEF ExistsBijection, Bijection, Injection
  <2> HIDE DEF n, S
  <2> QED
    BY <2>1 DEF os, SetToSeq, n
<1>4. Len(os) = n
  <2> HIDE DEF n, S, os
  <2> QED
    BY <1>2, <1>3, SequenceLength
<1>5. \A o \in S : Ratio(observation[o].pair) \in Nat
  BY BoundsAssumption DEF Fitted, Included
<1>6. Ratios(members) = [k \in 1..Len(os) |-> Ratio(observation[os[k]].pair)]
  BY DEF Ratios
<1> HIDE DEF os, n, S
<1>7. Ratios(members) \in [1..n -> Nat]
  BY <1>3, <1>4, <1>5, <1>6
<1> QED
  BY <1>2, <1>7 DEF n, S

(* The median of a sample is a number: an odd sample has a middle value,   *)
(* an even one two of them.                                                *)
LEMMA MedianTyped ==
    ASSUME NEW n \in Nat \ {0}, NEW values \in [1..n -> Nat]
    PROVE  Median(values) \in Nat
<1> DEFINE ordered == Ordered(values)
           midpoint == Len(values) \div 2
<1>1. ordered \in [1..n -> Nat]
  BY OrderedTyped
<1>2. Len(values) = n
  BY SequenceLength
<1>3. /\ midpoint \in Nat /\ midpoint + 1 \in 1..n
      /\ n % 2 # 1 => midpoint \in 1..n
  BY <1>2
<1>4. Median(values) = IF n % 2 = 1 THEN 2 * ordered[midpoint + 1]
                       ELSE ordered[midpoint] + ordered[midpoint + 1]
  BY <1>2 DEF Median
<1> HIDE DEF ordered, midpoint
<1> QED
  BY <1>1, <1>3, <1>4

LEMMA MultiplierTyped ==
    ASSUME NEW members \in SUBSET Observations, NEW name
    PROVE  NewSet(name, members).multiplier # None
               => NewSet(name, members).multiplier \in Nat
<1>1. CASE CalculationState(members) = "complete"
  <2>1. /\ Cardinality(Fitted(members)) \in Nat \ {0}
        /\ Ratios(members) \in [1..Cardinality(Fitted(members)) -> Nat]
    <3>1. Cardinality(Fitted(members)) >= Bounds.samples
      BY <1>1 DEF CalculationState
    <3>2. Bounds.samples \in Nat \ {0}
      BY BoundsAssumption
    <3> QED
      BY <3>1, <3>2, RatiosTyped
  <2>2. Median(Ratios(members)) \in Nat
    BY <2>1, MedianTyped
  <2> QED
    BY <1>1, <2>2 DEF NewSet
<1>2. CASE CalculationState(members) # "complete"
  BY <1>2 DEF NewSet
<1> QED
  BY <1>1, <1>2

-----------------------------------------------------------------------------
(* Sets are numbered one after the other within their name, so that no     *)
(* number exceeds the number of sets.                                      *)
RowsTyped ==
    /\ TypeOK
    /\ settings \in Settings
    /\ \A c \in SetRows : set[c] \in SetRow /\ set[c].version <= Cardinality(SetRows)
    /\ \A w \in Workers :
           /\ ApprovesSet(w) => set[pending[w].id] # None
           /\ (pending[w] # None /\ pending[w].doing \in {"run", "approve_bundle"}) =>
                  bundle[pending[w].id] \in BundleRow

LEMMA SetRowsFinite ==
    /\ IsFiniteSet(SetRows)
    /\ Cardinality(SetRows) \in Nat /\ Cardinality(SetRows) <= Cardinality(Sets)
    /\ Cardinality(Sets) \in Nat
<1>1. SetRows \in SUBSET Sets
  BY DEF SetRows
<1> QED
  BY <1>1, RowsAssumption, FS_Subset, FS_CardinalityType

LEMMA VersionTyped ==
    ASSUME RowsTyped, NEW name
    PROVE  NextVersion(name) \in 1..(Cardinality(SetRows) + 1)
<1> DEFINE Named == {d \in SetRows : set[d].name = name}
           numbers == {set[c].version : c \in Named}
<1>1. \A c \in SetRows : set[c].version \in 1..Cardinality(SetRows)
  BY SetRowsFinite DEF RowsTyped, SetRow
<1>2. numbers \subseteq 1..Cardinality(SetRows)
  BY <1>1
<1>3. IsFiniteSet(numbers)
  <2>1. IsFiniteSet(Named)
    BY SetRowsFinite, FS_Subset
  <2>2. [c \in Named |-> set[c].version] \in Surjection(Named, numbers)
    BY DEF Surjection
  <2> HIDE DEF Named, numbers
  <2> QED
    BY <2>1, <2>2, FS_Surjection
<1>4. NextVersion(name) = 1 + (IF numbers = {} THEN 0 ELSE Max(numbers))
  BY DEF NextVersion
<1> HIDE DEF numbers, Named
<1>5. numbers # {} => Max(numbers) \in numbers
  <2>1. numbers \subseteq Nat
    BY <1>2
  <2>2. numbers # {} => \E x \in numbers : \A y \in numbers : x >= y
    BY <1>3, <2>1, GreatestExists
  <2> QED
    BY <2>2 DEF Max
<1>6. CASE numbers = {}
  BY <1>4, <1>6, SetRowsFinite
<1>7. CASE numbers # {}
  <2>1. PICK m \in 1..Cardinality(SetRows) : m = Max(numbers)
    BY <1>2, <1>5, <1>7
  <2>2. NextVersion(name) = 1 + m
    BY <1>4, <1>7, <2>1
  <2> QED
    BY <2>2, SetRowsFinite
<1> QED
  BY <1>6, <1>7

LEMMA ShorterSeq ==
    ASSUME NEW A, NEW B, A \subseteq B, NEW s \in Seq(A)
    PROVE  s \in Seq(B)
<1>1. s \in [1..Len(s) -> A] /\ Len(s) \in Nat
  OBVIOUS
<1>2. s \in [1..Len(s) -> B]
  BY <1>1
<1> QED
  BY <1>1, <1>2

LEMMA NewSetTyped ==
    ASSUME CalibrationInv, RowsTyped, NEW name \in Names,
           NEW members \in SUBSET Observations
    PROVE  /\ NewSet(name, members) \in SetRow
           /\ NewSet(name, members).version <= Cardinality(SetRows) + 1
<1>1. \A o \in members : reviews[o] \in Seq(ReviewRow)
  <2>1. Written \subseteq ReviewRow
    BY DEF Written, ReviewRow
  <2>2. \A o \in members : reviews[o] \in Seq(Written)
    BY DEF CalibrationInv
  <2> QED
    BY <2>1, <2>2, ShorterSeq
<1>2. [o \in members |-> Digest(reviews[o])]
         \in UNION {[m -> Seq(ReviewRow)] : m \in SUBSET Observations}
  BY <1>1 DEF Digest
<1>3. PICK links \in UNION {[m -> Seq(ReviewRow)] : m \in SUBSET Observations} :
         links = [o \in members |-> Digest(reviews[o])]
  BY <1>2
<1>4. NextVersion(name) \in Nat \ {0} /\ NextVersion(name) <= Cardinality(SetRows) + 1
  BY VersionTyped, SetRowsFinite
<1>5. PICK version \in Nat \ {0} : version = NextVersion(name)
  BY <1>4
<1>6. PICK state \in {"complete", "insufficient_data"} : state = CalculationState(members)
  BY DEF CalculationState
<1>7. PICK multiplier : multiplier = NewSet(name, members).multiplier
  OBVIOUS
<1>8. multiplier \in Nat \cup {None}
  BY <1>7, MultiplierTyped
<1>9. NewSet(name, members) =
          [name |-> name, version |-> version, status |-> "draft", state |-> state,
           links |-> links, multiplier |-> multiplier]
  BY <1>3, <1>5, <1>6, <1>7 DEF NewSet
<1> QED
  BY <1>4, <1>5, <1>8, <1>9 DEF SetRow

LEMMA ObservationsTypedNext ==
    ASSUME CalibrationInv, RowsTyped, [Next]_vars, NEW o \in Observations, Recorded(o)'
    PROVE  /\ observation'[o] \in ObservationRow
           /\ StoredAs(observation'[o].precision, observation'[o].meters,
                       observation'[o].point)
<1>1. CASE observation'[o] = observation[o]
  BY <1>1 DEF RowsTyped, TypeOK, Recorded
<1>2. ASSUME NEW p \in Observations, NEW f \in Forms, NEW old \in Observations \cup {None},
             CreateObservation(p, f, old)
      PROVE  /\ observation'[o] \in ObservationRow
             /\ StoredAs(observation'[o].precision, observation'[o].meters,
                         observation'[o].point)
  <2>1. observation' = [observation EXCEPT ![p] = NewObservation(f, old)]
        /\ LocationAccepted(f)
    BY <1>2 DEF CreateObservation
  <2>2. CASE o = p
    <3>1. observation'[o] = NewObservation(f, old)
      BY <2>1, <2>2 DEF CalibrationInv
    <3> QED
      BY <2>1, <3>1, ObservationTyped
  <2>3. CASE o # p
    <3>1. observation'[o] = observation[o]
      BY <2>1, <2>3 DEF CalibrationInv
    <3> QED
      BY <1>1, <3>1
  <2> QED
    BY <2>2, <2>3
<1> QED
  BY <1>1, <1>2
     DEF Next, vars, ReviewObservation, CreateSet, BeginApproveSet, FinishApproveSet,
         QueueBundle, RetryBundle, StartBundle, FinishBundle, CancelBundle,
         BeginApproveBundle, FinishApproveBundle, Abort, PlanChanges,
         ElevationExpires, Restart

(* Sets stay, and each is numbered within their number.                    *)
SetsTyped ==
    \A c \in SetRows : set[c] \in SetRow /\ set[c].version <= Cardinality(SetRows)

LEMMA SetsTypedNext ==
    ASSUME CalibrationInv, RowsTyped, [Next]_vars
    PROVE  SetsTyped' /\ SetRows \subseteq SetRows'
<1>1. SetsTyped
  BY DEF RowsTyped, SetsTyped
<1>2. CASE UNCHANGED set
  BY <1>1, <1>2 DEF SetsTyped, SetRows
<1>3. ASSUME NEW c \in Sets, NEW name \in Names, NEW members \in SUBSET Observations,
             CreateSet(c, name, members)
      PROVE  SetsTyped' /\ SetRows \subseteq SetRows'
  <2> DEFINE n == NewSet(name, members)
  <2>1. n \in SetRow /\ n.version <= Cardinality(SetRows) + 1 /\ n # None
    BY NewSetTyped, RowsAssumption
  <2>2. set[c] = None /\ set' = [set EXCEPT ![c] = n]
    BY <1>3 DEF CreateSet
  <2> HIDE DEF n
  <2>3. \A d \in Sets : set'[d] = IF d = c THEN n ELSE set[d]
    BY <2>2 DEF CalibrationInv
  <2>4. SetRows' = SetRows \cup {c} /\ c \notin SetRows
    BY <2>1, <2>2, <2>3 DEF SetRows
  <2>5. Cardinality(SetRows') = Cardinality(SetRows) + 1
    BY <2>4, SetRowsFinite, FS_AddElement
  <2>6. ASSUME NEW d \in SetRows'
        PROVE  set'[d] \in SetRow /\ set'[d].version <= Cardinality(SetRows')
    <3>1. CASE d = c
      BY <2>1, <2>3, <2>5, <3>1
    <3>2. CASE d # c
      <4>1. set'[d] = set[d] /\ d \in SetRows
        BY <2>3, <2>4, <3>2 DEF SetRows
      <4>2. set[d].version \in Nat
        BY <1>1, <4>1 DEF SetsTyped, SetRow
      <4> QED
        BY <1>1, <2>5, <4>1, <4>2, SetRowsFinite DEF SetsTyped
    <3> QED
      BY <3>1, <3>2
  <2> QED
    BY <2>4, <2>6 DEF SetsTyped
<1>4. ASSUME NEW w \in Workers, FinishApproveSet(w)
      PROVE  SetsTyped' /\ SetRows \subseteq SetRows'
  <2>1. ApprovesSet(w)
    BY <1>4 DEF FinishApproveSet, Working, Idle, ApprovesSet
  <2>2. PICK c \in Sets : c = pending[w].id
    BY <2>1 DEF CalibrationInv, PendingInv
  <2>3. c \in SetRows /\ set[c] \in SetRow
    BY <1>1, <2>1, <2>2 DEF RowsTyped, SetRows, SetsTyped
  <2> DEFINE n == [set[c] EXCEPT !.status = "approved"]
  <2>4. n \in SetRow /\ n.version = set[c].version /\ n # None
    <3>1. n \in SetRow /\ n.version = set[c].version
      BY <2>3 DEF SetRow
    <3> QED
      BY <3>1, RowsAssumption
  <2>5. set' = [set EXCEPT ![c] = n]
    BY <1>4, <2>2 DEF FinishApproveSet
  <2> HIDE DEF n
  <2>6. \A d \in Sets : set'[d] = IF d = c THEN n ELSE set[d]
    BY <2>5 DEF CalibrationInv
  <2>7. SetRows' = SetRows
    BY <2>3, <2>4, <2>6 DEF SetRows
  <2>8. \A d \in SetRows : set'[d] \in SetRow /\ set'[d].version = set[d].version
    BY <1>1, <2>3, <2>4, <2>6 DEF SetRows, SetsTyped
  <2> QED
    BY <1>1, <2>7, <2>8 DEF SetsTyped
<1> QED
  BY <1>2, <1>3, <1>4
     DEF Next, vars, CreateObservation, ReviewObservation, BeginApproveSet,
         QueueBundle, RetryBundle, StartBundle, FinishBundle, CancelBundle,
         BeginApproveBundle, FinishApproveBundle, Abort, PlanChanges,
         ElevationExpires, Restart

LEMMA QueuedTyped ==
    ASSUME RowsTyped, NEW a \in Analyses, NEW c \in Sets, NEW old \in Bundles \cup {None}
    PROVE  QueuedBundle(a, c, old) \in BundleRow
<1>1. plan.traced \in STRING /\ settings.version \in STRING
  BY BoundsAssumption DEF RowsTyped, TypeOK
<1>2. InputSnapshot \in [plan : STRING, version : STRING]
  BY <1>1 DEF InputSnapshot, PlanSnapshot
<1> QED
  BY <1>2 DEF QueuedBundle, BundleRow, JobStates

LEMMA ResultTyped ==
    ASSUME CalibrationInv, NEW c \in Sets, set[c] # None
    PROVE  ResultSnapshot(c) \in [Verdicts -> Nat]
<1>1. DOMAIN set[c].links \subseteq Observations
  BY DEF CalibrationInv, SetInv
<1>2. ASSUME NEW v \in Verdicts
      PROVE  Cardinality({o \in DOMAIN set[c].links : Verdict(o) = v}) \in Nat
  <2>1. {o \in DOMAIN set[c].links : Verdict(o) = v} \in SUBSET Observations
    BY <1>1
  <2> QED
    BY <2>1, RowsAssumption, FS_Subset, FS_CardinalityType
<1> QED
  BY <1>2 DEF ResultSnapshot

LEMMA OutcomeTyped ==
    ASSUME CalibrationInv, NEW row \in BundleRow, set[row.set] # None,
           NEW sound, NEW n \in BundleOutcomes(row, sound)
    PROVE  n \in BundleRow
<1>1. \/ \E code \in FailureCodes : n = FailedBundle(row, code)
      \/ n = [row EXCEPT !.job = "complete", !.result = ResultSnapshot(row.set)]
  BY DEF BundleOutcomes, FailureCodes
<1>2. ASSUME NEW code \in FailureCodes, n = FailedBundle(row, code) PROVE n \in BundleRow
  BY <1>2 DEF FailedBundle, BundleRow, JobStates
<1>3. ASSUME n = [row EXCEPT !.job = "complete", !.result = ResultSnapshot(row.set)]
      PROVE  n \in BundleRow
  <2>1. row.set \in Sets
    BY DEF BundleRow
  <2>2. PICK result \in [Verdicts -> Nat] : result = ResultSnapshot(row.set)
    BY <2>1, ResultTyped
  <2>3. n = [row EXCEPT !.job = "complete", !.result = result]
    BY <1>3, <2>2
  <2> QED
    BY <2>3 DEF BundleRow, JobStates
<1> QED
  BY <1>1, <1>2, <1>3

LEMMA BundlesTypedNext ==
    ASSUME CalibrationInv, RowsTyped, [Next]_vars
    PROVE  /\ bundle' \in [Bundles -> BundleRow \cup {None}]
           /\ \A b \in Bundles : bundle[b] \in BundleRow => bundle'[b] \in BundleRow
<1> DEFINE Goal == /\ bundle' \in [Bundles -> BundleRow \cup {None}]
                   /\ \A b \in Bundles : bundle[b] \in BundleRow => bundle'[b] \in BundleRow
<1>1. bundle \in [Bundles -> BundleRow \cup {None}]
  BY DEF RowsTyped, TypeOK
<1>2. ASSUME NEW b \in Bundles, NEW row \in BundleRow, bundle' = [bundle EXCEPT ![b] = row]
      PROVE  Goal
  BY <1>1, <1>2
<1>3. ASSUME UNCHANGED bundle PROVE Goal
  BY <1>1, <1>3
<1> HIDE DEF Goal
<1>4. ASSUME NEW b \in Bundles, NEW a \in Analyses, NEW c \in Sets, QueueBundle(b, a, c)
      PROVE  Goal
  BY <1>2, <1>4, QueuedTyped DEF QueueBundle
<1>5. ASSUME NEW b \in Bundles, NEW old \in Bundles, RetryBundle(b, old) PROVE Goal
  <2>1. bundle[old] \in BundleRow
    BY <1>1, <1>5 DEF RetryBundle
  <2>2. bundle[old].analysis \in Analyses /\ bundle[old].set \in Sets
    BY <2>1 DEF BundleRow
  <2>3. QueuedBundle(bundle[old].analysis, bundle[old].set, old) \in BundleRow
    BY <2>2, QueuedTyped
  <2> QED
    BY <1>2, <1>5, <2>3 DEF RetryBundle
<1>6. ASSUME NEW w \in Workers, FinishBundle(w) PROVE Goal
  <2>1. pending[w] # None /\ pending[w].doing = "run"
    BY <1>6 DEF FinishBundle, Working, Idle
  <2>2. PICK b \in Bundles : b = pending[w].id
    BY <2>1 DEF CalibrationInv, PendingInv
  <2>3. bundle[b] \in BundleRow /\ set[bundle[b].set] # None
    BY <2>1, <2>2 DEF RowsTyped, CalibrationInv, PendingInv, BundleInv
  <2>4. PICK row \in BundleOutcomes(bundle[b], pending[w].sound) :
            bundle' = [bundle EXCEPT ![b] = row]
    BY <1>6, <2>2 DEF FinishBundle
  <2>5. row \in BundleRow
    BY <2>3, <2>4, OutcomeTyped
  <2> QED
    BY <1>2, <2>4, <2>5
<1>7. ASSUME NEW b \in Bundles, CancelBundle(b) PROVE Goal
  <2>1. bundle[b] \in BundleRow /\ bundle' = [bundle EXCEPT ![b] = Cancelled(bundle[b])]
    BY <1>1, <1>7 DEF CancelBundle
  <2>2. Cancelled(bundle[b]) \in BundleRow
    BY <2>1 DEF Cancelled, BundleRow, JobStates, FailureCodes
  <2> QED
    BY <1>2, <2>1, <2>2
<1>8. ASSUME NEW w \in Workers, FinishApproveBundle(w) PROVE Goal
  <2>1. pending[w] # None /\ pending[w].doing = "approve_bundle"
    BY <1>8 DEF FinishApproveBundle, Working, Idle
  <2>2. PICK b \in Bundles : b = pending[w].id
    BY <2>1 DEF CalibrationInv, PendingInv
  <2>3. bundle[b] \in BundleRow
    BY <2>1, <2>2 DEF RowsTyped
  <2>4. bundle' = [bundle EXCEPT ![b] = [bundle[b] EXCEPT !.status = "approved"]]
    BY <1>8, <2>2 DEF FinishApproveBundle
  <2>5. [bundle[b] EXCEPT !.status = "approved"] \in BundleRow
    BY <2>3 DEF BundleRow
  <2> QED
    BY <1>2, <2>4, <2>5
<1>9. \/ UNCHANGED bundle
      \/ \E b \in Bundles, a \in Analyses, c \in Sets : QueueBundle(b, a, c)
      \/ \E b, old \in Bundles : RetryBundle(b, old)
      \/ \E w \in Workers : FinishBundle(w)
      \/ \E b \in Bundles : CancelBundle(b)
      \/ \E w \in Workers : FinishApproveBundle(w)
  BY DEF Next, vars, CreateObservation, ReviewObservation, CreateSet, BeginApproveSet,
         FinishApproveSet, StartBundle, BeginApproveBundle, Abort, PlanChanges,
         ElevationExpires, Restart
<1>10. Goal
  BY <1>3, <1>4, <1>5, <1>6, <1>7, <1>8, <1>9
<1> QED
  BY <1>10 DEF Goal

LEMMA RowsTypedInit == Init => RowsTyped
<1> SUFFICES ASSUME Init PROVE RowsTyped
  OBVIOUS
<1>1. SetRows = {}
  BY DEF Init, SetRows
<1>2. \A o \in Observations : ~ Recorded(o) /\ Len(reviews[o]) = 0
  BY DEF Init, Recorded
<1>3. TypeOK
  <2>1. \A o \in Observations, k \in 1..MaxReviews : ~ (k <= Len(reviews[o]))
    BY <1>2, BoundsAssumption
  <2> QED
    BY <1>1, <1>2, <2>1 DEF Init, TypeOK
<1> QED
  BY <1>1, <1>3 DEF Init, RowsTyped, ApprovesSet

LEMMA RowsTypedNext ==
    ASSUME CalibrationInv, RowsTyped, [Next]_vars
    PROVE  RowsTyped'
<1>1. CalibrationInv'
  BY CalibrationInvNext
<1>2. ASSUME NEW o \in Observations, NEW k \in 1..MaxReviews, k <= Len(reviews'[o])
      PROVE  reviews'[o][k] \in ReviewRow
  <2>1. reviews'[o] \in Seq(Written)
    BY <1>1 DEF CalibrationInv
  <2>2. reviews'[o][k] \in Written
    BY <1>2, <2>1, BoundsAssumption
  <2> QED
    BY <2>2 DEF Written, ReviewRow
<1>3. ASSUME NEW c \in SetRows'
      PROVE  /\ set'[c] \in SetRow /\ set'[c].version <= Cardinality(SetRows')
             /\ set'[c].version \in 1..Cardinality(Sets)
             /\ DOMAIN set'[c].links \subseteq Observations
             /\ set'[c].multiplier # None => set'[c].multiplier \in Nat
  <2>1. set'[c] \in SetRow /\ set'[c].version <= Cardinality(SetRows')
    BY SetsTypedNext DEF SetsTyped
  <2>2. /\ Cardinality(SetRows') \in Nat /\ Cardinality(SetRows') <= Cardinality(Sets)
        /\ Cardinality(Sets) \in Nat
    <3>1. SetRows' \in SUBSET Sets
      BY DEF SetRows
    <3> QED
      BY <3>1, RowsAssumption, FS_Subset, FS_CardinalityType
  <2>3. set'[c].version \in Nat \ {0} /\ set'[c].multiplier \in Nat \cup {None}
    BY <2>1 DEF SetRow
  <2>4. DOMAIN set'[c].links \subseteq Observations
    BY <1>1 DEF CalibrationInv, SetInv, SetRows
  <2> QED
    BY <2>1, <2>2, <2>3, <2>4
<1>4. plan' \in Contents /\ expired' \in BOOLEAN /\ settings' \in Settings
  BY DEF RowsTyped, TypeOK, Next, vars, CreateObservation, ReviewObservation, CreateSet,
         BeginApproveSet, FinishApproveSet, QueueBundle, RetryBundle, StartBundle,
         FinishBundle, CancelBundle, BeginApproveBundle, FinishApproveBundle, Abort,
         PlanChanges, ElevationExpires, Restart
<1>5. TypeOK'
  BY <1>2, <1>3, <1>4, ObservationsTypedNext, BundlesTypedNext DEF TypeOK
<1>6. ASSUME NEW w \in Workers, pending'[w] # None
      PROVE  \/ pending'[w] = pending[w]
             \/ pending'[w].doing = "approve_set" /\ set[pending'[w].id] # None
                                                  /\ pending'[w].id \in Sets
             \/ bundle[pending'[w].id] \in BundleRow /\ pending'[w].id \in Bundles
                /\ pending'[w].doing \in {"run", "approve_bundle"}
  <2>1. pending = [v \in Workers |-> pending[v]] /\ \A b \in Bundles :
            bundle[b] # None => bundle[b] \in BundleRow
    BY DEF CalibrationInv, RowsTyped, TypeOK
  <2>2. ASSUME NEW v \in Workers, NEW c \in Sets, BeginApproveSet(v, c)
        PROVE  \/ pending'[w] = pending[w]
               \/ pending'[w].doing = "approve_set" /\ set[pending'[w].id] # None
                                                    /\ pending'[w].id \in Sets
    BY <2>1, <2>2 DEF BeginApproveSet
  <2>3. ASSUME NEW v \in Workers, NEW b \in Bundles,
               StartBundle(v, b) \/ BeginApproveBundle(v, b)
        PROVE  \/ pending'[w] = pending[w]
               \/ bundle[pending'[w].id] \in BundleRow /\ pending'[w].id \in Bundles
                  /\ pending'[w].doing \in {"run", "approve_bundle"}
    BY <2>1, <2>3 DEF StartBundle, BeginApproveBundle
  <2>4. ASSUME NEW v \in Workers, pending' = [pending EXCEPT ![v] = None]
        PROVE  pending'[w] = pending[w]
    BY <1>6, <2>1, <2>4
  <2> QED
    BY <1>6, <2>2, <2>3, <2>4
       DEF Next, vars, CreateObservation, ReviewObservation, CreateSet,
         FinishApproveSet, QueueBundle, RetryBundle, FinishBundle, CancelBundle,
         FinishApproveBundle, Abort, PlanChanges, ElevationExpires, Restart
<1>7. ASSUME NEW w \in Workers
      PROVE  /\ ApprovesSet(w)' => set'[pending'[w].id] # None
             /\ (pending'[w] # None /\ pending'[w].doing \in {"run", "approve_bundle"}) =>
                    bundle'[pending'[w].id] \in BundleRow
  <2>1. \A c \in Sets : set[c] # None => set'[c] # None
    BY SetsTypedNext DEF SetRows
  <2>2. \A b \in Bundles : bundle[b] \in BundleRow => bundle'[b] \in BundleRow
    BY BundlesTypedNext
  <2>3. CASE pending'[w] = pending[w]
    <3>1. ApprovesSet(w)' => set[pending[w].id] # None /\ pending[w].id \in Sets
      BY <2>3 DEF RowsTyped, ApprovesSet, CalibrationInv, PendingInv
    <3>2. (pending'[w] # None /\ pending'[w].doing \in {"run", "approve_bundle"}) =>
              bundle[pending[w].id] \in BundleRow /\ pending[w].id \in Bundles
      BY <2>3 DEF RowsTyped, CalibrationInv, PendingInv
    <3> QED
      BY <2>1, <2>2, <2>3, <3>1, <3>2
  <2>4. CASE pending'[w] # None /\ pending'[w] # pending[w]
    BY <1>6, <2>1, <2>2, <2>4 DEF ApprovesSet
  <2> QED
    BY <2>3, <2>4 DEF ApprovesSet
<1> QED
  BY <1>3, <1>4, <1>5, <1>7 DEF RowsTyped

(* TypeOK: a withheld location leaves nothing; a generalized one is a      *)
(* point of the map on the declared grid in latitude and, in longitude, on *)
(* the grid of some latitude within half a step of the stored one, for all *)
(* steps and limits; the numbers of sets count them; a finished set has a  *)
(* multiplier that is a number (_sanitize_location(),                      *)
(* _generalize_coordinates(), create_calibration_set(), _median()).        *)
THEOREM CalibrationTypeCorrect == Spec => []TypeOK
<1>1. RowsTyped => TypeOK
  BY DEF RowsTyped
<1> QED
  BY <1>1, CalibrationInvInit, CalibrationInvNext, RowsTypedInit, RowsTypedNext, PTL DEF Spec
=============================================================================

-------------------------- MODULE AuditChainProofs --------------------------
(***************************************************************************)
(* The audit chain verifies for any number of concurrent requests.         *)
(*                                                                         *)
(* The invariant says nothing of row locks: the chain is protected by the  *)
(* UNIQUE constraint alone.  It says of the rows that a request has not    *)
(* committed that their sequences are nobody else's and that each chains   *)
(* to a row the request can see.                                           *)
(***************************************************************************)
EXTENDS AuditChain, FiniteSetTheorems, TLAPS

Chains(e, rows) ==
    IF e.sequence = 0
    THEN e.previous_hash = GENESIS_HASH
    ELSE \E p \in rows : /\ p.sequence = e.sequence - 1
                         /\ e.previous_hash = p.record_hash

DistinctSequences ==
    /\ \A e, f \in events : e.sequence = f.sequence => e = f
    /\ \A r \in Requests : \A e, f \in own[r] : e.sequence = f.sequence => e = f
    /\ \A r \in Requests : \A e \in own[r], f \in events : e.sequence # f.sequence
    /\ \A r, s \in Requests : r # s =>
           \A e \in own[r], f \in own[s] : e.sequence # f.sequence

ChainedRows ==
    /\ \A e \in events : Chains(e, events)
    /\ \A r \in Requests : \A e \in own[r] : Chains(e, events \cup own[r])

TailVisible ==
    \A r \in Requests : pc[r] \in {"waiting", "claimed"} =>
                            tail[r] \subseteq events \cup own[r]

ChainInv == TypeOK /\ DistinctSequences /\ ChainedRows /\ TailVisible

(* What the outcome of a request owes to the rows it has buffered: they    *)
(* carry the request's events 1 .. n, and only committed requests have     *)
(* events in the log.                                                      *)
Recorded(r) == {e.content[2] : e \in {f \in events : f.content[1] = r}}

BufferedEvents ==
    \A r \in Requests :
        /\ IsFiniteSet(own[r])
        /\ Cardinality(own[r]) <= EventsPerRequest
        /\ pc[r] \in {"waiting", "claimed"} =>
               Cardinality(own[r]) < EventsPerRequest
        /\ {e.content : e \in own[r]}
               = {<<r, k>> : k \in 1 .. Cardinality(own[r])}
        /\ pc[r] \in {"idle", "failed", "committed"} => own[r] = {}

OutcomeInv == ChainInv /\ BufferedEvents /\ AuditMatchesOutcome

(* The row that a request claims is a well-formed row, chained to the row  *)
(* that record_event found.                                                *)
LEMMA ClaimedRowOK ==
    ASSUME ChainInv, NEW r \in Requests, pc[r] = "claimed",
           <<r, Cardinality(own[r]) + 1>> \in Contents
    PROVE  /\ IsRow(ClaimedRow(r))
           /\ Chains(ClaimedRow(r), events \cup own[r])
           /\ ClaimedRow(r).content = <<r, Cardinality(own[r]) + 1>>
<1> DEFINE c == <<r, Cardinality(own[r]) + 1>>
<1>1. CASE tail[r] = {}
  <2>1. ClaimedRow(r) = Row(GENESIS_HASH, 0, c)
    BY <1>1 DEF ClaimedRow, NextRow
  <2> QED
    BY <2>1 DEF IsRow, Row, Chains
<1>2. CASE tail[r] # {}
  <2> DEFINE p == CHOOSE e \in tail[r] : TRUE
  <2>1. p \in tail[r]
    BY <1>2
  <2>2. p \in events \cup own[r] /\ IsRow(p)
    BY <2>1 DEF ChainInv, TailVisible, TypeOK
  <2>3. ClaimedRow(r) = Row(p.record_hash, p.sequence + 1, c)
    BY <1>2 DEF ClaimedRow, NextRow
  <2>4. p.sequence \in Nat
    BY <2>2 DEF IsRow
  <2> HIDE DEF p
  <2>5. /\ ClaimedRow(r).sequence = p.sequence + 1
        /\ ClaimedRow(r).previous_hash = p.record_hash
        /\ ClaimedRow(r).content = c
    BY <2>3 DEF Row
  <2>6. IsRow(ClaimedRow(r))
    BY <2>3, <2>4, <2>5 DEF IsRow
  <2>7. Chains(ClaimedRow(r), events \cup own[r])
    BY <2>2, <2>4, <2>5 DEF Chains
  <2> QED
    BY <2>5, <2>6, <2>7
<1> QED
  BY <1>1, <1>2

LEMMA ChainInit == Init => OutcomeInv
<1> SUFFICES ASSUME Init PROVE OutcomeInv
  OBVIOUS
<1>1. ChainInv
  BY DEF Init, ChainInv, TypeOK, DistinctSequences, ChainedRows, TailVisible
<1>2. BufferedEvents
  <2> SUFFICES ASSUME NEW r \in Requests
               PROVE  /\ IsFiniteSet(own[r])
                      /\ Cardinality(own[r]) = 0
                      /\ own[r] = {}
                      /\ pc[r] = "idle"
    BY AuditAssumption DEF BufferedEvents
  <2> QED
    BY FS_EmptySet DEF Init
<1>3. AuditMatchesOutcome
  BY DEF Init, AuditMatchesOutcome
<1> QED
  BY <1>1, <1>2, <1>3 DEF OutcomeInv

(* A step of one request keeps the rows well-formed, their sequences       *)
(* distinct and each of them chained.                                      *)
LEMMA ChainStep ==
    ASSUME OutcomeInv, NEW r \in Requests, Step(r)
    PROVE  ChainInv'
<1> USE DEF OutcomeInv, ChainInv
<1>1. CASE Begin(r)
  BY <1>1 DEF Begin, TypeOK, DistinctSequences, ChainedRows, TailVisible
<1>2. CASE ReadTail(r)
  <2>1. tail'[r] \subseteq events \cup own[r]
    BY <1>2 DEF ReadTail, Latest, TypeOK
  <2>2. TypeOK'
    BY <1>2, <2>1 DEF ReadTail, TypeOK
  <2>3. DistinctSequences' /\ ChainedRows'
    BY <1>2 DEF ReadTail, DistinctSequences, ChainedRows
  <2>4. TailVisible'
    BY <1>2, <2>1 DEF ReadTail, TailVisible, TypeOK
  <2> QED
    BY <2>2, <2>3, <2>4
<1>3. CASE LockTail(r)
  <2>1. TypeOK'
    <3>1. {e.sequence : e \in tail[r]} \subseteq Nat
      BY DEF TypeOK, IsRow
    <3> QED
      BY <1>3, <3>1 DEF LockTail, TypeOK
  <2>2. DistinctSequences' /\ ChainedRows' /\ TailVisible'
    BY <1>3 DEF LockTail, DistinctSequences, ChainedRows, TailVisible, TypeOK
  <2> QED
    BY <2>1, <2>2
<1>4. CASE InsertRow(r)
  <2> DEFINE e0 == ClaimedRow(r)
  <2>1. <<r, Cardinality(own[r]) + 1>> \in Contents
    <3>1. Cardinality(own[r]) \in Nat /\ Cardinality(own[r]) < EventsPerRequest
      BY <1>4, FS_CardinalityType DEF InsertRow, BufferedEvents
    <3> QED
      BY <3>1, AuditAssumption DEF Contents
  <2>2. /\ IsRow(e0)
        /\ Chains(e0, events \cup own[r])
    BY <1>4, <2>1, ClaimedRowOK DEF InsertRow
  <2>3. /\ \A f \in events \cup own[r] : f.sequence # e0.sequence
        /\ \A s \in Requests \ {r} : \A f \in own[s] : f.sequence # e0.sequence
    BY <1>4 DEF InsertRow, Taken
  <2>4. /\ own' = [own EXCEPT ![r] = @ \cup {e0}]
        /\ pc' = [pc EXCEPT ![r] = "handler"]
        /\ UNCHANGED <<events, tail, locked>>
    BY <1>4 DEF InsertRow
  <2> HIDE DEF e0
  <2>5. TypeOK'
    BY <2>2, <2>4 DEF TypeOK
  <2>6. DistinctSequences'
    BY <2>3, <2>4 DEF DistinctSequences, TypeOK
  <2>7. ChainedRows'
    BY <2>2, <2>4 DEF ChainedRows, Chains, TypeOK
  <2>8. TailVisible'
    BY <2>4 DEF TailVisible, TypeOK
  <2> QED
    BY <2>5, <2>6, <2>7, <2>8
<1>5. CASE UniqueViolation(r) \/ HandlerFails(r)
  BY <1>5 DEF UniqueViolation, HandlerFails, Undo, TypeOK, DistinctSequences,
              ChainedRows, TailVisible, Chains
<1>6. CASE Commit(r)
  BY <1>6 DEF Commit, TypeOK, DistinctSequences,
              ChainedRows, TailVisible, Chains
<1> QED
  BY <1>1, <1>2, <1>3, <1>4, <1>5, <1>6 DEF Step

(* A step of one request keeps the log in agreement with the outcomes.     *)
LEMMA OutcomeStep ==
    ASSUME OutcomeInv, NEW r \in Requests, Step(r)
    PROVE  BufferedEvents' /\ AuditMatchesOutcome'
<1> USE DEF OutcomeInv, ChainInv
<1>1. CASE Begin(r) \/ LockTail(r)
  <2>1. /\ UNCHANGED <<events, own>>
        /\ \/ pc[r] = "idle" /\ pc' = [pc EXCEPT ![r] = "handler"]
           \/ pc[r] = "waiting" /\ pc' = [pc EXCEPT ![r] = "claimed"]
    BY <1>1 DEF Begin, LockTail
  <2>2. BufferedEvents'
    BY <2>1 DEF BufferedEvents, TypeOK
  <2>3. AuditMatchesOutcome'
    BY <2>1 DEF AuditMatchesOutcome, TypeOK
  <2> QED
    BY <2>2, <2>3
<1>2. CASE ReadTail(r)
  BY <1>2 DEF ReadTail, BufferedEvents, AuditMatchesOutcome, TypeOK
<1>3. CASE InsertRow(r)
  <2> DEFINE e0 == ClaimedRow(r)
             n == Cardinality(own[r])
  <2>1. n \in Nat /\ n < EventsPerRequest /\ IsFiniteSet(own[r])
    BY <1>3, FS_CardinalityType DEF InsertRow, BufferedEvents
  <2>2. <<r, n + 1>> \in Contents
    BY <2>1, AuditAssumption DEF Contents
  <2>3. e0.content = <<r, n + 1>>
    BY <1>3, <2>2, ClaimedRowOK DEF InsertRow
  <2>4. /\ own' = [own EXCEPT ![r] = @ \cup {e0}]
        /\ pc' = [pc EXCEPT ![r] = "handler"]
        /\ UNCHANGED <<events, tail, locked>>
        /\ pc[r] = "claimed"
        /\ e0 \notin own[r]
    BY <1>3 DEF InsertRow, Taken
  <2> HIDE DEF e0
  <2>5. Cardinality(own'[r]) = n + 1 /\ IsFiniteSet(own'[r])
    BY <2>1, <2>4, FS_AddElement DEF TypeOK
  <2>6. {e.content : e \in own'[r]} = {<<r, k>> : k \in 1 .. n + 1}
    <3>1. {e.content : e \in own[r]} = {<<r, k>> : k \in 1 .. n}
      BY DEF BufferedEvents
    <3>2. own'[r] = own[r] \cup {e0}
      BY <2>4 DEF TypeOK
    <3>3. {e.content : e \in own'[r]} = {<<r, k>> : k \in 1 .. n} \cup {<<r, n + 1>>}
      BY <2>3, <3>1, <3>2
    <3>4. 1 .. n + 1 = (1 .. n) \cup {n + 1}
      BY <2>1
    <3> HIDE DEF n
    <3> QED
      BY <3>3, <3>4
  <2>7. BufferedEvents'
    <3> SUFFICES ASSUME NEW s \in Requests
                 PROVE  /\ IsFiniteSet(own'[s])
                        /\ Cardinality(own'[s]) <= EventsPerRequest
                        /\ pc'[s] \in {"waiting", "claimed"} =>
                               Cardinality(own'[s]) < EventsPerRequest
                        /\ {e.content : e \in own'[s]}
                               = {<<s, k>> : k \in 1 .. Cardinality(own'[s])}
                        /\ pc'[s] \in {"idle", "failed", "committed"} =>
                               own'[s] = {}
      BY DEF BufferedEvents
    <3>1. CASE s = r
      <4>1. Cardinality(own'[r]) <= EventsPerRequest
        BY <2>1, <2>5, AuditAssumption
      <4>2. pc'[r] = "handler"
        BY <2>4 DEF TypeOK
      <4> QED
        BY <2>5, <2>6, <3>1, <4>1, <4>2
    <3>2. CASE s # r
      <4>1. own'[s] = own[s] /\ pc'[s] = pc[s]
        BY <2>4, <3>2 DEF TypeOK
      <4> QED
        BY <4>1 DEF BufferedEvents
    <3> QED
      BY <3>1, <3>2
  <2>8. AuditMatchesOutcome'
    BY <2>4 DEF AuditMatchesOutcome, TypeOK
  <2> QED
    BY <2>7, <2>8
<1>4. CASE UniqueViolation(r) \/ HandlerFails(r)
  <2>1. Undo(r) /\ pc[r] # "committed"
    BY <1>4 DEF UniqueViolation, HandlerFails
  <2>2. BufferedEvents'
    BY <2>1, FS_EmptySet, AuditAssumption DEF Undo, BufferedEvents, TypeOK
  <2>3. AuditMatchesOutcome'
    BY <2>1 DEF Undo, AuditMatchesOutcome, TypeOK
  <2> QED
    BY <2>2, <2>3
<1>5. CASE Commit(r)
  <2>1. BufferedEvents'
    BY <1>5, FS_EmptySet, AuditAssumption DEF Commit, BufferedEvents, TypeOK
  <2>2. AuditMatchesOutcome'
    <3>1. /\ events' = events \cup own[r]
          /\ pc' = [pc EXCEPT ![r] = "committed"]
          /\ pc[r] = "handler"
          /\ own[r] # {}
      BY <1>5 DEF Commit
    <3>2. \A e \in own[r] : \E k \in 1 .. Cardinality(own[r]) : e.content = <<r, k>>
      BY DEF BufferedEvents
    <3>3. \A k \in 1 .. Cardinality(own[r]) : \E e \in own[r] : e.content = <<r, k>>
      BY DEF BufferedEvents
    <3>4. Cardinality(own[r]) \in 1 .. EventsPerRequest
      <4>1. Cardinality(own[r]) \in Nat
        BY FS_CardinalityType DEF BufferedEvents
      <4>2. Cardinality(own[r]) # 0
        BY <3>1, FS_EmptySet DEF BufferedEvents
      <4>3. Cardinality(own[r]) <= EventsPerRequest
        BY DEF BufferedEvents
      <4> QED
        BY <4>1, <4>2, <4>3, AuditAssumption
    <3>5. Recorded(r)' = 1 .. Cardinality(own[r])
      <4>1. \A e \in events : e.content[1] # r
        <5>1. Recorded(r) = {}
          BY <3>1 DEF AuditMatchesOutcome, Recorded
        <5> QED
          BY <5>1 DEF Recorded
      <4> QED
        BY <3>1, <3>2, <3>3, <4>1 DEF Recorded
    <3>6. \A s \in Requests \ {r} : Recorded(s)' = Recorded(s) /\ pc'[s] = pc[s]
      BY <3>1, <3>2 DEF Recorded, TypeOK
    <3>7. pc'[r] = "committed"
      BY <3>1 DEF TypeOK
    <3>8. \A s \in Requests : /\ pc'[s] # "committed" => Recorded(s)' = {}
                              /\ pc'[s] = "committed" =>
                                    \E n \in 1 .. EventsPerRequest : Recorded(s)' = 1 .. n
      BY <3>4, <3>5, <3>6, <3>7 DEF AuditMatchesOutcome, Recorded
    <3> QED
      BY <3>8 DEF AuditMatchesOutcome, Recorded
  <2> QED
    BY <2>1, <2>2
<1> QED
  BY <1>1, <1>2, <1>3, <1>4, <1>5 DEF Step

(* The invariant is preserved by every step of the system, and by          *)
(* stuttering.                                                             *)
LEMMA OutcomeInductive == OutcomeInv /\ [Next]_vars => OutcomeInv'
<1> SUFFICES ASSUME OutcomeInv, [Next]_vars PROVE OutcomeInv'
  OBVIOUS
<1>1. CASE \E r \in Requests : Step(r)
  BY <1>1, ChainStep, OutcomeStep DEF OutcomeInv
<1>2. CASE UNCHANGED vars
  <2>1. ChainInv'
    BY <1>2 DEF vars, OutcomeInv, ChainInv, TypeOK, DistinctSequences,
                ChainedRows, Chains, TailVisible
  <2>2. BufferedEvents' /\ AuditMatchesOutcome'
    BY <1>2 DEF vars, OutcomeInv, BufferedEvents, AuditMatchesOutcome
  <2> QED
    BY <2>1, <2>2 DEF OutcomeInv
<1> QED
  BY <1>1, <1>2 DEF Next, AllServed

(* verify_audit_chain() accepts the committed log in every state, for any  *)
(* set of concurrent requests and any number of events per request.        *)
THEOREM ChainAlwaysVerifies == Spec => []ChainVerifies
<1>1. OutcomeInv => ChainVerifies
  BY DEF OutcomeInv, ChainInv, TypeOK, IsRow, Row, DistinctSequences,
         ChainedRows, Chains, ChainVerifies, VerifyAuditChain
<1> QED
  BY <1>1, ChainInit, OutcomeInductive, PTL DEF Spec

(* Rows and buffers always hold well-formed audit records.                 *)
THEOREM AuditTypeCorrect == Spec => []TypeOK
<1>1. OutcomeInv => TypeOK
  BY DEF OutcomeInv, ChainInv
<1> QED
  BY <1>1, ChainInit, OutcomeInductive, PTL DEF Spec

(* A request's events reach the log exactly when the request commits, and  *)
(* then all of them do.                                                    *)
THEOREM OutcomesAudited == Spec => []AuditMatchesOutcome
<1>1. OutcomeInv => AuditMatchesOutcome
  BY DEF OutcomeInv
<1> QED
  BY <1>1, ChainInit, OutcomeInductive, PTL DEF Spec
=============================================================================

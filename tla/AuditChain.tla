----------------------------- MODULE AuditChain -----------------------------
(***************************************************************************)
(* The hash-chained audit log of backend/apps/audit.                       *)
(*                                                                         *)
(* Every HTTP request is one PostgreSQL transaction (ATOMIC_REQUESTS in    *)
(* config/settings.py) at the default READ COMMITTED level.  A handler     *)
(* calls record_event() once or more; each call reads the row with the     *)
(* highest sequence FOR UPDATE, chains a new row to it and inserts it.     *)
(* The row lock is held until the request commits or rolls back.           *)
(*                                                                         *)
(* PostgreSQL takes the snapshot of a SELECT ... FOR UPDATE when the       *)
(* statement starts and waits for the row lock afterwards; the row it      *)
(* waited for is returned as long as nobody updated it, even when a newer  *)
(* row was committed during the wait.  ReadTail and LockTail are therefore *)
(* two steps.  What protects the chain is the UNIQUE constraint on         *)
(* sequence: inserting a sequence that is already there fails the request. *)
(***************************************************************************)
EXTENDS Naturals, FiniteSets

CONSTANTS
    Requests,           \* the HTTP requests that are served concurrently
    EventsPerRequest    \* bound: how often one handler calls record_event

ASSUME AuditAssumption == EventsPerRequest \in Nat \ {0}

VARIABLES
    events,     \* the committed rows of AuditEvent
    pc,         \* where each request is
    tail,       \* what each request's last FOR UPDATE query returned: one
                \* row, or none from an empty table
    own,        \* rows a request has inserted and not yet committed
    locked      \* sequences of the rows a request holds a row lock on

vars == <<events, pc, tail, own, locked>>

-----------------------------------------------------------------------------
GENESIS_HASH == <<>>

(* SHA-256 of the canonical JSON of a record, taken to be injective: the   *)
(* digest is the tuple of what was hashed.                                 *)
ChainedRecordHash(previous, sequence, content) == <<previous, sequence, content>>

(* What one row says: the request that wrote it and its ordinal there.     *)
Contents == Requests \X (1 .. EventsPerRequest)

Row(previous_hash, sequence, content) ==
    [sequence |-> sequence,
     previous_hash |-> previous_hash,
     content |-> content,
     record_hash |-> ChainedRecordHash(previous_hash, sequence, content)]

(* The row that record_event() builds on top of what it found.             *)
NextRow(found, content) ==
    IF found = {}
    THEN Row(GENESIS_HASH, 0, content)
    ELSE LET previous == CHOOSE e \in found : TRUE
         IN  Row(previous.record_hash, previous.sequence + 1, content)

(* ORDER BY sequence DESC, first(): the newest of rows, if there is one.   *)
Latest(rows) == {e \in rows : \A f \in rows : f.sequence <= e.sequence}

Ended(r)    == pc[r] \in {"committed", "failed"}

-----------------------------------------------------------------------------
Init ==
    /\ events = {}
    /\ pc = [r \in Requests |-> "idle"]
    /\ tail = [r \in Requests |-> {}]
    /\ own = [r \in Requests |-> {}]
    /\ locked = [r \in Requests |-> {}]

(* The request's transaction opens and its handler starts.                 *)
Begin(r) ==
    /\ pc[r] = "idle"
    /\ pc' = [pc EXCEPT ![r] = "handler"]
    /\ UNCHANGED <<events, tail, own, locked>>

(* record_event() issues its query: the statement's snapshot holds every   *)
(* committed row and the request's own rows.                               *)
ReadTail(r) ==
    /\ pc[r] = "handler"
    /\ Cardinality(own[r]) < EventsPerRequest
    /\ tail' = [tail EXCEPT ![r] = Latest(events \cup own[r])]
    /\ pc' = [pc EXCEPT ![r] = "waiting"]
    /\ UNCHANGED <<events, own, locked>>

(* The query gets the lock on the row it found, once no other request      *)
(* holds it.  An empty table has nothing to lock.                          *)
LockTail(r) ==
    /\ pc[r] = "waiting"
    /\ \A e \in tail[r], s \in Requests \ {r} : e.sequence \notin locked[s]
    /\ locked' = [locked EXCEPT ![r] = @ \cup {e.sequence : e \in tail[r]}]
    /\ pc' = [pc EXCEPT ![r] = "claimed"]
    /\ UNCHANGED <<events, tail, own>>

(* The row a request at "claimed" is about to insert.                      *)
ClaimedRow(r) == NextRow(tail[r], <<r, Cardinality(own[r]) + 1>>)

(* The UNIQUE constraint, against the rows that the request can see.       *)
TakenUnchecked(r, sequence) == FALSE

Taken(r, sequence) == \E e \in events \cup own[r] : e.sequence = sequence

(* The INSERT.  An uncommitted row with the same sequence makes it wait    *)
(* for that request to end.                                                *)
InsertRow(r) ==
    /\ pc[r] = "claimed"
    /\ ~ Taken(r, ClaimedRow(r).sequence)
    /\ \A s \in Requests \ {r} :
           \A e \in own[s] : e.sequence # ClaimedRow(r).sequence
    /\ own' = [own EXCEPT ![r] = @ \cup {ClaimedRow(r)}]
    /\ pc' = [pc EXCEPT ![r] = "handler"]
    /\ UNCHANGED <<events, tail, locked>>

(* The request's transaction is undone: its rows and its locks are gone.   *)
UndoKeepingEvents(r) ==
    /\ events' = events \cup own[r]
    /\ own' = [own EXCEPT ![r] = {}]
    /\ locked' = [locked EXCEPT ![r] = {}]
    /\ pc' = [pc EXCEPT ![r] = "failed"]
    /\ UNCHANGED tail

Undo(r) ==
    /\ own' = [own EXCEPT ![r] = {}]
    /\ locked' = [locked EXCEPT ![r] = {}]
    /\ pc' = [pc EXCEPT ![r] = "failed"]
    /\ UNCHANGED <<events, tail>>

(* The INSERT finds a committed row with that sequence: IntegrityError,    *)
(* which no handler catches.                                               *)
UniqueViolationRetried(r) ==
    /\ pc[r] = "claimed"
    /\ Taken(r, ClaimedRow(r).sequence)
    /\ pc' = [pc EXCEPT ![r] = "waiting"]
    /\ UNCHANGED <<events, tail, own, locked>>

UniqueViolation(r) ==
    /\ pc[r] = "claimed"
    /\ Taken(r, ClaimedRow(r).sequence)
    /\ Undo(r)

(* The handler raises, or the worker dies, after some of its events.       *)
HandlerFails(r) ==
    /\ pc[r] = "handler"
    /\ Undo(r)

(* The handler returns and ATOMIC_REQUESTS commits.                        *)
Commit(r) ==
    /\ pc[r] = "handler"
    /\ own[r] # {}
    /\ events' = events \cup own[r]
    /\ own' = [own EXCEPT ![r] = {}]
    /\ locked' = [locked EXCEPT ![r] = {}]
    /\ pc' = [pc EXCEPT ![r] = "committed"]
    /\ UNCHANGED tail

AllServed ==
    /\ \A r \in Requests : Ended(r)
    /\ UNCHANGED vars

Step(r) ==
    \/ Begin(r)
    \/ ReadTail(r)
    \/ LockTail(r)
    \/ InsertRow(r)
    \/ UniqueViolation(r)
    \/ HandlerFails(r)
    \/ Commit(r)

Next == (\E r \in Requests : Step(r)) \/ AllServed

Spec == Init /\ [][Next]_vars

(* A started request is executed to its end by its worker; PostgreSQL      *)
(* grants a released row lock.  A handler calls record_event a bounded     *)
(* number of times, so its steps end in a commit or a failure.             *)
FairSpec == Spec /\ \A r \in Requests : WF_vars(Step(r))

-----------------------------------------------------------------------------
(* The walk of verify_audit_chain() over rows in sequence order: the       *)
(* sequences are 0, 1, 2, ... without a gap or a repetition, every row     *)
(* names its predecessor's hash, and every hash is what the row's own      *)
(* fields hash to.                                                         *)
VerifyAuditChain(rows) ==
    /\ \A e, f \in rows : e.sequence = f.sequence => e = f
    /\ \A e \in rows :
           /\ e.record_hash
                = ChainedRecordHash(e.previous_hash, e.sequence, e.content)
           /\ IF e.sequence = 0
              THEN e.previous_hash = GENESIS_HASH
              ELSE \E p \in rows : /\ p.sequence = e.sequence - 1
                                   /\ e.previous_hash = p.record_hash

-----------------------------------------------------------------------------
IsRow(e) ==
    /\ e = Row(e.previous_hash, e.sequence, e.content)
    /\ e.sequence \in Nat
    /\ e.content \in Contents

(* Every row is a well-formed record of this log, in the table and in the  *)
(* requests' buffers, and requests are in one of the stages of a handler.  *)
TypeOK ==
    /\ \A e \in events : IsRow(e)
    /\ pc \in [Requests -> {"idle", "handler", "waiting", "claimed",
                             "committed", "failed"}]
    /\ DOMAIN tail = Requests /\ \A r \in Requests : \A e \in tail[r] : IsRow(e)
    /\ DOMAIN own = Requests /\ \A r \in Requests : \A e \in own[r] : IsRow(e)
    /\ locked \in [Requests -> SUBSET Nat]

(* Whatever concurrent requests do, verify_audit_chain() accepts the       *)
(* committed log: writers that chained to the same predecessor never both  *)
(* get in, and no gap is left by a request that rolled back.               *)
ChainVerifies == VerifyAuditChain(events)

(* The audit log tells what happened: a request that failed left none of   *)
(* its events, one that committed left exactly the events 1, 2, ... that   *)
(* it recorded, and one still running has shown none of them yet.          *)
AuditMatchesOutcome ==
    \A r \in Requests :
        LET mine == {e.content[2] : e \in {f \in events : f.content[1] = r}}
        IN  /\ pc[r] # "committed" => mine = {}
            /\ pc[r] = "committed" =>
                  \E n \in 1 .. EventsPerRequest : mine = 1 .. n

(* No request waits for an audit row lock for ever: each one that started  *)
(* commits or fails.                                                       *)
EveryRequestEnds == \A r \in Requests : pc[r] = "handler" ~> Ended(r)
=============================================================================

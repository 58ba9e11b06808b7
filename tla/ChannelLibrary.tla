--------------------------- MODULE ChannelLibrary ---------------------------
(***************************************************************************)
(* The channel library of resources: releases of channel definitions,      *)
(* imported whole under a named source and never changed again.  An import *)
(* is one READ COMMITTED transaction: what it inserts is invisible until   *)
(* it commits, and a second insert of the same unique key waits for it.    *)
(***************************************************************************)
EXTENDS Integers, Sequences, FiniteSets

CONSTANTS
    Payloads,               \* import payloads; digest is their content_sha256
    ApprovedReferences,     \* ICT_APPROVED_REFERENCE_IMPORTS
    LibraryWorkers,         \* requests that import
    None                    \* SQL NULL

VARIABLES
    source,         \* ResourceSource rows: slug to the payload it came with
    release,        \* ResourceRelease rows: slug and version to the payload
    importing       \* the import each worker has open, or None

libraryVars == <<source, release, importing>>

-----------------------------------------------------------------------------
(* ChannelImportSerializer.validate().                                     *)
PayloadValid(p) ==
    LET ids(records) == {records[k].identifier : k \in DOMAIN records}
    IN  /\ p.channels # <<>> \/ p.talkgroups # <<>>
        /\ Cardinality(ids(p.channels)) = Len(p.channels)
        /\ Cardinality(ids(p.talkgroups)) = Len(p.talkgroups)

(* reference_is_approved(): what a payload declares of a CISA document,    *)
(* its digest (content_sha256) included, must be in the approved list as   *)
(* one entry.  Nothing compares the digest with the records that follow.   *)
CisaTypes == {"cisa_nifog", "cisa_auxfog", "cisa_state_fog"}
Reviewed(type, url, version, digest) ==
    \E a \in ApprovedReferences :
        /\ a.type = type /\ a.url = url
        /\ a.version = version /\ a.digest = digest
ReferenceApproved(p) ==
    p.type \in CisaTypes =>
        Reviewed(p.type, p.url, p.version, p.digest)

SlugHeld(w, slug) ==
    \E v \in LibraryWorkers \ {w} :
        IF importing[v] = None THEN FALSE
        ELSE importing[v].creates /\ Payloads[importing[v].payload].slug = slug

(* The provenance of an existing source must be that of the payload.       *)
NameAlone(p) ==
    p.slug \in DOMAIN source => Payloads[source[p.slug]].name = p.name
ProvenanceAgrees(p) ==
    p.slug \in DOMAIN source =>
        \A field \in {"name", "type", "url"} :
            Payloads[source[p.slug]][field] = p[field]

(* apply_import() up to the insert of the release: the approval gate,      *)
(* get_or_create() of the source (which waits for another insert of the    *)
(* slug), its provenance, and the version.                                 *)
BeginImport(w, id) ==
    LET p == Payloads[id]
    IN  /\ importing[w] = None
        /\ PayloadValid(p)
        /\ ReferenceApproved(p)
        /\ p.slug \in DOMAIN source \/ ~ SlugHeld(w, p.slug)
        /\ ProvenanceAgrees(p)
        /\ <<p.slug, p.version>> \notin DOMAIN release
        /\ importing' = [importing EXCEPT ![w] =
              [payload |-> id, creates |-> p.slug \notin DOMAIN source]]
        /\ UNCHANGED <<source, release>>

Inserted(table, key, id) ==
    [k \in DOMAIN table \cup {key} |-> IF k \in DOMAIN table THEN table[k] ELSE id]

(* The release, its channels and talkgroups, the import record and the     *)
(* audit event are inserted and committed; the unique constraint refuses   *)
(* a version that another import has stored meanwhile.                     *)
CommitImport(w) ==
    /\ importing[w] # None
    /\ LET id == importing[w].payload
           p == Payloads[id]
       IN  /\ <<p.slug, p.version>> \notin DOMAIN release
           /\ source' = IF importing[w].creates THEN Inserted(source, p.slug, id)
                                                ELSE source
           /\ release' = Inserted(release, <<p.slug, p.version>>, id)
    /\ importing' = [importing EXCEPT ![w] = None]

RollBackImport(w) ==
    /\ importing[w] # None
    /\ importing' = [importing EXCEPT ![w] = None]
    /\ UNCHANGED <<source, release>>

LibraryInit ==
    /\ source = <<>>
    /\ release = <<>>
    /\ importing = [w \in LibraryWorkers |-> None]

-----------------------------------------------------------------------------
(* A release listed under a CISA source of any kind declares provenance    *)
(* that was reviewed together: type and URL of the source, version and     *)
(* declared digest are one entry of the approved list, although the gate   *)
(* looks at the payload and the source may be one that another import has  *)
(* created in between.  That the records are those of the document is the  *)
(* importer's word.                                                        *)
CisaReleasesReviewed ==
    \A key \in DOMAIN release :
        LET from == Payloads[source[key[1]]]
        IN  from.type \in CisaTypes =>
                Reviewed(from.type, from.url, key[2],
                         Payloads[release[key]].digest)
=============================================================================

---------------------------- MODULE FccReference ----------------------------
(***************************************************************************)
(* The FCC reference data of fcc_data: complete public archives are parsed *)
(* into a private spool, loaded as one batch per archive, and read by the  *)
(* tower search.  An import is a READ COMMITTED transaction of the         *)
(* management command; a reader is a web request that runs several         *)
(* queries, each of which sees what is committed when it starts.           *)
(***************************************************************************)
EXTENDS Integers, SequencesExt

CONSTANTS
    Archives,       \* the archives on disk, by the digest of their bytes
    Importers,      \* management commands that run at the same time
    Readers,        \* tower_details requests
    MaxMembers, MaxBytes, MaxRecords,   \* limits on an archive
    MaxFrequency,   \* MAX_FCC_FREQUENCY_HZ
    PageSize,       \* licenses listed by tower_details
    Blank, Bad       \* a blank field, and text that does not parse

VARIABLES
    stored,         \* digests with a FccImportBatch row
    current,        \* those whose row has is_current
    import,         \* what each importer is doing
    reader          \* what each reader has read

fccVars == <<stored, current, import, reader>>

ASSUME FccAssumption ==
    /\ MaxMembers \in Nat /\ MaxBytes \in Nat /\ MaxRecords \in Nat
    /\ MaxFrequency \in Nat /\ PageSize \in Nat
    /\ \A d \in DOMAIN Archives : \A k \in DOMAIN Archives[d].members :
          IsFiniteSet(DOMAIN Archives[d].members[k].rows)

Digests == DOMAIN Archives
UlsDatasets == {"uls_private", "uls_commercial"}
Datasets == UlsDatasets \cup {"asr"}

-----------------------------------------------------------------------------
(* The archive.  A member is its name, size and rows; a row keeps the      *)
(* fields that decide something.                                           *)
RequiredMembers(dataset) ==
    IF dataset = "asr" THEN {"RA", "CO", "EN"}
                       ELSE {"HD", "EN", "LO", "FR", "EM"}

(* _validated_members() and _rows(): no directory or path, no duplicate,   *)
(* nothing encrypted or oversized, every required member, and no more rows *)
(* than the limit.                                                         *)
ValidMembers(a) ==
    LET names == [k \in DOMAIN a.members |-> a.members[k].name]
    IN  /\ Len(a.members) \in 1..MaxMembers
        /\ IsInjective(names)
        /\ \A k \in DOMAIN a.members : a.members[k].plain
        /\ FoldLeft(LAMBDA sum, m : sum + m.bytes, 0, a.members) <= MaxBytes
        /\ RequiredMembers(a.dataset) \subseteq Range(names)
        /\ \A k \in DOMAIN a.members : Len(a.members[k].rows) <= MaxRecords

Rows(a, name) ==
    a.members[CHOOSE k \in DOMAIN a.members : a.members[k].name = name].rows

(* The first row of an id: later rows of that id are ignored.              *)
First(rows, id) ==
    rows[CHOOSE k \in DOMAIN rows :
            /\ rows[k].id = id
            /\ \A j \in 1..(k - 1) : rows[j].id # id]
HasRow(rows, id) == \E k \in DOMAIN rows : rows[k].id = id

(* _dms(): degrees, minutes, seconds and a direction as arc seconds; Blank  *)
(* when a part is blank or does not parse, when the direction is not one   *)
(* of the axis, and beyond the pole or the antimeridian.                   *)
Dms(c, positive, negative, maximum) ==
    IF \E part \in {"d", "m", "s"} : c[part] = Blank \/ c[part] = Bad
    THEN Blank
    ELSE LET size == c.d * 3600 + c.m * 60 + c.s
             arc  == IF c.dir = negative THEN -size ELSE size
             edge == maximum * 3600
         IN  IF c.dir \in {positive, negative} /\ -edge <= arc /\ arc <= edge
             THEN arc ELSE Blank

(* _coordinate_pair(): half a coordinate is no coordinate.                 *)
CoordinatePair(lat, lon) ==
    LET pair == <<Dms(lat, "N", "S", 90), Dms(lon, "E", "W", 180)>>
    IN  IF Blank \in Range(pair) THEN <<Blank, Blank>> ELSE pair

(* _frequency_hz(): tenths of a hertz, rounded half up; zero is blank.     *)
FrequencyHz(v) == IF v = Blank \/ v = 0 THEN Blank ELSE (v + 5) \div 10
FrequencyOk(v) ==
    v = Blank \/ v = 0 \/ (v # Bad /\ (v + 5) \div 10 \in 1..MaxFrequency)

-----------------------------------------------------------------------------
(* _parse_asr(): the registrations, each with the coordinates of its first *)
(* CO row and the owner of its first EN row of type O.                     *)
AsrValid(a) == \A k \in DOMAIN Rows(a, "RA") : Rows(a, "RA")[k].id # Blank
Structures(a) ==
    LET coordinates == Rows(a, "CO")
        owners == SelectSeq(Rows(a, "EN"), LAMBDA r : r.type = "O")
        structure(id) ==
            [registration |-> id,
             at |-> IF HasRow(coordinates, id)
                    THEN CoordinatePair(First(coordinates, id).lat,
                                        First(coordinates, id).lon)
                    ELSE <<Blank, Blank>>,
             owner |-> IF HasRow(owners, id) THEN First(owners, id).name
                                             ELSE Blank]
    IN  [k \in DOMAIN Rows(a, "RA") |-> structure(Rows(a, "RA")[k].id)]

(* _parse_uls(): a license is taken for its first licensee entity being    *)
(* governmental, or else for its radio service.                            *)
Selected(a, hd) ==
    LET entities == SelectSeq(Rows(a, "EN"), LAMBDA r : r.type = "L")
    IN  \/ hd.id # Blank /\ HasRow(entities, hd.id)
           /\ First(entities, hd.id).applicant = "G"
        \/ hd.service = "allowed"
Licenses(a) == {k \in DOMAIN Rows(a, "HD") : Selected(a, Rows(a, "HD")[k])}
Included(a) == {Rows(a, "HD")[k].id : k \in Licenses(a)}

(* _repair_entity_delimiters() gives up on an unknown shape; an included   *)
(* license needs its id and call sign; numbers and frequencies must parse, *)
(* and of a location that even when its license is not included.           *)
UlsValid(a) ==
    LET all(name, Ok(_)) == \A k \in DOMAIN Rows(a, name) : Ok(Rows(a, name)[k])
        whole(n) == n # Bad
    IN  /\ all("EN", LAMBDA r : r.repairable)
        /\ \A k \in Licenses(a) :
              Rows(a, "HD")[k].id # Blank /\ Rows(a, "HD")[k].call # Blank
        /\ all("LO", LAMBDA r : whole(r.number))
        /\ \A name \in {"FR", "EM"} :
              all(name, LAMBDA r : r.id \in Included(a) =>
                                      /\ FrequencyOk(r.frequency)
                                      /\ whole(r.number) /\ whole(r.antenna))

(* SpoolRecords.append(): INSERT OR IGNORE on the digest of the record; a  *)
(* record that is already there is not counted again.                      *)
AppendTwice(record, spool) ==
    [rows |-> spool.rows \cup {record}, count |-> spool.count + 1]
Append1(record, spool) ==
    IF record \in spool.rows
    THEN spool
    ELSE [rows |-> spool.rows \cup {record}, count |-> spool.count + 1]
Nothing == [rows |-> {}, count |-> 0]
Spooled(records, kept) == FoldFunctionOnSet(Append1, Nothing, records, kept)

(* The rows that are kept, and the records that are made of them.          *)
LocationRows(a) ==
    LET rows == Rows(a, "LO")
    IN  Spooled([k \in DOMAIN rows |->
                    [license |-> rows[k].id, number |-> rows[k].number,
                     tower |-> rows[k].tower,
                     at |-> CoordinatePair(rows[k].lat, rows[k].lon)]],
                {k \in DOMAIN rows : rows[k].id \in Included(a)
                                        /\ rows[k].number # Blank})

PlacedRow(a, r) ==
    /\ r.id \in Included(a)
    /\ FrequencyHz(r.frequency) # Blank
    /\ r.number # Blank /\ r.antenna # Blank
FrequencyRows(a) ==
    LET rows == Rows(a, "FR")
    IN  Spooled([k \in DOMAIN rows |->
                    [license |-> rows[k].id, number |-> rows[k].number,
                     antenna |-> rows[k].antenna,
                     hz |-> FrequencyHz(rows[k].frequency),
                     power |-> rows[k].power]],
                {k \in DOMAIN rows : PlacedRow(a, rows[k])})
EmissionRows(a) ==
    LET rows == Rows(a, "EM")
    IN  Spooled([k \in DOMAIN rows |->
                    [license |-> rows[k].id, number |-> rows[k].number,
                     antenna |-> rows[k].antenna,
                     hz |-> FrequencyHz(rows[k].frequency),
                     designator |-> rows[k].designator]],
                {k \in DOMAIN rows : PlacedRow(a, rows[k])
                                        /\ rows[k].designator # Blank})

(* parse_fcc_archive(): what an archive holds, by collection; only the     *)
(* collections of its own kind have rows.                                  *)
Valid(a) ==
    /\ a.named
    /\ ValidMembers(a)
    /\ IF a.dataset = "asr" THEN AsrValid(a) ELSE UlsValid(a)
Listed(rows, kept) ==
    [rows |-> {rows[k] : k \in kept}, count |-> Cardinality(kept)]
ParseArchive(a) ==
    IF a.dataset = "asr"
    THEN [dataset |-> a.dataset,
          structures |-> Listed(Structures(a), DOMAIN Structures(a)),
          licenses |-> Nothing,
          locations |-> Nothing, frequencies |-> Nothing, emissions |-> Nothing]
    ELSE [dataset |-> a.dataset,
          structures |-> Nothing, licenses |-> Listed(Rows(a, "HD"), Licenses(a)),
          locations |-> LocationRows(a),
          frequencies |-> FrequencyRows(a),
          emissions |-> EmissionRows(a)]
Collections ==
    {"structures", "licenses", "locations", "frequencies", "emissions"}
Parsed ==
    [d \in {x \in Digests : Valid(Archives[x])} |-> ParseArchive(Archives[d])]

(* The unique constraints of the five tables: one registration and one     *)
(* license id per batch, and one frequency and emission per place, though  *)
(* the parser keeps rows that differ in power alone.                       *)
Storable(p) ==
    LET place(r) == <<r.license, r.number, r.antenna, r.hz>>
        designated(r) == <<place(r), r.designator>>
        distinct(rows, Key(_)) == \A r, s \in rows : Key(r) = Key(s) => r = s
    IN  /\ Cardinality({r.registration : r \in p.structures.rows})
              = p.structures.count
        /\ Cardinality({r.id : r \in p.licenses.rows}) = p.licenses.count
        /\ distinct(p.frequencies.rows, place)
        /\ distinct(p.emissions.rows, designated)

-----------------------------------------------------------------------------
(* apply_complete_archive().                                               *)
DatasetOf(d) == Parsed[d].dataset
OfDataset(set, dataset) == {d \in set : DatasetOf(d) = dataset}
Idle == [step |-> "idle", digest |-> Blank, target |-> {}, held |-> {}]

(* handle() has parsed the archive; the transaction looks for a batch with *)
(* its digest, and returns it if there is one.                             *)
ImportLookup(i, d) ==
    /\ import[i].step = "idle"
    /\ import' = [import EXCEPT ![i] =
          IF d \in stored THEN Idle
          ELSE [Idle EXCEPT !.digest = d, !.step = "clear"]]
    /\ UNCHANGED <<stored, current, reader>>

(* The UPDATE that clears is_current starts: it sees the committed rows.   *)
ImportClear(i) ==
    /\ import[i].step = "clear"
    /\ import' = [import EXCEPT
          ![i].step = "wait",
          ![i].target = OfDataset(current, DatasetOf(import[i].digest))]
    /\ UNCHANGED <<stored, current, reader>>

(* It waits for rows another import has cleared, looks at them again, and  *)
(* leaves out those that are no longer current.                            *)
ClearedLatest(i) ==
    /\ import[i].step = "wait"
    /\ \A j \in Importers \ {i} : import[j].held \cap import[i].target = {}
    /\ import' = [import EXCEPT
          ![i].step = "load",
          ![i].held =
              LET old == import[i].target \cap current
              IN  {d \in old : d = CHOOSE e \in old : TRUE}]
    /\ UNCHANGED <<stored, current, reader>>
ImportCleared(i) ==
    /\ import[i].step = "wait"
    /\ \A j \in Importers \ {i} : import[j].held \cap import[i].target = {}
    /\ import' = [import EXCEPT
          ![i].step = "load",
          ![i].held = import[i].target \cap current]
    /\ UNCHANGED <<stored, current, reader>>

(* The batch and its rows are inserted and committed, unless another       *)
(* import has stored the same archive or a row breaks a constraint.        *)
ImportCommit(i) ==
    LET d == import[i].digest
    IN  /\ import[i].step = "load"
        /\ d \notin stored
        /\ Storable(Parsed[d])
        /\ stored' = stored \cup {d}
        /\ current' = (current \ import[i].held) \cup {d}
        /\ import' = [import EXCEPT ![i] = Idle]
        /\ UNCHANGED reader

(* A violated constraint, a full disk or a lost process rolls it all back. *)
AbortedClearing(i) ==
    /\ import[i].step \in {"clear", "wait", "load"}
    /\ import' = [import EXCEPT ![i] = Idle]
    /\ current' = current \ import[i].held
    /\ UNCHANGED <<stored, reader>>
ImportAbort(i) ==
    /\ import[i].step \in {"clear", "wait", "load"}
    /\ import' = [import EXCEPT ![i] = Idle]
    /\ UNCHANGED <<stored, current, reader>>

-----------------------------------------------------------------------------
(* dataset_status(): metadata of the current batch, without its rows.      *)
DatasetStatus(dataset) ==
    LET batches == OfDataset(current, dataset)
    IN  CASE batches = {}              -> [status |-> "not_imported"]
          [] Cardinality(batches) > 1  -> [status |-> "ambiguous"]
          [] OTHER                     ->
             [status |-> "available",
              counts |-> [c \in Collections |->
                  Parsed[CHOOSE d \in batches : TRUE][c].count]]

(* tower_details(): the structure of a current batch, a count of the       *)
(* current licenses with a location on it, a page of them, and then the    *)
(* current locations of each.                                              *)
LicensesAnywhere(tower) ==
    UNION {{d} \X {l.id : l \in Parsed[d].licenses.rows} : d \in current}
LicensesOn(tower) ==
    UNION {{d} \X {l.license : l \in {r \in Parsed[d].locations.rows :
                                         r.tower = tower}} : d \in current}
LocationsOf(license, tower) ==
    IF license[1] \notin current THEN {}
    ELSE {r \in Parsed[license[1]].locations.rows :
             r.license = license[2] /\ r.tower = tower}

NotReading == [step |-> "idle", tower |-> Blank, count |-> 0, seen |-> {},
               page |-> {}, left |-> {}, located |-> {}]

ReadStructure(r) ==
    /\ reader[r].step = "idle"
    /\ \E d \in OfDataset(current, "asr") : \E v \in Parsed[d].structures.rows :
          reader' = [reader EXCEPT ![r] =
              [NotReading EXCEPT !.step = "count", !.tower = v.registration]]
    /\ UNCHANGED <<stored, current, import>>

ReadCount(r) ==
    /\ reader[r].step = "count"
    /\ reader' = [reader EXCEPT
          ![r].step = "page",
          ![r].count = Cardinality(LicensesOn(reader[r].tower)),
          ![r].seen = current]
    /\ UNCHANGED <<stored, current, import>>

ReadPage(r) ==
    LET found == LicensesOn(reader[r].tower)
    IN  /\ reader[r].step = "page"
        /\ \E page \in SUBSET found :
              /\ Cardinality(page) = IF Cardinality(found) < PageSize
                                     THEN Cardinality(found) ELSE PageSize
              /\ reader' = [reader EXCEPT
                    ![r].step = IF page = {} THEN "done" ELSE "locations",
                    ![r].page = page, ![r].left = page]
        /\ UNCHANGED <<stored, current, import>>

ReadLocations(r) ==
    /\ reader[r].step = "locations"
    /\ \E license \in reader[r].left :
          reader' = [reader EXCEPT
              ![r].step = IF reader[r].left = {license} THEN "done"
                                                        ELSE "locations",
              ![r].left = @ \ {license},
              ![r].located = IF LocationsOf(license, reader[r].tower) = {}
                             THEN @ ELSE @ \cup {license}]
    /\ UNCHANGED <<stored, current, import>>

(* "truncated" of the response.                                            *)
Truncated(r) == reader[r].count > Cardinality(reader[r].page)

-----------------------------------------------------------------------------
FccInit ==
    /\ stored = {}
    /\ current = {}
    /\ import = [i \in Importers |-> Idle]
    /\ reader = [r \in Readers |-> NotReading]

-----------------------------------------------------------------------------
(* A dataset that has been imported always has a current batch, whichever  *)
(* imports race, meet their own archive or die halfway: the clearing and   *)
(* the new batch of apply_complete_archive() stand or fall together.       *)
CurrentKept ==
    \A dataset \in Datasets :
        OfDataset(stored, dataset) # {} => OfDataset(current, dataset) # {}

(* Two imports that race leave two current batches (status "ambiguous");   *)
(* the next import that commits without another landing since its UPDATE   *)
(* began leaves exactly one.                                               *)
QuietImportLeavesOne ==
    [][\A i \in Importers :
          import[i].digest \in stored' \ stored /\ import'[i] = Idle =>
              LET dataset == DatasetOf(import[i].digest)
              IN  OfDataset(current, dataset) \subseteq import[i].target =>
                      Cardinality(OfDataset(current', dataset)) = 1]_fccVars

(* Where dataset_status() says "available", the counts it reports without  *)
(* looking at the rows are the numbers of rows a search can find.          *)
AvailableIsExact ==
    \A dataset \in Datasets :
        DatasetStatus(dataset).status = "available" =>
            \A d \in OfDataset(current, dataset), c \in Collections :
                DatasetStatus(dataset).counts[c]
                    = Cardinality(Parsed[d][c].rows)

(* tower_details() lists a license without a location, or a wrong count,   *)
(* only when an import took the license's batch away while it was reading. *)
DetailsExplained ==
    \A r \in Readers : reader[r].step = "done" =>
        /\ \A license \in reader[r].page \ reader[r].located :
              license[1] \notin current
        /\ \/ reader[r].seen # current
           \/ Truncated(r) = (reader[r].page # LicensesOn(reader[r].tower))
=============================================================================

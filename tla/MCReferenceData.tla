-------------------------- MODULE MCReferenceData --------------------------
(***************************************************************************)
(* ReferenceData for TLC: archives with doubled, half-blank and clashing   *)
(* rows; payloads that meet under one slug; plans in which the transmit    *)
(* frequencies, areas and classifications of the rows meet every rule.     *)
(***************************************************************************)
EXTENDS ReferenceData

Arc(d, dir) == [d |-> d, m |-> 0, s |-> 0, dir |-> dir]
Nowhere == [d |-> Blank, m |-> Blank, s |-> Blank, dir |-> Blank]
Member(name, rows) == [name |-> name, bytes |-> 1, plain |-> TRUE, rows |-> rows]
Asr(ra, co) ==
    [dataset |-> "asr", named |-> TRUE,
     members |-> <<Member("RA", ra), Member("CO", co),
                   Member("EN", <<[id |-> "t1", type |-> "O", name |-> "n"]>>)>>]
Uls(hd, lo, fr) ==
    [dataset |-> "uls_private", named |-> TRUE,
     members |->
        <<Member("HD", hd),
          Member("EN", <<[id |-> "k1", type |-> "L", applicant |-> "G",
                          repairable |-> TRUE]>>),
          Member("LO", lo), Member("FR", fr),
          Member("EM", <<[id |-> "k1", frequency |-> 15, number |-> 1,
                          antenna |-> 1, designator |-> "e"]>>)>>]
License(id, service) == [id |-> id, call |-> "c", service |-> service]
Place(id, tower, lon) ==
    [id |-> id, number |-> 1, tower |-> tower, lat |-> Arc(90, "N"), lon |-> lon]
Frequency(id, v, power) ==
    [id |-> id, frequency |-> v, number |-> 1, antenna |-> 1, power |-> power]

MCArchives ==
    [a1 |-> Asr(<<[id |-> "t1"]>>,
                <<[id |-> "t1", lat |-> Arc(30, "N"), lon |-> Nowhere],
                  [id |-> "t1", lat |-> Arc(30, "N"), lon |-> Arc(97, "W")]>>),
     u1 |-> Uls(<<License("k1", "other"), License("k2", "allowed"),
                  License("k3", "other")>>,
                <<Place("k1", "t1", Arc(97, "W")), Place("k1", "t1", Arc(97, "W")),
                  Place("k2", "t1", Arc(181, "W")), Place("k3", "t1", Nowhere)>>,
                <<Frequency("k1", 15, 1), Frequency("k2", 0, 1)>>),
     u2 |-> Uls(<<License("k1", "other")>>, <<Place("k1", "t1", Nowhere)>>,
                <<Frequency("k1", 15, 1), Frequency("k1", 15, 1)>>),
     u3 |-> Uls(<<License("k1", "other")>>, <<>>,
                <<Frequency("k1", 15, 1), Frequency("k1", 15, 2)>>),
     u4 |-> Uls(<<License("k1", "other")>>, <<>>, <<Frequency("k1", 4, 1)>>),
     u5 |-> Uls(<<License("k2", "allowed")>>, <<>>, <<>>)]

(* A reviewed CISA release, another version that claims its slug for a     *)
(* local source, and a CISA release of another kind that nobody reviewed.  *)
Channel(id, rx, tx) == [identifier |-> id, rx |-> rx, tx |-> tx]
Payload(type, version, digest) ==
    [slug |-> "s", name |-> "n", type |-> type, url |-> "u",
     version |-> version, digest |-> digest,
     channels |-> <<Channel("c", "x", "y"), Channel("d", None, "y")>>,
     talkgroups |-> <<>>]
MCPayloads == [nifog |-> Payload("cisa_nifog", "v1", "g1"),
               other |-> Payload("local", "v2", "g2"),
               auxfog |-> Payload("cisa_auxfog", "v3", "g1")]
MCApproved ==
    {[type |-> "cisa_nifog", url |-> "u", version |-> "v1", digest |-> "g1"]}

Link(at, type, radius) == [at |-> at, rings |-> {[type |-> type, radius |-> radius]}]
Row(name, cls, rx, tx, links, channel, profile) ==
    [cls |-> cls, name |-> name, rx |-> rx, tx |-> tx, rxCode |-> "x",
     txCode |-> "y", links |-> links, channel |-> channel, profile |-> profile]
Near == {Link(0, "operational", 2)}
Edge == {Link(5, "coordination", 3)}
Far  == {Link(6, "coordination", 3), Link(0, "license", 9)}
Of(c) == <<<<"s", "v1">>, c>>
Codes(rx, tx) == [rx |-> rx, tx |-> tx]
MCAssignments ==
    [p1 |-> Row("a", "fixed_pair", 1, 5, Near, Of("c"), None),
     p2 |-> Row("b", "fixed_pair", 5, 1, Edge, Of("d"), Codes("x", "y")),
     p3 |-> Row("c", "fixed_pair", 1, 5, Near, None, Codes("y", "x")),
     t1 |-> Row("d", "transmit_only", None, 5, {}, None, Codes(None, "z")),
     t2 |-> Row("e", "transmit_only", None, 3, Near, None, None),
     r1 |-> Row("f", "receive_only", 2, None, Far, None, Codes("x", None)),
     n1 |-> Row("g", "named_system", None, None, {}, None, None),
     u1 |-> Row("h", "not_determined", 2, 5, {}, None, None),
     p4 |-> Row("i", "fixed_pair", 5, 7, Edge, None, None),
     p5 |-> Row("j", "fixed_pair", 1, 5, Near, None, None)]
MCPlans ==
    {<<"p1", "p2", "p3">>, <<"t1", "t2", "r1">>, <<"n1", "u1", "p4">>,
     <<"p3", "p5", "p4", "t2">>}

MCSymmetry == Permutations(Importers) \cup Permutations(LibraryWorkers)

(* The FCC archives share no table with the rest: a behaviour is about one *)
(* of them.                                                                *)
MCOneStory ==
    \/ import = [i \in Importers |-> Idle] /\ stored = {}
    \/ /\ ~ approved /\ ~ closed /\ release = <<>>
       /\ \A w \in LibraryWorkers : importing[w] = None
       /\ ruleGate /\ revision[1] = "p1"
=============================================================================

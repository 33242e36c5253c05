---------------------------- MODULE MCAssessment ----------------------------
(***************************************************************************)
(* A plant and two feeds for TLC: the tables hold three vendors and three  *)
(* families; each device discloses an order code, a family name, nothing,  *)
(* or a vendor nobody knows; the advisories state their ranges in the      *)
(* forms publishers use, about a family, a model or an order code.         *)
(***************************************************************************)
EXTENDS Assessment

Siemens == <<"siemens">>
Hitachi == <<"hitachi", "energy">>
Rockwell == <<"rockwell", "automation">>
S71200 == <<"simatic", "s7", "1200">>
Foxman == <<"foxman", "un">>

MCVendors ==
  << [id |-> Siemens, keys |-> {Siemens}, scheme |-> "siemens"],
     [id |-> Hitachi, keys |-> {Hitachi, <<"abb", "power", "grids">>}, scheme |-> "abb"],
     [id |-> Rockwell, keys |-> {Rockwell, <<"allen", "bradley">>}, scheme |-> "rockwell"] >>

MCFamilies ==
  << [vendor |-> Siemens, display |-> S71200, aliases |-> {<<"s7", "1200">>},
      models |-> {<<"cpu", "1214c">>, <<"cpu", "1215c">>}],
     [vendor |-> Hitachi, display |-> Foxman, aliases |-> {}, models |-> {}],
     [vendor |-> Rockwell, display |-> <<"controllogix">>, aliases |-> {}, models |-> {}] >>

MCLetters ==
  ("siemens" :> 7) @@ ("ag" :> 2) @@ ("hitachi" :> 7) @@ ("energy" :> 6) @@ ("abb" :> 3)
  @@ ("power" :> 5) @@ ("grids" :> 5) @@ ("rockwell" :> 8) @@ ("automation" :> 10)
  @@ ("allen" :> 5) @@ ("bradley" :> 7) @@ ("simatic" :> 7) @@ ("s7" :> 2) @@ ("s71200" :> 6)
  @@ ("1200" :> 4) @@ ("foxman" :> 6) @@ ("un" :> 2) @@ ("controllogix" :> 12) @@ ("cpu" :> 3)
  @@ ("1214c" :> 5) @@ ("1215c" :> 5) @@ ("L7" :> 2) @@ ("1" :> 1) @@ ("acme" :> 4)
  @@ ("plc" :> 3) @@ ("module" :> 6) @@ ("edge" :> 4)

MCRunTogether == [s71200 |-> <<"s7", "1200">>]

MCCorporateSuffixes == {"ag", "inc"}

MCGenericWords == {"cpu", "plc", "module", "all"}

-----------------------------------------------------------------------------
(* Releases, and what each is written as. *)
V(major, minor) == <<Number(major), Number(minor)>>
V45SP1 == V(4, 5) \o <<Alpha("sp"), Number(1)>>
R(n, letter) == <<Alpha("r"), Number(n), Alpha(letter)>>
R15BPC4 == R(15, "b") \o <<Alpha("pc"), Number(4)>>

S7Releases == {V(4, 2), V(4, 5), V45SP1, V(4, 6)}
FoxReleases == {R(15, "a"), R(15, "b"), R15BPC4, R(16, "a")}

Code1214 == <<"6ES7", "214", "1AG40", "0XB0">>
Code1215 == <<"6ES7", "215", "1AG40", "0XB0">>
CodeL71 == <<"1756", "L7", "1">>

-----------------------------------------------------------------------------
(* Devices. *)
Device(id, fields) == [id |-> id, identity |-> fields @@ EmptyIdentity]

Coded == Device(1, [catalog |-> Code1214, firmware |-> V(4, 2)])
Hidden == Device(2, [vendorRaw |-> <<"siemens", "ag">>, product |-> <<"s71200">>])
Named == Device(3, [vendor |-> Siemens, product |-> <<"s7", "1200">>,
                    firmware |-> <<Alpha("firmware")>> \o V(4, 5)])
Station == Device(4, [vendor |-> <<"abb", "power", "grids">>, productRaw |-> Foxman,
                      firmware |-> R15BPC4])
Silent == Device(5, [vendor |-> NoName])
Stranger == Device(6, [vendor |-> <<"acme">>, product |-> <<"plc">>])
Newer == Device(7, [vendor |-> Siemens, catalog |-> Code1215, firmware |-> V45SP1])
Rack == Device(8, [catalog |-> CodeL71, firmware |-> V(4, 2)])
Twin == Device(9, [catalog |-> Code1214])
Plain == Device(10, [vendor |-> Siemens, productRaw |-> S71200, firmware |-> V(4, 2)])

MCDevices == {Coded, Hidden, Named, Station, Silent, Stranger, Newer, Rack, Twin, Plain}

MCInventories ==
  {pair \in MCDevices \X MCDevices : pair[1] # pair[2]}
  \cup { <<Named, Stranger, Station>>, <<Newer, Rack, Twin>>, <<>> }

MCCouldBe ==
  << {"1214c"} \X {V(4, 2)}, {"1214c", "1215c"} \X S7Releases, {"1214c", "1215c"} \X {V(4, 5)},
     {"foxman"} \X {R15BPC4}, {}, {}, {"1215c"} \X {V45SP1}, {"l71"} \X {V(4, 2)},
     {"1214c"} \X S7Releases, {"1214c", "1215c"} \X {V(4, 2)} >>

-----------------------------------------------------------------------------
(* Documents. *)
Branch(category, name) == [category |-> category, name |-> name]

Full(id, name) ==
  [id |-> id, name |-> name, printed |-> NoCode, model |-> NoName, sku |-> NoCode, cpe |-> NoCode]

Leaf(vendor, family, full, statement) ==
  [path |-> <<Branch("vendor", vendor), Branch("product_family", family),
              Branch("product_version_range", statement)>>, full |-> full]

Base(id) == [base |-> id, vector |-> id, label |-> ""]

Vuln(cve, affected) ==
  [cve |-> cve, ids |-> <<>>, status |-> [known_affected |-> affected, fixed |-> {}],
   scores |-> <<>>, remediations |-> <<>>, references |-> {}, kev |-> FALSE, epss |-> 0]

Remedy(category, products) == [category |-> category, url |-> None, products |-> products]

Doc(id, published, leaves, vulns) ==
  [id |-> id, published |-> published, url |-> id, leaves |-> leaves, listed |-> <<>>,
   relations |-> <<>>, vulns |-> vulns]

(* S7-1200 below V4.5, exploited; and CPU 1215C in every version. *)
S7Advisory ==
  Doc(101, 5,
    << Leaf(<<"siemens", "ag">>, S71200, Full(11, S71200), <<Piece("<"), Written(V(4, 5))>>),
       Leaf(Siemens, S71200,
            [Full(12, S71200 \o <<"cpu", "1215c">>) EXCEPT !.printed = Code1215], <<>>),
       Leaf(<<"acme">>, <<"edge">>, Full(13, <<"edge">>), <<Piece("all versions")>>) >>,
    << [Vuln(201, {11}) EXCEPT !.kev = TRUE, !.scores = <<(3 :> Base(75)) @@ (2 :> Base(90))>>,
          !.remediations = <<Remedy("vendor_fix", {11}), Remedy("none_available", {})>>],
       [Vuln(202, {12}) EXCEPT !.scores = <<(3 :> Base(98))>>, !.epss = 90,
          !.references = {301}] >>)

(* FOXMAN-UN up to R15A, and from R15B to below R16A; one CVE names nobody. *)
FoxAdvisory ==
  Doc(102, 4,
    << Leaf(Hitachi, Foxman, Full(21, Foxman), <<Written(R(15, "a")), Piece("and prior")>>),
       Leaf(Hitachi, Foxman, Full(22, Foxman),
            <<Piece(">="), Written(R(15, "b")), Piece("<"), Written(R(16, "a"))>>) >>,
    << [Vuln(203, {21}) EXCEPT !.remediations = <<Remedy("no_fix_planned", {})>>],
       [Vuln(204, {22}) EXCEPT !.remediations = <<Remedy("restart", {22})>>,
          !.scores = <<(2 :> Base(90))>>],
       [Vuln(205, {}) EXCEPT !.status = <<>>] >>)

(* One order code in a range given by its two ends, without a CVE; the      *)
(* second product is the first one on a module.                             *)
CodeAdvisory ==
  [Doc(103, 3,
    << Leaf(Siemens, S71200, [Full(31, S71200) EXCEPT !.sku = Code1214],
            <<Written(V(4, 2)), Piece("through"), Written(V(4, 5))>>),
       Leaf(Siemens, S71200, Full(31, S71200), <<>>),
       Leaf(Siemens, S71200, [Full(34, S71200) EXCEPT !.model = <<"cpu", "1215c">>], <<>>) >>,
    << Vuln(211, {34}), [Vuln(None, {31, 32}) EXCEPT !.remediations = <<Remedy("workaround", {31})>>] >>)
   EXCEPT !.relations = << [reference |-> 31, full |-> Full(32, S71200 \o <<"module">>)] >>,
          !.listed = << Full(33, <<"edge">>) >>]

(* A ControlLogix controller up to but not including 4.5; no vulnerability. *)
RackAdvisory ==
  Doc(104, 0,
    << Leaf(<<"allen", "bradley">>, <<"controllogix">>, [Full(41, CodeL71) EXCEPT !.sku = CodeL71],
            <<Piece("up to but not including"), Written(V(4, 5))>>) >>, <<>>)

(* Ranges in the other forms: vers, a release line, words on either side.  *)
FormsAdvisory ==
  Doc(106, 6,
    << Leaf(Siemens, S71200, Full(71, S71200),
            <<Piece("vers:"), Piece(">"), Written(V(4, 2)), Piece("<="), Written(V(4, 5))>>),
       Leaf(Siemens, S71200, Full(72, S71200), <<Line(V(4, 5))>>),
       Leaf(Siemens, S71200, Full(73, S71200), <<Piece("after"), Written(V(4, 5))>>),
       Leaf(Hitachi, Foxman, Full(74, Foxman), <<Written(R(15, "b")), Piece("or later")>>),
       Leaf(Hitachi, Foxman, Full(75, Foxman), <<Piece("see the bulletin")>>),
       Leaf(Siemens, S71200, Full(76, S71200),
            <<Written(V(4, 5)), CounterWord(<<Alpha("sp"), Number(1)>>), Piece("and prior")>>) >>,
    << Vuln(208, {71, 74}), Vuln(209, {72, 73, 75, 76}) >>)

(* Published before the day asked for; and one the corpus refuses. *)
OldAdvisory ==
  Doc(105, 1, << Leaf(Siemens, S71200, Full(51, S71200), <<Piece("all versions")>>) >>,
      << Vuln(206, {51}) >>)

Nameless ==
  Doc(None, 5, << Leaf(Siemens, S71200, Full(61, S71200), <<>>) >>, << Vuln(207, {61}) >>)

MCDocuments ==
  { <<S7Advisory, CodeAdvisory, OldAdvisory>>, <<CodeAdvisory, Nameless, FoxAdvisory, S7Advisory>>,
    <<FoxAdvisory, RackAdvisory, CodeAdvisory>>, <<FormsAdvisory, S7Advisory>> }

MCCovers ==
  (11 :> ({"1214c", "1215c"} \X {V(4, 2)})) @@ (12 :> ({"1215c"} \X S7Releases)) @@ (13 :> {})
  @@ (21 :> ({"foxman"} \X {R(15, "a")})) @@ (22 :> ({"foxman"} \X {R(15, "b"), R15BPC4}))
  @@ (31 :> ({"1214c"} \X {V(4, 2), V(4, 5)}))
  @@ (32 :> ({"1214c"} \X {V(4, 2), V(4, 5)})) @@ (33 :> {})
  @@ (34 :> ({"1215c"} \X S7Releases)) @@ (41 :> ({"l71"} \X {V(4, 2)}))
  @@ (71 :> ({"1214c", "1215c"} \X {V(4, 5)})) @@ (72 :> ({"1214c", "1215c"} \X {V(4, 5), V45SP1}))
  @@ (73 :> ({"1214c", "1215c"} \X {V45SP1, V(4, 6)}))
  @@ (74 :> ({"foxman"} \X {R(15, "b"), R15BPC4, R(16, "a")})) @@ (75 :> ({"foxman"} \X FoxReleases))
  @@ (76 :> ({"1214c", "1215c"} \X {V(4, 2), V(4, 5), V45SP1}))
  @@ (51 :> ({"1214c", "1215c"} \X S7Releases)) @@ (61 :> ({"1214c", "1215c"} \X S7Releases))

Link(advisory) == [csaf |-> FALSE, boilerplate |-> FALSE, advisories |-> {advisory}, cves |-> {}]

MCLinks ==
  [u \in 101 .. 106 |-> Link(u)]
  @@ (301 :> [csaf |-> FALSE, boilerplate |-> TRUE, advisories |-> {}, cves |-> {202}])

(* Both products of one advisory in one device: the family in every version *)
(* with one CVE, the model with another.                                    *)
MixedAdvisory ==
  Doc(101, 5,
    << Leaf(Siemens, S71200, Full(11, S71200), <<Piece("<"), Written(V(4, 6))>>),
       Leaf(Siemens, S71200, [Full(12, S71200) EXCEPT !.model = <<"cpu", "1215c">>], <<>>) >>,
    << Vuln(201, {11}), Vuln(202, {12}) >>)

MCMixedDocuments == { <<MixedAdvisory, CodeAdvisory, FoxAdvisory>> }

MCMixedCovers == (11 :> ({"1214c", "1215c"} \X (S7Releases \ {V(4, 6)}))) @@ MCCovers
=============================================================================

----------------------------- MODULE Normalizer -----------------------------
(***************************************************************************)
(* Names of vendors and products, and the normalization of an identity     *)
(* (internal/normalize/vendor.go, product.go, normalizer.go).              *)
(*                                                                         *)
(* A name is the sequence of words VendorKey and ProductKey reduce a       *)
(* spelling to; the empty name is an empty field.                          *)
(***************************************************************************)
EXTENDS Ranges, Catalog

CONSTANTS
  Vendors,      \* the alias table: a sequence of [id, keys, scheme]
  Families,     \* the product table: a sequence of [vendor, display, aliases, models]
  Letters,      \* how many characters each word has
  RunTogether,  \* the words that are several words written without a space
  CorporateSuffixes

Ids(table) == {table[i].id : i \in DOMAIN table}

ASSUME TablesAssumption ==
  \* ParseVendorTable refuses a table in which an alias has two vendors.
  /\ \A i, j \in DOMAIN Vendors :
       i # j => Vendors[i].id # Vendors[j].id /\ Vendors[i].keys \cap Vendors[j].keys = {}
  /\ \A i \in DOMAIN Vendors : Vendors[i].id \in Vendors[i].keys
  /\ \A i \in DOMAIN Families : Families[i].vendor \in Ids(Vendors) /\ Families[i].display # <<>>

-----------------------------------------------------------------------------
(* Words and phrases. *)

(* The length of a name as text: its letters and the spaces between words.  *)
Width(name) == FoldLeft(LAMBDA n, w : n + Letters[w] + 1, -1, name)

HasPhrase(name, phrase) ==
  /\ phrase # <<>>
  /\ \E i \in 0 .. Len(name) - Len(phrase) : SubSeq(name, i + 1, i + Len(phrase)) = phrase

Longest(names) == CHOOSE n \in names : \A m \in names : Width(m) <= Width(n)

(* compactKey: the name without its spaces. *)
Compact(name) ==
  FlattenSeq([i \in DOMAIN name |->
    IF name[i] \in DOMAIN RunTogether THEN RunTogether[name[i]] ELSE <<name[i]>>])

TrimTrailing(name, words) ==
  SubSeq(name, 1, Max({1} \cup {i \in DOMAIN name : name[i] \notin words}))

TrimCorporateSuffixes(name) ==
  TrimTrailing(TrimTrailing(name, CorporateSuffixes), {"&", "and"})

FirstOf(names) == FoldLeft(LAMBDA got, n : IF got # NoName THEN got ELSE n, NoName, names)

-----------------------------------------------------------------------------
(* The vendor table: exact, then without the legal form, then the longest   *)
(* alias inside the string.                                                 *)
VendorKeys == UNION {Vendors[i].keys : i \in DOMAIN Vendors}

VendorOf(key) == Vendors[CHOOSE i \in DOMAIN Vendors : key \in Vendors[i].keys]

AliasesInside(name) == {k \in VendorKeys : Width(k) >= 4 /\ HasPhrase(name, k)}

LookupVendor(name) ==
  IF name = NoName THEN NoName
  ELSE IF name \in VendorKeys THEN VendorOf(name).id
  ELSE IF TrimCorporateSuffixes(name) \in VendorKeys THEN VendorOf(TrimCorporateSuffixes(name)).id
  ELSE IF AliasesInside(name) # {} THEN VendorOf(Longest(AliasesInside(name))).id
  ELSE NoName

RecordOf(vendor) == SelectSeq(Vendors, LAMBDA v : v.id = vendor)

(* VersionSchemeFor and ComparatorForVendor. *)
SchemeOf(vendor) == IF RecordOf(vendor) = <<>> THEN "generic" ELSE RecordOf(vendor)[1].scheme

-----------------------------------------------------------------------------
(* The product table.  A model is tried before a family, and a spelling     *)
(* with its spaces before one without.                                      *)
NamesOf(family) == {family.display} \cup family.aliases

Claiming(name, viaModel, compact) ==
  LET Spelled(n) == IF compact THEN Compact(n) = Compact(name) ELSE n = name
  IN  SelectSeq(Families, LAMBDA f :
        \E n \in IF viaModel THEN f.models ELSE NamesOf(f) : Spelled(n))

(* pickFamily: without a vendor only an answer nobody else claims.          *)
PickFamily(candidates, vendor) ==
  IF vendor = NoName THEN IF Len(candidates) = 1 THEN candidates ELSE <<>>
  ELSE SelectSeq(candidates, LAMBDA f : f.vendor = vendor)

Lookups == << [viaModel |-> TRUE, compact |-> FALSE], [viaModel |-> FALSE, compact |-> FALSE],
              [viaModel |-> TRUE, compact |-> TRUE], [viaModel |-> FALSE, compact |-> TRUE] >>

Resolve(vendor, name) ==
  LET Found(l) == PickFamily(Claiming(name, l.viaModel, l.compact), vendor)
      hit == SelectInSeq(Lookups, LAMBDA l : Found(l) # <<>>)
  IN  IF hit = 0 THEN [found |-> FALSE]
      ELSE [found |-> TRUE, family |-> Found(Lookups[hit])[1], viaModel |-> Lookups[hit].viaModel]

ProductKeys == UNION {NamesOf(Families[i]) \cup Families[i].models : i \in DOMAIN Families}

(* LookupProduct: the name itself, else the longest known name inside it    *)
(* that resolves.                                                           *)
KnownInside(vendor, name) ==
  {k \in ProductKeys : Width(k) >= 3 /\ HasPhrase(name, k) /\ Resolve(vendor, k).found}

OrInside(exact, vendor, inside) ==
  IF exact.found \/ inside = {} THEN exact ELSE Resolve(vendor, Longest(inside))

LookupProduct(vendor, name) ==
  LET exact == Resolve(vendor, name)
      match == OrInside(exact, vendor, KnownInside(vendor, name))
  IN  [match |-> match, found |-> name # NoName /\ match.found, exact |-> exact.found]

-----------------------------------------------------------------------------
(* Identities. *)

EmptyIdentity ==
  [vendor |-> NoName, vendorRaw |-> NoName, product |-> NoName, productRaw |-> NoName,
   family |-> NoName, model |-> NoName, catalog |-> NoCode,
   firmware |-> NoVersion, firmwareRaw |-> NoVersion]

(* The labels of a version, those of several words before their beginnings. *)
VersionLabels == << <<Alpha("firmware"), Alpha("rev")>>, <<Alpha("firmware")>>,
                    <<Alpha("fw"), Alpha("rev")>>, <<Alpha("fw")>>, <<Alpha("rev")>> >>

(* CleanVersion strips one label. *)
CleanVersion(version) ==
  LET hit == SelectInSeq(VersionLabels, LAMBDA l : IsPrefix(l, version))
  IN  IF hit = 0 THEN version
      ELSE SubSeq(version, Len(VersionLabels[hit]) + 1, Len(version))

(* Normalizer.Identity: what was read is kept as it was spelled; ...        *)
KeepRaw(in) ==
  [in EXCEPT !.vendorRaw = FirstOf(<<in.vendorRaw, in.vendor>>),
             !.productRaw = FirstOf(<<in.productRaw, in.product>>),
             !.firmwareRaw = IF in.firmwareRaw = <<>> THEN in.firmware ELSE in.firmwareRaw]

(* ... an order code names the vendor before any text does, and fills what  *)
(* is not told; ...                                                         *)
ResolveNames(in, code) ==
  LET cleaned == CleanVersion(in.firmware)
  IN  [in EXCEPT
         !.vendor = FirstOf(<<LookupVendor(code.vendor), LookupVendor(in.vendorRaw),
                              LookupVendor(in.vendor), LookupVendor(in.productRaw)>>),
         !.family = FirstOf(<<in.family, code.family>>),
         !.model = FirstOf(<<in.model, code.model>>),
         !.catalog = IF code.normalized = NoCode THEN in.catalog ELSE code.normalized,
         !.firmware = IF cleaned = <<>> THEN CleanVersion(in.firmwareRaw) ELSE cleaned]

(* ... and the first text that names a family settles family and product.   *)
Recognised(id) ==
  LET texts == <<id.productRaw, id.product, id.model, id.family>>
  IN  SelectSeq([i \in DOMAIN texts |-> LookupProduct(id.vendor, texts[i])], LAMBDA a : a.found)

WithFamily(id, answers) ==
  LET known == answers[1].match.family
  IN  IF answers = <<>> THEN id
      ELSE [id EXCEPT !.family = known.display,
                      !.product = FirstOf(<<@, known.display>>),
                      !.vendor = FirstOf(<<@, known.vendor>>)]

(* resolved is the vendor of the alias table alone, the vendor of the       *)
(* result may come from the family.                                         *)
Report(id) == [resolved |-> id.vendor, result |-> WithFamily(id, Recognised(id))]

Identity(in) == Report(ResolveNames(KeepRaw(in), ParseCatalog(in.catalog)))

(* What makes an identity empty, and the label a report shows.              *)
IsEmpty(id) == id = EmptyIdentity

Label(id) ==
  <<FirstOf(<<id.vendor, id.vendorRaw>>),
    FirstOf(<<id.product, id.productRaw, id.family>>), id.firmware>>
=============================================================================

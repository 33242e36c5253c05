--------------------------- MODULE Identification ---------------------------
(***************************************************************************)
(* How strongly a device and a product node of an advisory describe the    *)
(* same thing (internal/match/identity.go), their vendors being equal.     *)
(***************************************************************************)
EXTENDS Advisories

CONSTANT GenericWords  \* words advisories share, which name no device

(* Ranks of a field and strengths of a match: the same four levels. *)
Nothing == 0
FamilyLevel == 1
ProductLevel == 2
CatalogLevel == 3

IdentityMatch == [strength : Nothing .. CatalogLevel, finer : BOOLEAN]

Informative(name) == \E i \in DOMAIN name : name[i] \notin GenericWords

(* Of the fields that hold the same key the first one, the strongest, is    *)
(* kept.  A field without a key matches nothing.                            *)
CollectFields(fields) ==
  [i \in DOMAIN fields |->
     IF \E k \in DOMAIN fields : k < i /\ fields[k].key = fields[i].key
     THEN [fields[i] EXCEPT !.key = NoName] ELSE fields[i]]

Field(key, rank) == [key |-> key, rank |-> rank, wholeName |-> FALSE]

AssetFields(id) ==
  CollectFields(<<Field(id.model, ProductLevel), Field(id.product, ProductLevel),
                  Field(id.productRaw, ProductLevel), Field(id.family, FamilyLevel)>>)

AdvisoryFields(p) ==
  CollectFields(<<Field(p.model, ProductLevel), Field(p.product, ProductLevel),
                  Field(p.productRaw, ProductLevel),
                  [Field(p.name, ProductLevel) EXCEPT !.wholeName = TRUE],
                  Field(p.family, FamilyLevel), Field(p.familyRaw, FamilyLevel)>>)

(* A string that is exactly the name of a family ranks as one, whichever    *)
(* field it sits in.                                                        *)
IsFamilyName(answer) == answer.found /\ answer.exact /\ ~ answer.match.viaModel

DemoteFamilyNames(vendor, fields) ==
  [i \in DOMAIN fields |->
     IF fields[i].rank > FamilyLevel /\ IsFamilyName(LookupProduct(vendor, fields[i].key))
     THEN [fields[i] EXCEPT !.rank = FamilyLevel] ELSE fields[i]]

(* What the longer name says beyond the shorter one. *)
Added(outer, inner) ==
  LET at == Min({i \in 0 .. Len(outer) - Len(inner) :
                    SubSeq(outer, i + 1, i + Len(inner)) = inner})
  IN  SubSeq(outer, 1, at) \o SubSeq(outer, at + Len(inner) + 1, Len(outer))

AddsOnlyFiller(outer, inner) == ~ Informative(Added(outer, inner))

Vaguer(a, b) == Min({a.rank, b.rank})

NoPair == [strength |-> Nothing, key |-> NoName]

ContainmentMatch(a, b) ==
  LET inner == IF HasPhrase(b.key, a.key) THEN a ELSE b
      outer == IF HasPhrase(b.key, a.key) THEN b ELSE a
  IN  IF /\ HasPhrase(outer.key, inner.key)
         /\ Width(inner.key) >= 5 /\ Informative(inner.key)
         /\ AddsOnlyFiller(outer.key, inner.key) \/ inner.rank >= ProductLevel
      THEN [strength |-> Vaguer(a, b), key |-> inner.key]
      ELSE NoPair

PairMatch(a, b) ==
  IF a.key # b.key THEN ContainmentMatch(a, b)
  ELSE IF Informative(a.key) THEN [strength |-> Vaguer(a, b), key |-> a.key]
  ELSE NoPair

(* Every pair is tried; the first of the strongest wins. *)
BestPair(assetSide, advisorySide) ==
  LET Strongest(i) == Max({PairMatch(assetSide[i], advisorySide[j]).strength : j \in DOMAIN advisorySide})
      top == Max({Strongest(i) : i \in DOMAIN assetSide})
      a == assetSide[Min({i \in DOMAIN assetSide : Strongest(i) = top})]
  IN  PairMatch(a, advisorySide[Min({j \in DOMAIN advisorySide :
                                       PairMatch(a, advisorySide[j]).strength = top})])

(* advisoryOutranksMatch: the advisory names something finer than matched. *)
OutranksMatch(advisorySide, pair) ==
  \E f \in ToSet(advisorySide) :
    /\ ~ f.wholeName /\ f.key # pair.key
    /\ f.rank > pair.strength /\ Informative(f.key)

MatchOf(pair, advisorySide) ==
  [strength |-> pair.strength,
   finer |-> pair.strength # Nothing /\ OutranksMatch(advisorySide, pair)]

CompareNames(id, p) ==
  LET advisorySide == DemoteFamilyNames(p.vendor, AdvisoryFields(p))
  IN  MatchOf(BestPair(DemoteFamilyNames(id.vendor, AssetFields(id)), advisorySide), advisorySide)

(* A CPE or an order code that agrees settles the question, two order codes *)
(* that differ settle it the other way.                                     *)
CompareIdentity(id, p) ==
  IF id.catalog # NoCode /\ p.cpe = id.catalog THEN [strength |-> CatalogLevel, finer |-> FALSE]
  ELSE IF id.catalog # NoCode /\ p.catalog # NoCode
  THEN [strength |-> IF p.catalog = id.catalog THEN CatalogLevel ELSE Nothing, finer |-> FALSE]
  ELSE CompareNames(id, p)
=============================================================================

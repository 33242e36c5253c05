------------------------- MODULE Assessment_proofs --------------------------
(***************************************************************************)
(* What an assessment computes, for any feeds, plants and tables: a        *)
(* finding for each device and each advisory with a node that survives     *)
(* both checks, and no other, counted, put in order and exported.          *)
(***************************************************************************)
EXTENDS Assessment, Counting_proofs

(* The documents of all feeds, and the advisories they may become.          *)
Docs == UNION {ToSet(feed) : feed \in Documents}

Accepted == {advisory \in {ReadCSAF(doc) : doc \in Docs} : Validate(advisory)}

LEMMA SequenceIsFinite ==
  ASSUME NEW S, NEW s \in Seq(S)
  PROVE  IsFiniteSet(DOMAIN s) /\ DOMAIN s \in SUBSET Nat
<1>1. DOMAIN s = 1 .. Len(s) /\ Len(s) \in Nat
  OBVIOUS
<1> QED
  BY <1>1, FS_Interval

-----------------------------------------------------------------------------
(* Reading. *)

(* Products with an identifier of their own each. *)
Distinct(products) ==
  /\ IsFiniteSet(products)
  /\ \A p \in products : p.id \in Nat /\ "id" \in DOMAIN p
  /\ \A p, q \in products : p.id = q.id => p = q

LEMMA KeepFirstIsDistinct ==
  ASSUME NEW s, IsFiniteSet(DOMAIN s), DOMAIN s \in SUBSET Nat,
         \A i \in DOMAIN s : s[i].id \in Nat /\ "id" \in DOMAIN s[i]
  PROVE  Distinct(KeepFirst(s)) /\ KeepFirst(s) \subseteq {s[i] : i \in DOMAIN s}
<1> DEFINE Kept(i) == /\ s[i].id # None
                      /\ \A j \in DOMAIN s : j < i => s[j].id # s[i].id
           K == {j \in DOMAIN s : Kept(j)}
<1>1. KeepFirst(s) = {s[i] : i \in K}
  BY DEF KeepFirst
<1>2. IsFiniteSet(K)
  BY FS_Subset
<1>3. IsFiniteSet({s[i] : i \in K})
  BY <1>2, ImageIsFinite
<1>4. ASSUME NEW i \in K, NEW j \in K, s[i].id = s[j].id PROVE i = j
  <2>1. i \in Nat /\ j \in Nat /\ ~ (i < j) /\ ~ (j < i)
    BY <1>4
  <2> QED
    BY <2>1
<1> HIDE DEF K
<1>5. K \subseteq DOMAIN s
  BY DEF K
<1> QED
  BY <1>1, <1>3, <1>4, <1>5 DEF Distinct

LEMMA FlattenedIsDistinct ==
  ASSUME NEW doc, Readable(doc)
  PROVE  Distinct(FlattenProductTree(doc))
<1> DEFINE listed == [i \in DOMAIN doc.listed |-> BuildProduct(doc.listed[i], NoContext)]
           tree == TreeProducts(doc)
           declared == KeepFirst(tree \o listed)
           relations == RelatedProducts(doc, declared)
           related == KeepFirst(relations)
<1>1. /\ DOMAIN doc.leaves = 1 .. Len(doc.leaves) /\ Len(doc.leaves) \in Nat
      /\ DOMAIN doc.listed = 1 .. Len(doc.listed) /\ Len(doc.listed) \in Nat
  BY DEF Readable
<1>2. /\ DOMAIN tree = 1 .. Len(doc.leaves)
      /\ \A i \in DOMAIN tree : tree[i].id \in Nat /\ "id" \in DOMAIN tree[i]
  BY <1>1 DEF TreeProducts, BuildProduct, Readable, ToSet, None
<1>3. /\ DOMAIN listed = 1 .. Len(doc.listed)
      /\ \A i \in DOMAIN listed : listed[i].id \in Nat /\ "id" \in DOMAIN listed[i]
  BY <1>1 DEF BuildProduct, Readable, ToSet
<1>4. /\ DOMAIN relations = DOMAIN doc.relations
      /\ \A i \in DOMAIN relations : relations[i].id \in Nat /\ "id" \in DOMAIN relations[i]
  BY DEF RelatedProducts, BuildProduct, Readable, ToSet
<1> HIDE DEF tree, listed, relations
<1>5. tree \in Seq({tree[i] : i \in DOMAIN tree}) /\ listed \in Seq({listed[i] : i \in DOMAIN listed})
  <2>1. tree \in [1 .. Len(doc.leaves) -> {tree[i] : i \in DOMAIN tree}]
    BY <1>2 DEF tree, TreeProducts
  <2>2. listed \in [1 .. Len(doc.listed) -> {listed[i] : i \in DOMAIN listed}]
    BY <1>3 DEF listed
  <2> QED
    BY <1>1, <2>1, <2>2
<1>6. /\ IsFiniteSet(DOMAIN (tree \o listed)) /\ DOMAIN (tree \o listed) \in SUBSET Nat
      /\ \A i \in DOMAIN (tree \o listed) :
           (tree \o listed)[i].id \in Nat /\ "id" \in DOMAIN (tree \o listed)[i]
  <2> DEFINE all == {tree[i] : i \in DOMAIN tree} \cup {listed[i] : i \in DOMAIN listed}
  <2>1. tree \o listed \in Seq(all)
    BY <1>5
  <2>2. \A p \in all : p.id \in Nat /\ "id" \in DOMAIN p
    BY <1>2, <1>3
  <2> HIDE DEF all
  <2>3. \A i \in DOMAIN (tree \o listed) : (tree \o listed)[i] \in all
    BY <2>1
  <2> QED
    BY <2>1, <2>2, <2>3, SequenceIsFinite
<1>7. Distinct(declared)
  BY <1>6, KeepFirstIsDistinct
<1>8. Distinct(related)
  <2>1. doc.relations \in Seq(ToSet(doc.relations))
    BY DEF Readable
  <2>2. IsFiniteSet(DOMAIN relations) /\ DOMAIN relations \in SUBSET Nat
    BY <1>4, <2>1, SequenceIsFinite
  <2> QED
    BY <1>4, <2>2, KeepFirstIsDistinct
<1> DEFINE new == {r \in related : \A p \in declared : p.id # r.id}
<1>9. FlattenProductTree(doc) = declared \cup new
  BY DEF FlattenProductTree, tree, listed, relations
<1> HIDE DEF declared, related
<1>10. IsFiniteSet(declared \cup new)
  BY <1>7, <1>8, FS_Subset, FS_Union DEF Distinct
<1> QED
  BY <1>7, <1>8, <1>9, <1>10 DEF Distinct

LEMMA NormalizeKeepsId ==
  ASSUME NEW p, "id" \in DOMAIN p
  PROVE  NormalizeProduct(p).id = p.id
<1> DEFINE coded == [p EXCEPT !.catalog = OrderCode(p)]
<1>1. coded.id = p.id /\ "id" \in DOMAIN coded
  OBVIOUS
<1>2. \A report : WithReport(coded, report).id = coded.id
  BY <1>1 DEF WithReport
<1> HIDE DEF coded
<1>3. NormalizeProduct(p) = WithReport(coded, Identity(ProductIdentity(coded)))
  BY DEF NormalizeProduct, coded
<1> QED
  BY <1>1, <1>2, <1>3

(* Sorted by their identifiers, the products keep them. *)
LEMMA ByIdIsOfThem ==
  ASSUME NEW products, Distinct(products)
  PROVE  /\ IsFiniteSet(DOMAIN ById(products))
         /\ \A k \in DOMAIN ById(products) : ById(products)[k] \in products
<1> DEFINE n == Cardinality(products)
           Pick(k) == CHOOSE p \in products : Cardinality({q \in products : q.id < p.id}) = k - 1
           f == [p \in products |-> p.id]
<1>1. n \in Nat
  BY FS_CardinalityType DEF Distinct
<1>2. f \in [products -> Int] /\ \A p, q \in products : f[p] = f[q] => p = q
  BY DEF Distinct
<1>3. \A p \in products : Lower(f, products, p) = {q \in products : q.id < p.id}
  BY DEF Lower
<1>4. ASSUME NEW k \in 1 .. n PROVE Pick(k) \in products
  <2> HIDE DEF f
  <2>1. PICK p \in products : Cardinality(Lower(f, products, p)) = k - 1
    BY <1>2, EachHasItsPlace DEF Distinct
  <2>2. Cardinality({q \in products : q.id < p.id}) = k - 1
    BY <1>3, <2>1
  <2> QED
    BY <2>2
<1>5. ById(products) = [k \in 1 .. n |-> Pick(k)]
  BY DEF ById
<1> HIDE DEF Pick, n
<1> QED
  BY <1>1, <1>4, <1>5, FS_Interval

LEMMA ConvertedScoreIsBounded ==
  ASSUME NEW score, \A n \in {2, 3, 4} \cap DOMAIN score : score[n].base \in 0 .. 100
  PROVE  ConvertScore(score).base \in 0 .. 100
<1> DEFINE bodies == {2, 3, 4} \cap DOMAIN score
           newest == Max(bodies)
<1>1. CASE bodies = {}
  BY <1>1 DEF ConvertScore, NoScore
<1>2. CASE bodies # {}
  <2>1. bodies \in SUBSET (0 .. 4)
    OBVIOUS
  <2>2. newest \in bodies
    BY <1>2, <2>1, MaxIsGreatest
  <2>3. score[newest].base \in 0 .. 100
    BY <2>2
  <2>4. ConvertScore(score).base = score[newest].base
    BY <1>2 DEF ConvertScore
  <2> QED
    BY <2>3, <2>4
<1> QED
  BY <1>1, <1>2

LEMMA BestAmongIsBounded ==
  ASSUME NEW scores, NEW places \in SUBSET Nat, \A i \in places : scores[i].base \in 0 .. 100
  PROVE  BestAmong(scores, places).base \in 0 .. 100
<1> DEFINE best == {i \in places : \A j \in places : ~ BetterThan(scores[j], scores[i])}
<1>1. CASE best = {}
  BY <1>1 DEF BestAmong, NoScore
<1>2. CASE best # {}
  <2>1. Min(best) \in best
    BY <1>2, MinIsLeast
  <2>2. Min(best) \in places
    BY <2>1
  <2>3. BestAmong(scores, places) = scores[Min(best)]
    BY <1>2 DEF BestAmong
  <2> QED
    BY <2>2, <2>3
<1> QED
  BY <1>1, <1>2

(* A vulnerability as it stands in the corpus. *)
IsVuln(v) == v.kev \in BOOLEAN /\ v.epss \in 0 .. 100 /\ BestScore(v).base \in 0 .. 100

LEMMA ConvertedVulnIsVuln ==
  ASSUME NEW v, Scored(v)
  PROVE  IsVuln(ConvertVuln(v))
<1> DEFINE w == ConvertVuln(v)
<1>1. w.kev = v.kev /\ w.epss = v.epss /\ w.scores = [i \in DOMAIN v.scores |-> ConvertScore(v.scores[i])]
  BY DEF ConvertVuln
<1>2. DOMAIN v.scores \in SUBSET Nat
  BY SequenceIsFinite DEF Scored
<1>3. \A i \in DOMAIN v.scores : ConvertScore(v.scores[i]).base \in 0 .. 100
  BY ConvertedScoreIsBounded DEF Scored, ToSet
<1> HIDE DEF w
<1>4. \A i \in DOMAIN w.scores : w.scores[i].base \in 0 .. 100
  BY <1>1, <1>3
<1>5. DOMAIN w.scores \in SUBSET Nat
  BY <1>1, <1>2
<1>6. BestScore(w).base \in 0 .. 100
  BY <1>4, <1>5, BestAmongIsBounded DEF BestScore
<1>7. IsVuln(w)
  BY <1>1, <1>6 DEF IsVuln, Scored
<1> QED
  BY <1>7 DEF w

(* An advisory as it stands in the corpus. *)
IsAdvisory(advisory) ==
  /\ advisory.id \in Nat
  /\ IsFiniteSet(DOMAIN advisory.products)
  /\ \A p \in DOMAIN advisory.products : advisory.products[p].id \in Nat
  /\ \A p, q \in DOMAIN advisory.products :
       advisory.products[p].id = advisory.products[q].id => p = q
  /\ IsFiniteSet(DOMAIN advisory.vulns) /\ DOMAIN advisory.vulns \in SUBSET Nat
  /\ \A v \in DOMAIN advisory.vulns : IsVuln(advisory.vulns[v])

LEMMA AcceptedIsAdvisory == \A advisory \in Accepted : IsAdvisory(advisory)
<1> SUFFICES ASSUME NEW doc \in Docs, Validate(ReadCSAF(doc)) PROVE IsAdvisory(ReadCSAF(doc))
  BY DEF Accepted
<1> DEFINE advisory == ReadCSAF(doc)
           flat == FlattenProductTree(doc)
           products == {NormalizeProduct(p) : p \in flat}
<1>1. Readable(doc)
  BY ReadableAssumption DEF Docs
<1>2. Distinct(flat)
  BY <1>1, FlattenedIsDistinct
<1>3. /\ advisory.id = doc.id /\ advisory.products = ById(products)
      /\ advisory.vulns = [i \in DOMAIN doc.vulns |-> ConvertVuln(doc.vulns[i])]
  BY DEF ReadCSAF
<1>4. \A p \in flat : NormalizeProduct(p).id = p.id
  BY <1>2, NormalizeKeepsId DEF Distinct
<1>5. IsFiniteSet(products)
  <2> DEFINE f == [p \in flat |-> NormalizeProduct(p)]
  <2>1. IsFiniteSet({f[p] : p \in flat})
    BY <1>2, ImageIsFinite DEF Distinct
  <2>2. {f[p] : p \in flat} = products
    OBVIOUS
  <2> QED
    BY <2>1, <2>2
<1>6. \A p \in flat : "id" \in DOMAIN NormalizeProduct(p)
  BY <1>2 DEF NormalizeProduct, WithReport, Distinct
<1> HIDE DEF advisory, flat
<1>7. Distinct(products)
  BY <1>2, <1>4, <1>5, <1>6 DEF Distinct
<1> HIDE DEF products
<1>8. /\ IsFiniteSet(DOMAIN advisory.products)
      /\ \A p \in DOMAIN advisory.products : advisory.products[p].id \in Nat
  BY <1>3, <1>7, ByIdIsOfThem DEF Distinct
<1>9. \A v \in DOMAIN advisory.vulns : IsVuln(advisory.vulns[v])
  BY <1>1, <1>3, ConvertedVulnIsVuln DEF Readable, ToSet
<1>10. IsFiniteSet(DOMAIN advisory.vulns) /\ DOMAIN advisory.vulns \in SUBSET Nat
  BY <1>1, <1>3, SequenceIsFinite DEF Readable
<1>11. Validate(advisory)
  BY DEF advisory
<1>12. IsAdvisory(advisory)
  BY <1>1, <1>3, <1>8, <1>9, <1>10, <1>11 DEF IsAdvisory, Validate, Readable
<1> QED
  BY <1>12 DEF advisory

-----------------------------------------------------------------------------
(* Matching.  A field has the rank of a family or of a product.             *)
Ranked(fields) ==
  /\ \E n \in 1 .. 6 : DOMAIN fields = 1 .. n
  /\ \A i \in DOMAIN fields : fields[i].rank \in {FamilyLevel, ProductLevel} /\ "rank" \in DOMAIN fields[i]

LEMMA CollectIsRanked ==
  ASSUME NEW fields, Ranked(fields)
  PROVE  Ranked(CollectFields(fields))
  BY DEF Ranked, CollectFields

LEMMA DemoteIsRanked ==
  ASSUME NEW fields, Ranked(fields), NEW vendor
  PROVE  Ranked(DemoteFamilyNames(vendor, fields))
<1> DEFINE demoted == DemoteFamilyNames(vendor, fields)
<1>1. DOMAIN demoted = DOMAIN fields
  BY DEF DemoteFamilyNames
<1>2. ASSUME NEW i \in DOMAIN fields
      PROVE  demoted[i].rank \in {FamilyLevel, ProductLevel} /\ "rank" \in DOMAIN demoted[i]
  <2>1. demoted[i] = fields[i] \/ demoted[i] = [fields[i] EXCEPT !.rank = FamilyLevel]
    BY DEF DemoteFamilyNames
  <2> QED
    BY <2>1 DEF Ranked
<1> QED
  BY <1>1, <1>2 DEF Ranked

LEMMA FieldsAreRanked ==
  /\ \A id : Ranked(AssetFields(id))
  /\ \A p : Ranked(AdvisoryFields(p))
<1>1. ASSUME NEW id PROVE Ranked(AssetFields(id))
  <2> DEFINE fields == <<Field(id.model, ProductLevel), Field(id.product, ProductLevel),
                         Field(id.productRaw, ProductLevel), Field(id.family, FamilyLevel)>>
  <2>1. Ranked(fields)
    BY DEF Ranked, Field, FamilyLevel, ProductLevel
  <2>2. AssetFields(id) = CollectFields(fields)
    BY DEF AssetFields
  <2> QED
    BY <2>1, <2>2, CollectIsRanked
<1>2. ASSUME NEW p PROVE Ranked(AdvisoryFields(p))
  <2> DEFINE fields == <<Field(p.model, ProductLevel), Field(p.product, ProductLevel),
                         Field(p.productRaw, ProductLevel),
                         [Field(p.name, ProductLevel) EXCEPT !.wholeName = TRUE],
                         Field(p.family, FamilyLevel), Field(p.familyRaw, FamilyLevel)>>
  <2>1. Ranked(fields)
    BY DEF Ranked, Field, FamilyLevel, ProductLevel
  <2>2. AdvisoryFields(p) = CollectFields(fields)
    BY DEF AdvisoryFields
  <2> QED
    BY <2>1, <2>2, CollectIsRanked
<1> QED
  BY <1>1, <1>2

LEMMA PairStrength ==
  ASSUME NEW a, NEW b, a.rank \in {FamilyLevel, ProductLevel}, b.rank \in {FamilyLevel, ProductLevel}
  PROVE  PairMatch(a, b).strength \in 0 .. 2
<1>1. {a.rank, b.rank} \in SUBSET (0 .. 2) /\ {a.rank, b.rank} \in SUBSET Nat
  BY DEF FamilyLevel, ProductLevel
<1>2. Vaguer(a, b) \in 0 .. 2
  BY <1>1, MinIsLeast DEF Vaguer
<1>3. NoPair.strength = 0
  BY DEF NoPair, Nothing
<1>4. ContainmentMatch(a, b).strength \in 0 .. 2
  BY <1>2, <1>3 DEF ContainmentMatch
<1> QED
  BY <1>2, <1>3, <1>4 DEF PairMatch

LEMMA BestPairStrength ==
  ASSUME NEW S, NEW T, Ranked(S), Ranked(T)
  PROVE  BestPair(S, T).strength \in 0 .. 2
<1> DEFINE PairsOf(i) == {PairMatch(S[i], T[j]).strength : j \in DOMAIN T}
           Strongest(i) == Max(PairsOf(i))
           top == Max({Strongest(i) : i \in DOMAIN S})
           bestI == {i \in DOMAIN S : Strongest(i) = top}
           a == S[Min(bestI)]
           bestJ == {j \in DOMAIN T : PairMatch(a, T[j]).strength = top}
<1>1. \A i \in DOMAIN S, j \in DOMAIN T : PairMatch(S[i], T[j]).strength \in 0 .. 2
  BY PairStrength DEF Ranked
<1>2. DOMAIN S # {} /\ DOMAIN T # {} /\ DOMAIN S \in SUBSET Nat /\ DOMAIN T \in SUBSET Nat
  BY DEF Ranked
<1>3. \A i \in DOMAIN S : Strongest(i) \in PairsOf(i)
  <2> TAKE i \in DOMAIN S
  <2>1. PairsOf(i) \in SUBSET (0 .. 2) /\ PairsOf(i) # {}
    BY <1>1, <1>2
  <2> HIDE DEF PairsOf
  <2> QED
    BY <2>1, MaxIsGreatest
<1>4. \A i \in DOMAIN S : Strongest(i) \in 0 .. 2
  BY <1>1, <1>3
<1> HIDE DEF Strongest
<1>5. top \in {Strongest(i) : i \in DOMAIN S}
  <2>1. {Strongest(i) : i \in DOMAIN S} \in SUBSET (0 .. 2) /\ {Strongest(i) : i \in DOMAIN S} # {}
    BY <1>2, <1>4
  <2> QED
    BY <2>1, MaxIsGreatest
<1> HIDE DEF top
<1>6. Min(bestI) \in bestI
  <2>1. bestI \in SUBSET Nat /\ bestI # {}
    BY <1>2, <1>5
  <2> HIDE DEF bestI
  <2> QED
    BY <2>1, MinIsLeast
<1>7. Min(bestI) \in DOMAIN S /\ Strongest(Min(bestI)) = top
  BY <1>6
<1>8. top \in PairsOf(Min(bestI))
  BY <1>3, <1>7
<1>9. Min(bestJ) \in bestJ
  <2>1. bestJ \in SUBSET Nat /\ bestJ # {}
    BY <1>2, <1>8
  <2> HIDE DEF bestJ
  <2> QED
    BY <2>1, MinIsLeast
<1>10. Min(bestJ) \in DOMAIN T
  BY <1>9
<1>11. BestPair(S, T) = PairMatch(a, T[Min(bestJ)])
  BY DEF BestPair, bestJ, bestI, top, Strongest, PairsOf, a
<1> QED
  BY <1>1, <1>7, <1>10, <1>11

LEMMA CompareIsTyped == \A id, p : CompareIdentity(id, p) \in IdentityMatch
<1> SUFFICES ASSUME NEW id, NEW p PROVE CompareIdentity(id, p) \in IdentityMatch
  OBVIOUS
<1> USE DEF IdentityMatch, Nothing, CatalogLevel
<1>1. CompareNames(id, p) \in IdentityMatch
  <2> DEFINE T == DemoteFamilyNames(p.vendor, AdvisoryFields(p))
             S == DemoteFamilyNames(id.vendor, AssetFields(id))
  <2>1. Ranked(S) /\ Ranked(T)
    BY FieldsAreRanked, DemoteIsRanked
  <2> HIDE DEF S, T
  <2>2. BestPair(S, T).strength \in 0 .. 2
    BY <2>1, BestPairStrength
  <2>3. MatchOf(BestPair(S, T), T) \in IdentityMatch
    BY <2>2 DEF MatchOf, OutranksMatch
  <2> QED
    BY <2>3 DEF CompareNames, S, T
<1> QED
  BY <1>1 DEF CompareIdentity

LEMMA VerdictIsTyped ==
  \A id, p : Verdict(id, p) \in {"affected", "not_affected", "indeterminate"}
  BY DEF Verdict, Evaluate, EvaluateRange

-----------------------------------------------------------------------------
(* What a corpus c and a plant d determine, whichever way the run takes:    *)
(* the nodes a device reaches, those that name it, those its version rules  *)
(* out, the candidates that are left, and the finding they become.          *)
NodesIn(c) == UNION {{[advisory |-> a, product |-> p] : p \in DOMAIN c[a].products} : a \in DOMAIN c}

NodeIn(c, r) == c[r.advisory].products[r.product]

IndexedIn(c) == {r \in NodesIn(c) : ~ TooOld(c[r.advisory]) /\ NodeIn(c, r).vendor # NoName}

IndexOf(c) ==
  [v \in {NodeIn(c, r).vendor : r \in IndexedIn(c)} |-> {r \in IndexedIn(c) : NodeIn(c, r).vendor = v}]

IdOf(d, i) == Identity(d[i].identity).result

AssessedIn(d) == {i \in DOMAIN d : ~ IsEmpty(d[i].identity) /\ IdOf(d, i).vendor # NoName}

Reached(c, id) == {r \in IndexedIn(c) : NodeIn(c, r).vendor = id.vendor}

Named(c, id) == {r \in Reached(c, id) : CompareIdentity(id, NodeIn(c, r)).strength # Nothing}

Excluded(c, id) == {r \in Named(c, id) : Verdict(id, NodeIn(c, r)) = "not_affected"}

Kept(c, id, a) == {r \in Named(c, id) \ Excluded(c, id) : r.advisory = a}

CandidateOf(c, id, r) ==
  [product |-> NodeIn(c, r), match |-> CompareIdentity(id, NodeIn(c, r)),
   verdict |-> Verdict(id, NodeIn(c, r))]

CandidatesOf(c, id, a) == {CandidateOf(c, id, r) : r \in Kept(c, id, a)}

Findable(c, d) == {x \in AssessedIn(d) \X DOMAIN c : Kept(c, IdOf(d, x[1]), x[2]) # {}}

FindingOf(c, d, x) ==
  BuildFindingFor([id |-> d[x[1]].id, identity |-> IdOf(d, x[1])], c[x[2]],
                  CandidatesOf(c, IdOf(d, x[1]), x[2]))

Reported(c, d) == {x \in Findable(c, d) : ~ WeakerThanAsked(FindingOf(c, d, x))}

(* A corpus of accepted advisories, and a plant whose devices have numbers. *)
Corpus(c) == c \in Seq(Accepted)

Plant(d) == d \in Seq(ToSet(d)) /\ \A device \in ToSet(d) : device.id \in Nat

LEMMA NodesAreFinite ==
  ASSUME NEW c, Corpus(c)
  PROVE  IsFiniteSet(NodesIn(c))
<1> DEFINE Of(a) == {[advisory |-> a, product |-> p] : p \in DOMAIN c[a].products}
           sets == {Of(a) : a \in DOMAIN c}
<1>1. ASSUME NEW a \in DOMAIN c PROVE IsFiniteSet(Of(a))
  <2> DEFINE f == [p \in DOMAIN c[a].products |-> [advisory |-> a, product |-> p]]
  <2>1. IsFiniteSet(DOMAIN c[a].products)
    BY AcceptedIsAdvisory DEF Corpus, IsAdvisory
  <2>2. IsFiniteSet({f[p] : p \in DOMAIN c[a].products})
    BY <2>1, ImageIsFinite
  <2>3. {f[p] : p \in DOMAIN c[a].products} = Of(a)
    OBVIOUS
  <2> QED
    BY <2>2, <2>3
<1>2. IsFiniteSet(sets)
  <2> DEFINE f == [a \in DOMAIN c |-> Of(a)]
  <2>1. IsFiniteSet(DOMAIN c)
    BY SequenceIsFinite DEF Corpus
  <2>2. IsFiniteSet({f[a] : a \in DOMAIN c})
    BY <2>1, ImageIsFinite
  <2>3. {f[a] : a \in DOMAIN c} = sets
    OBVIOUS
  <2> QED
    BY <2>2, <2>3
<1>3. IsFiniteSet(UNION sets)
  BY <1>1, <1>2, FS_UNION
<1> QED
  BY <1>3 DEF NodesIn

LEMMA NodesAreOfTheCorpus ==
  ASSUME NEW c, NEW r \in NodesIn(c)
  PROVE  r.advisory \in DOMAIN c /\ r.product \in DOMAIN c[r.advisory].products
         /\ r = [advisory |-> r.advisory, product |-> r.product]
  BY DEF NodesIn

(* Two nodes of one advisory have different identifiers. *)
LEMMA NodesAreTheirIds ==
  ASSUME NEW c, Corpus(c), NEW q \in NodesIn(c), NEW r \in NodesIn(c),
         q.advisory = r.advisory, NodeIn(c, q).id = NodeIn(c, r).id
  PROVE  q = r
<1>1. q.product = r.product
  BY AcceptedIsAdvisory, NodesAreOfTheCorpus DEF Corpus, IsAdvisory, NodeIn
<1> QED
  BY <1>1, NodesAreOfTheCorpus

(* What each survivor is like. *)
LEMMA KeptAreNamed ==
  ASSUME NEW c, NEW id, NEW a, NEW r \in Kept(c, id, a)
  PROVE  /\ r \in NodesIn(c) /\ r.advisory = a
         /\ NodeIn(c, r).vendor = id.vendor /\ ~ TooOld(c[a])
         /\ CompareIdentity(id, NodeIn(c, r)).strength # Nothing
         /\ Verdict(id, NodeIn(c, r)) \in {"affected", "indeterminate"}
  BY VerdictIsTyped DEF Kept, Named, Excluded, Reached, IndexedIn

(* Of the candidates for one advisory one beats all others, so that the     *)
(* finding names one of them.                                               *)
LEMMA BestIsOneOfThem ==
  ASSUME NEW c, Corpus(c), NEW id, NEW a, Kept(c, id, a) # {}
  PROVE  Best(CandidatesOf(c, id, a)) \in CandidatesOf(c, id, a)
<1> DEFINE C == CandidatesOf(c, id, a)
           order == {x \in C \X C : x[1] # x[2] /\ Beats(x[1], x[2])}
<1>1. IsFiniteSet(C) /\ C # {}
  <2> DEFINE f == [r \in Kept(c, id, a) |-> CandidateOf(c, id, r)]
  <2>1. IsFiniteSet(Kept(c, id, a))
    BY NodesAreFinite, FS_Subset DEF Kept, Named, Reached, IndexedIn
  <2>2. IsFiniteSet({f[r] : r \in Kept(c, id, a)})
    BY <2>1, ImageIsFinite
  <2> QED
    BY <2>2 DEF CandidatesOf
<1>2. ASSUME NEW x \in C
      PROVE  /\ x.match.finer \in BOOLEAN /\ x.match.strength \in Nat
             /\ x.verdict \in {"affected", "indeterminate"}
             /\ x.product.id \in Nat
  <2>1. PICK r \in Kept(c, id, a) : x = CandidateOf(c, id, r)
    BY DEF CandidatesOf
  <2>2. r \in NodesIn(c) /\ Verdict(id, NodeIn(c, r)) \in {"affected", "indeterminate"}
    BY KeptAreNamed
  <2>3. NodeIn(c, r).id \in Nat
    BY <2>2, NodesAreOfTheCorpus, AcceptedIsAdvisory DEF Corpus, IsAdvisory, NodeIn
  <2>4. CompareIdentity(id, NodeIn(c, r)) \in IdentityMatch
    BY CompareIsTyped
  <2> QED
    BY <2>1, <2>2, <2>3, <2>4 DEF CandidateOf, IdentityMatch, Nothing, CatalogLevel
<1>3. ASSUME NEW x \in C, NEW y \in C, x.product.id = y.product.id PROVE x = y
  <2>1. PICK q \in Kept(c, id, a) : x = CandidateOf(c, id, q)
    BY DEF CandidatesOf
  <2>2. PICK r \in Kept(c, id, a) : y = CandidateOf(c, id, r)
    BY DEF CandidatesOf
  <2>3. q \in NodesIn(c) /\ r \in NodesIn(c) /\ q.advisory = r.advisory
    BY KeptAreNamed
  <2>4. NodeIn(c, q).id = NodeIn(c, r).id
    BY <1>3, <2>1, <2>2 DEF CandidateOf
  <2> QED
    BY <2>1, <2>2, <2>3, <2>4, NodesAreTheirIds
<1> HIDE DEF C
<1>4. \A x, y \in C : <<x, y>> \in order <=> x # y /\ Beats(x, y)
  OBVIOUS
<1> HIDE DEF order
<1>5. \A x \in C : <<x, x>> \notin order
  BY <1>4
<1>6. \A x, y \in C : x # y => <<x, y>> \in order \/ <<y, x>> \in order
  BY <1>2, <1>3, <1>4 DEF Beats, EvalRank
<1>7. ASSUME NEW x \in C, NEW y \in C, NEW z \in C, Beats(x, y), Beats(y, z), x # y, y # z
      PROVE  Beats(x, z) /\ x # z
  BY <1>2, <1>3, <1>7 DEF Beats, EvalRank
<1>8. IsStrictOrder(order, C)
  BY <1>4, <1>5, <1>6, <1>7 DEF IsStrictOrder
<1>9. \E x \in C : \A y \in C \ {x} : Beats(x, y)
  BY <1>1, <1>4, <1>8, OneIsFirst
<1>10. Best(C) \in C
  BY <1>9 DEF Best
<1> QED
  BY <1>10 DEF C

(* The finding of a device and an advisory: its bounds, and that it names   *)
(* every survivor.                                                          *)
IsFinding(f) ==
  /\ f.tier \in Tiers /\ f.score \in 0 .. 100
  /\ f.cvss \in 0 .. 100 /\ f.epss \in 0 .. 100 /\ f.kev \in BOOLEAN
  /\ f.asset \in Nat /\ f.advisory \in Nat

Claims(f) == {f.product} \cup f.alsoMatched

LEMMA TiersAreThree == \A match, verdict : TierFor(match, verdict) \in Tiers
  BY DEF TierFor, Tiers

LEMMA ScoreIsBounded ==
  ASSUME NEW match \in IdentityMatch, match.strength # Nothing, NEW verdict, NEW kev
  PROVE  Score(match, verdict, kev) \in 0 .. 100
<1> DEFINE sum == BaseOf[match.strength] - (IF match.finer THEN 20 ELSE 0)
                  + (IF verdict = "affected" THEN 35 ELSE 0) + (IF kev THEN 5 ELSE 0)
<1>1. match.strength \in 1 .. 3
  BY DEF IdentityMatch, Nothing, CatalogLevel
<1>2. BaseOf[match.strength] \in {40, 50, 60}
  BY <1>1 DEF BaseOf
<1>3. sum \in Nat
  BY <1>2
<1> HIDE DEF sum
<1>4. {sum, 100} \in SUBSET Nat
  BY <1>3
<1>5. Min({sum, 100}) \in Nat /\ Min({sum, 100}) <= 100
  BY <1>4, MinIsLeast
<1> QED
  BY <1>5 DEF Score, sum

LEMMA BuiltFindingIsTyped ==
  ASSUME NEW device, device.id \in Nat, NEW advisory, IsAdvisory(advisory), NEW survivors,
         Best(survivors) \in survivors,
         \A x \in survivors : x.match \in IdentityMatch /\ x.match.strength # Nothing
  PROVE  IsFinding(BuildFindingFor(device, advisory, survivors))
<1> DEFINE f == BuildFindingFor(device, advisory, survivors)
           best == Best(survivors)
           matched == {x.product.id : x \in survivors}
           touching == Touching(advisory, matched)
           found == {advisory.vulns[i] : i \in touching}
           scores == [i \in DOMAIN advisory.vulns |-> BestScore(advisory.vulns[i])]
           top == BestAmong(scores, touching)
           kev == \E v \in found : v.kev
           remediations == RemediationsOf(found, matched)
<1>1. touching \in SUBSET DOMAIN advisory.vulns /\ touching \in SUBSET Nat
  BY DEF Touching, IsAdvisory
<1>2. \A v \in found : IsVuln(v)
  BY <1>1 DEF IsAdvisory
<1>3. top.base \in 0 .. 100
  <2>1. \A i \in touching : scores[i].base \in 0 .. 100
    BY <1>1 DEF IsAdvisory, IsVuln
  <2> HIDE DEF scores, touching
  <2> QED
    BY <1>1, <2>1, BestAmongIsBounded
<1>4. Max({0} \cup {v.epss : v \in found}) \in 0 .. 100
  <2>1. \A v \in found : v.epss \in 0 .. 100
    BY <1>2 DEF IsVuln
  <2> HIDE DEF found
  <2>2. {0} \cup {v.epss : v \in found} \in SUBSET (0 .. 100)
    BY <2>1
  <2>3. {0} \cup {v.epss : v \in found} # {}
    OBVIOUS
  <2> QED
    BY <2>2, <2>3, MaxIsGreatest
<1> HIDE DEF best, matched, touching, found, scores, top, remediations
<1>5. Score(best.match, best.verdict, kev) \in 0 .. 100
  BY ScoreIsBounded DEF best
<1>6. TierFor(best.match, best.verdict) \in Tiers
  BY TiersAreThree
<1> HIDE DEF kev
<1>7. /\ f.asset = device.id /\ f.advisory = advisory.id
      /\ f.tier = TierFor(best.match, best.verdict)
      /\ f.score = Score(best.match, best.verdict, kev)
      /\ f.cvss = top.base
      /\ f.epss = Max({0} \cup {v.epss : v \in found})
  BY DEF BuildFindingFor, best, matched, touching, found, scores, top, remediations, kev
<1>8. f.kev = (\E v \in found : v.kev)
  BY DEF BuildFindingFor, best, matched, touching, found, scores, top, remediations
<1> HIDE DEF f
<1>9. f.kev \in BOOLEAN
  BY <1>8
<1>10. IsFinding(f)
  BY <1>3, <1>4, <1>5, <1>6, <1>7, <1>9 DEF IsFinding, IsAdvisory
<1> QED
  BY <1>10 DEF f

LEMMA BuiltFindingClaims ==
  ASSUME NEW device, NEW advisory, NEW survivors, Best(survivors) \in survivors
  PROVE  LET f == BuildFindingFor(device, advisory, survivors)
         IN  /\ f.asset = device.id /\ f.advisory = advisory.id /\ f.identity = device.identity
             /\ Claims(f) = {x.product.id : x \in survivors}
             /\ f.product = Best(survivors).product.id
             /\ f.tier = TierFor(Best(survivors).match, Best(survivors).verdict)
  BY DEF BuildFindingFor, Claims

LEMMA FindingIsTyped ==
  ASSUME NEW c, Corpus(c), NEW d, Plant(d), NEW x \in Findable(c, d)
  PROVE  /\ IsFinding(FindingOf(c, d, x))
         /\ FindingOf(c, d, x).asset = d[x[1]].id
         /\ FindingOf(c, d, x).advisory = c[x[2]].id
         /\ FindingOf(c, d, x).identity = IdOf(d, x[1])
         /\ Claims(FindingOf(c, d, x)) = {NodeIn(c, r).id : r \in Kept(c, IdOf(d, x[1]), x[2])}
<1> DEFINE i == x[1]
           a == x[2]
           id == IdOf(d, i)
           C == CandidatesOf(c, id, a)
           K == Kept(c, id, a)
           device == [id |-> d[i].id, identity |-> id]
<1>1. i \in DOMAIN d /\ a \in DOMAIN c /\ K # {}
  BY DEF Findable, AssessedIn
<1>2. Best(C) \in C
  BY <1>1, BestIsOneOfThem
<1>3. \A y \in C : y.match \in IdentityMatch /\ y.match.strength # Nothing
  BY KeptAreNamed, CompareIsTyped DEF CandidatesOf, CandidateOf
<1>4. {y.product.id : y \in C} = {NodeIn(c, r).id : r \in K}
  <2>1. \A r \in K : CandidateOf(c, id, r).product.id = NodeIn(c, r).id
    BY DEF CandidateOf
  <2>2. C = {CandidateOf(c, id, r) : r \in K}
    BY DEF CandidatesOf
  <2> HIDE DEF K, C
  <2> QED
    BY <2>1, <2>2
<1>5. device.id \in Nat
  BY <1>1 DEF Plant, ToSet
<1>6. IsAdvisory(c[a])
  BY <1>1, AcceptedIsAdvisory DEF Corpus
<1>7. FindingOf(c, d, x) = BuildFindingFor(device, c[a], C)
  BY DEF FindingOf
<1>8. device.id = d[i].id /\ device.identity = id
  OBVIOUS
<1> HIDE DEF device, C, K
<1>9. IsFinding(BuildFindingFor(device, c[a], C))
  BY <1>2, <1>3, <1>5, <1>6, BuiltFindingIsTyped
<1>10. LET f == BuildFindingFor(device, c[a], C)
       IN  /\ f.asset = device.id /\ f.advisory = c[a].id /\ f.identity = device.identity
           /\ Claims(f) = {y.product.id : y \in C}
  BY <1>2, BuiltFindingClaims
<1>11. Claims(BuildFindingFor(device, c[a], C)) = {NodeIn(c, r).id : r \in K}
  BY <1>4, <1>10
<1> QED
  BY <1>7, <1>8, <1>9, <1>10, <1>11 DEF K

-----------------------------------------------------------------------------
(* The order of the list.  Precedes compares three numbers, one after the   *)
(* other; where it does not tell two findings apart they stay as they were. *)
Weighted(score, kev, epss, cvss, rank) == score * 10 + kev + epss * 100 + cvss * 10 + rank * 5000

Swing == 27000  \* all that the other terms together can add

LEMMA WeightedIsBounded ==
  ASSUME NEW score \in 0 .. 100, NEW epss \in 0 .. 100, NEW cvss \in 0 .. 100,
         NEW rank \in 1 .. 3, NEW kev \in Nat
  PROVE  /\ Weighted(score, kev, epss, cvss, rank) \in Nat
         /\ Weighted(score, kev, epss, cvss, rank) >= kev
         /\ Weighted(score, kev, epss, cvss, rank) <= kev + Swing
  BY SMT DEF Weighted, Swing

LEMMA KEVOutweighs == KEVWeight \in Nat /\ Swing \in Nat /\ Swing < KEVWeight
  BY SMT DEF KEVWeight, Swing

LEMMA PriorityIsNumber ==
  ASSUME NEW f, IsFinding(f)
  PROVE  /\ Priority(f) \in Nat
         /\ f.kev => Priority(f) >= KEVWeight
         /\ ~ f.kev => Priority(f) <= Swing
<1> DEFINE rank == TierRank(f.tier)
           weight == IF f.kev THEN KEVWeight ELSE 0
           sum == Weighted(f.score, weight, f.epss, f.cvss, rank)
<1>1. rank \in 1 .. 3
  BY DEF IsFinding, Tiers, TierRank
<1>2. f.score \in 0 .. 100 /\ f.epss \in 0 .. 100 /\ f.cvss \in 0 .. 100
  BY DEF IsFinding
<1>3. weight \in Nat
  BY KEVOutweighs
<1>4. Priority(f) = sum
  BY SMT DEF Priority, Weighted
<1> HIDE DEF rank, weight
<1>5. sum \in Nat /\ sum >= weight /\ sum <= weight + Swing
  BY <1>1, <1>2, <1>3, WeightedIsBounded
<1> HIDE DEF sum
<1>6. CASE f.kev
  BY <1>4, <1>5, <1>6 DEF weight
<1>7. CASE ~ f.kev
  <2>1. weight = 0
    BY <1>7 DEF weight
  <2> QED
    BY <1>4, <1>5, <1>7, <2>1, KEVOutweighs
<1> QED
  BY <1>6, <1>7

LEMMA PrecedesIsOrder ==
  ASSUME NEW f, IsFinding(f), NEW g, IsFinding(g), NEW h, IsFinding(h)
  PROVE  /\ ~ Precedes(f, f)
         /\ Precedes(f, g) => ~ Precedes(g, f)
         /\ Precedes(f, g) /\ Precedes(g, h) => Precedes(f, h)
         /\ ~ Precedes(f, g) /\ ~ Precedes(g, h) => ~ Precedes(f, h)
         /\ Precedes(f, g) \/ Precedes(g, f) \/ (f.advisory = g.advisory /\ f.asset = g.asset)
         /\ Priority(f) > Priority(g) => Precedes(f, g)
<1>1. Priority(f) \in Int /\ Priority(g) \in Int /\ Priority(h) \in Int
  BY PriorityIsNumber
<1>2. /\ f.advisory \in Int /\ g.advisory \in Int /\ h.advisory \in Int
      /\ f.asset \in Int /\ g.asset \in Int /\ h.asset \in Int
  BY DEF IsFinding
<1> QED
  BY <1>1, <1>2 DEF Precedes

(* Findings put in order: the same ones, none before one that precedes it.  *)
Rearranged(F, G, p) ==
  /\ p \in Bijection(DOMAIN F, DOMAIN F)
  /\ G = [k \in DOMAIN F |-> F[p[k]]]

LEMMA SortedIsRearranged ==
  ASSUME NEW F, F \in Seq(ToSet(F)), \A k \in DOMAIN F : IsFinding(F[k])
  PROVE  /\ \E p : Rearranged(F, Sorted(F), p)
         /\ \A i, j \in DOMAIN F : i < j => ~ Precedes(Sorted(F)[j], Sorted(F)[i])
<1> DEFINE S == DOMAIN F
           n == Len(F)
           Before(j, i) == Precedes(F[j], F[i]) \/ (j < i /\ ~ Precedes(F[i], F[j]))
           order == {x \in S \X S : Before(x[1], x[2])}
           place == PlacesOf(order, S)
           At(k) == CHOOSE i \in S : Place(F, i) = k
           p == [k \in S |-> At(k)]
<1>1. S = 1 .. n /\ n \in Nat /\ S \in SUBSET Nat /\ IsFiniteSet(S) /\ Cardinality(S) = n
  <2>1. S = 1 .. n /\ n \in Nat
    OBVIOUS
  <2>2. S \in SUBSET Nat
    BY <2>1
  <2>3. IsFiniteSet(1 .. n) /\ Cardinality(1 .. n) = n
    BY <2>1, FS_Interval
  <2> HIDE DEF S, n
  <2> QED
    BY <2>1, <2>2, <2>3
<1>2. \A i, j \in S : <<j, i>> \in order <=> Before(j, i)
  OBVIOUS
<1>3. \A i \in S : ~ Precedes(F[i], F[i])
  BY PrecedesIsOrder
<1> HIDE DEF S, order
<1>4. IsStrictOrder(order, S)
  <2>1. \A i \in S : <<i, i>> \notin order
    BY <1>1, <1>2, <1>3
  <2>2. \A i, j \in S : i # j => <<i, j>> \in order \/ <<j, i>> \in order
    BY <1>1, <1>2
  <2>3. ASSUME NEW i \in S, NEW j \in S, NEW k \in S, Before(i, j), Before(j, k)
        PROVE  Before(i, k)
    <3>1. IsFinding(F[i]) /\ IsFinding(F[j]) /\ IsFinding(F[k])
      BY DEF S
    <3>2. i \in Nat /\ j \in Nat /\ k \in Nat
      BY <1>1
    <3>3. ~ Precedes(F[k], F[j]) /\ ~ Precedes(F[j], F[i])
      BY <2>3, <3>1, PrecedesIsOrder
    <3>4. ~ Precedes(F[k], F[i])
      BY <3>1, <3>3, PrecedesIsOrder
    <3>5. CASE i < k
      BY <3>4, <3>5
    <3>6. CASE ~ (i < k)
      <4>1. ~ (i < j) \/ ~ (j < k)
        BY <3>2, <3>6
      <4>2. Precedes(F[i], F[j]) \/ Precedes(F[j], F[k])
        BY <2>3, <4>1
      <4>3. SUFFICES ASSUME ~ Precedes(F[i], F[k]) PROVE FALSE
        OBVIOUS
      <4>4. CASE Precedes(F[i], F[j])
        BY <3>1, <3>3, <4>3, <4>4, PrecedesIsOrder
      <4>5. CASE Precedes(F[j], F[k])
        BY <3>1, <3>3, <4>3, <4>5, PrecedesIsOrder
      <4> QED
        BY <4>2, <4>4, <4>5
    <3> QED
      BY <3>5, <3>6
  <2> QED
    BY <1>2, <2>1, <2>2, <2>3 DEF IsStrictOrder
<1>5. ASSUME NEW i \in S PROVE place[i] = Place(F, i)
  <2>1. NoLater(order, S, i) =
          {j \in DOMAIN F : Precedes(F[j], F[i]) \/ (j <= i /\ ~ Precedes(F[i], F[j]))}
    BY <1>1, <1>2, <1>3 DEF NoLater, S
  <2> QED
    BY <2>1 DEF Place, PlacesOf
<1>6. /\ place \in Bijection(S, S)
      /\ \A i, j \in S : <<i, j>> \in order <=> place[i] < place[j]
  BY <1>1, <1>4, PlacesAreOneToOne
<1> HIDE DEF place
<1>7. \A k \in S : At(k) \in S /\ place[At(k)] = k
  <2> TAKE k \in S
  <2>1. \E i \in S : place[i] = k
    BY <1>6 DEF Bijection, Surjection
  <2>2. \E i \in S : Place(F, i) = k
    BY <1>5, <2>1
  <2>3. At(k) \in S /\ Place(F, At(k)) = k
    BY <2>2
  <2> QED
    BY <1>5, <2>3
<1> HIDE DEF At
<1>8. p \in Bijection(S, S)
  <2>1. p \in [S -> S] /\ \A k \in S : place[p[k]] = k
    BY <1>7
  <2>2. p \in Injection(S, S)
    BY <2>1 DEF Injection, IsInjective
  <2>3. p \in Surjection(S, S)
    BY <1>1, <2>2, FS_Injection
  <2> QED
    BY <2>2, <2>3 DEF Bijection
<1>9. Sorted(F) = [k \in S |-> F[p[k]]]
  BY DEF Sorted, At, S
<1>10. Rearranged(F, Sorted(F), p)
  BY <1>8, <1>9 DEF Rearranged, S
<1>11. ASSUME NEW i \in S, NEW j \in S, i < j
       PROVE  ~ Precedes(Sorted(F)[j], Sorted(F)[i])
  <2>1. p[i] \in S /\ p[j] \in S /\ place[p[i]] = i /\ place[p[j]] = j
    BY <1>7
  <2>2. Before(p[i], p[j])
    BY <1>2, <1>6, <1>11, <2>1
  <2>3. IsFinding(F[p[i]]) /\ IsFinding(F[p[j]])
    BY <2>1 DEF S
  <2>4. ~ Precedes(F[p[j]], F[p[i]])
    BY <2>2, <2>3, PrecedesIsOrder
  <2> QED
    BY <1>9, <2>4
<1> QED
  BY <1>10, <1>11 DEF S

-----------------------------------------------------------------------------
(* The run.  How far it has come, and the device it is at.                  *)
Here == next - 1

DeviceAt(d, i) == [id |-> d[i].id, identity |-> IdOf(d, i)]

Shape ==
  /\ stage \in {"reading", "matching", "finalized", "exported"}
  /\ documents \in Seq(Docs)
  /\ Corpus(corpus)
  /\ inventory \in Inventories
  /\ next \in 1 .. Len(inventory) + 1
  /\ stage = "reading" => index = <<>> /\ next = 1 /\ asset = NoAsset /\ findings = <<>>
  /\ stage # "reading" => index = IndexOf(corpus)
  /\ Done => asset = NoAsset /\ next = Len(inventory) + 1
  /\ asset = NoAsset => refs = {} /\ candidates = <<>>
  /\ asset # NoAsset =>
       /\ Here \in AssessedIn(inventory)
       /\ asset = DeviceAt(inventory, Here)
       /\ refs \subseteq Reached(corpus, asset.identity)
       /\ DOMAIN candidates = DOMAIN corpus

LEMMA InventoryIsPlant ==
  ASSUME NEW d \in Inventories
  PROVE  Plant(d) /\ DOMAIN d = 1 .. Len(d) /\ Len(d) \in Nat
<1>1. d \in Seq(ToSet(d)) /\ \A device \in ToSet(d) : device.id \in Nat
  BY ReadableAssumption
<1> QED
  BY <1>1 DEF Plant

LEMMA InTheIndex ==
  ASSUME NEW c, NEW v
  PROVE  (IF v \in DOMAIN IndexOf(c) THEN IndexOf(c)[v] ELSE {})
           = {r \in IndexedIn(c) : NodeIn(c, r).vendor = v}
  BY DEF IndexOf

LEMMA ShapeInit == Init => Shape
<1> SUFFICES ASSUME Init PROVE Shape
  OBVIOUS
<1>1. documents \in Seq(Docs)
  <2>1. documents \in Documents /\ documents \in Seq(ToSet(documents))
    BY ReadableAssumption DEF Init
  <2>2. ToSet(documents) \subseteq Docs
    BY <2>1 DEF Docs
  <2>3. Seq(ToSet(documents)) \subseteq Seq(Docs)
    BY <2>2
  <2> QED
    BY <2>1, <2>3
<1>2. Corpus(<<>>)
  BY DEF Corpus
<1>3. 1 \in 1 .. Len(inventory) + 1
  BY InventoryIsPlant DEF Init
<1> QED
  BY <1>1, <1>2, <1>3 DEF Init, Shape, Done

LEMMA ReadShape ==
  ASSUME Shape, ReadDocument
  PROVE  Shape'
<1> USE DEF Shape, ReadDocument
<1>1. documents' \in Seq(Docs) /\ Head(documents) \in Docs
  OBVIOUS
<1>2. Corpus(corpus)'
  <2>1. CASE corpus' = corpus
    BY <2>1 DEF Corpus
  <2>2. CASE corpus' # corpus
    <3>1. corpus' = Append(corpus, ReadCSAF(Head(documents))) /\ Validate(ReadCSAF(Head(documents)))
      BY <2>2
    <3>2. ReadCSAF(Head(documents)) \in Accepted
      BY <1>1, <3>1 DEF Accepted
    <3> QED
      BY <3>1, <3>2 DEF Corpus
  <2> QED
    BY <2>1, <2>2
<1> QED
  BY <1>1, <1>2 DEF Done

LEMMA TakeShape ==
  ASSUME Shape, TakeAsset
  PROVE  /\ Shape'
         /\ asset' # NoAsset /\ Here' = next /\ next \in AssessedIn(inventory)
         /\ refs' = Reached(corpus, asset'.identity)
<1> DEFINE id == Identity(Current.identity).result
<1>1. /\ stage = "matching" /\ asset = NoAsset /\ next <= Len(inventory)
      /\ ~ IsEmpty(Current.identity) /\ id.vendor # NoName
      /\ asset' = [id |-> Current.id, identity |-> id]
      /\ refs' = IF id.vendor \in DOMAIN index THEN index[id.vendor] ELSE {}
      /\ next' = next + 1
      /\ candidates' = [a \in DOMAIN corpus |-> {}]
      /\ UNCHANGED <<stage, documents, corpus, index, inventory, findings, run, document>>
  BY DEF TakeAsset, Between
<1>2. id = IdOf(inventory, next)
  BY DEF Current, IdOf
<1> HIDE DEF id
<1>3. next \in DOMAIN inventory /\ next \in Nat /\ Len(inventory) \in Nat
  BY <1>1, InventoryIsPlant DEF Shape
<1>4. next \in AssessedIn(inventory)
  BY <1>1, <1>2, <1>3 DEF AssessedIn, Current
<1>5. Here' = next
  BY <1>1, <1>3 DEF Here
<1>6. asset' # NoAsset
  <2>1. NoAsset.identity.vendor = NoName /\ asset'.identity.vendor # NoName
    BY <1>1 DEF NoAsset, EmptyIdentity
  <2> QED
    BY <2>1
<1>7. asset' = DeviceAt(inventory, next) /\ asset'.identity = id
  BY <1>1, <1>2 DEF DeviceAt, Current
<1>8. refs' = Reached(corpus, asset'.identity)
  <2>1. index = IndexOf(corpus)
    BY <1>1 DEF Shape
  <2>2. refs' = {r \in IndexedIn(corpus) : NodeIn(corpus, r).vendor = id.vendor}
    BY <1>1, <2>1, InTheIndex
  <2> QED
    BY <1>7, <2>2 DEF Reached
<1>9. next' \in 1 .. Len(inventory) + 1
  BY <1>1, <1>3
<1>10. DOMAIN candidates' = DOMAIN corpus
  BY <1>1
<1>11. ~ Done'
  BY <1>1 DEF Done
<1>12. AssessedIn(inventory)' = AssessedIn(inventory)
  BY <1>1
<1>13. DeviceAt(inventory, Here)' = DeviceAt(inventory, next)
  BY <1>1, <1>5 DEF DeviceAt, IdOf
<1>14. Reached(corpus, asset.identity)' = Reached(corpus, asset'.identity)
  BY <1>1
<1>15. IndexOf(corpus)' = IndexOf(corpus) /\ Corpus(corpus)' = Corpus(corpus)
  BY <1>1
<1>16. Shape'
  BY <1>1, <1>4, <1>5, <1>6, <1>7, <1>8, <1>9, <1>10, <1>11, <1>12, <1>13, <1>14, <1>15 DEF Shape
<1> QED
  BY <1>4, <1>5, <1>6, <1>8, <1>16

LEMMA ShapeStep == Shape /\ [Next]_vars => Shape'
<1> SUFFICES ASSUME Shape, [Next]_vars PROVE Shape'
  OBVIOUS
<1>1. Len(inventory) \in Nat /\ next \in Nat /\ next <= Len(inventory) + 1
  BY InventoryIsPlant DEF Shape
<1>2. CASE ReadDocument
  BY <1>2, ReadShape
<1>3. CASE BuildIndex
  <2>1. index' = IndexOf(corpus)
    BY <1>3 DEF BuildIndex, IndexOf, Indexed, IndexedIn, Nodes, NodesIn, Node, NodeIn
  <2>2. IndexOf(corpus)' = IndexOf(corpus)
    BY <1>3 DEF BuildIndex
  <2> QED
    BY <1>3, <2>1, <2>2 DEF BuildIndex, Shape, Done, Corpus
<1>4. CASE SkipUnidentified \/ SkipUnknownVendor
  <2>1. next' \in 1 .. Len(inventory) + 1
    BY <1>1, <1>4 DEF SkipUnidentified, SkipUnknownVendor, Between
  <2> QED
    BY <1>4, <2>1 DEF SkipUnidentified, SkipUnknownVendor, Between, Shape, Done, Corpus
<1>5. CASE TakeAsset
  BY <1>5, TakeShape
<1>6. CASE \E ref \in refs : CompareNode(ref)
  <2>1. PICK ref \in refs : CompareNode(ref)
    BY <1>6
  <2>2. refs' = refs \ {ref} /\ DOMAIN candidates' = DOMAIN candidates
    BY <2>1 DEF CompareNode
  <2> QED
    BY <2>1, <2>2 DEF CompareNode, Shape, Done, Corpus, Here
<1>7. CASE \E a \in DOMAIN candidates : BuildFinding(a)
  <2>1. PICK a \in DOMAIN candidates : BuildFinding(a)
    BY <1>7
  <2>2. DOMAIN candidates' = DOMAIN candidates
    BY <2>1 DEF BuildFinding
  <2> QED
    BY <2>1, <2>2 DEF BuildFinding, Shape, Done, Corpus, Here
<1>8. CASE FinishAsset
  BY <1>8 DEF FinishAsset, Shape, Done, Corpus, Here
<1>9. CASE Finalize
  <2>1. next' = Len(inventory) + 1
    BY <1>1, <1>9 DEF Finalize
  <2> QED
    BY <1>9, <2>1 DEF Finalize, Shape, Done, Corpus
<1>10. CASE ExportVEX
  BY <1>10 DEF ExportVEX, Shape, Done, Corpus
<1>11. CASE UNCHANGED vars
  BY <1>11 DEF vars, Shape, Done, Corpus, Here
<1> QED
  BY <1>2, <1>3, <1>4, <1>5, <1>6, <1>7, <1>8, <1>9, <1>10, <1>11 DEF Next


-----------------------------------------------------------------------------
(* The device's candidates so far: each advisory has those of the nodes     *)
(* already compared, until its finding is built.                            *)
SoFar(c, id, left, a) == {CandidateOf(c, id, r) : r \in Kept(c, id, a) \ left}

Surviving ==
  \A a \in DOMAIN candidates :
    LET all == SoFar(corpus, asset.identity, refs, a)
    IN  candidates[a] = all \/ (refs = {} /\ candidates[a] = {})

LEMMA AllSoFar ==
  \A c, id, a : SoFar(c, id, {}, a) = CandidatesOf(c, id, a)
  BY DEF SoFar, CandidatesOf

LEMMA NoneSoFar ==
  \A c, id, a : SoFar(c, id, Reached(c, id), a) = {}
  BY DEF SoFar, Kept, Named

LEMMA OneMore ==
  ASSUME NEW c, NEW id, NEW a, NEW left \in SUBSET Reached(c, id), NEW r \in left
  PROVE  SoFar(c, id, left \ {r}, a)
           = SoFar(c, id, left, a)
             \cup (IF r.advisory = a /\ CompareIdentity(id, NodeIn(c, r)).strength # Nothing
                      /\ Verdict(id, NodeIn(c, r)) # "not_affected"
                   THEN {CandidateOf(c, id, r)} ELSE {})
<1>1. r \in Kept(c, id, a) <=> /\ r.advisory = a
                               /\ CompareIdentity(id, NodeIn(c, r)).strength # Nothing
                               /\ Verdict(id, NodeIn(c, r)) # "not_affected"
  BY DEF Kept, Named, Excluded
<1>2. CASE r \in Kept(c, id, a)
  <2>1. Kept(c, id, a) \ (left \ {r}) = (Kept(c, id, a) \ left) \cup {r}
    BY <1>2
  <2> HIDE DEF Kept
  <2> QED
    BY <1>1, <1>2, <2>1 DEF SoFar
<1>3. CASE r \notin Kept(c, id, a)
  <2>1. Kept(c, id, a) \ (left \ {r}) = Kept(c, id, a) \ left
    BY <1>3
  <2> QED
    BY <1>1, <1>3, <2>1 DEF SoFar
<1> QED
  BY <1>2, <1>3

(* A comparison, as the operators over the corpus have it.                  *)
LEMMA Compared ==
  ASSUME Shape, NEW ref \in refs, CompareNode(ref)
  PROVE  LET id == asset.identity
             product == NodeIn(corpus, ref)
             named == CompareIdentity(id, product).strength # Nothing
             out == named /\ Verdict(id, product) = "not_affected"
         IN  /\ asset # NoAsset /\ refs' = refs \ {ref}
             /\ UNCHANGED <<stage, documents, corpus, index, inventory, next, asset, findings, document>>
             /\ candidates' =
                  IF ~ named \/ out THEN candidates
                  ELSE [candidates EXCEPT ![ref.advisory] = @ \cup {CandidateOf(corpus, id, ref)}]
             /\ run' = [run EXCEPT !.ruledOut = @ + (IF out THEN 1 ELSE 0)]
  BY DEF CompareNode, RuledOut, NodeIn, Node, CandidateOf

LEMMA SurvivingStep == Shape /\ Surviving /\ [Next]_vars => Surviving'
<1> SUFFICES ASSUME Shape, Surviving, [Next]_vars PROVE Surviving'
  OBVIOUS
<1>1. CASE candidates' = <<>>
  BY <1>1 DEF Surviving
<1>2. CASE UNCHANGED <<corpus, asset, refs, candidates>>
  BY <1>2 DEF Surviving
<1>3. CASE TakeAsset
  <2>1. refs' = Reached(corpus, asset'.identity)
    BY <1>3, TakeShape
  <2>2. corpus' = corpus /\ candidates' = [a \in DOMAIN corpus |-> {}]
    BY <1>3 DEF TakeAsset
  <2>3. \A a : SoFar(corpus, asset.identity, refs, a)' = {}
    BY <2>1, <2>2, NoneSoFar
  <2> QED
    BY <2>2, <2>3 DEF Surviving
<1>4. CASE \E ref \in refs : CompareNode(ref)
  <2>1. PICK ref \in refs : CompareNode(ref)
    BY <1>4
  <2> DEFINE id == asset.identity
             kept == /\ CompareIdentity(id, NodeIn(corpus, ref)).strength # Nothing
                     /\ Verdict(id, NodeIn(corpus, ref)) # "not_affected"
             this == CandidateOf(corpus, id, ref)
  <2>2. /\ asset # NoAsset /\ refs' = refs \ {ref} /\ corpus' = corpus /\ asset' = asset
        /\ candidates' = IF kept THEN [candidates EXCEPT ![ref.advisory] = @ \cup {this}]
                         ELSE candidates
    BY <2>1, Compared
  <2>3. refs \in SUBSET Reached(corpus, id)
    BY <2>2 DEF Shape
  <2>4. \A a : SoFar(corpus, id, refs \ {ref}, a)
                 = SoFar(corpus, id, refs, a)
                   \cup (IF ref.advisory = a /\ kept THEN {this} ELSE {})
    BY <2>3, OneMore
  <2>5. \A a \in DOMAIN candidates : candidates[a] = SoFar(corpus, id, refs, a)
    BY DEF Surviving
  <2> HIDE DEF id, kept, this
  <2>6. DOMAIN candidates' = DOMAIN candidates
    BY <2>2
  <2>7. ASSUME NEW a \in DOMAIN candidates
        PROVE  candidates'[a] = SoFar(corpus, id, refs \ {ref}, a)
    <3>1. candidates'[a] = candidates[a] \cup (IF ref.advisory = a /\ kept THEN {this} ELSE {})
      BY <2>2
    <3> QED
      BY <2>4, <2>5, <3>1
  <2> QED
    BY <2>2, <2>6, <2>7 DEF Surviving, id
<1>5. CASE \E a \in DOMAIN candidates : BuildFinding(a)
  <2>1. PICK a \in DOMAIN candidates : BuildFinding(a)
    BY <1>5
  <2>2. /\ refs = {} /\ candidates' = [candidates EXCEPT ![a] = {}]
        /\ corpus' = corpus /\ asset' = asset /\ refs' = refs
    BY <2>1 DEF BuildFinding
  <2> QED
    BY <2>2 DEF Surviving
<1>6. CASE ReadDocument
  <2>1. candidates = <<>> /\ candidates' = candidates
    BY <1>6 DEF Shape, ReadDocument
  <2> QED
    BY <1>1, <2>1
<1>7. CASE FinishAsset
  BY <1>1, <1>7 DEF FinishAsset
<1>8. CASE BuildIndex \/ SkipUnidentified \/ SkipUnknownVendor \/ Finalize \/ ExportVEX \/ UNCHANGED vars
  BY <1>2, <1>8 DEF BuildIndex, SkipUnidentified, SkipUnknownVendor, Finalize, ExportVEX, vars
<1> QED
  BY <1>3, <1>4, <1>5, <1>6, <1>7, <1>8 DEF Next


-----------------------------------------------------------------------------
(* The findings are those of the pairs dealt with so far, one for each.     *)
Dealt(x) ==
  /\ x[1] < next
  /\ asset = NoAsset \/ x[1] < Here \/ (refs = {} /\ candidates[x[2]] = {})

Built == {x \in Reported(corpus, inventory) : Dealt(x)}

(* Each finding of a list F and the pair it is of. *)
Listing(c, d, F, pairs, w) ==
  /\ w \in Bijection(DOMAIN F, pairs)
  /\ \A k \in DOMAIN F : F[k] = FindingOf(c, d, w[k])

Listed ==
  /\ findings \in Seq(ToSet(findings))
  /\ \E w : Listing(corpus, inventory, findings, Built, w)

LEMMA ReportedPairs ==
  ASSUME NEW c, Corpus(c), NEW d \in Inventories, NEW x \in Reported(c, d)
  PROVE  /\ x = <<x[1], x[2]>>
         /\ x[1] \in AssessedIn(d) /\ x[1] \in 1 .. Len(d) /\ x[1] \in Nat
         /\ x[2] \in DOMAIN c /\ x \in Findable(c, d)
         /\ Kept(c, IdOf(d, x[1]), x[2]) # {} /\ CandidatesOf(c, IdOf(d, x[1]), x[2]) # {}
         /\ Reached(c, IdOf(d, x[1])) # {}
<1>1. x \in AssessedIn(d) \X DOMAIN c /\ Kept(c, IdOf(d, x[1]), x[2]) # {}
  BY DEF Reported, Findable
<1>2. DOMAIN d = 1 .. Len(d) /\ Len(d) \in Nat
  BY InventoryIsPlant
<1>3. x[1] \in 1 .. Len(d)
  BY <1>1, <1>2 DEF AssessedIn
<1> QED
  BY <1>1, <1>2, <1>3 DEF Reported, CandidatesOf, Kept, Named

(* One more finding, of a pair not listed yet. *)
LEMMA OneMoreListed ==
  ASSUME NEW c, NEW d, NEW F, F \in Seq(ToSet(F)), NEW pairs, NEW w, Listing(c, d, F, pairs, w),
         NEW x, x \notin pairs
  PROVE  /\ Append(F, FindingOf(c, d, x)) \in Seq(ToSet(Append(F, FindingOf(c, d, x))))
         /\ \E v : Listing(c, d, Append(F, FindingOf(c, d, x)), pairs \cup {x}, v)
<1> DEFINE f == FindingOf(c, d, x)
           G == Append(F, f)
           n == Len(F)
           v == [k \in 1 .. n + 1 |-> IF k = n + 1 THEN x ELSE w[k]]
<1> HIDE DEF f
<1>1. n \in Nat /\ DOMAIN F = 1 .. n
  OBVIOUS
<1>2. /\ F \in Seq(ToSet(F) \cup {f}) /\ f \in ToSet(F) \cup {f}
  <2>1. Seq(ToSet(F)) \subseteq Seq(ToSet(F) \cup {f})
    OBVIOUS
  <2> QED
    BY <2>1
<1>3. /\ Len(G) = n + 1 /\ DOMAIN G = 1 .. n + 1
      /\ \A k \in 1 .. n : G[k] = F[k]
      /\ G[n + 1] = f
  <2> HIDE DEF n
  <2>1. G \in Seq(ToSet(F) \cup {f}) /\ Len(G) = Len(F) + 1
    BY <1>2
  <2> QED
    BY <1>1, <1>2, <2>1 DEF n
<1> HIDE DEF G, n
<1>4. G \in Seq(ToSet(G))
  <2>1. G \in [1 .. n + 1 -> ToSet(F) \cup {f}]
    <3>1. G \in Seq(ToSet(F) \cup {f})
      BY <1>2 DEF G
    <3> QED
      BY <1>3, <3>1
  <2>2. \A k \in 1 .. n + 1 : G[k] \in ToSet(G)
    BY <1>3 DEF ToSet
  <2>3. G \in [1 .. n + 1 -> ToSet(G)]
    BY <2>1, <2>2
  <2> QED
    BY <1>1, <2>3
<1>5. w \in [1 .. n -> pairs] /\ \A i, j \in 1 .. n : w[i] = w[j] => i = j
  BY <1>1 DEF Listing, Bijection, Injection, IsInjective
<1>6. \A y \in pairs : \E i \in 1 .. n : w[i] = y
  BY <1>1 DEF Listing, Bijection, Surjection
<1>7. v \in [1 .. n + 1 -> pairs \cup {x}]
  BY <1>1, <1>5
<1>8. \A i, j \in 1 .. n + 1 : v[i] = v[j] => i = j
  BY <1>1, <1>5
<1>9. \A y \in pairs \cup {x} : \E i \in 1 .. n + 1 : v[i] = y
  <2> TAKE y \in pairs \cup {x}
  <2>1. CASE y = x
    BY <1>1, <2>1
  <2>2. CASE y \in pairs
    <3>1. PICK i \in 1 .. n : w[i] = y
      BY <1>6, <2>2
    <3>2. i \in 1 .. n + 1 /\ v[i] = w[i]
      BY <1>1
    <3> QED
      BY <3>1, <3>2
  <2> QED
    BY <2>1, <2>2
<1>10. v \in Bijection(DOMAIN G, pairs \cup {x})
  BY <1>3, <1>7, <1>8, <1>9 DEF Bijection, Injection, Surjection, IsInjective
<1>11. \A k \in DOMAIN G : G[k] = FindingOf(c, d, v[k])
  <2> TAKE k \in DOMAIN G
  <2>1. k \in 1 .. n + 1
    BY <1>3
  <2>2. CASE k = n + 1
    BY <1>1, <1>3, <2>2 DEF f
  <2>3. CASE k \in 1 .. n
    BY <1>1, <1>3, <2>3 DEF Listing
  <2> QED
    BY <1>1, <2>1, <2>2, <2>3
<1>12. Listing(c, d, G, pairs \cup {x}, v)
  BY <1>10, <1>11 DEF Listing
<1> QED
  BY <1>4, <1>12 DEF G, f

(* The same findings in another order. *)
LEMMA RearrangedIsListed ==
  ASSUME NEW c, NEW d, NEW F, F \in Seq(ToSet(F)), NEW G, NEW p, Rearranged(F, G, p),
         NEW pairs, NEW w, Listing(c, d, F, pairs, w)
  PROVE  G \in Seq(ToSet(G)) /\ \E v : Listing(c, d, G, pairs, v)
<1> DEFINE S == DOMAIN F
           v == [k \in S |-> w[p[k]]]
<1>1. S = 1 .. Len(F) /\ Len(F) \in Nat
  OBVIOUS
<1>2. DOMAIN G = S /\ \A k \in S : G[k] = F[p[k]]
  BY DEF Rearranged
<1>3. G \in Seq(ToSet(G))
  <2>1. G = [k \in 1 .. Len(F) |-> G[k]]
    BY <1>1, <1>2 DEF Rearranged
  <2>2. \A k \in 1 .. Len(F) : G[k] \in ToSet(G)
    BY <1>1, <1>2 DEF ToSet
  <2>3. G \in [1 .. Len(F) -> ToSet(G)]
    BY <2>1, <2>2
  <2> QED
    BY <1>1, <2>3
<1>4. /\ p \in [S -> S] /\ \A i, j \in S : p[i] = p[j] => i = j
      /\ \A y \in S : \E i \in S : p[i] = y
  BY DEF Rearranged, Bijection, Injection, Surjection, IsInjective
<1>5. /\ w \in [S -> pairs] /\ \A i, j \in S : w[i] = w[j] => i = j
      /\ \A y \in pairs : \E i \in S : w[i] = y
  BY DEF Listing, Bijection, Injection, Surjection, IsInjective
<1> HIDE DEF S
<1>6. v \in [S -> pairs] /\ \A i, j \in S : v[i] = v[j] => i = j
  BY <1>4, <1>5
<1>7. \A y \in pairs : \E i \in S : v[i] = y
  <2> TAKE y \in pairs
  <2>1. PICK j \in S : w[j] = y
    BY <1>5
  <2>2. PICK i \in S : p[i] = j
    BY <1>4, <2>1
  <2> QED
    BY <2>1, <2>2
<1>8. v \in Bijection(S, pairs)
  BY <1>6, <1>7 DEF Bijection, Injection, Surjection, IsInjective
<1>9. \A k \in S : G[k] = FindingOf(c, d, v[k])
  BY <1>2, <1>4 DEF Listing, S
<1> QED
  BY <1>2, <1>3, <1>8, <1>9 DEF Listing


LEMMA ListedInit == Init => Listed
<1> SUFFICES ASSUME Init PROVE Listed
  OBVIOUS
<1>1. Built = {}
  <2>1. \A x \in Reported(corpus, inventory) : x[1] \in 1 .. Len(inventory)
    <3>1. inventory \in Inventories /\ corpus = <<>>
      BY DEF Init
    <3>2. Corpus(corpus)
      BY <3>1 DEF Corpus
    <3> QED
      BY <3>1, <3>2, ReportedPairs
  <2>2. next = 1 /\ Len(inventory) \in Nat
    BY InventoryIsPlant DEF Init
  <2> QED
    BY <2>1, <2>2 DEF Built, Dealt
<1>2. findings = <<>>
  BY DEF Init
<1>3. Listing(corpus, inventory, <<>>, {}, <<>>)
  BY DEF Listing, Bijection, Injection, Surjection, IsInjective
<1> QED
  BY <1>1, <1>2, <1>3 DEF Listed

(* A step that lists nothing leaves the list as it is. *)
LEMMA ListStays ==
  ASSUME Listed, corpus' = corpus, inventory' = inventory, findings' = findings,
         \A x \in Reported(corpus, inventory) : Dealt(x)' <=> Dealt(x)
  PROVE  Listed'
<1>1. Reported(corpus, inventory)' = Reported(corpus, inventory)
  OBVIOUS
<1>2. Built' = Built
  BY <1>1 DEF Built
<1>3. PICK w : Listing(corpus, inventory, findings, Built, w)
  BY DEF Listed
<1>4. Listing(corpus, inventory, findings, Built, w)'
  BY <1>2, <1>3 DEF Listing
<1> QED
  BY <1>4 DEF Listed

LEMMA CompareLists ==
  ASSUME Shape, Shape', Surviving, Surviving', NEW ref \in refs, CompareNode(ref)
  PROVE  \A x \in Reported(corpus, inventory) : Dealt(x)' <=> Dealt(x)
<1> DEFINE id == asset.identity
<1>1. /\ asset # NoAsset /\ refs' = refs \ {ref}
      /\ UNCHANGED <<corpus, inventory, next, asset>>
  BY Compared
<1>2. id = IdOf(inventory, Here) /\ DOMAIN candidates = DOMAIN corpus /\ DOMAIN candidates' = DOMAIN corpus
  BY <1>1 DEF Shape, DeviceAt
<1>3. ASSUME NEW x \in Reported(corpus, inventory), x[1] < next, ~ (x[1] < Here), refs' = {}
      PROVE  candidates'[x[2]] # {}
  <2>1. x[1] = Here
    BY <1>3, ReportedPairs DEF Shape, Here
  <2>2. x[2] \in DOMAIN corpus /\ CandidatesOf(corpus, id, x[2]) # {}
    BY <1>2, <2>1, ReportedPairs DEF Shape
  <2>3. candidates[x[2]] = SoFar(corpus, id, refs, x[2])
    BY <1>2, <2>2 DEF Surviving
  <2>4. \/ candidates'[x[2]] = SoFar(corpus, id, {}, x[2])
        \/ candidates'[x[2]] = {}
    BY <1>1, <1>2, <1>3, <2>2 DEF Surviving
  <2>5. candidates'[x[2]] = SoFar(corpus, id, {}, x[2])
    <3>1. refs \in SUBSET Reached(corpus, id)
      BY <1>1 DEF Shape
    <3> DEFINE kept == /\ CompareIdentity(id, NodeIn(corpus, ref)).strength # Nothing
                       /\ Verdict(id, NodeIn(corpus, ref)) # "not_affected"
               this == CandidateOf(corpus, id, ref)
    <3>2. SoFar(corpus, id, refs \ {ref}, x[2])
            = SoFar(corpus, id, refs, x[2])
              \cup (IF ref.advisory = x[2] /\ kept THEN {this} ELSE {})
      BY <3>1, OneMore
    <3>3. candidates' = IF kept THEN [candidates EXCEPT ![ref.advisory] = @ \cup {this}]
                        ELSE candidates
      BY Compared
    <3> HIDE DEF kept, this
    <3>4. candidates'[x[2]] = candidates[x[2]] \cup (IF ref.advisory = x[2] /\ kept THEN {this} ELSE {})
      BY <1>2, <2>2, <3>3
    <3> QED
      BY <1>1, <1>3, <2>3, <3>2, <3>4
  <2> QED
    BY <2>2, <2>5, AllSoFar
<1>4. refs # {} /\ Here' = Here
  BY <1>1 DEF Here
<1> QED
  BY <1>1, <1>3, <1>4 DEF Dealt

LEMMA BuildLists ==
  ASSUME Shape, Surviving, Listed, NEW a \in DOMAIN candidates, BuildFinding(a)
  PROVE  Listed'
<1> DEFINE id == asset.identity
           x == <<Here, a>>
           f == FindingOf(corpus, inventory, x)
<1>1. /\ asset # NoAsset /\ refs = {} /\ candidates[a] # {}
      /\ candidates' = [candidates EXCEPT ![a] = {}]
      /\ UNCHANGED <<corpus, inventory, next, asset, refs>>
  BY DEF BuildFinding
<1>2. /\ Here \in AssessedIn(inventory) /\ asset = DeviceAt(inventory, Here)
      /\ DOMAIN candidates = DOMAIN corpus /\ next \in Nat /\ Here \in Int
  BY <1>1, InventoryIsPlant DEF Shape, Here
<1>3. id = IdOf(inventory, Here)
  BY <1>2 DEF DeviceAt
<1>4. candidates[a] = CandidatesOf(corpus, id, a)
  BY <1>1, AllSoFar DEF Surviving
<1>5. x \in Findable(corpus, inventory) /\ x[1] = Here /\ x[2] = a
  <2>1. Kept(corpus, id, a) # {}
    BY <1>1, <1>4 DEF CandidatesOf
  <2> HIDE DEF id
  <2> QED
    BY <1>2, <1>3, <2>1 DEF Findable
<1>6. findings' = IF WeakerThanAsked(f) THEN findings ELSE Append(findings, f)
  <2>1. f = BuildFindingFor(asset, corpus[a], candidates[a])
    BY <1>2, <1>3, <1>4, <1>5 DEF FindingOf, DeviceAt
  <2> QED
    BY <2>1 DEF BuildFinding
<1> HIDE DEF f
<1>7. ASSUME NEW y \in Reported(corpus, inventory)
      PROVE  Dealt(y)' <=> Dealt(y) \/ y = x
  <2>1. /\ y = <<y[1], y[2]>> /\ y[1] \in Nat /\ y[2] \in DOMAIN corpus
    BY ReportedPairs DEF Shape
  <2>2. Here' = Here /\ Here < next
    BY <1>1, <1>2 DEF Here
  <2>3. candidates'[y[2]] = IF y[2] = a THEN {} ELSE candidates[y[2]]
    BY <1>1, <1>2, <2>1
  <2>4. CASE y[1] < Here
    BY <1>1, <1>2, <2>1, <2>2, <2>4 DEF Dealt
  <2>5. CASE ~ (y[1] < Here) /\ y[1] < next
    <3>1. y[1] = Here
      BY <1>2, <2>1, <2>5 DEF Here
    <3>2. y = x <=> y[2] = a
      BY <1>5, <2>1, <3>1
    <3> HIDE DEF x
    <3> QED
      BY <1>1, <2>2, <2>3, <2>5, <3>2 DEF Dealt
  <2>6. CASE ~ (y[1] < next)
    BY <1>1, <1>5, <2>2, <2>6 DEF Dealt
  <2> QED
    BY <2>4, <2>5, <2>6
<1>8. ~ Dealt(x)
  BY <1>1, <1>2, <1>5 DEF Dealt
<1>9. Reported(corpus, inventory)' = Reported(corpus, inventory)
  BY <1>1
<1>10. PICK w : Listing(corpus, inventory, findings, Built, w)
  BY DEF Listed
<1> HIDE DEF x
<1>11. CASE WeakerThanAsked(f)
  <2>1. x \notin Reported(corpus, inventory)
    BY <1>11 DEF Reported, f
  <2>2. \A y \in Reported(corpus, inventory) : Dealt(y)' <=> Dealt(y)
    BY <1>7, <2>1
  <2> QED
    BY <1>1, <1>6, <1>11, <2>2, ListStays
<1>12. CASE ~ WeakerThanAsked(f)
  <2>1. x \in Reported(corpus, inventory)
    BY <1>5, <1>12 DEF Reported, f
  <2>2. Built' = Built \cup {x}
    BY <1>7, <1>9, <2>1 DEF Built
  <2>3. x \notin Built
    BY <1>8 DEF Built
  <2>4. findings' = Append(findings, f) /\ findings \in Seq(ToSet(findings))
    BY <1>6, <1>12 DEF Listed
  <2>5. /\ findings' \in Seq(ToSet(findings'))
        /\ \E v : Listing(corpus, inventory, findings', Built \cup {x}, v)
    BY <1>10, <2>3, <2>4, OneMoreListed DEF f
  <2>6. PICK v : Listing(corpus, inventory, findings', Built \cup {x}, v)
    BY <2>5
  <2>7. Listing(corpus, inventory, findings, Built, v)'
    BY <1>1, <2>2, <2>6 DEF Listing
  <2> QED
    BY <2>5, <2>7 DEF Listed
<1> QED
  BY <1>11, <1>12


(* The findings listed are well typed, and of the pairs they are listed     *)
(* with.                                                                    *)
LEMMA ListedAreTyped ==
  ASSUME Shape, NEW w, Listing(corpus, inventory, findings, Built, w), NEW k \in DOMAIN findings
  PROVE  /\ w[k] \in Built /\ w[k] \in Reported(corpus, inventory) /\ w[k] \in Findable(corpus, inventory)
         /\ IsFinding(findings[k])
         /\ findings[k].asset = inventory[w[k][1]].id
         /\ findings[k].advisory = corpus[w[k][2]].id
         /\ findings[k].identity = IdOf(inventory, w[k][1])
         /\ Claims(findings[k])
              = {NodeIn(corpus, r).id : r \in Kept(corpus, IdOf(inventory, w[k][1]), w[k][2])}
<1>1. w[k] \in Built
  BY DEF Listing, Bijection, Injection
<1>2. w[k] \in Reported(corpus, inventory)
  BY <1>1 DEF Built
<1>3. w[k] \in Findable(corpus, inventory)
  BY <1>2 DEF Reported
<1>4. Corpus(corpus) /\ Plant(inventory)
  BY InventoryIsPlant DEF Shape
<1>5. findings[k] = FindingOf(corpus, inventory, w[k])
  BY DEF Listing
<1> QED
  BY <1>1, <1>2, <1>3, <1>4, <1>5, FindingIsTyped

LEMMA FindingsAreTyped ==
  ASSUME Shape, Listed
  PROVE  \A k \in DOMAIN findings : IsFinding(findings[k])
<1>1. PICK w : Listing(corpus, inventory, findings, Built, w)
  BY DEF Listed
<1> QED
  BY <1>1, ListedAreTyped

LEMMA ListedStep == Shape /\ Surviving /\ Listed /\ [Next]_vars => Listed'
<1> SUFFICES ASSUME Shape, Surviving, Listed, [Next]_vars PROVE Listed'
  OBVIOUS
<1>1. Shape' /\ Surviving'
  BY ShapeStep, SurvivingStep
<1>2. /\ Len(inventory) \in Nat /\ next \in Nat /\ DOMAIN inventory = 1 .. Len(inventory)
      /\ Here \in Int /\ Here < next
  BY InventoryIsPlant DEF Shape, Here
<1> DEFINE R == Reported(corpus, inventory)
<1>3. \A x \in R : x[1] \in AssessedIn(inventory) /\ x[1] \in Nat
  BY ReportedPairs DEF Shape
<1>4. CASE ReadDocument
  <2>1. /\ next = 1 /\ next' = 1 /\ findings = <<>> /\ findings' = <<>> /\ inventory' = inventory
        /\ Corpus(corpus)'
    BY <1>1, <1>4 DEF ReadDocument, Shape
  <2>2. Built' = {}
    <3>1. \A x \in Reported(corpus', inventory) : x[1] \in 1 .. Len(inventory)
      BY <2>1, ReportedPairs DEF Shape
    <3>2. \A x \in Reported(corpus, inventory)' : ~ Dealt(x)'
      BY <1>2, <2>1, <3>1 DEF Dealt
    <3> QED
      BY <3>2 DEF Built
  <2>3. Listing(corpus', inventory', <<>>, {}, <<>>)
    BY DEF Listing, Bijection, Injection, Surjection, IsInjective
  <2> QED
    BY <2>1, <2>2, <2>3 DEF Listed
<1>5. CASE SkipUnidentified \/ SkipUnknownVendor
  <2>1. /\ asset = NoAsset /\ next' = next + 1
        /\ UNCHANGED <<corpus, inventory, asset, refs, candidates, findings>>
        /\ next \notin AssessedIn(inventory)
    BY <1>5 DEF SkipUnidentified, SkipUnknownVendor, Between, Current, AssessedIn, IdOf
  <2>2. ASSUME NEW x \in R PROVE Dealt(x)' <=> Dealt(x)
    <3>1. x[1] # next /\ x[1] \in Nat
      BY <1>3, <2>1
    <3> QED
      BY <1>2, <2>1, <3>1 DEF Dealt
  <2> QED
    BY <2>1, <2>2, ListStays
<1>6. CASE TakeAsset
  <2>1. asset' # NoAsset /\ Here' = next /\ refs' = Reached(corpus, asset'.identity)
    BY <1>6, TakeShape
  <2>2. /\ asset = NoAsset /\ next' = next + 1
        /\ UNCHANGED <<corpus, inventory, findings>>
    BY <1>6 DEF TakeAsset, Between
  <2>3. asset'.identity = IdOf(inventory, next)
    <3>1. asset' = DeviceAt(inventory', Here')
      BY <1>1, <2>1 DEF Shape
    <3> QED
      BY <2>1, <2>2, <3>1 DEF DeviceAt
  <2>4. ASSUME NEW x \in R PROVE Dealt(x)' <=> Dealt(x)
    <3>1. x[1] \in Nat /\ Reached(corpus, IdOf(inventory, x[1])) # {}
      BY ReportedPairs DEF Shape
    <3>2. CASE x[1] = next
      <4>1. refs' # {}
        BY <2>1, <2>3, <3>1, <3>2
      <4> QED
        BY <1>2, <2>1, <2>2, <3>2, <4>1 DEF Dealt
    <3>3. CASE x[1] # next
      BY <1>2, <2>1, <2>2, <3>1, <3>3 DEF Dealt
    <3> QED
      BY <3>2, <3>3
  <2> QED
    BY <2>2, <2>4, ListStays
<1>7. CASE \E ref \in refs : CompareNode(ref)
  <2>1. PICK ref \in refs : CompareNode(ref)
    BY <1>7
  <2>2. \A x \in R : Dealt(x)' <=> Dealt(x)
    BY <1>1, <2>1, CompareLists
  <2>3. UNCHANGED <<corpus, inventory, findings>>
    BY <2>1 DEF CompareNode
  <2> QED
    BY <2>2, <2>3, ListStays
<1>8. CASE \E a \in DOMAIN candidates : BuildFinding(a)
  BY <1>8, BuildLists
<1>9. CASE FinishAsset
  <2>1. /\ asset # NoAsset /\ refs = {} /\ \A a \in DOMAIN candidates : candidates[a] = {}
        /\ asset' = NoAsset
        /\ UNCHANGED <<corpus, inventory, next, findings>>
    BY <1>9 DEF FinishAsset
  <2>2. ASSUME NEW x \in R PROVE Dealt(x)' <=> Dealt(x)
    <3>1. x[2] \in DOMAIN candidates
      BY <2>1, ReportedPairs DEF Shape
    <3> QED
      BY <2>1, <3>1 DEF Dealt
  <2> QED
    BY <2>1, <2>2, ListStays
<1>10. CASE Finalize
  <2>1. /\ findings' = Sorted(findings)
        /\ UNCHANGED <<corpus, inventory, next, asset, refs, candidates>>
    BY <1>10 DEF Finalize
  <2>2. findings \in Seq(ToSet(findings)) /\ \A k \in DOMAIN findings : IsFinding(findings[k])
    BY FindingsAreTyped DEF Listed
  <2>3. PICK p : Rearranged(findings, Sorted(findings), p)
    BY <2>2, SortedIsRearranged
  <2>4. PICK w : Listing(corpus, inventory, findings, Built, w)
    BY DEF Listed
  <2>5. /\ Sorted(findings) \in Seq(ToSet(Sorted(findings)))
        /\ \E v : Listing(corpus, inventory, Sorted(findings), Built, v)
    BY <2>2, <2>3, <2>4, RearrangedIsListed
  <2>6. PICK v : Listing(corpus, inventory, Sorted(findings), Built, v)
    BY <2>5
  <2>7. Built' = Built
    <3>1. Reported(corpus, inventory)' = R /\ \A x \in R : Dealt(x)' <=> Dealt(x)
      BY <2>1 DEF Dealt, Here
    <3> QED
      BY <3>1 DEF Built
  <2>8. Listing(corpus, inventory, findings, Built, v)'
    BY <2>1, <2>6, <2>7 DEF Listing
  <2> QED
    BY <2>1, <2>5, <2>8 DEF Listed
<1>11. CASE BuildIndex \/ ExportVEX \/ UNCHANGED vars
  <2>1. UNCHANGED <<corpus, inventory, next, asset, refs, candidates, findings>>
    BY <1>11 DEF BuildIndex, ExportVEX, vars
  <2>2. \A x \in R : Dealt(x)' <=> Dealt(x)
    BY <2>1 DEF Dealt, Here
  <2> QED
    BY <2>1, <2>2, ListStays
<1> QED
  BY <1>4, <1>5, <1>6, <1>7, <1>8, <1>9, <1>10, <1>11 DEF Next


-----------------------------------------------------------------------------
(* The counters of the run count the devices passed over and the pairs a    *)
(* version ruled out; what is delivered is the list in its order.           *)
Nameless(d) == {i \in DOMAIN d : IsEmpty(d[i].identity)}

Unplaced(d) == {i \in DOMAIN d : ~ IsEmpty(d[i].identity) /\ IdOf(d, i).vendor = NoName}

OutPairs(c, d) == {x \in AssessedIn(d) \X NodesIn(c) : x[2] \in Excluded(c, IdOf(d, x[1]))}

Passed(places, n) == {i \in places : i < n}

RuledOutNow ==
  {x \in OutPairs(corpus, inventory) : x[1] < next /\ ~ (x[1] = Here /\ x[2] \in refs)}

Counted ==
  /\ run \in [considered : Nat, unidentified : Nat, unknownVendor : Nat, ruledOut : Nat]
  /\ run.considered = Len(inventory)
  /\ run.unidentified = Cardinality(Passed(Nameless(inventory), next))
  /\ run.unknownVendor = Cardinality(Passed(Unplaced(inventory), next))
  /\ run.ruledOut = Cardinality(RuledOutNow)

LEMMA OutPairsAreFinite ==
  ASSUME NEW c, Corpus(c), NEW d \in Inventories
  PROVE  /\ IsFiniteSet(AssessedIn(d) \X NodesIn(c))
         /\ \A P \in SUBSET OutPairs(c, d) : IsFiniteSet(P)
<1>1. DOMAIN d = 1 .. Len(d) /\ Len(d) \in Nat
  BY InventoryIsPlant
<1>2. IsFiniteSet(DOMAIN d)
  BY <1>1, FS_Interval
<1>3. IsFiniteSet(AssessedIn(d))
  BY <1>2, FS_Subset DEF AssessedIn
<1>4. IsFiniteSet(AssessedIn(d) \X NodesIn(c))
  BY <1>3, NodesAreFinite, FS_Product
<1>5. OutPairs(c, d) \subseteq AssessedIn(d) \X NodesIn(c)
  BY DEF OutPairs
<1> QED
  BY <1>4, <1>5, FS_Subset

LEMMA PlacesAreFinite ==
  ASSUME NEW d \in Inventories, NEW P \in SUBSET DOMAIN d
  PROVE  IsFiniteSet(P)
<1>1. DOMAIN d = 1 .. Len(d) /\ Len(d) \in Nat
  BY InventoryIsPlant
<1>2. IsFiniteSet(DOMAIN d)
  BY <1>1, FS_Interval
<1> QED
  BY <1>2, FS_Subset

LEMMA CountedInit == Init => Counted
<1> SUFFICES ASSUME Init PROVE Counted
  OBVIOUS
<1>1. Len(inventory) \in Nat /\ DOMAIN inventory = 1 .. Len(inventory) /\ next = 1 /\ corpus = <<>>
  BY InventoryIsPlant DEF Init
<1>2. Passed(Nameless(inventory), next) = {} /\ Passed(Unplaced(inventory), next) = {} /\ RuledOutNow = {}
  BY <1>1 DEF Passed, Nameless, Unplaced, RuledOutNow, OutPairs, AssessedIn
<1>3. run = [considered |-> Len(inventory), unidentified |-> 0, unknownVendor |-> 0, ruledOut |-> 0]
  BY DEF Init, NoRun
<1> QED
  BY <1>1, <1>2, <1>3, FS_EmptySet DEF Counted

LEMMA CompareCounts ==
  ASSUME Shape, Counted, NEW ref \in refs, CompareNode(ref)
  PROVE  Counted'
<1> DEFINE id == asset.identity
           out == /\ CompareIdentity(id, NodeIn(corpus, ref)).strength # Nothing
                  /\ Verdict(id, NodeIn(corpus, ref)) = "not_affected"
           x == <<Here, ref>>
           n == run.ruledOut + (IF out THEN 1 ELSE 0)
<1>1. /\ asset # NoAsset /\ refs' = refs \ {ref}
      /\ UNCHANGED <<corpus, inventory, next>>
      /\ run' = [run EXCEPT !.ruledOut = @ + (IF out THEN 1 ELSE 0)]
  BY Compared
<1>2. /\ Here \in AssessedIn(inventory) /\ id = IdOf(inventory, Here)
      /\ refs \subseteq Reached(corpus, id) /\ next \in Nat /\ Here < next
  BY <1>1, InventoryIsPlant DEF Shape, DeviceAt, Here
<1>3. ref \in Reached(corpus, id) /\ ref \in NodesIn(corpus)
  BY <1>2 DEF Reached, IndexedIn
<1>4. x \in OutPairs(corpus, inventory) <=> out
  <2>1. ref \in Excluded(corpus, id) <=> out
    BY <1>3 DEF Excluded, Named
  <2>2. x[1] = Here /\ x[2] = ref /\ x \in AssessedIn(inventory) \X NodesIn(corpus)
    BY <1>2, <1>3
  <2> HIDE DEF x, out, id
  <2> QED
    BY <1>2, <2>1, <2>2 DEF OutPairs
<1>5. OutPairs(corpus, inventory)' = OutPairs(corpus, inventory) /\ Here' = Here
  BY <1>1 DEF Here
<1>6. \A y \in OutPairs(corpus, inventory) : y = <<y[1], y[2]>>
  BY DEF OutPairs
<1>7. RuledOutNow' = RuledOutNow \cup (IF out THEN {x} ELSE {})
  <2>1. ASSUME NEW y \in OutPairs(corpus, inventory)
        PROVE  (y[1] = Here /\ y[2] \in refs \ {ref}) <=> (y[1] = Here /\ y[2] \in refs) /\ y # x
    BY <1>6
  <2> HIDE DEF out
  <2>2. x[1] = Here
    OBVIOUS
  <2> HIDE DEF x
  <2> QED
    BY <1>1, <1>2, <1>4, <1>5, <2>1, <2>2 DEF RuledOutNow
<1>8. x \notin RuledOutNow
  BY DEF RuledOutNow
<1>9. IsFiniteSet(RuledOutNow)
  BY OutPairsAreFinite DEF Shape, RuledOutNow
<1> HIDE DEF x, out
<1>10. Cardinality(RuledOutNow') = n
  <2>1. CASE out
    <3>1. RuledOutNow' = RuledOutNow \cup {x}
      BY <1>7, <2>1
    <3>2. Cardinality(RuledOutNow') = Cardinality(RuledOutNow) + 1
      BY <1>8, <1>9, <3>1, FS_AddElement
    <3> QED
      BY <2>1, <3>2 DEF Counted
  <2>2. CASE ~ out
    <3>1. RuledOutNow' = RuledOutNow
      BY <1>7, <2>2
    <3>2. n = run.ruledOut
      BY <2>2 DEF Counted
    <3> QED
      BY <3>1, <3>2 DEF Counted
  <2> QED
    BY <2>1, <2>2
<1>11. /\ Passed(Nameless(inventory), next)' = Passed(Nameless(inventory), next)
       /\ Passed(Unplaced(inventory), next)' = Passed(Unplaced(inventory), next)
  BY <1>1 DEF Passed
<1> QED
  BY <1>1, <1>10, <1>11 DEF Counted

LEMMA OnePassed ==
  ASSUME Shape, next' = next + 1, NEW places \in SUBSET DOMAIN inventory
  PROVE  /\ IsFiniteSet(Passed(places, next))
         /\ Cardinality(Passed(places, next + 1))
              = Cardinality(Passed(places, next)) + (IF next \in places THEN 1 ELSE 0)
         /\ Cardinality(Passed(places, next)) \in Nat
<1>1. next \in Nat /\ \A i \in places : i \in Nat
  BY InventoryIsPlant DEF Shape
<1>2. IsFiniteSet(Passed(places, next))
  BY PlacesAreFinite DEF Shape, Passed
<1>3. next \notin Passed(places, next)
  BY <1>1 DEF Passed
<1>4. Cardinality(Passed(places, next)) \in Nat
  BY <1>2, FS_CardinalityType
<1>5. CASE next \in places
  <2>1. Passed(places, next + 1) = Passed(places, next) \cup {next}
    BY <1>1, <1>5 DEF Passed
  <2> QED
    BY <1>2, <1>3, <1>4, <1>5, <2>1, FS_AddElement
<1>6. CASE next \notin places
  <2>1. Passed(places, next + 1) = Passed(places, next)
    BY <1>1, <1>6 DEF Passed
  <2> QED
    BY <1>2, <1>4, <1>6, <2>1
<1> QED
  BY <1>5, <1>6


(* No pair is ruled out of the device a run only comes to.                  *)
LEMMA PassingRulesNothingOut ==
  ASSUME Shape, Shape', asset = NoAsset, next' = next + 1, corpus' = corpus, inventory' = inventory,
         \/ next \notin AssessedIn(inventory)
         \/ refs' = Reached(corpus, IdOf(inventory, next))
  PROVE  RuledOutNow' = RuledOutNow
<1>1. next \in Nat /\ Here' = next /\ refs = {}
  BY InventoryIsPlant DEF Shape, Here
<1>2. OutPairs(corpus, inventory)' = OutPairs(corpus, inventory)
  OBVIOUS
<1>3. ASSUME NEW x \in OutPairs(corpus, inventory)
      PROVE  x[1] \in AssessedIn(inventory) /\ x[1] \in Nat
             /\ x[2] \in Reached(corpus, IdOf(inventory, x[1]))
  <2>1. x[1] \in AssessedIn(inventory) /\ x[2] \in Excluded(corpus, IdOf(inventory, x[1]))
    BY DEF OutPairs
  <2>2. DOMAIN inventory \subseteq Nat
    BY InventoryIsPlant DEF Shape
  <2> QED
    BY <2>1, <2>2 DEF AssessedIn, Excluded, Named
<1>4. ASSUME NEW x \in OutPairs(corpus, inventory)
      PROVE  (x[1] < next /\ ~ (x[1] = Here /\ x[2] \in refs))
               <=> (x[1] < next + 1 /\ ~ (x[1] = next /\ x[2] \in refs'))
  <2>1. CASE x[1] = next
    BY <1>1, <1>3, <2>1
  <2>2. CASE x[1] # next
    BY <1>1, <1>3, <2>2
  <2> QED
    BY <2>1, <2>2
<1> QED
  BY <1>1, <1>2, <1>4 DEF RuledOutNow

LEMMA CountedStep == Shape /\ Counted /\ [Next]_vars => Counted'
<1> SUFFICES ASSUME Shape, Counted, [Next]_vars PROVE Counted'
  OBVIOUS
<1>1. Shape'
  BY ShapeStep
<1>2. /\ Nameless(inventory) \in SUBSET DOMAIN inventory
      /\ Unplaced(inventory) \in SUBSET DOMAIN inventory
  BY DEF Nameless, Unplaced
<1>3. CASE UNCHANGED <<corpus, inventory, next, refs, run>>
  BY <1>3 DEF Counted, Passed, RuledOutNow, Here
<1>4. CASE ReadDocument
  <2>1. /\ next = 1 /\ UNCHANGED <<inventory, next, run>>
    BY <1>4 DEF ReadDocument, Shape
  <2>2. \A i \in DOMAIN inventory : i \in Nat /\ i >= 1
    BY InventoryIsPlant DEF Shape
  <2>3. RuledOutNow = {} /\ RuledOutNow' = {}
    <3>1. \A i \in AssessedIn(inventory) : ~ (i < 1)
      BY <2>2 DEF AssessedIn
    <3> QED
      BY <2>1, <3>1 DEF RuledOutNow, OutPairs
  <2> QED
    BY <2>1, <2>3 DEF Counted, Passed
<1>5. CASE SkipUnidentified
  <2>1. /\ asset = NoAsset /\ next' = next + 1 /\ UNCHANGED <<corpus, inventory>>
        /\ run' = [run EXCEPT !.unidentified = @ + 1]
        /\ next <= Len(inventory) /\ IsEmpty(inventory[next].identity)
    BY <1>5 DEF SkipUnidentified, Between, Current
  <2>2. next \in DOMAIN inventory
    BY <2>1, InventoryIsPlant DEF Shape
  <2>3. next \in Nameless(inventory) /\ next \notin Unplaced(inventory) /\ next \notin AssessedIn(inventory)
    BY <2>1, <2>2 DEF Nameless, Unplaced, AssessedIn
  <2>4. RuledOutNow' = RuledOutNow
    BY <1>1, <2>1, <2>3, PassingRulesNothingOut
  <2>5. /\ Cardinality(Passed(Nameless(inventory), next)') = Cardinality(Passed(Nameless(inventory), next)) + 1
        /\ Cardinality(Passed(Unplaced(inventory), next)') = Cardinality(Passed(Unplaced(inventory), next))
    BY <1>2, <2>1, <2>3, OnePassed
  <2> QED
    BY <2>1, <2>4, <2>5 DEF Counted
<1>6. CASE SkipUnknownVendor
  <2>1. /\ asset = NoAsset /\ next' = next + 1 /\ UNCHANGED <<corpus, inventory>>
        /\ run' = [run EXCEPT !.unknownVendor = @ + 1]
        /\ next <= Len(inventory) /\ ~ IsEmpty(inventory[next].identity)
        /\ IdOf(inventory, next).vendor = NoName
    BY <1>6 DEF SkipUnknownVendor, Between, Current, IdOf
  <2>2. next \in DOMAIN inventory
    BY <2>1, InventoryIsPlant DEF Shape
  <2>3. next \notin Nameless(inventory) /\ next \in Unplaced(inventory) /\ next \notin AssessedIn(inventory)
    BY <2>1, <2>2 DEF Nameless, Unplaced, AssessedIn
  <2>4. RuledOutNow' = RuledOutNow
    BY <1>1, <2>1, <2>3, PassingRulesNothingOut
  <2>5. /\ Cardinality(Passed(Nameless(inventory), next)') = Cardinality(Passed(Nameless(inventory), next))
        /\ Cardinality(Passed(Unplaced(inventory), next)') = Cardinality(Passed(Unplaced(inventory), next)) + 1
    BY <1>2, <2>1, <2>3, OnePassed
  <2> QED
    BY <2>1, <2>4, <2>5 DEF Counted
<1>7. CASE TakeAsset
  <2>1. /\ asset' # NoAsset /\ Here' = next /\ next \in AssessedIn(inventory)
        /\ refs' = Reached(corpus, asset'.identity)
    BY <1>7, TakeShape
  <2>2. /\ asset = NoAsset /\ next' = next + 1 /\ UNCHANGED <<corpus, inventory, run>>
    BY <1>7 DEF TakeAsset, Between
  <2>3. asset'.identity = IdOf(inventory, next)
    <3>1. asset' = DeviceAt(inventory', Here')
      BY <1>1, <2>1 DEF Shape
    <3> QED
      BY <2>1, <2>2, <3>1 DEF DeviceAt
  <2>4. RuledOutNow' = RuledOutNow
    BY <1>1, <2>1, <2>2, <2>3, PassingRulesNothingOut
  <2>5. next \notin Nameless(inventory) /\ next \notin Unplaced(inventory)
    BY <2>1 DEF Nameless, Unplaced, AssessedIn
  <2>6. /\ Cardinality(Passed(Nameless(inventory), next)') = Cardinality(Passed(Nameless(inventory), next))
        /\ Cardinality(Passed(Unplaced(inventory), next)') = Cardinality(Passed(Unplaced(inventory), next))
    BY <1>2, <2>2, <2>5, OnePassed
  <2> QED
    BY <2>2, <2>4, <2>6 DEF Counted
<1>8. CASE \E ref \in refs : CompareNode(ref)
  BY <1>8, CompareCounts
<1>9. CASE \E a \in DOMAIN candidates : BuildFinding(a)
  BY <1>3, <1>9 DEF BuildFinding
<1>10. CASE BuildIndex \/ FinishAsset \/ Finalize \/ ExportVEX \/ UNCHANGED vars
  BY <1>3, <1>10 DEF BuildIndex, FinishAsset, Finalize, ExportVEX, vars
<1> QED
  BY <1>4, <1>5, <1>6, <1>7, <1>8, <1>9, <1>10 DEF Next

(* What is delivered: the counters, the order of the list, and the export,  *)
(* which before it is made is the one of no findings.                       *)
SummaryCopies(summary, counters) ==
  /\ summary.considered = counters.considered
  /\ summary.unidentified = counters.unidentified
  /\ summary.unknownVendor = counters.unknownVendor
  /\ summary.ruledOut = counters.ruledOut

InItsOrder(F) == \A i, j \in DOMAIN F : i < j => ~ Precedes(F[j], F[i])

Delivered ==
  /\ Done => SummaryCopies(document.summary, run) /\ InItsOrder(findings)
  /\ DOMAIN document = {"summary", "vex"}
  /\ document.vex = BuildVEX(IF stage = "exported" THEN findings ELSE <<>>)

LEMMA SummariseCopies == \A F, counters : SummaryCopies(Summarise(F, counters), counters)
  BY DEF SummaryCopies, Summarise

LEMMA DeliveredInit == Init => Delivered
<1> SUFFICES ASSUME Init PROVE Delivered
  OBVIOUS
<1>1. stage = "reading" /\ document = [summary |-> Summarise(<<>>, NoRun), vex |-> BuildVEX(<<>>)]
  BY DEF Init, NoDocument
<1>2. DOMAIN document = {"summary", "vex"} /\ document.vex = BuildVEX(<<>>)
  BY <1>1
<1> QED
  BY <1>1, <1>2 DEF Delivered, Done

LEMMA DeliveredStep == Shape /\ Listed /\ Delivered /\ [Next]_vars => Delivered'
<1> SUFFICES ASSUME Shape, Listed, Delivered, [Next]_vars PROVE Delivered'
  OBVIOUS
<1>1. CASE UNCHANGED <<stage, findings, run, document>>
  BY <1>1 DEF Delivered, Done
<1>2. CASE stage \in {"reading", "matching"} /\ stage' \in {"reading", "matching"} /\ document' = document
  BY <1>2 DEF Delivered, Done
<1>3. CASE Finalize
  <2>1. /\ stage = "matching" /\ stage' = "finalized" /\ findings' = Sorted(findings) /\ run' = run
        /\ document' = [document EXCEPT !.summary = Summarise(findings, run)]
    BY <1>3 DEF Finalize
  <2>2. /\ DOMAIN document' = {"summary", "vex"}
        /\ document'.summary = Summarise(findings, run) /\ document'.vex = document.vex
    BY <2>1 DEF Delivered
  <2>3. SummaryCopies(document'.summary, run')
    BY <2>1, <2>2, SummariseCopies
  <2>4. InItsOrder(findings')
    <3>1. findings \in Seq(ToSet(findings)) /\ \A k \in DOMAIN findings : IsFinding(findings[k])
      BY FindingsAreTyped DEF Listed
    <3>2. PICK p : Rearranged(findings, Sorted(findings), p)
      BY <3>1, SortedIsRearranged
    <3>3. DOMAIN Sorted(findings) = DOMAIN findings
      BY <3>2 DEF Rearranged
    <3>4. \A i, j \in DOMAIN findings : i < j => ~ Precedes(Sorted(findings)[j], Sorted(findings)[i])
      BY <3>1, SortedIsRearranged
    <3> QED
      BY <2>1, <3>3, <3>4 DEF InItsOrder
  <2> QED
    BY <2>1, <2>2, <2>3, <2>4 DEF Delivered, Done
<1>4. CASE ExportVEX
  <2>1. /\ stage = "finalized" /\ stage' = "exported" /\ findings' = findings /\ run' = run
        /\ document' = [document EXCEPT !.vex = BuildVEX(findings)]
    BY <1>4 DEF ExportVEX
  <2>2. /\ DOMAIN document' = {"summary", "vex"}
        /\ document'.summary = document.summary /\ document'.vex = BuildVEX(findings)
    BY <2>1 DEF Delivered
  <2> QED
    BY <2>1, <2>2 DEF Delivered, Done
<1>5. CASE ReadDocument \/ BuildIndex \/ SkipUnidentified \/ SkipUnknownVendor \/ TakeAsset
  BY <1>2, <1>5 DEF ReadDocument, BuildIndex, SkipUnidentified, SkipUnknownVendor, TakeAsset, Between
<1>6. CASE \E ref \in refs : CompareNode(ref)
  BY <1>2, <1>6 DEF CompareNode, Shape, Done
<1>7. CASE \E a \in DOMAIN candidates : BuildFinding(a)
  BY <1>2, <1>7 DEF BuildFinding, Shape, Done
<1>8. CASE FinishAsset
  BY <1>2, <1>8 DEF FinishAsset, Shape, Done
<1>9. CASE UNCHANGED vars
  BY <1>1, <1>9 DEF vars
<1> QED
  BY <1>3, <1>4, <1>5, <1>6, <1>7, <1>8, <1>9 DEF Next


-----------------------------------------------------------------------------
(* The invariant of a run. *)
IInv == Shape /\ Surviving /\ Listed /\ Counted /\ Delivered

THEOREM AssessmentHolds == Spec => []IInv
<1>1. Init => IInv
  <2>1. Init => Surviving
    BY DEF Init, Surviving
  <2> QED
    BY <2>1, ShapeInit, ListedInit, CountedInit, DeliveredInit DEF IInv
<1>2. IInv /\ [Next]_vars => IInv'
  BY ShapeStep, SurvivingStep, ListedStep, CountedStep, DeliveredStep DEF IInv
<1> QED
  BY <1>1, <1>2, PTL DEF Spec

LEMMA HeldIsTyped == IInv => TypeOK
<1> SUFFICES ASSUME IInv PROVE TypeOK
  OBVIOUS
<1>1. \A v \in DOMAIN index : \A r \in index[v] : r \in Nodes /\ Node(r).vendor = v
  <2>1. CASE index = <<>>
    BY <2>1
  <2>2. CASE index = IndexOf(corpus)
    BY <2>2 DEF IndexOf, IndexedIn, NodesIn, NodeIn, Nodes, Node
  <2> QED
    BY <2>1, <2>2 DEF IInv, Shape
<1>2. ASSUME NEW a \in DOMAIN candidates, NEW x \in candidates[a]
      PROVE  x.match \in IdentityMatch /\ x.verdict \in {"affected", "indeterminate"}
  <2>1. x \in SoFar(corpus, asset.identity, refs, a)
    BY <1>2 DEF IInv, Surviving
  <2>2. PICK r \in Kept(corpus, asset.identity, a) : x = CandidateOf(corpus, asset.identity, r)
    BY <2>1 DEF SoFar
  <2> QED
    BY <2>2, KeptAreNamed, CompareIsTyped DEF CandidateOf
<1>3. \A f \in ToSet(findings) : f.tier \in Tiers /\ f.score \in 0 .. 100
  BY FindingsAreTyped DEF IInv, ToSet, IsFinding
<1> QED
  BY <1>1, <1>2, <1>3 DEF TypeOK, IInv, Shape

(* The index files every node under its vendor, a candidate has not been    *)
(* ruled out, a finding has a tier and its score within bounds              *)
(* (Matcher.index, matchAsset, scoreFor).                                   *)
THEOREM AssessmentIsTyped == Spec => []TypeOK
<1>1. IInv => TypeOK
  BY HeldIsTyped
<1> QED
  BY <1>1, AssessmentHolds, PTL

(* A flaw known to be exploited comes before every one that is not          *)
(* (Priority, Finalize): the exploitation term outweighs all others.        *)
THEOREM ExploitedComesFirst == Spec => []KnownExploitedFirst
<1>1. IInv => KnownExploitedFirst
  <2> SUFFICES ASSUME IInv, Done, NEW i \in DOMAIN findings, NEW j \in DOMAIN findings,
                      findings[j].kev, ~ findings[i].kev
               PROVE  j < i
    BY DEF KnownExploitedFirst
  <2>1. IsFinding(findings[i]) /\ IsFinding(findings[j])
    BY FindingsAreTyped DEF IInv
  <2>2. Priority(findings[j]) >= KEVWeight /\ Priority(findings[i]) <= Swing
    BY <2>1, PriorityIsNumber
  <2>3. Priority(findings[j]) \in Nat /\ Priority(findings[i]) \in Nat
    BY <2>1, PriorityIsNumber
  <2>4. Precedes(findings[j], findings[i])
    <3> HIDE DEF Priority, Swing, KEVWeight
    <3>1. \A m, n \in Nat : m >= KEVWeight /\ n <= Swing => m > n
      BY KEVOutweighs
    <3>2. Priority(findings[j]) > Priority(findings[i])
      BY <2>2, <2>3, <3>1
    <3> QED
      BY <2>1, <3>2, PrecedesIsOrder
  <2>5. i \in Nat /\ j \in Nat
    BY DEF IInv, Listed
  <2>6. ~ (i < j) /\ i # j
    BY <2>4 DEF IInv, Delivered, InItsOrder
  <2> QED
    BY <2>5, <2>6
<1> QED
  BY <1>1, AssessmentHolds, PTL

(* The document does not depend on the order in which a map gives the       *)
(* advisories of a device: a finding is of one device and one advisory, and *)
(* Finalize tells any two of them apart.                                    *)
THEOREM OutputIsOne == Spec => []OutputIsDetermined
<1>1. IInv => OutputIsDetermined
  <2> SUFFICES ASSUME IInv, Done, OneOfEach,
                      NEW i \in DOMAIN findings, NEW j \in DOMAIN findings, i < j
               PROVE  /\ Precedes(findings[i], findings[j])
                      /\ <<findings[i].asset, findings[i].advisory>>
                           # <<findings[j].asset, findings[j].advisory>>
    BY DEF OutputIsDetermined
  <2>1. PICK w : Listing(corpus, inventory, findings, Built, w)
    BY DEF IInv, Listed
  <2>2. \A k \in DOMAIN findings :
          /\ w[k] = <<w[k][1], w[k][2]>> /\ w[k][1] \in DOMAIN inventory /\ w[k][2] \in DOMAIN corpus
          /\ findings[k].asset = inventory[w[k][1]].id /\ findings[k].advisory = corpus[w[k][2]].id
          /\ IsFinding(findings[k])
    BY <2>1, ListedAreTyped, ReportedPairs DEF IInv, Shape, AssessedIn
  <2>3. w[i] # w[j]
    <3>1. \A k, l \in DOMAIN findings : w[k] = w[l] => k = l
      BY <2>1 DEF Listing, Bijection, Injection, IsInjective
    <3>2. i # j
      BY DEF IInv, Listed
    <3> QED
      BY <3>1, <3>2
  <2>4. findings[i].asset # findings[j].asset \/ findings[i].advisory # findings[j].advisory
    BY <2>2, <2>3 DEF OneOfEach
  <2>5. ~ Precedes(findings[j], findings[i])
    BY DEF IInv, Delivered, InItsOrder
  <2>6. Precedes(findings[i], findings[j])
    BY <2>2, <2>4, <2>5, PrecedesIsOrder
  <2> QED
    BY <2>4, <2>6
<1> QED
  BY <1>1, AssessmentHolds, PTL

(* Any list of findings is exported as valid VEX. *)
StatementIsValid(s, products) ==
  LET ActionsFor(p) == {r.category : r \in {q \in s.remediations : p \in q.products}}
  IN  /\ s.affected \cap s.investigating = {}
      /\ s.affected \cup s.investigating # {}
      /\ s.affected \cup s.investigating \subseteq products
      /\ \A p \in s.affected \cup s.investigating :
           /\ ActionsFor(p) # {}
           /\ "vendor_fix" \in ActionsFor(p) => ActionsFor(p) \cap Contradicted = {}

LEMMA StatementsAreValid ==
  ASSUME NEW F, NEW key \in UNION {KeysOf(f) : f \in ToSet(F)}
  PROVE  StatementIsValid(BuildVulnerability(key, F), DOMAIN CollectProducts(F))
<1> DEFINE group == Group(F, key)
           s == BuildVulnerability(key, F)
           Of(p) == {q \in s.remediations : p \in q.products}
           actions == {r.category : r \in s.remediations}
<1>1. /\ s.affected = Affected(group) /\ s.investigating = Investigating(group)
      /\ s.remediations = RemediationsFor(group)
  BY DEF BuildVulnerability
<1>2. group # {} /\ group \subseteq ToSet(F)
  BY DEF Group
<1> HIDE DEF group, s
<1>3. Affected(group) \cap Investigating(group) = {}
  BY DEF Investigating
<1>4. Covered(group) = {ProductName(f) : f \in group}
  BY DEF Covered, Affected, Investigating
<1>5. Covered(group) # {} /\ Covered(group) \subseteq DOMAIN CollectProducts(F)
  BY <1>2, <1>4 DEF CollectProducts
<1>6. Advised(group) # {} /\ ("vendor_fix" \in Advised(group) => Advised(group) \cap Contradicted = {})
  BY DEF Advised, Settled, Contradicted
<1>7. ASSUME NEW p \in Covered(group), NEW c \in Advised(group)
      PROVE  \E r \in Of(p) : r.category = c
  <2> DEFINE r == [category |-> c, products |-> Covered(group)]
  <2>1. r \in RemediationsFor(group) /\ r.category = c /\ r.products = Covered(group)
    BY DEF RemediationsFor
  <2> QED
    BY <1>1, <2>1
<1>8. \A r \in s.remediations : r.category \in Advised(group) \cup {"mitigation"}
  BY <1>1 DEF RemediationsFor
<1>9. ASSUME NEW p \in Covered(group)
      PROVE  LET ActionsFor == {r.category : r \in Of(p)}
             IN  /\ ActionsFor # {}
                 /\ "vendor_fix" \in ActionsFor => ActionsFor \cap Contradicted = {}
  <2> DEFINE acts == {r.category : r \in Of(p)}
  <2>1. Advised(group) \subseteq acts
    BY <1>7
  <2>2. acts \subseteq Advised(group) \cup {"mitigation"}
    BY <1>8
  <2> HIDE DEF acts
  <2>3. acts # {} /\ ("vendor_fix" \in acts => acts \cap Contradicted = {})
    BY <1>6, <2>1, <2>2 DEF Contradicted
  <2> QED
    BY <2>3 DEF acts
<1>10. StatementIsValid(s, DOMAIN CollectProducts(F))
  BY <1>1, <1>3, <1>5, <1>9 DEF StatementIsValid, Covered
<1> QED
  BY <1>10 DEF s

(* Whatever was found, what is exported is valid VEX: in a statement a      *)
(* product has one status and something to do, which does not contradict a  *)
(* fix (buildVulnerability, buildRemediations).                             *)
THEOREM ExportIsValid == Spec => []VexIsValid
<1>1. \A F : \A s \in BuildVEX(F).statements : StatementIsValid(s, DOMAIN BuildVEX(F).products)
  <2> SUFFICES ASSUME NEW F, NEW s \in BuildVEX(F).statements
               PROVE  StatementIsValid(s, DOMAIN BuildVEX(F).products)
    OBVIOUS
  <2>1. /\ BuildVEX(F).products = CollectProducts(F)
        /\ \E key \in UNION {KeysOf(f) : f \in ToSet(F)} : s = BuildVulnerability(key, F)
    BY DEF BuildVEX
  <2> QED
    BY <2>1, StatementsAreValid
<1>2. IInv => VexIsValid
  <2> SUFFICES ASSUME IInv PROVE VexIsValid
    OBVIOUS
  <2>1. PICK F : document.vex = BuildVEX(F)
    BY DEF IInv, Delivered
  <2>2. \A s \in document.vex.statements : StatementIsValid(s, DOMAIN document.vex.products)
    BY <1>1, <2>1
  <2> QED
    BY <2>2 DEF VexIsValid, StatementIsValid
<1> QED
  BY <1>2, AssessmentHolds, PTL


(* A finished run has dealt with every pair there is.                       *)
LEMMA AllDealt ==
  ASSUME Shape, Done
  PROVE  /\ Built = Reported(corpus, inventory) /\ RuledOutNow = OutPairs(corpus, inventory)
         /\ \A places \in SUBSET DOMAIN inventory : Passed(places, next) = places
<1>1. /\ asset = NoAsset /\ refs = {} /\ next = Len(inventory) + 1 /\ Len(inventory) \in Nat
      /\ DOMAIN inventory = 1 .. Len(inventory)
  BY InventoryIsPlant DEF Shape
<1>2. \A i \in DOMAIN inventory : i < next
  BY <1>1
<1>3. \A x \in Reported(corpus, inventory) : x[1] \in DOMAIN inventory
  BY DEF Reported, Findable, AssessedIn
<1>4. \A x \in OutPairs(corpus, inventory) : x[1] \in DOMAIN inventory
  BY DEF OutPairs, AssessedIn
<1> QED
  BY <1>1, <1>2, <1>3, <1>4 DEF Built, Dealt, RuledOutNow, Passed

(* The pairs that are part of a finding, and what the findings claim.       *)
InPairs(c, d) ==
  {x \in AssessedIn(d) \X NodesIn(c) : x[2] \in Kept(c, IdOf(d, x[1]), x[2].advisory)}

Claimed(F) == UNION {{k} \X Claims(F[k]) : k \in DOMAIN F}

(* No tier was asked for. *)
EveryTier == MinTier = ""

LEMMA NoneTooWeak == ASSUME EveryTier PROVE \A f : ~ WeakerThanAsked(f)
  BY Zenon DEF EveryTier, WeakerThanAsked

LEMMA ClaimedOnce ==
  ASSUME NEW c, Corpus(c), NEW d \in Inventories, EveryTier,
         NEW F, NEW w, Listing(c, d, F, Reported(c, d), w)
  PROVE  Cardinality(Claimed(F)) = Cardinality(InPairs(c, d))
<1> DEFINE S == InPairs(c, d)
           owner == [x \in S |-> <<x[1], x[2].advisory>>]
           mark == [x \in S |-> NodeIn(c, x[2]).id]
           marks == [k \in DOMAIN F |-> Claims(F[k])]
<1>1. w \in Bijection(DOMAIN F, Reported(c, d)) /\ w \in [DOMAIN F -> Reported(c, d)]
  BY DEF Listing, Bijection, Injection
<1>2. Reported(c, d) = Findable(c, d)
  BY NoneTooWeak DEF Reported
<1>3. ASSUME NEW x \in S
      PROVE  /\ x = <<x[1], x[2]>> /\ x[1] \in AssessedIn(d) /\ x[2] \in NodesIn(c)
             /\ x[2] \in Kept(c, IdOf(d, x[1]), x[2].advisory)
  BY DEF InPairs
<1>4. owner \in [S -> Reported(c, d)]
  <2>1. \A x \in S : x[2].advisory \in DOMAIN c
    BY <1>3, NodesAreOfTheCorpus
  <2>2. \A x \in S : <<x[1], x[2].advisory>> \in Findable(c, d)
    BY <1>3, <2>1 DEF Findable
  <2> QED
    BY <1>2, <2>2
<1>5. \A x \in S : owner[x] = <<x[1], x[2].advisory>> /\ mark[x] = NodeIn(c, x[2]).id
  OBVIOUS
<1> HIDE DEF S, owner, mark
<1>6. ASSUME NEW x \in S, NEW y \in S, owner[x] = owner[y], mark[x] = mark[y] PROVE x = y
  <2>1. x[1] = y[1] /\ x[2].advisory = y[2].advisory /\ NodeIn(c, x[2]).id = NodeIn(c, y[2]).id
    BY <1>5, <1>6
  <2>2. x[2] = y[2]
    BY <1>3, <2>1, NodesAreTheirIds
  <2> QED
    BY <1>3, <2>1, <2>2
<1>7. ASSUME NEW k \in DOMAIN F, NEW m
      PROVE  m \in Claims(F[k]) <=> \E x \in S : owner[x] = w[k] /\ mark[x] = m
  <2> DEFINE i == w[k][1]
             a == w[k][2]
  <2>1. w[k] \in Reported(c, d) /\ w[k] \in Findable(c, d) /\ Plant(d)
    BY <1>1, <1>2, InventoryIsPlant
  <2>2. w[k] = <<i, a>> /\ i \in AssessedIn(d)
    BY <2>1, ReportedPairs
  <2> HIDE DEF i, a
  <2>3. F[k] = FindingOf(c, d, w[k])
    BY DEF Listing
  <2>4. Claims(F[k]) = {NodeIn(c, r).id : r \in Kept(c, IdOf(d, i), a)}
    BY <2>1, <2>3, FindingIsTyped DEF i, a
  <2>5. ASSUME NEW r \in Kept(c, IdOf(d, i), a)
        PROVE  <<i, r>> \in S /\ owner[<<i, r>>] = w[k] /\ mark[<<i, r>>] = NodeIn(c, r).id
    <3>1. r \in NodesIn(c) /\ r.advisory = a
      BY KeptAreNamed
    <3>2. <<i, r>> \in S
      BY <2>2, <3>1 DEF S, InPairs
    <3> QED
      BY <1>5, <2>2, <3>1, <3>2
  <2>6. ASSUME NEW x \in S, owner[x] = w[k]
        PROVE  x[2] \in Kept(c, IdOf(d, i), a)
    <3>1. x[1] = i /\ x[2].advisory = a
      BY <1>5, <2>2, <2>6
    <3> QED
      BY <1>3, <3>1
  <2>7. ASSUME m \in Claims(F[k]) PROVE \E x \in S : owner[x] = w[k] /\ mark[x] = m
    <3>1. PICK r \in Kept(c, IdOf(d, i), a) : m = NodeIn(c, r).id
      BY <2>4, <2>7
    <3> QED
      BY <2>5, <3>1
  <2>8. ASSUME NEW x \in S, owner[x] = w[k], mark[x] = m PROVE m \in Claims(F[k])
    <3>1. x[2] \in Kept(c, IdOf(d, i), a) /\ m = NodeIn(c, x[2]).id
      BY <1>5, <2>6, <2>8
    <3> QED
      BY <2>4, <3>1
  <2> QED
    BY <2>7, <2>8
<1>8. IsFiniteSet(S)
  <2>1. IsFiniteSet(AssessedIn(d) \X NodesIn(c))
    BY OutPairsAreFinite
  <2> QED
    BY <2>1, FS_Subset DEF S, InPairs
<1>9. \A k \in DOMAIN F : \A m : m \in marks[k] <=> \E x \in S : owner[x] = w[k] /\ mark[x] = m
  BY <1>7
<1>10. Claimed(F) = Tagged(DOMAIN F, marks)
  BY DEF Claimed, Tagged
<1> HIDE DEF marks
<1>11. Cardinality(Tagged(DOMAIN F, marks)) = Cardinality(S)
  BY <1>1, <1>4, <1>6, <1>8, <1>9, EachIsMarkedOnce
<1> QED
  BY <1>10, <1>11 DEF S

LEMMA DevicesAreCounted ==
  ASSUME NEW d \in Inventories
  PROVE  Len(d) = Cardinality(Nameless(d)) + Cardinality(Unplaced(d)) + Cardinality(AssessedIn(d))
<1> DEFINE N == Nameless(d)
           U == Unplaced(d)
           A == AssessedIn(d)
<1>1. IsFiniteSet(N) /\ IsFiniteSet(U) /\ IsFiniteSet(A)
  BY PlacesAreFinite DEF Nameless, Unplaced, AssessedIn
<1>2. /\ DOMAIN d = (N \cup U) \cup A /\ N \cap U = {} /\ (N \cup U) \cap A = {}
  BY DEF Nameless, Unplaced, AssessedIn
<1>3. Cardinality(DOMAIN d) = Len(d)
  <2>1. DOMAIN d = 1 .. Len(d) /\ Len(d) \in Nat
    BY InventoryIsPlant
  <2>2. \A n \in Nat : Cardinality(1 .. n) = n
    BY FS_Interval
  <2> QED
    BY <2>1, <2>2
<1> DEFINE out == N \cup U
<1>4. IsFiniteSet(out) /\ Cardinality(out) = Cardinality(N) + Cardinality(U)
  <2>1. out = N \cup U
    OBVIOUS
  <2> HIDE DEF N, U, A, out
  <2> QED
    BY <1>1, <1>2, <2>1, TwoParts
<1> HIDE DEF N, U, A
<1>5. DOMAIN d = out \cup A /\ out \cap A = {}
  BY <1>2
<1> DEFINE all == DOMAIN d
<1>6. all = out \cup A
  BY <1>5
<1> HIDE DEF out, all
<1>7. Cardinality(all) = Cardinality(out) + Cardinality(A)
  BY <1>1, <1>4, <1>5, <1>6, TwoParts
<1> QED
  BY <1>3, <1>4, <1>7 DEF N, U, A, all

(* Every device and every node its names match is counted once, as ruled    *)
(* out or as part of a finding (Run, matchAsset, Finalize).                 *)
THEOREM EveryPairIsCounted == Spec => []EveryPairAccountedFor
<1>1. IInv => EveryPairAccountedFor
  <2> SUFFICES ASSUME IInv, Done, EveryTier
               PROVE  EveryPairAccountedFor
    BY Zenon DEF EveryPairAccountedFor, EveryTier
  <2> DEFINE c == corpus
             d == inventory
             Matches(i, r) == /\ Node(r).vendor = NormalizedId(i).vendor
                              /\ ~ TooOld(corpus[r.advisory])
                              /\ CompareIdentity(NormalizedId(i), Node(r)).strength # Nothing
             matching == {pair \in Assessed \X Nodes : Matches(pair[1], pair[2])}
  <2>1. /\ Corpus(c) /\ d \in Inventories
        /\ Built = Reported(c, d) /\ RuledOutNow = OutPairs(c, d)
        /\ \A places \in SUBSET DOMAIN inventory : Passed(places, next) = places
    BY AllDealt DEF IInv, Shape
  <2>2. Assessed = AssessedIn(d) /\ Nodes = NodesIn(c)
    BY DEF Assessed, AssessedIn, Nodes, NodesIn, NormalizedId, IdOf
  <2>3. matching = OutPairs(c, d) \cup InPairs(c, d) /\ OutPairs(c, d) \cap InPairs(c, d) = {}
    <3>1. ASSUME NEW x \in AssessedIn(d) \X NodesIn(c)
          PROVE  /\ Matches(x[1], x[2]) <=> x[2] \in Named(c, IdOf(d, x[1]))
                 /\ x \in OutPairs(c, d) <=> x[2] \in Excluded(c, IdOf(d, x[1]))
                 /\ x \in InPairs(c, d) <=> x[2] \in Named(c, IdOf(d, x[1])) \ Excluded(c, IdOf(d, x[1]))
      <4>1. x[1] \in AssessedIn(d) /\ x[2] \in NodesIn(c)
        OBVIOUS
      <4>2. IdOf(d, x[1]).vendor # NoName
        BY <4>1 DEF AssessedIn
      <4>3. Matches(x[1], x[2]) <=> x[2] \in Named(c, IdOf(d, x[1]))
        BY <4>1, <4>2 DEF Named, Reached, IndexedIn, NodeIn, Node, NormalizedId, IdOf
      <4> HIDE DEF Matches
      <4> QED
        BY <4>1, <4>3 DEF OutPairs, InPairs, Kept
    <3>2. \A id : Excluded(c, id) \subseteq Named(c, id)
      BY DEF Excluded
    <3> HIDE DEF Matches
    <3>3. OutPairs(c, d) \subseteq AssessedIn(d) \X NodesIn(c) /\ InPairs(c, d) \subseteq AssessedIn(d) \X NodesIn(c)
      BY DEF OutPairs, InPairs
    <3>4. \A x \in AssessedIn(d) \X NodesIn(c) :
            /\ Matches(x[1], x[2]) <=> x \in OutPairs(c, d) \/ x \in InPairs(c, d)
            /\ ~ (x \in OutPairs(c, d) /\ x \in InPairs(c, d))
      BY <3>1, <3>2
    <3> QED
      BY <2>2, <3>3, <3>4
  <2>4. Cardinality(matching) = Cardinality(OutPairs(c, d)) + Cardinality(InPairs(c, d))
    <3>1. IsFiniteSet(OutPairs(c, d)) /\ IsFiniteSet(InPairs(c, d))
      BY <2>1, OutPairsAreFinite, FS_Subset DEF InPairs
    <3> HIDE DEF matching, c, d
    <3> QED
      BY <2>3, <3>1, TwoParts
  <2>5. Cardinality(Claimed(findings)) = Cardinality(InPairs(c, d))
    <3>1. PICK w : Listing(c, d, findings, Reported(c, d), w)
      BY <2>1 DEF IInv, Listed
    <3> QED
      BY <2>1, <3>1, ClaimedOnce
  <2>6. SummaryCopies(document.summary, run)
    BY DEF IInv, Delivered
  <2>7. /\ run.considered = Len(d)
        /\ run.unidentified = Cardinality(Nameless(d)) /\ run.unknownVendor = Cardinality(Unplaced(d))
        /\ run.ruledOut = Cardinality(OutPairs(c, d))
    <3>1. Nameless(d) \in SUBSET DOMAIN inventory /\ Unplaced(d) \in SUBSET DOMAIN inventory
      BY DEF Nameless, Unplaced
    <3> QED
      BY <2>1, <3>1 DEF IInv, Counted
  <2>8. Len(d) = Cardinality(Nameless(d)) + Cardinality(Unplaced(d)) + Cardinality(AssessedIn(d))
    BY <2>1, DevicesAreCounted
  <2>9. UNION {{k} \X ({findings[k].product} \cup findings[k].alsoMatched) : k \in DOMAIN findings}
          = Claimed(findings)
    BY DEF Claimed, Claims
  <2>10. /\ document.summary.considered
              = document.summary.unidentified + document.summary.unknownVendor + Cardinality(Assessed)
         /\ Cardinality(matching) = document.summary.ruledOut + Cardinality(Claimed(findings))
    <3> HIDE DEF matching, c, d
    <3> QED
      BY <2>2, <2>4, <2>5, <2>6, <2>7, <2>8 DEF SummaryCopies
  <2> QED
    BY <2>9, <2>10 DEF EveryPairAccountedFor
<1> QED
  BY <1>1, AssessmentHolds, PTL



-----------------------------------------------------------------------------
(* Single pairs.  What a device may really be, and what a node was really   *)
(* published about, meet the code only in the comparison of one device with *)
(* one node.  Three statements say what is asked of that comparison: a node *)
(* that may be about the device survives (Cautious); one that survives may  *)
(* be about the device or is a lead (Plausible); one that is taken for      *)
(* certain is (Certain).  They speak of the tables, the devices and the     *)
(* documents alone, and what is proved from them is that nothing is lost or *)
(* added on the way from the pairs to the document.                         *)
PlantDevices ==
  {device \in UNION {ToSet(d) : d \in Inventories} :
     ~ IsEmpty(device.identity) /\ Identity(device.identity).result.vendor # NoName}

Published == UNION {{advisory.products[p] : p \in DOMAIN advisory.products} : advisory \in Accepted}

Matched(id, node) ==
  /\ node.vendor = id.vendor
  /\ CompareIdentity(id, node).strength # Nothing

MayBeAbout(device, node) == CouldBe[device.id] \cap Covers[node.id] # {}

Cautious ==
  \A device \in PlantDevices, node \in Published :
    LET id == Identity(device.identity).result
    IN  MayBeAbout(device, node) => Matched(id, node) /\ Verdict(id, node) # "not_affected"

Plausible ==
  \A device \in PlantDevices, node \in Published :
    LET id == Identity(device.identity).result
    IN  Matched(id, node) /\ Verdict(id, node) # "not_affected"
        => MayBeAbout(device, node) \/ NamesAnotherModel(node, id)

Certain ==
  \A device \in PlantDevices, node \in Published :
    LET id == Identity(device.identity).result
    IN  Matched(id, node) /\ TierFor(CompareIdentity(id, node), Verdict(id, node)) = "confirmed"
        => CouldBe[device.id] \subseteq Covers[node.id]

LEMMA PairsAreOfThePlant ==
  ASSUME NEW c, Corpus(c), NEW d \in Inventories, NEW i \in AssessedIn(d), NEW r \in NodesIn(c)
  PROVE  /\ d[i] \in PlantDevices /\ IdOf(d, i) = Identity(d[i].identity).result
         /\ NodeIn(c, r) \in Published
<1>1. d[i] \in PlantDevices /\ IdOf(d, i) = Identity(d[i].identity).result
  BY DEF AssessedIn, PlantDevices, IdOf, ToSet
<1>2. r.advisory \in DOMAIN c /\ r.product \in DOMAIN c[r.advisory].products
  BY NodesAreOfTheCorpus
<1>3. c[r.advisory] \in Accepted
  BY <1>2 DEF Corpus
<1> QED
  BY <1>1, <1>2, <1>3 DEF Published, NodeIn

(* A node that survived is named by the finding of its device and its       *)
(* advisory.                                                                *)
SurvivorsAreNamed ==
  Done /\ EveryTier =>
    \A i \in AssessedIn(inventory), r \in NodesIn(corpus) :
      r \in Kept(corpus, IdOf(inventory, i), r.advisory) =>
        \E f \in ToSet(findings) :
          /\ f.asset = inventory[i].id /\ f.advisory = corpus[r.advisory].id
          /\ NodeIn(corpus, r).id \in Claims(f)

(* Once a run has ended, no node that survived the comparison with a device *)
(* is missing from the findings, however many devices, advisories and nodes *)
(* there are (Matcher.index, Run, matchAsset, buildFinding, Finalize).      *)
THEOREM EverySurvivorIsNamed == Spec => []SurvivorsAreNamed
<1>1. IInv => SurvivorsAreNamed
  <2> SUFFICES ASSUME IInv, Done, EveryTier,
                      NEW i \in AssessedIn(inventory), NEW r \in NodesIn(corpus),
                      r \in Kept(corpus, IdOf(inventory, i), r.advisory)
               PROVE  \E f \in ToSet(findings) :
                        /\ f.asset = inventory[i].id /\ f.advisory = corpus[r.advisory].id
                        /\ NodeIn(corpus, r).id \in Claims(f)
    BY DEF SurvivorsAreNamed
  <2> DEFINE x == <<i, r.advisory>>
  <2>1. x \in Built
    <3>1. r.advisory \in DOMAIN corpus
      BY NodesAreOfTheCorpus DEF IInv, Shape
    <3>2. x \in Findable(corpus, inventory)
      BY <3>1 DEF Findable
    <3>3. x \in Reported(corpus, inventory)
      BY <3>2, NoneTooWeak DEF Reported
    <3> QED
      BY <3>3, AllDealt DEF IInv
  <2>2. PICK w : Listing(corpus, inventory, findings, Built, w)
    BY DEF IInv, Listed
  <2>3. PICK k \in DOMAIN findings : w[k] = x
    BY <2>1, <2>2 DEF Listing, Bijection, Surjection
  <2>4. w[k][1] = i /\ w[k][2] = r.advisory
    BY <2>3
  <2>5. /\ findings[k].asset = inventory[i].id
        /\ findings[k].advisory = corpus[r.advisory].id
        /\ Claims(findings[k])
             = {NodeIn(corpus, q).id : q \in Kept(corpus, IdOf(inventory, i), r.advisory)}
    BY <2>2, <2>4, ListedAreTyped DEF IInv
  <2>6. NodeIn(corpus, r).id \in Claims(findings[k]) /\ findings[k] \in ToSet(findings)
    BY <2>5 DEF ToSet
  <2> QED
    BY <2>5, <2>6
<1> QED
  BY <1>1, AssessmentHolds, PTL

(* Where the comparison of single pairs is cautious no device that an       *)
(* advisory may be about is left without a finding that names the node: the *)
(* index, the loops, the map, the threshold and the sorting lose nothing.   *)
THEOREM NothingIsSilenced ==
  ASSUME Cautious
  PROVE  Spec => []NothingSilenced
<1>1. IInv /\ SurvivorsAreNamed => NothingSilenced
  <2> SUFFICES ASSUME IInv, SurvivorsAreNamed, Done, EveryTier,
                      NEW i \in Assessed, NEW r \in Nodes,
                      CouldBe[inventory[i].id] \cap Covers[Node(r).id] # {},
                      ~ TooOld(corpus[r.advisory])
               PROVE  \E f \in ToSet(findings) :
                        /\ f.asset = inventory[i].id /\ f.advisory = corpus[r.advisory].id
                        /\ Node(r).id \in {f.product} \cup f.alsoMatched
    BY Zenon DEF NothingSilenced, EveryTier
  <2> DEFINE id == IdOf(inventory, i)
  <2>1. /\ i \in AssessedIn(inventory) /\ r \in NodesIn(corpus) /\ Node(r) = NodeIn(corpus, r)
        /\ Corpus(corpus) /\ inventory \in Inventories
    BY DEF Assessed, AssessedIn, Nodes, NodesIn, NormalizedId, IdOf, Node, NodeIn, IInv, Shape
  <2>2. Matched(id, Node(r)) /\ Verdict(id, Node(r)) # "not_affected"
    <3>1. inventory[i] \in PlantDevices /\ Node(r) \in Published
          /\ id = Identity(inventory[i].identity).result
      BY <2>1, PairsAreOfThePlant
    <3>2. MayBeAbout(inventory[i], Node(r))
      BY DEF MayBeAbout
    <3> HIDE DEF id
    <3> QED
      BY <3>1, <3>2 DEF Cautious
  <2>3. id.vendor # NoName
    BY <2>1 DEF AssessedIn
  <2>4. r \in Kept(corpus, id, r.advisory)
    <3> HIDE DEF id
    <3> QED
      BY <2>1, <2>2, <2>3 DEF Matched, Kept, Named, Excluded, Reached, IndexedIn
  <2> QED
    BY <2>1, <2>4 DEF SurvivorsAreNamed, Claims
<1> QED
  BY <1>1, AssessmentHolds, EverySurvivorIsNamed, PTL


(* Where what a single pair is taken for certain of is so, a confirmed      *)
(* finding is about a device that certainly is one of those its node was    *)
(* published about: the tier is that of the node the finding names          *)
(* (candidate.beats, tierFor, buildFinding).                                *)
FindingsAreSure ==
  \A f \in ToSet(findings) : f.tier = "confirmed" => CouldBe[f.asset] \subseteq Covers[f.product]

LEMMA SurelyConfirmed ==
  ASSUME Certain, IInv
  PROVE  FindingsAreSure
<1> SUFFICES ASSUME NEW k \in DOMAIN findings, findings[k].tier = "confirmed"
             PROVE  CouldBe[findings[k].asset] \subseteq Covers[findings[k].product]
  BY DEF FindingsAreSure, ToSet
<1>1. PICK w : Listing(corpus, inventory, findings, Built, w)
  BY DEF IInv, Listed
<1> DEFINE i == w[k][1]
           a == w[k][2]
           id == IdOf(inventory, i)
           C == CandidatesOf(corpus, id, a)
           device == [id |-> inventory[i].id, identity |-> id]
<1>2. Corpus(corpus) /\ inventory \in Inventories
  BY DEF IInv, Shape
<1>3. /\ w[k] \in Reported(corpus, inventory) /\ findings[k].asset = inventory[i].id
      /\ findings[k] = FindingOf(corpus, inventory, w[k])
  BY <1>1, ListedAreTyped DEF IInv, Listing
<1>4. i \in AssessedIn(inventory) /\ Kept(corpus, id, a) # {}
  BY <1>2, <1>3, ReportedPairs
<1>5. Best(C) \in C
  BY <1>2, <1>4, BestIsOneOfThem
<1>6. findings[k] = BuildFindingFor(device, corpus[a], C)
  BY <1>3 DEF FindingOf
<1>7. PICK r \in Kept(corpus, id, a) : Best(C) = CandidateOf(corpus, id, r)
  BY <1>5 DEF CandidatesOf
<1> DEFINE node == NodeIn(corpus, r)
<1>8. /\ findings[k].product = node.id
      /\ findings[k].tier = TierFor(CompareIdentity(id, node), Verdict(id, node))
  <2>1. /\ Best(C).product = node /\ Best(C).match = CompareIdentity(id, node)
        /\ Best(C).verdict = Verdict(id, node)
    BY <1>7 DEF CandidateOf
  <2> HIDE DEF C, device, node
  <2>2. /\ findings[k].product = Best(C).product.id
        /\ findings[k].tier = TierFor(Best(C).match, Best(C).verdict)
    BY <1>5, <1>6, BuiltFindingClaims
  <2> QED
    BY <2>1, <2>2
<1>9. r \in NodesIn(corpus) /\ Matched(id, node)
  BY KeptAreNamed DEF Matched
<1>10. inventory[i] \in PlantDevices /\ node \in Published
       /\ id = Identity(inventory[i].identity).result
  BY <1>2, <1>4, <1>9, PairsAreOfThePlant
<1> HIDE DEF id, node
<1> QED
  BY <1>3, <1>8, <1>9, <1>10 DEF Certain

THEOREM ConfirmedIsSure ==
  ASSUME Certain
  PROVE  Spec => []ConfirmedIsCertain
<1>1. IInv => ConfirmedIsCertain
  BY SurelyConfirmed DEF ConfirmedIsCertain, FindingsAreSure
<1> QED
  BY <1>1, AssessmentHolds, PTL


(* From the same, what the exported document states as affected is the      *)
(* product of a device that certainly is, and all else that was found is    *)
(* under investigation (buildVulnerability).                                *)
THEOREM ExportIsSure ==
  ASSUME Certain
  PROVE  Spec => []VexOverstatesNothing
<1>1. ASSUME NEW F, NEW s \in BuildVEX(F).statements
      PROVE  LET about == {f \in ToSet(F) : s.key \in KeysOf(f)}
             IN  /\ s.affected = {ProductName(f) : f \in {g \in about : g.tier = "confirmed"}}
                 /\ {ProductName(f) : f \in about} = s.affected \cup s.investigating
  <2>1. PICK key : s = BuildVulnerability(key, F)
    BY DEF BuildVEX
  <2> DEFINE about == Group(F, key)
  <2>2. s.key = key /\ s.affected = Affected(about) /\ s.investigating = Investigating(about)
    BY <2>1 DEF BuildVulnerability
  <2>3. about = {f \in ToSet(F) : s.key \in KeysOf(f)}
    BY <2>2 DEF Group
  <2> HIDE DEF about
  <2>4. /\ Affected(about) = {ProductName(f) : f \in {g \in about : g.tier = "confirmed"}}
        /\ {ProductName(f) : f \in about} = Affected(about) \cup Investigating(about)
    BY DEF Affected, Investigating
  <2> QED
    BY <2>2, <2>3, <2>4
<1>2. IInv => VexOverstatesNothing
  <2> SUFFICES ASSUME IInv, NEW s \in document.vex.statements
               PROVE  LET about == {f \in ToSet(findings) : s.key \in KeysOf(f)}
                      IN  /\ \A p \in s.affected : \E f \in about :
                               /\ ProductName(f) = p
                               /\ CouldBe[f.asset]
                                    \subseteq UNION {Covers[n] : n \in {f.product} \cup f.alsoMatched}
                          /\ {ProductName(f) : f \in about} = s.affected \cup s.investigating
    BY DEF VexOverstatesNothing
  <2>1. document.vex = BuildVEX(IF stage = "exported" THEN findings ELSE <<>>)
    BY DEF IInv, Delivered
  <2>2. document.vex = BuildVEX(findings)
    <3>1. BuildVEX(<<>>).statements = {}
      BY DEF BuildVEX, ToSet
    <3>2. stage = "exported"
      BY <2>1, <3>1
    <3> QED
      BY <2>1, <3>2
  <2> DEFINE about == {f \in ToSet(findings) : s.key \in KeysOf(f)}
  <2>3. /\ s.affected = {ProductName(f) : f \in {g \in about : g.tier = "confirmed"}}
        /\ {ProductName(f) : f \in about} = s.affected \cup s.investigating
    BY <1>1, <2>2
  <2>4. ASSUME NEW p \in s.affected
        PROVE  \E f \in about :
                 /\ ProductName(f) = p
                 /\ CouldBe[f.asset] \subseteq UNION {Covers[n] : n \in {f.product} \cup f.alsoMatched}
    <3>1. PICK f \in about : f.tier = "confirmed" /\ ProductName(f) = p
      BY <2>3
    <3>2. CouldBe[f.asset] \subseteq Covers[f.product]
      BY <3>1, SurelyConfirmed DEF FindingsAreSure
    <3> QED
      BY <3>1, <3>2
  <2> QED
    BY <2>3, <2>4
<1> QED
  BY <1>2, AssessmentHolds, PTL

IdsOf(survivors) == {x.product.id : x \in survivors}

(* A CVE is that of a vulnerability that lists a survivor, or no product.  *)
LEMMA ChargedCVEs ==
  ASSUME NEW device, NEW advisory, NEW survivors, NEW cve \in BuildFindingFor(device, advisory, survivors).cves
  PROVE  \E i \in DOMAIN advisory.vulns :
           /\ advisory.vulns[i].cve = cve
           /\ Touches(advisory.vulns[i], IdsOf(survivors))
<1> DEFINE matched == {x.product.id : x \in survivors}
           vulns == {advisory.vulns[i] : i \in Touching(advisory, matched)}
<1>1. cve \in {v.cve : v \in vulns}
  BY DEF BuildFindingFor
<1> QED
  BY <1>1 DEF Touching, IdsOf

(* Where what survives the comparison may be about the device, or is a lead, *)
(* a device is charged only with CVEs that could hit it, or that come with   *)
(* the lead (applyVulnerabilities, anyMatched).                              *)
THEOREM CVEsAreOfTheDevice ==
  ASSUME Plausible
  PROVE  Spec => []CVEsCouldHit
<1>1. IInv => CVEsCouldHit
  <2> SUFFICES ASSUME IInv, NEW k \in DOMAIN findings, NEW cve \in findings[k].cves
               PROVE  \E a \in DOMAIN corpus : \E v \in ToSet(corpus[a].vulns) :
                        /\ corpus[a].id = findings[k].advisory /\ v.cve = cve
                        /\ \/ ~ Precise(v)
                           \/ \E node \in ToSet(corpus[a].products) :
                                /\ node.id \in AffectedProducts(v)
                                /\ \/ CouldBe[findings[k].asset] \cap Covers[node.id] # {}
                                   \/ NamesAnotherModel(node, findings[k].identity)
    BY DEF CVEsCouldHit, ToSet
  <2>1. PICK w : Listing(corpus, inventory, findings, Built, w)
    BY DEF IInv, Listed
  <2> DEFINE i == w[k][1]
             a == w[k][2]
             id == IdOf(inventory, i)
             C == CandidatesOf(corpus, id, a)
             device == [id |-> inventory[i].id, identity |-> id]
             matched == IdsOf(C)
  <2>2. Corpus(corpus) /\ inventory \in Inventories
    BY DEF IInv, Shape
  <2>3. /\ w[k] \in Reported(corpus, inventory) /\ findings[k].asset = inventory[i].id
        /\ findings[k].advisory = corpus[a].id /\ findings[k].identity = id
        /\ findings[k] = FindingOf(corpus, inventory, w[k])
    BY <2>1, ListedAreTyped DEF IInv, Listing
  <2>4. i \in AssessedIn(inventory) /\ a \in DOMAIN corpus
    BY <2>2, <2>3, ReportedPairs
  <2>5. findings[k] = BuildFindingFor(device, corpus[a], C)
    BY <2>3 DEF FindingOf
  <2> HIDE DEF C, device
  <2>6. cve \in BuildFindingFor(device, corpus[a], C).cves
    BY <2>5
  <2>7. PICK n \in DOMAIN corpus[a].vulns :
          corpus[a].vulns[n].cve = cve /\ Touches(corpus[a].vulns[n], matched)
    BY <2>6, ChargedCVEs
  <2> DEFINE v == corpus[a].vulns[n]
  <2>8. v \in ToSet(corpus[a].vulns)
    BY DEF ToSet
  <2>9. CASE ~ Precise(v)
    BY <2>3, <2>4, <2>7, <2>8, <2>9
  <2>10. CASE AffectedProducts(v) \cap matched # {}
    <3>1. PICK x \in C : x.product.id \in AffectedProducts(v)
      BY <2>10 DEF IdsOf
    <3>2. PICK r \in Kept(corpus, id, a) : x = CandidateOf(corpus, id, r)
      BY <3>1 DEF C, CandidatesOf
    <3> DEFINE node == NodeIn(corpus, r)
    <3>3. x.product = node
      BY <3>2 DEF CandidateOf
    <3>4. /\ r \in NodesIn(corpus) /\ r.advisory = a
          /\ Matched(id, node) /\ Verdict(id, node) # "not_affected"
      BY KeptAreNamed DEF Matched
    <3>5. node \in ToSet(corpus[a].products)
      BY <3>4, NodesAreOfTheCorpus DEF NodeIn, ToSet
    <3>6. inventory[i] \in PlantDevices /\ node \in Published
          /\ id = Identity(inventory[i].identity).result
      BY <2>2, <2>4, <3>4, PairsAreOfThePlant
    <3> HIDE DEF id, node
    <3>7. MayBeAbout(inventory[i], node) \/ NamesAnotherModel(node, id)
      BY <3>4, <3>6 DEF Plausible
    <3> QED
      BY <2>3, <2>4, <2>7, <2>8, <3>1, <3>3, <3>5, <3>7 DEF MayBeAbout
  <2> QED
    BY <2>7, <2>9, <2>10 DEF Touches
<1> QED
  BY <1>1, AssessmentHolds, PTL
=============================================================================

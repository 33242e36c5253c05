----------------------------- MODULE Advisories -----------------------------
(***************************************************************************)
(* Advisory documents (internal/advisory/csaf.go, advisory.go): a CSAF     *)
(* document read into an advisory, its products flattened out of the tree  *)
(* and normalized, its vulnerabilities converted.                          *)
(*                                                                         *)
(* Identifiers of products, CVEs, advisories and links are natural         *)
(* numbers, 0 is the empty one; they sort as the strings they stand for.   *)
(* A product of a document is [id, name, printed, model, sku, cpe], where  *)
(* printed is the order code in brackets inside its name; a leaf of the    *)
(* tree adds the path of branches that lead to it.                         *)
(* Base scores are in tenths, probabilities of exploitation in hundredths. *)
(***************************************************************************)
EXTENDS Normalizer

CONSTANT MaxBranchDepth  \* 64: the deepest branch that is read
ASSUME MaxBranchDepthAssumption == MaxBranchDepth \in Nat

None == 0

-----------------------------------------------------------------------------
(* The product tree. *)

NoContext == [vendor |-> NoName, family |-> NoName, product |-> NoName, version |-> <<>>]

(* branchContext.with: what a branch adds to the context of its parent.  A  *)
(* family inside a family is folded behind it.                              *)
With(context, branch) ==
  CASE branch.category = "vendor" -> [context EXCEPT !.vendor = branch.name]
    [] branch.category = "product_family" ->
         [context EXCEPT !.family =
            IF context.family # NoName /\ ~ HasPhrase(branch.name, context.family)
            THEN context.family \o branch.name ELSE branch.name]
    [] branch.category = "product_name" -> [context EXCEPT !.product = branch.name]
    [] branch.category \in {"product_version", "product_version_range"} ->
         [context EXCEPT !.version = branch.name]
    [] OTHER -> context

BuildProduct(full, context) ==
  [id |-> full.id, name |-> full.name, printed |-> full.printed,
   vendorRaw |-> context.vendor, vendor |-> NoName,
   familyRaw |-> context.family, family |-> NoName,
   productRaw |-> IF context.product = NoName /\ context.family = NoName THEN full.name
                  ELSE context.product,
   product |-> NoName, model |-> full.model, catalog |-> full.sku,
   statement |-> context.version, version |-> Unreadable, cpe |-> full.cpe]

(* A repeated id keeps its first definition, an empty one is no product. *)
KeepFirst(products) ==
  LET Kept(i) == /\ products[i].id # None
                 /\ \A j \in DOMAIN products : j < i => products[j].id # products[i].id
  IN  {products[i] : i \in {j \in DOMAIN products : Kept(j)}}

(* The leaves in the order of the walk; one deeper than the limit is not    *)
(* read.                                                                    *)
TreeProducts(doc) ==
  LET Read(leaf) == BuildProduct(leaf.full, FoldLeft(With, NoContext, leaf.path))
  IN  [i \in DOMAIN doc.leaves |->
         IF Len(doc.leaves[i].path) <= MaxBranchDepth + 1 THEN Read(doc.leaves[i])
         ELSE [Read(doc.leaves[i]) EXCEPT !.id = None]]

(* A relationship names a product of its own, with the context of the       *)
(* component it refers to, if the tree or the list held that one.           *)
ContextOf(products, reference) ==
  LET base == CHOOSE p \in products : p.id = reference
  IN  IF \A p \in products : p.id # reference THEN NoContext
      ELSE [vendor |-> base.vendorRaw, family |-> base.familyRaw,
            product |-> base.productRaw, version |-> base.statement]

RelatedProducts(doc, products) ==
  [i \in DOMAIN doc.relations |->
     BuildProduct(doc.relations[i].full, ContextOf(products, doc.relations[i].reference))]

FlattenProductTree(doc) ==
  LET listed == [i \in DOMAIN doc.listed |-> BuildProduct(doc.listed[i], NoContext)]
      declared == KeepFirst(TreeProducts(doc) \o listed)
      related == KeepFirst(RelatedProducts(doc, declared))
  IN  declared \cup {r \in related : \A p \in declared : p.id # r.id}

-----------------------------------------------------------------------------
(* Vulnerabilities. *)

Severities == <<"none", "low", "medium", "high", "critical">>

SeverityRank(severity) == SelectInSeq(Severities, LAMBDA s : s = severity)

SeverityForScore(base) ==
  IF base >= 90 THEN "critical"
  ELSE IF base >= 70 THEN "high"
  ELSE IF base >= 40 THEN "medium"
  ELSE IF base > 0 THEN "low"
  ELSE "none"

NoScore == [rank |-> -1, base |-> 0, vector |-> None, severity |-> ""]

(* A score of the document holds a body for each version of CVSS it gives,  *)
(* of which only the newest can be the best.                                *)
ConvertScore(score) ==
  LET bodies == {2, 3, 4} \cap DOMAIN score
      newest == Max(bodies)
      body == score[newest]
  IN  IF bodies = {} THEN NoScore
      ELSE [rank |-> newest, base |-> body.base, vector |-> body.vector,
            severity |-> IF body.label \in ToSet(Severities) THEN body.label
                         ELSE SeverityForScore(body.base)]

ConvertVuln(vuln) ==
  [cve |-> IF vuln.cve = None /\ vuln.ids # <<>> THEN vuln.ids[1] ELSE vuln.cve,
   status |-> [s \in {t \in DOMAIN vuln.status : vuln.status[t] # {}} |-> vuln.status[s]],
   scores |-> [i \in DOMAIN vuln.scores |-> ConvertScore(vuln.scores[i])],
   remediations |-> vuln.remediations, references |-> vuln.references,
   kev |-> vuln.kev, epss |-> vuln.epss]

(* AffectedProducts: the ids, and whether the advisory named any. *)
AffectedProducts(vuln) ==
  IF "known_affected" \in DOMAIN vuln.status THEN vuln.status["known_affected"] ELSE {}

Precise(vuln) == AffectedProducts(vuln) # {}

BetterThan(score, other) ==
  score.rank > other.rank \/ (score.rank = other.rank /\ score.base > other.base)

(* The best of the scores in some places, the first of those as good.       *)
BestAmong(scores, places) ==
  LET best == {i \in places : \A j \in places : ~ BetterThan(scores[j], scores[i])}
  IN  IF best = {} THEN NoScore ELSE scores[Min(best)]

BestScore(vuln) == BestAmong(vuln.scores, DOMAIN vuln.scores)

(* Advisory.Severity: the worst of the vulnerabilities. *)
WorstSeverity(vulns) ==
  LET ranks == {SeverityRank(BestScore(v).severity) : v \in ToSet(vulns)}
  IN  IF ranks \subseteq {0} THEN "" ELSE Severities[Max(ranks)]

-----------------------------------------------------------------------------
(* Normalization and validation. *)

(* Product.identity: the advisory's side, presented as a device's. *)
ProductIdentity(product) ==
  [EmptyIdentity EXCEPT
     !.vendor = product.vendorRaw, !.vendorRaw = product.vendorRaw,
     !.product = FirstOf(<<product.productRaw, product.name>>),
     !.productRaw = FirstOf(<<product.productRaw, product.name>>),
     !.family = product.familyRaw, !.model = product.model, !.catalog = product.catalog]

(* orderCodeInName: only a code some parser recognises. *)
OrderCode(product) ==
  IF product.catalog = NoCode /\ ParseCatalog(product.printed) # Unrecognised
  THEN product.printed ELSE product.catalog

(* Advisory.Normalize, for one product. *)
WithReport(product, report) ==
  LET id == report.result
  IN  [product EXCEPT !.vendor = report.resolved, !.family = id.family, !.product = id.product,
                      !.model = id.model, !.catalog = id.catalog,
                      !.version = IF product.statement = <<>> THEN AnyVersion
                                  ELSE ParseConstraint(product.statement)]

NormalizeProduct(product) ==
  LET coded == [product EXCEPT !.catalog = OrderCode(product)]
  IN  WithReport(coded, Identity(ProductIdentity(coded)))

ById(products) ==
  [k \in 1 .. Cardinality(products) |->
     CHOOSE p \in products : Cardinality({q \in products : q.id < p.id}) = k - 1]

(* convertCSAF, Normalize and Sort. *)
ReadCSAF(doc) ==
  [id |-> doc.id, published |-> doc.published, url |-> doc.url,
   products |-> ById({NormalizeProduct(p) : p \in FlattenProductTree(doc)}),
   vulns |-> [i \in DOMAIN doc.vulns |-> ConvertVuln(doc.vulns[i])]]

Validate(advisory) ==
  /\ advisory.id # None
  /\ advisory.products # <<>> \/ advisory.vulns # <<>>
  /\ \A i, j \in DOMAIN advisory.products :
       /\ advisory.products[i].id # None
       /\ advisory.products[i].id = advisory.products[j].id => i = j
=============================================================================

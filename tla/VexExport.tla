----------------------------- MODULE VexExport ------------------------------
(***************************************************************************)
(* The VEX document made of a list of findings (internal/report/vex.go):   *)
(* one statement for each CVE, or for each advisory without one, about     *)
(* products rather than devices.                                           *)
(***************************************************************************)
EXTENDS Findings

CONSTANTS
  MaxReferences,  \* 8: links carried by one statement
  Links           \* what each link tells: [csaf, boilerplate, advisories, cves]
ASSUME MaxReferencesAssumption == MaxReferences \in Nat

(* productName: devices that carry one label are one product. *)
ProductName(f) == Label(f.identity)

(* collectProducts: each product with how many devices run it. *)
CollectProducts(findings) ==
  [name \in {ProductName(f) : f \in ToSet(findings)} |->
     Cardinality({f.asset : f \in {g \in ToSet(findings) : ProductName(g) = name}})]

(* vulnKey: a CVE where there is one, else the advisory. *)
KeysOf(f) ==
  IF f.cves = {} THEN {[cve |-> None, advisory |-> f.advisory]}
  ELSE {[cve |-> c, advisory |-> None] : c \in f.cves}

Affected_AnyTier(group) == {ProductName(f) : f \in group}

Affected(group) ==
  {ProductName(f) : f \in {g \in group : g.tier = "confirmed"}}

(* One confirmed device is enough for its product. *)
Investigating_NotRemoved(group) ==
  {ProductName(f) : f \in {g \in group : g.tier # "confirmed"}}

Investigating(group) ==
  {ProductName(f) : f \in {g \in group : g.tier # "confirmed"}} \ Affected(group)

Covered(group) == Affected(group) \cup Investigating(group)

(* buildScores: one entry for each vector, with the products it covers.     *)
ScoresOf(group) ==
  LET scored == {f \in group : f.vector # None /\ f.cvss # 0}
  IN  {[vector |-> v, products |-> {ProductName(f) : f \in {g \in scored : g.vector = v}}] :
         v \in {f.vector : f \in scored}}

(* buildThreats: exploit status, for every product of the statement.        *)
ThreatsOf(group) ==
  (IF \E f \in group : f.kev
   THEN {[kind |-> "kev", products |-> Covered(group)]} ELSE {})
  \cup
  (IF \E f \in group : f.epss > 0
   THEN {[kind |-> "epss", products |-> Covered(group)]} ELSE {})

Actions == {"mitigation", "no_fix_planned", "none_available", "vendor_fix", "workaround"}

Contradicted == {"none_available", "no_fix_planned"}

(* buildRemediations: the categories of the advisories, an invented one as  *)
(* a mitigation; a fix drops what contradicts it, and silence is filled.    *)
CategoriesOf(group) ==
  {IF r.category \in Actions THEN r.category ELSE "mitigation" :
     r \in UNION {f.remediations : f \in group}}

Settled(categories) ==
  IF "vendor_fix" \in categories THEN categories \ Contradicted ELSE categories

Advised(group) ==
  LET kept == Settled(CategoriesOf(group))
  IN  IF kept = {} THEN {"none_available"} ELSE kept

RemediationsFor(group) ==
  {[category |-> c, products |-> Covered(group)] : c \in Advised(group)}
  \cup
  (IF Investigating(group) = {} THEN {}
   ELSE {[category |-> "mitigation", products |-> Investigating(group)]})

(* buildReferences: the advisories' own documents, the first link of each   *)
(* finding, the links that name the first CVE of the first finding, then    *)
(* the rest, a link once and at most MaxReferences of them.                 *)
IsAdvisoryLink(url, advisory) == Links[url].csaf \/ advisory \in Links[url].advisories

TakeReferences(urls) ==
  FoldLeft(LAMBDA kept, u : IF u \in ToSet(kept) \/ Len(kept) >= MaxReferences THEN kept
                            ELSE Append(kept, u),
           <<>>, urls)

EachLink(group, Test(_, _)) ==
  FlattenSeq([i \in DOMAIN group |->
    SelectSeq(group[i].references, LAMBDA u : Test(group[i], u))])

ReferencesFor(group) ==
  LET own == EachLink(group, LAMBDA f, u : IsAdvisoryLink(u, f.advisory))
      first == EachLink(group, LAMBDA f, u : u = f.references[1] /\ ~ Links[u].boilerplate)
      naming == EachLink(group, LAMBDA f, u :
                  group[1].cves # {} /\ Min(group[1].cves) \in Links[u].cves)
      rest == EachLink(group, LAMBDA f, u : TRUE)
  IN  TakeReferences(own \o first \o naming \o rest)

(* buildVulnerabilities: the findings of each key. *)
Group(findings, key) == {f \in ToSet(findings) : key \in KeysOf(f)}

InOrder(findings, key) == SelectSeq(findings, LAMBDA f : key \in KeysOf(f))

BuildVulnerability(key, findings) ==
  LET group == Group(findings, key)
  IN  [key |-> key, affected |-> Affected(group), investigating |-> Investigating(group),
       scores |-> ScoresOf(group), threats |-> ThreatsOf(group),
       remediations |-> RemediationsFor(group),
       references |-> ReferencesFor(InOrder(findings, key))]

BuildVEX(findings) ==
  [products |-> CollectProducts(findings),
   statements |-> {BuildVulnerability(k, findings) :
                     k \in UNION {KeysOf(f) : f \in ToSet(findings)}}]
=============================================================================

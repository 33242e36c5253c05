----------------------------- MODULE Assessment -----------------------------
(***************************************************************************)
(* An assessment of an inventory against a corpus (internal/match,         *)
(* internal/finding, internal/report): the documents are read and          *)
(* normalized, their nodes indexed by vendor, each device is compared with *)
(* the nodes of its vendor, the findings of a device are built advisory by *)
(* advisory in the order a map gives, the list is put in order and         *)
(* exported.                                                               *)
(***************************************************************************)
EXTENDS VexExport

CONSTANTS
  Documents,    \* the feeds, as sequences of CSAF documents
  Inventories,  \* the inventories, as sequences of [id, identity]
  Since,        \* advisories published before this day are left out; 0 for none
  MinTier,      \* findings weaker than this tier are left out; "" for none
  CouldBe,      \* the devices, as [model, release], each asset id may really be
  Covers        \* the devices each product node was published about

(* What can be read of a document: lists, identifiers, and scores and       *)
(* probabilities within the bounds that CVSS and EPSS give them, which the  *)
(* code takes over as they are.                                             *)
Scored(v) ==
  /\ v.kev \in BOOLEAN /\ v.epss \in 0 .. 100
  /\ v.scores \in Seq(ToSet(v.scores))
  /\ \A score \in ToSet(v.scores) : \A n \in {2, 3, 4} \cap DOMAIN score : score[n].base \in 0 .. 100

Readable(doc) ==
  /\ doc.id \in Nat
  /\ doc.leaves \in Seq(ToSet(doc.leaves)) /\ \A l \in ToSet(doc.leaves) : l.full.id \in Nat
  /\ doc.listed \in Seq(ToSet(doc.listed)) /\ \A full \in ToSet(doc.listed) : full.id \in Nat
  /\ doc.relations \in Seq(ToSet(doc.relations))
  /\ \A r \in ToSet(doc.relations) : r.full.id \in Nat
  /\ doc.vulns \in Seq(ToSet(doc.vulns)) /\ \A v \in ToSet(doc.vulns) : Scored(v)

ASSUME ReadableAssumption ==
  /\ \A feed \in Documents : feed \in Seq(ToSet(feed)) /\ \A doc \in ToSet(feed) : Readable(doc)
  /\ \A devices \in Inventories :
       /\ devices \in Seq(ToSet(devices))
       /\ \A device \in ToSet(devices) : device.id \in Nat

VARIABLES
  stage,       \* how far the run has come
  documents,   \* the documents of the feed that are not read yet
  corpus,      \* the advisories, read and normalized
  index,       \* Matcher.byVendor: the nodes of each vendor
  inventory,   \* the devices
  next,        \* the position in the inventory of the next one
  asset,       \* the device being assessed, its identity normalized
  refs,        \* its vendor's nodes not yet compared
  candidates,  \* for each advisory, the nodes that survived
  findings,    \* Set.Findings
  run,         \* the counters of the run
  document     \* what was exported
vars == <<stage, documents, corpus, index, inventory, next, asset, refs, candidates, findings, run,
          document>>

NoAsset == [id |-> None, identity |-> EmptyIdentity]
NoRun == [considered |-> 0, unidentified |-> 0, unknownVendor |-> 0, ruledOut |-> 0]
NoDocument == [summary |-> Summarise(<<>>, NoRun), vex |-> BuildVEX(<<>>)]

Init ==
  /\ stage = "reading"
  /\ documents \in Documents
  /\ corpus = <<>>
  /\ index = <<>>
  /\ inventory \in Inventories
  /\ next = 1
  /\ asset = NoAsset
  /\ refs = {}
  /\ candidates = <<>>
  /\ findings = <<>>
  /\ run = [NoRun EXCEPT !.considered = Len(inventory)]
  /\ document = NoDocument

(* A document that validates joins the corpus; any other is refused. *)
ReadDocument ==
  /\ stage = "reading" /\ documents # <<>>
  /\ documents' = Tail(documents)
  /\ LET advisory == ReadCSAF(Head(documents))
     IN  corpus' = IF Validate(advisory) THEN Append(corpus, advisory) ELSE corpus
  /\ UNCHANGED <<stage, index, inventory, next, asset, refs, candidates, findings, run, document>>

TooOld(advisory) == Since # 0 /\ advisory.published # 0 /\ advisory.published < Since

(* Matcher.index.  A node without a vendor cannot be reached. *)
Nodes ==
  UNION {{[advisory |-> a, product |-> p] : p \in DOMAIN corpus[a].products} : a \in DOMAIN corpus}

Node(ref) == corpus[ref.advisory].products[ref.product]

Indexed == {r \in Nodes : ~ TooOld(corpus[r.advisory]) /\ Node(r).vendor # NoName}

BuildIndex ==
  /\ stage = "reading" /\ documents = <<>>
  /\ index' = [v \in {Node(r).vendor : r \in Indexed} |-> {r \in Indexed : Node(r).vendor = v}]
  /\ stage' = "matching"
  /\ UNCHANGED <<documents, corpus, inventory, next, asset, refs, candidates, findings, run, document>>

Current == inventory[next]

Between == stage = "matching" /\ asset = NoAsset /\ next <= Len(inventory)

SkipUnidentified ==
  /\ Between /\ IsEmpty(Current.identity)
  /\ next' = next + 1
  /\ run' = [run EXCEPT !.unidentified = @ + 1]
  /\ UNCHANGED <<stage, documents, corpus, index, inventory, asset, refs, candidates, findings, document>>

SkipUnknownVendor ==
  /\ Between /\ ~ IsEmpty(Current.identity)
  /\ Identity(Current.identity).result.vendor = NoName
  /\ next' = next + 1
  /\ run' = [run EXCEPT !.unknownVendor = @ + 1]
  /\ UNCHANGED <<stage, documents, corpus, index, inventory, asset, refs, candidates, findings, document>>

(* The identity is normalized again, whoever wrote the inventory. *)
TakeAsset ==
  /\ Between /\ ~ IsEmpty(Current.identity)
  /\ LET id == Identity(Current.identity).result
     IN  /\ id.vendor # NoName
         /\ asset' = [id |-> Current.id, identity |-> id]
         /\ refs' = IF id.vendor \in DOMAIN index THEN index[id.vendor] ELSE {}
  /\ next' = next + 1
  /\ candidates' = [a \in DOMAIN corpus |-> {}]
  /\ UNCHANGED <<stage, documents, corpus, index, inventory, findings, run, document>>

Verdict(id, product) == Evaluate(product.version, id.firmware, SchemeOf(id.vendor))

RuledOut_Never(match, verdict) == FALSE

RuledOut_Unmatched(match, verdict) == verdict = "not_affected"

RuledOut(match, verdict) == match.strength # Nothing /\ verdict = "not_affected"

(* The nodes are compared in the order of the corpus. *)
IsFirst(ref) ==
  \A r \in refs : \/ ref.advisory < r.advisory
                  \/ ref.advisory = r.advisory /\ ref.product <= r.product

CompareNode(ref) ==
  /\ asset # NoAsset /\ IsFirst(ref)
  /\ refs' = refs \ {ref}
  /\ LET product == Node(ref)
         match == CompareIdentity(asset.identity, product)
         verdict == Verdict(asset.identity, product)
     IN  /\ candidates' =
              IF match.strength = Nothing \/ RuledOut(match, verdict) THEN candidates
              ELSE [candidates EXCEPT ![ref.advisory] =
                      @ \cup {[product |-> product, match |-> match, verdict |-> verdict]}]
         /\ run' = [run EXCEPT !.ruledOut =
                      @ + (IF RuledOut(match, verdict) THEN 1 ELSE 0)]
  /\ UNCHANGED <<stage, documents, corpus, index, inventory, next, asset, findings, document>>

WeakerThanAsked(f) == MinTier # "" /\ TierRank(f.tier) < TierRank(MinTier)

(* One advisory that has candidates, in whichever order the map gives them. *)
BuildFinding(a) ==
  /\ asset # NoAsset /\ refs = {} /\ candidates[a] # {}
  /\ candidates' = [candidates EXCEPT ![a] = {}]
  /\ LET f == BuildFindingFor(asset, corpus[a], candidates[a])
     IN  findings' = IF WeakerThanAsked(f) THEN findings ELSE Append(findings, f)
  /\ UNCHANGED <<stage, documents, corpus, index, inventory, next, asset, refs, run, document>>

FinishAsset ==
  /\ asset # NoAsset /\ refs = {}
  /\ \A a \in DOMAIN candidates : candidates[a] = {}
  /\ asset' = NoAsset
  /\ candidates' = <<>>
  /\ UNCHANGED <<stage, documents, corpus, index, inventory, next, refs, findings, run, document>>

(* Set.Finalize. *)
Finalize ==
  /\ stage = "matching" /\ asset = NoAsset /\ next > Len(inventory)
  /\ stage' = "finalized"
  /\ findings' = Sorted(findings)
  /\ document' = [document EXCEPT !.summary = Summarise(findings, run)]
  /\ UNCHANGED <<documents, corpus, index, inventory, next, asset, refs, candidates, run>>

ExportVEX ==
  /\ stage = "finalized"
  /\ stage' = "exported"
  /\ document' = [document EXCEPT !.vex = BuildVEX(findings)]
  /\ UNCHANGED <<documents, corpus, index, inventory, next, asset, refs, candidates, findings, run>>

Next ==
  \/ ReadDocument
  \/ BuildIndex
  \/ SkipUnidentified
  \/ SkipUnknownVendor
  \/ TakeAsset
  \/ \E ref \in refs : CompareNode(ref)
  \/ \E a \in DOMAIN candidates : BuildFinding(a)
  \/ FinishAsset
  \/ Finalize
  \/ ExportVEX

Spec == Init /\ [][Next]_vars

-----------------------------------------------------------------------------
(* Properties.  CouldBe and Covers say what is true of the plant and of the *)
(* advisories, which the code sees only through names and versions.         *)

(* The shapes of the state: a node of the index is one of the corpus, of    *)
(* the vendor it is filed under; a candidate has not been ruled out; a      *)
(* finding has a tier and a score within bounds.                            *)
TypeOK ==
  /\ stage \in {"reading", "matching", "finalized", "exported"}
  /\ next \in 1 .. Len(inventory) + 1
  /\ \A v \in DOMAIN index : \A r \in index[v] : r \in Nodes /\ Node(r).vendor = v
  /\ \A a \in DOMAIN candidates : \A c \in candidates[a] :
       c.match \in IdentityMatch /\ c.verdict \in {"affected", "indeterminate"}
  /\ \A f \in ToSet(findings) : f.tier \in Tiers /\ f.score \in 0 .. 100

Done == stage \in {"finalized", "exported"}

NormalizedId(i) == Identity(inventory[i].identity).result

Assessed == {i \in DOMAIN inventory :
               ~ IsEmpty(inventory[i].identity) /\ NormalizedId(i).vendor # NoName}

(* A confirmed finding is a conclusion: whatever the device may be, given   *)
(* what it disclosed, the matched node was published about it (tierFor,     *)
(* compareIdentity, Evaluate).                                              *)
ConfirmedIsCertain ==
  \A f \in ToSet(findings) : f.tier = "confirmed" => CouldBe[f.asset] \subseteq Covers[f.product]

(* Uncertainty never silences: a device that an advisory of the corpus may  *)
(* be about has a finding for it, which names the node, unless a weaker     *)
(* tier than it was asked for (matchAsset).                                 *)
NothingSilenced ==
  Done => \A i \in Assessed, r \in Nodes :
    LET node == Node(r)
        advisory == corpus[r.advisory]
    IN  /\ CouldBe[inventory[i].id] \cap Covers[node.id] # {}
        /\ ~ TooOld(advisory)
        => \/ MinTier # ""
           \/ \E f \in ToSet(findings) :
                /\ f.asset = inventory[i].id /\ f.advisory = advisory.id
                /\ node.id \in {f.product} \cup f.alsoMatched

(* A node that names another model without an order code is kept as a lead. *)
NamesAnotherModel(node, id) ==
  node.catalog = NoCode /\ node.model # NoName /\ id.model \notin {NoName, node.model}

(* A device is never charged with a CVE that only hits devices it cannot    *)
(* be, or releases it cannot be running, unless on account of a node kept   *)
(* as a lead (applyVulnerabilities, compareIdentity).                       *)
CVEsCouldHit ==
  \A f \in ToSet(findings) : \A c \in f.cves :
    \E a \in DOMAIN corpus : \E v \in ToSet(corpus[a].vulns) :
      /\ corpus[a].id = f.advisory /\ v.cve = c
      /\ \/ ~ Precise(v)
         \/ \E node \in ToSet(corpus[a].products) :
              /\ node.id \in AffectedProducts(v)
              /\ \/ CouldBe[f.asset] \cap Covers[node.id] # {}
                 \/ NamesAnotherModel(node, f.identity)

(* Two runs over the same inputs give the same document: the advisories of  *)
(* a device come out of a map, and nothing of that order survives Finalize. *)
(* Where two feeds carry one advisory this is not so.                       *)
OneOfEach ==
  /\ \A a, b \in DOMAIN corpus : corpus[a].id = corpus[b].id => a = b
  /\ \A i, j \in DOMAIN inventory : inventory[i].id = inventory[j].id => i = j

OutputIsDetermined ==
  Done /\ OneOfEach => \A i, j \in DOMAIN findings : i < j =>
    /\ Precedes(findings[i], findings[j])
    /\ <<findings[i].asset, findings[i].advisory>> # <<findings[j].asset, findings[j].advisory>>

(* An empty result can be told from a run that did nothing: every device    *)
(* and every node that its names matched is counted once, as ruled out or   *)
(* as part of a finding (Run, matchAsset, Finalize).                        *)
EveryPairAccountedFor ==
  Done /\ MinTier = "" =>
    LET summary == document.summary
        Matches(i, r) == /\ Node(r).vendor = NormalizedId(i).vendor
                         /\ ~ TooOld(corpus[r.advisory])
                         /\ CompareIdentity(NormalizedId(i), Node(r)).strength # Nothing
        matching == {pair \in Assessed \X Nodes : Matches(pair[1], pair[2])}
    IN  /\ summary.considered
             = summary.unidentified + summary.unknownVendor + Cardinality(Assessed)
        /\ Cardinality(matching)
             = summary.ruledOut
               + Cardinality(UNION {{k} \X ({findings[k].product} \cup findings[k].alsoMatched) :
                                      k \in DOMAIN findings})

(* A flaw known to be exploited comes before every one that is not, however *)
(* surely that one was matched (Priority, Finalize).                        *)
KnownExploitedFirst ==
  Done => \A i, j \in DOMAIN findings : findings[j].kev /\ ~ findings[i].kev => j < i

(* The exported document is valid VEX: a product has one status for a       *)
(* statement, is in the product tree and has an action to take, and no      *)
(* product is told both that there is a fix and that there is none.         *)
VexIsValid ==
  \A s \in document.vex.statements :
    LET ActionsFor(p) == {r.category : r \in {q \in s.remediations : p \in q.products}}
    IN  /\ s.affected \cap s.investigating = {}
        /\ s.affected \cup s.investigating # {}
        /\ s.affected \cup s.investigating \subseteq DOMAIN document.vex.products
        /\ \A p \in s.affected \cup s.investigating :
             /\ ActionsFor(p) # {}
             /\ "vendor_fix" \in ActionsFor(p) => ActionsFor(p) \cap Contradicted = {}

(* Only what was confirmed is stated as affected: the product of some       *)
(* device that certainly is one an advisory of the statement was published  *)
(* about; and everything else that was found is under investigation.        *)
VexOverstatesNothing ==
  \A s \in document.vex.statements :
    LET about == {f \in ToSet(findings) : s.key \in KeysOf(f)}
    IN  /\ \A p \in s.affected : \E f \in about :
             /\ ProductName(f) = p
             /\ CouldBe[f.asset] \subseteq UNION {Covers[n] : n \in {f.product} \cup f.alsoMatched}
        /\ {ProductName(f) : f \in about} = s.affected \cup s.investigating

(* What the document says of itself: a product is listed as known_affected  *)
(* for a CVE only where a device of that product certainly is, in model and *)
(* version, one that the CVE was published about.                           *)
KnownAffectedIsEstablished ==
  \A s \in document.vex.statements : s.key.cve # None =>
    \A p \in s.affected : \E i \in Assessed, a \in DOMAIN corpus :
      /\ Label(NormalizedId(i)) = p
      /\ \E v \in ToSet(corpus[a].vulns) :
           /\ v.cve = s.key.cve
           /\ CouldBe[inventory[i].id] \subseteq
                UNION {Covers[n] : n \in IF Precise(v) THEN AffectedProducts(v)
                                         ELSE {q.id : q \in ToSet(corpus[a].products)}}
=============================================================================

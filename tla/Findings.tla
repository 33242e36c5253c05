------------------------------ MODULE Findings ------------------------------
(***************************************************************************)
(* What a match becomes: a finding with its tier, its scores and the CVEs, *)
(* fixes and links of the vulnerabilities that touch it                    *)
(* (internal/match/match.go, internal/finding/finding.go).                 *)
(* Scores are in hundredths, base scores in tenths.                        *)
(***************************************************************************)
EXTENDS Identification

Tiers == {"possible", "likely", "confirmed"}

TierRank(tier) ==
  CASE tier = "confirmed" -> 3 [] tier = "likely" -> 2 [] tier = "possible" -> 1 [] OTHER -> 0

-----------------------------------------------------------------------------
(* Candidates: the nodes of one advisory that survived both checks. *)

EvalRank(verdict) == IF verdict = "affected" THEN 2 ELSE 1

(* candidate.beats: a node no finer than the match first, then the stronger *)
(* match, the surer version, the lower id.                                  *)
Beats(c, d) ==
  IF c.match.finer # d.match.finer THEN ~ c.match.finer
  ELSE IF c.match.strength # d.match.strength THEN c.match.strength > d.match.strength
  ELSE IF c.verdict # d.verdict THEN EvalRank(c.verdict) > EvalRank(d.verdict)
  ELSE c.product.id < d.product.id

Best(candidates) == CHOOSE c \in candidates : \A d \in candidates \ {c} : Beats(c, d)

TierFor_IgnoresFiner(match, verdict) ==
  IF verdict = "affected" THEN "confirmed" ELSE "likely"

TierFor(match, verdict) ==
  IF match.finer THEN "possible"
  ELSE IF verdict = "affected" THEN "confirmed"
  ELSE "likely"

BaseOf == <<40, 50, 60>>

Score(match, verdict, kev) ==
  LET sum == BaseOf[match.strength] - (IF match.finer THEN 20 ELSE 0)
             + (IF verdict = "affected" THEN 35 ELSE 0) + (IF kev THEN 5 ELSE 0)
  IN  Min({sum, 100})

-----------------------------------------------------------------------------
(* applyVulnerabilities: those that list a matched product, or none.        *)

Touches(vuln, matched) == ~ Precise(vuln) \/ AffectedProducts(vuln) \cap matched # {}

Touching_All(advisory, matched) == DOMAIN advisory.vulns

Touching(advisory, matched) ==
  {i \in DOMAIN advisory.vulns : Touches(advisory.vulns[i], matched)}

(* A remediation for other products is left out, one that says nothing too. *)
Applies(remediation, matched) ==
  remediation.products = {} \/ remediation.products \cap matched # {}

RemediationsOf(vulns, matched) ==
  {r \in UNION {ToSet(v.remediations) : v \in vulns} : Applies(r, matched)}

(* Links come out sorted, whichever was put at the head of the list.        *)
ReferencesOf(advisory, vulns) ==
  LET urls == {advisory.url} \cup UNION {v.references : v \in vulns}
  IN  SetToSortSeq(urls \ {None}, <)

BuildFindingFor(asset, advisory, candidates) ==
  LET best == Best(candidates)
      matched == {c.product.id : c \in candidates}
      touching == Touching(advisory, matched)
      vulns == {advisory.vulns[i] : i \in touching}
      remediations == RemediationsOf(vulns, matched)
      top == BestAmong([i \in DOMAIN advisory.vulns |-> BestScore(advisory.vulns[i])], touching)
      kev == \E v \in vulns : v.kev
  IN  [asset |-> asset.id, advisory |-> advisory.id, product |-> best.product.id,
       identity |-> asset.identity,
       tier |-> TierFor(best.match, best.verdict),
       score |-> Score(best.match, best.verdict, kev),
       verdict |-> best.verdict,
       alsoMatched |-> matched \ {best.product.id},
       cves |-> {v.cve : v \in vulns} \ {None},
       cvss |-> top.base, vector |-> top.vector,
       severity |-> IF top.severity # "" THEN top.severity ELSE WorstSeverity(advisory.vulns),
       kev |-> kev,
       epss |-> Max({0} \cup {v.epss : v \in vulns}),
       fixAvailable |-> \E r \in remediations : r.category = "vendor_fix",
       remediations |-> {[category |-> r.category, url |-> r.url] : r \in remediations}
                        \ {[category |-> "", url |-> None]},
       references |-> ReferencesOf(advisory, vulns)]

-----------------------------------------------------------------------------
(* The document of a run. *)

KEVWeight == 100000

(* Finding.Priority, in hundredths. *)
Priority_KEVAsNudge(f) ==
  f.score * 10 + (IF f.kev THEN 5000 ELSE 0) + f.epss * 100 + f.cvss * 10 + TierRank(f.tier) * 5000

Priority(f) ==
  f.score * 10 + (IF f.kev THEN KEVWeight ELSE 0) + f.epss * 100 + f.cvss * 10
  + TierRank(f.tier) * 5000

Precedes_PriorityOnly(f, g) == Priority(f) > Priority(g)

(* The order of Finalize, in which each finding has its place. *)
Precedes(f, g) ==
  IF Priority(f) # Priority(g) THEN Priority(f) > Priority(g)
  ELSE IF f.advisory # g.advisory THEN f.advisory < g.advisory
  ELSE f.asset < g.asset

Place(findings, i) ==
  Cardinality({j \in DOMAIN findings :
                 \/ Precedes(findings[j], findings[i])
                 \/ j <= i /\ ~ Precedes(findings[i], findings[j])})

Sorted(findings) ==
  [k \in DOMAIN findings |-> findings[CHOOSE i \in DOMAIN findings : Place(findings, i) = k]]

(* The counts of the document; those of the run are kept beside them.       *)
Summarise(findings, run) ==
  [total |-> Len(findings),
   byTier |-> [t \in Tiers |-> Cardinality({i \in DOMAIN findings : findings[i].tier = t})],
   assetsAffected |-> Cardinality({f.asset : f \in ToSet(findings)}),
   kevCount |-> Cardinality({i \in DOMAIN findings : findings[i].kev}),
   fixAvailable |-> Cardinality({i \in DOMAIN findings : findings[i].fixAvailable}),
   uniqueCVEs |-> Cardinality(UNION {f.cves : f \in ToSet(findings)}),
   considered |-> run.considered, unidentified |-> run.unidentified,
   unknownVendor |-> run.unknownVendor, ruledOut |-> run.ruledOut]
=============================================================================

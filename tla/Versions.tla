------------------------------ MODULE Versions ------------------------------
(***************************************************************************)
(* Firmware versions and the ranges advisories state                       *)
(* (internal/normalize/version.go, constraint.go, vers.go).                *)
(*                                                                         *)
(* A version is what tokenizeVersion makes of it: a sequence of numeric    *)
(* and alphabetic runs.  An alphabetic run is the rank of its text in      *)
(* Texts, which lists the texts in the order strings.Compare puts them.    *)
(* A statement is the sequence of pieces ParseConstraint looks for in the  *)
(* text of an advisory: versions, operators, phrases.                      *)
(***************************************************************************)
EXTENDS Integers, SequencesExt

Number(n) == [kind |-> "number", val |-> n]

Texts == <<"a", "b", "firmware", "fw", "pc", "r", "rev", "sp", "update", "x">>

RankOf(text) == CHOOSE i \in DOMAIN Texts : Texts[i] = text

Alpha(text) == [kind |-> "alpha", val |-> RankOf(text)]

NoVersion == <<>>

-----------------------------------------------------------------------------
(* The comparators.  An answer is ok or it is not; "no order" is not an     *)
(* answer of equality.                                                      *)

Sign(n) == IF n < 0 THEN -1 ELSE IF n > 0 THEN 1 ELSE 0

Order(n) == [ok |-> TRUE, sign |-> Sign(n)]

NoOrder == [ok |-> FALSE, sign |-> 0]

Differences(s, t) == {i \in DOMAIN s \cap DOMAIN t : s[i] # t[i]}

(* The first difference decides, if both runs are of one kind; of two that  *)
(* do not differ the shorter is the earlier release.                        *)
CompareTokens(s, t) ==
  LET D == Differences(s, t)
      i == Min(D)
  IN  IF D = {} THEN Order(Len(s) - Len(t))
      ELSE IF s[i].kind # t[i].kind THEN NoOrder
      ELSE Order(s[i].val - t[i].val)

CompareGeneric(s, t) ==
  IF s = <<>> \/ t = <<>> THEN NoOrder ELSE CompareTokens(s, t)

(* ABB and Hitachi Energy: R15A, R16B_PC4, 15A.  The whole string must be   *)
(* in the scheme, which needs the R or a revision letter.                   *)
Bare(s) == IF s # <<>> /\ s[1] = Alpha("r") THEN Tail(s) ELSE s

HasRevision(bare) == Len(bare) > 1 /\ bare[2].kind = "alpha" /\ bare[2] # Alpha("pc")

IsPatch(s) == s = <<>> \/ (Len(s) = 2 /\ s[1] = Alpha("pc") /\ s[2].kind = "number")

InABB(s) ==
  LET bare == Bare(s)
  IN  /\ bare # <<>> /\ bare[1].kind = "number"
      /\ IsPatch(SubSeq(bare, IF HasRevision(bare) THEN 3 ELSE 2, Len(bare)))
      /\ bare # s \/ HasRevision(bare)

ReadABB(bare) ==
  LET n == Len(bare)
  IN  [release |-> bare[1].val,
       rev     |-> IF HasRevision(bare) THEN bare[2].val ELSE 0,
       patch   |-> IF n > 2 /\ bare[n - 1] = Alpha("pc") THEN bare[n].val ELSE 0]

OrderABB(a, b) ==
  IF a.release # b.release THEN Order(a.release - b.release)
  ELSE IF a.rev # b.rev THEN Order(a.rev - b.rev)
  ELSE Order(a.patch - b.patch)

CompareABB(s, t) ==
  IF InABB(s) /\ InABB(t) THEN OrderABB(ReadABB(Bare(s)), ReadABB(Bare(t)))
  ELSE CompareGeneric(s, t)

(* Siemens: a dotted version, then counters in any order, of which service  *)
(* pack and update are read, the last one of each.                          *)
Dotted(s) ==
  LET A == {i \in DOMAIN s : s[i].kind # "number"}
  IN  IF A = {} THEN s ELSE SubSeq(s, 1, Min(A) - 1)

Counter(s, label) ==
  LET P == {i \in DOMAIN s : s[i] = Alpha(label)}
      i == Max(P)
  IN  IF P = {} \/ i = Len(s) THEN 0
      ELSE IF s[i + 1].kind = "number" THEN s[i + 1].val ELSE 0

CompareSiemens(s, t) ==
  LET a == Dotted(s)
      b == Dotted(t)
      c == CompareTokens(a, b)
  IN  IF a = <<>> \/ b = <<>> THEN CompareGeneric(s, t)
      ELSE IF c.sign # 0 THEN c
      ELSE IF Counter(s, "sp") # Counter(t, "sp")
           THEN Order(Counter(s, "sp") - Counter(t, "sp"))
      ELSE Order(Counter(s, "update") - Counter(t, "update"))

(* Rockwell falls back to the generic comparator, which compares the same   *)
(* tokens the same way.                                                     *)
CompareRockwell(s, t) == CompareGeneric(s, t)

(* ComparatorFor: a scheme nobody knows is compared as generic. *)
Compare(scheme, s, t) ==
  CASE scheme = "abb"      -> CompareABB(s, t)
    [] scheme = "siemens"  -> CompareSiemens(s, t)
    [] scheme = "rockwell" -> CompareRockwell(s, t)
    [] OTHER               -> CompareGeneric(s, t)
=============================================================================

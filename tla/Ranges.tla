------------------------------- MODULE Ranges -------------------------------
(***************************************************************************)
(* Version ranges: what ParseConstraint makes of a statement and how a     *)
(* version is held against it (internal/normalize/constraint.go, vers.go). *)
(*                                                                         *)
(* A statement is a sequence of pieces, each a kind with the tokens of a   *)
(* version (none for a phrase).  A version written in several words is a   *)
(* "version" piece followed by "counter" pieces: V4.5 SP2 Update 3.        *)
(***************************************************************************)
EXTENDS Versions

Piece(kind) == [kind |-> kind, tokens |-> NoVersion]
Written(tokens) == [kind |-> "version", tokens |-> tokens]
CounterWord(tokens) == [kind |-> "counter", tokens |-> tokens]
Line(tokens) == [kind |-> "line", tokens |-> tokens]

Operators == {"<", "<=", ">", ">=", "="}

(* The phrases of the five rules; those of one rule that the parser treats  *)
(* alike have one representative.                                           *)
UpperExclusiveAfter  == <<"up to but not including", "prior to", "before">>
UpperInclusiveAfter  == <<"up to and including", "through", "up to">>
UpperInclusiveBefore == <<"and prior", "or earlier">>
LowerExclusiveAfter  == <<"after">>
LowerInclusiveBefore == <<"and later", "or later">>

(* The separators of constraintFromRangePhrase, in its order, and the       *)
(* phrases that contain each of them.                                       *)
RangeSeparators == <<"to", "through", "until", "and", "-">>

ContainsSeparator(kind, sep) ==
  \/ kind = sep
  \/ sep = "to" /\ kind \in {"prior to", "up to", "up to and including",
                             "up to but not including"}
  \/ sep = "and" /\ kind \in {"and prior", "and later", "up to and including"}

Constraint(kind, lower, lowerIncl, upper, upperIncl) ==
  [kind |-> kind, lower |-> lower, lowerIncl |-> lowerIncl,
   upper |-> upper, upperIncl |-> upperIncl]

Unbounded(kind) == Constraint(kind, NoVersion, FALSE, NoVersion, FALSE)
AnyVersion == Unbounded("all")
Unreadable == Unbounded("unknown")
Exactly(v) == Constraint("eq", v, TRUE, v, TRUE)
Below(v) == Constraint("lt", NoVersion, FALSE, v, FALSE)
UpTo(v) == Constraint("lte", NoVersion, FALSE, v, TRUE)
Above(v) == Constraint("gt", v, FALSE, NoVersion, FALSE)
From(v) == Constraint("gte", v, TRUE, NoVersion, FALSE)
Within(v, vIncl, w, wIncl) == Constraint("between", v, vIncl, w, wIncl)
ReleaseLine(v) == Constraint("prefix", v, FALSE, NoVersion, FALSE)

-----------------------------------------------------------------------------
Positions(s, kinds) == {i \in DOMAIN s : s[i].kind \in kinds}

(* What versionToken finds: a version up to its first space, and every      *)
(* counter that has a digit of its own.                                     *)
Tokens(s) == Positions(s, {"version", "line", "counter"})

(* operatorPair: the operators with a version after them.                   *)
Pairs(s) ==
  LET P == {i \in Positions(s, Operators) : i + 1 \in Positions(s, {"version", "line"})}
  IN  [k \in 1 .. Cardinality(P) |->
         LET i == SetToSortSeq(P, <)[k]
         IN  [op |-> s[i].kind, version |-> s[i + 1].tokens]]

(* constraintFromOperators: the last operator of a side wins.               *)
FromPairs(pairs) ==
  LET lowers == SelectSeq(pairs, LAMBDA p : p.op \in {">", ">=", "="})
      uppers == SelectSeq(pairs, LAMBDA p : p.op \in {"<", "<=", "="})
      lo == Last(lowers)
      up == Last(uppers)
      loIncl == lo.op # ">"
      upIncl == up.op # "<"
  IN  IF lowers = <<>> THEN IF upIncl THEN UpTo(up.version) ELSE Below(up.version)
      ELSE IF uppers = <<>> THEN IF loIncl THEN From(lo.version) ELSE Above(lo.version)
      ELSE IF lo.version = up.version /\ loIncl /\ upIncl THEN Exactly(lo.version)
      ELSE Within(lo.version, loIncl, up.version, upIncl)

(* parseVERS: the pieces after the scheme are operators with versions; a    *)
(* version without an operator has "=" put before it.  Two constraints are  *)
(* a range, whichever side each bounds; more are not held.                  *)
FromVERS(pairs) ==
  LET uppers == SelectSeq(pairs, LAMBDA p : p.op \in {"<", "<="})
      lowers == SelectSeq(pairs, LAMBDA p : p.op \in {">", ">="})
  IN  CASE Len(pairs) = 1 -> IF pairs[1].op = "!=" THEN Unreadable ELSE FromPairs(pairs)
        [] Len(pairs) = 2 /\ Len(uppers) = 1 /\ Len(lowers) = 1 ->
             Within(lowers[1].version, lowers[1].op = ">=",
                    uppers[1].version, uppers[1].op = "<=")
        [] OTHER -> Unreadable

ParseVERS(s) ==
  LET P == SetToSortSeq(Positions(s, Operators \cup {"!="}), <)
  IN  IF s = <<Piece("*")>> THEN AnyVersion
      ELSE IF s = <<>> THEN Unreadable
      ELSE FromVERS([k \in DOMAIN P |-> [op |-> s[P[k]].kind, version |-> s[P[k] + 1].tokens]])

(* constraintFromRangePhrase: the first separator of the list with a        *)
(* version on either side, the left one below the right one.                *)
RangeAt(s, sep) ==
  LET S == {i \in DOMAIN s : ContainsSeparator(s[i].kind, sep)}
      i == Min(S)
      left == {j \in Tokens(s) : j < i}
      right == {j \in Tokens(s) : j > i}
      a == s[Max(left)].tokens
      b == s[Min(right)].tokens
      c == CompareGeneric(a, b)
  IN  IF S = {} \/ left = {} \/ right = {} THEN NoVersion
      ELSE IF a # b /\ c.ok /\ c.sign < 0 THEN <<a, b>> ELSE NoVersion

RangePhrase(s) ==
  SelectInSeq(RangeSeparators, LAMBDA sep : RangeAt(s, sep) # NoVersion)

(* versionAfterPhrase and versionBeforePhrase, for the first phrase of a    *)
(* rule that has a version on its side.                                     *)
PhraseAt(s, phrase) == Min(Positions(s, {phrase}))

AfterPhrase(s, rule) ==
  LET hit == SelectInSeq(rule, LAMBDA p :
               /\ Positions(s, {p}) # {}
               /\ \E j \in Tokens(s) : j > PhraseAt(s, p))
  IN  IF hit = 0 THEN NoVersion
      ELSE s[Min({j \in Tokens(s) : j > PhraseAt(s, rule[hit])})].tokens

BeforePhrase(s, rule) ==
  LET hit == SelectInSeq(rule, LAMBDA p :
               /\ Positions(s, {p}) # {}
               /\ \E j \in Tokens(s) : j < PhraseAt(s, p))
  IN  IF hit = 0 THEN NoVersion
      ELSE s[Max({j \in Tokens(s) : j < PhraseAt(s, rule[hit])})].tokens

(* The rules of ParseConstraint for a statement in prose, in their order.   *)
FromPhrases(s) ==
  IF RangePhrase(s) # 0
  THEN LET r == RangeAt(s, RangeSeparators[RangePhrase(s)]) IN Within(r[1], TRUE, r[2], TRUE)
  ELSE IF AfterPhrase(s, UpperExclusiveAfter) # NoVersion
  THEN Below(AfterPhrase(s, UpperExclusiveAfter))
  ELSE IF AfterPhrase(s, LowerExclusiveAfter) # NoVersion
  THEN Above(AfterPhrase(s, LowerExclusiveAfter))
  ELSE IF AfterPhrase(s, UpperInclusiveAfter) # NoVersion
  THEN UpTo(AfterPhrase(s, UpperInclusiveAfter))
  ELSE IF BeforePhrase(s, UpperInclusiveBefore) # NoVersion
  THEN UpTo(BeforePhrase(s, UpperInclusiveBefore))
  ELSE IF BeforePhrase(s, LowerInclusiveBefore) # NoVersion
  THEN From(BeforePhrase(s, LowerInclusiveBefore))
  ELSE IF Len(s) = 1 THEN Exactly(s[1].tokens)
  ELSE Unreadable

ParseConstraint(s) ==
  IF s = <<>> THEN Unreadable
  ELSE IF s[1].kind = "vers:" THEN ParseVERS(Tail(s))
  ELSE IF Pairs(s) # <<>> THEN FromPairs(Pairs(s))
  ELSE IF Len(s) = 1 /\ s[1].kind = "line" THEN ReleaseLine(s[1].tokens)
  ELSE IF Tokens(s) = {} THEN IF Positions(s, {"all versions", "*"}) # {} THEN AnyVersion ELSE Unreadable
  ELSE FromPhrases(s)

-----------------------------------------------------------------------------
(* A verdict has three values: what cannot be ordered is neither affected   *)
(* nor safe.                                                                *)
HasPrefix(version, prefix) == prefix # <<>> /\ IsPrefix(prefix, version)

(* The order of a version and a bound, as one comparator reads it.          *)
Against(version, bound, scheme) ==
  IF bound = NoVersion THEN [ok |-> TRUE, sign |-> 0] ELSE Compare(scheme, version, bound)

IsAbove_Exclusive(c, order) == order.sign > 0 \/ (order.sign = 0 /\ c.upper # NoVersion)
IsBelow(c, order) == order.sign < 0 \/ (order.sign = 0 /\ c.lower # NoVersion /\ ~ c.lowerIncl)
IsAbove(c, order) == order.sign > 0 \/ (order.sign = 0 /\ c.upper # NoVersion /\ ~ c.upperIncl)

(* evaluateRange, by the order of the version and each bound.               *)
EvaluateRange(c, lo, up) ==
  IF ~ lo.ok THEN "indeterminate"
  ELSE IF IsBelow(c, lo) THEN "not_affected"
  ELSE IF ~ up.ok THEN "indeterminate"
  ELSE IF IsAbove(c, up) THEN "not_affected"
  ELSE "affected"

Evaluate(c, version, scheme) ==
  IF c.kind = "all" THEN "affected"
  ELSE IF version = NoVersion \/ c.kind = "unknown" THEN "indeterminate"
  ELSE IF c.kind = "prefix" THEN IF HasPrefix(version, c.lower) THEN "affected" ELSE "not_affected"
  ELSE EvaluateRange(c, Against(version, c.lower, scheme), Against(version, c.upper, scheme))
=============================================================================

------------------------------ MODULE DenyList ------------------------------
(***************************************************************************)
(* Device identities and the fragile device deny list                      *)
(* (internal/asset/asset.go, internal/safety/denylist.go).                 *)
(*                                                                         *)
(* An identity is a function from the fields a rule may name to what is    *)
(* known of each.  A rule names values for some fields and may be narrowed *)
(* to templates or protocols.  The case folding and the substring test of  *)
(* the code are abstracted to equality of values: two spellings the code   *)
(* takes for the same text are one value here.                             *)
(***************************************************************************)

CONSTANTS
  Fields,       \* the identity fields a rule may name: vendor, family, product
  Values,       \* the texts a field may hold
  None,         \* the empty string
  Templates,
  Protocols

ASSUME NoneAssumption == None \notin Values

Texts == Values \cup {None}

Identity == [Fields -> Texts]

Rule == [want : Identity, templates : SUBSET Templates, protocols : SUBSET Protocols]

Blank == [f \in Fields |-> None]

Merge_Latest(mine, other) == other

(* Identity.Merge: a field that already holds something keeps it. *)
Merge(mine, other) ==
  [f \in Fields |-> IF mine[f] = None THEN other[f] ELSE mine[f]]

(* Identity.Empty *)
Empty(identity) == \A f \in Fields : identity[f] = None

(* ParseDenyList refuses a rule that names no field at all. *)
ValidRule(rule) == rule.want # Blank

Narrow(rule) == rule.templates # {} \/ rule.protocols # {}

(* DenyRule.matches *)
Matches(rule, identity, ex) ==
  /\ ~ Empty(identity)
  /\ \A f \in Fields : rule.want[f] # None => identity[f] = rule.want[f]
  /\ Narrow(rule) => ex.template \in rule.templates \/ ex.protocol \in rule.protocols

(* DenyList.Check: some rule forbids the exchange. *)
Denied(rules, identity, ex) == \E rule \in rules : Matches(rule, identity, ex)

(* What a reply disclosing the fields F of a device tells of it. *)
Told(device, F) == [f \in Fields |-> IF f \in F THEN device[f] ELSE None]
=============================================================================

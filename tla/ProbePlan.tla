----------------------------- MODULE ProbePlan ------------------------------
(***************************************************************************)
(* From what the operator typed to the exchanges of a run, and from the    *)
(* replies to an inventory (internal/probe/target.go, plan.go).            *)
(*                                                                         *)
(* A target is [form, from, to, bits]: "one" address, a "range" or a       *)
(* "prefix" of 2^bits addresses that starts at from; any other form, a     *)
(* host name for one, is refused.  A template is [id, protocol,            *)
(* port, transport].                                                       *)
(***************************************************************************)
EXTENDS ScanLogs

CONSTANTS
  MaxTargets

Refused == [ok |-> FALSE, addresses |-> {}]

Accepted(addresses) == [ok |-> TRUE, addresses |-> addresses]

IsIPv6(ip) == ip \in IPv6Addresses

(* expandPrefix: too wide is refused, not cut short; the two ends of an     *)
(* IPv4 network are not devices unless they are all there is.               *)
ExpandPrefix(spec) ==
  LET last == spec.from + 2 ^ spec.bits - 1
  IN  IF 2 ^ spec.bits > MaxTargets THEN Refused
      ELSE IF ~ IsIPv6(spec.from) /\ spec.bits >= 2 THEN Accepted(spec.from + 1 .. last - 1)
      ELSE Accepted(spec.from .. last)

(* expandRange: first and last of one family, in order.                     *)
ExpandRange(spec) ==
  IF \/ IsIPv6(spec.from) # IsIPv6(spec.to)
     \/ spec.to < spec.from
     \/ spec.to - spec.from > MaxTargets
  THEN Refused ELSE Accepted(spec.from .. spec.to)

ExpandOne(spec) ==
  CASE spec.form = "one" -> Accepted({spec.from})
    [] spec.form = "range" -> ExpandRange(spec)
    [] spec.form = "prefix" -> ExpandPrefix(spec)
    [] OTHER -> Refused

(* ExpandTargets: each address once, in order; one bad target or too many   *)
(* addresses refuse the whole.                                              *)
ExpandTargets(specs) ==
  LET expanded == [i \in DOMAIN specs |-> ExpandOne(specs[i])]
      all == UNION {expanded[i].addresses : i \in DOMAIN specs}
  IN  IF \/ \E i \in DOMAIN specs : ~ expanded[i].ok
         \/ all = {} \/ Cardinality(all) > MaxTargets
      THEN <<>> ELSE InOrder(all, <)

-----------------------------------------------------------------------------
(* knownOpen. *)
KnownOpen(assets, host, template) ==
  \E a \in ToSet(assets) :
    /\ host \in {a.addr.v4, a.addr.v6}
    /\ \E s \in ToSet(a.services) : s.port = template.port /\ s.transport = template.transport

(* BuildPlan: target by target, every template of one before the next.  The *)
(* port asked for replaces that of each template; an empty plan is refused. *)
Addressed(templates, port) ==
  [i \in DOMAIN templates |-> IF port = 0 THEN templates[i] ELSE [templates[i] EXCEPT !.port = port]]

AddExchange(plan, host, template, onlyKnownPorts, assets) ==
  IF onlyKnownPorts => KnownOpen(assets, host, template)
  THEN Append(plan, [host |-> host, template |-> template]) ELSE plan

AddTarget(plan, host, templates, onlyKnownPorts, assets) ==
  FoldLeft(LAMBDA p, template : AddExchange(p, host, template, onlyKnownPorts, assets),
           plan, templates)

BuildPlan(hosts, templates, port, onlyKnownPorts, assets) ==
  FoldLeft(LAMBDA p, host : AddTarget(p, host, Addressed(templates, port), onlyKnownPorts, assets),
           <<>>, hosts)

-----------------------------------------------------------------------------
(* Interpreter.Interpret: a reply in another protocol is kept, and nothing  *)
(* read from it.  One that was cut short is in the protocol all the same    *)
(* (what was read before the cut is left out).                              *)
Interpret(template, bytes) ==
  LET decoded == Decoder(template.protocol, bytes)
      Nothing(protocol) == [verdict |-> decoded.verdict, protocol |-> protocol, fields |-> {},
                            identity |-> <<>>, role |-> ""]
  IN  CASE decoded = NotThis -> Nothing("")
        [] decoded = Truncated -> Nothing(template.protocol)
        [] OTHER -> decoded

(* BuildInventory: an observation for each reply, [host, template, reply],  *)
(* reply as decoded.  A service is recorded only when the answer was in a   *)
(* protocol the decoder knows.                                              *)
Recorded(assets, observation) ==
  LET reply == observation.reply
      service == [port |-> observation.template.port, transport |-> observation.template.transport,
                  protocol |-> reply.protocol, banner |-> Unsaid, source |-> "probe"]
      Change(asset) ==
        LET named == SetRole(Identify(asset, reply.identity), reply.role)
            served == IF reply.protocol = "" THEN named ELSE AddService(named, service)
        IN  AddEvidence(served, Evidence("probe", reply.protocol,
                          <<observation.host, service.port, service.transport>>, reply.fields))
  IN  Update(assets, AddressesFor(observation.host), Change)

BuildInventory(observations) == Finalize(FoldLeft(Recorded, <<>>, observations), <<>>).assets
=============================================================================

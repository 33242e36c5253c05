----------------------------- MODULE Inventory ------------------------------
(***************************************************************************)
(* The inventory (internal/asset): which asset an address stands for, what *)
(* an asset accumulates, the role and level read off its services, and the *)
(* conversations graded by the levels of their two ends.                   *)
(*                                                                         *)
(* Addresses and ports are numbers, 0 for none; a name or a value is a     *)
(* sequence of words, empty for none.  Times are left out.                 *)
(***************************************************************************)
EXTENDS Integers, SequencesExt, FiniteSetsExt

CONSTANTS
  Signatures  \* portSignatures: the [role, protocol, weight] of a port

NoAddress == 0
Unsaid == <<>>

Hardware(mac) == [v4 |-> NoAddress, v6 |-> NoAddress, mac |-> mac, name |-> Unsaid]

KeepName(old, new) == IF old = Unsaid THEN new ELSE old

KeepAddress(old, new) == IF old = NoAddress THEN new ELSE old

(* The members of a set, each after those before it.                        *)
InOrder(S, Below(_, _)) ==
  [k \in 1 .. Cardinality(S) |->
     CHOOSE x \in S : Cardinality({y \in S : Below(y, x)}) = k - 1]

(* The raw and the normalized form of a field are filled together.          *)
IdentityFields == {"vendor", "product", "model", "firmware", "serial", "catalog", "hardware"}

Nobody == [f \in IdentityFields |-> Unsaid]

(* Identity.Merge and the setters of the builder: only what is empty.       *)
MergeIdentity_Last(id, other) ==
  [f \in IdentityFields |-> IF f \in DOMAIN other THEN KeepName(other[f], id[f]) ELSE id[f]]

MergeIdentity(id, other) ==
  [f \in IdentityFields |-> IF f \in DOMAIN other THEN KeepName(id[f], other[f]) ELSE id[f]]

(* NewID hashes the three addresses the asset was first seen with.          *)
NewID(addr) == <<addr.v4, addr.v6, addr.mac>>

Primary(addr) == FoldLeft(KeepAddress, NoAddress, NewID(addr))

NewAsset(addr) ==
  [id |-> NewID(addr), addr |-> addr, identity |-> Nobody, role |-> "", purdue |-> "",
   services |-> <<>>, evidence |-> <<>>]

-----------------------------------------------------------------------------
(* Inventory.ByAddress: the id, else the first asset that has the IPv4 or   *)
(* the hardware address; 0 when there is none.                              *)
Shares(a, addr) ==
  \/ addr.v4 # NoAddress /\ a.addr.v4 = addr.v4
  \/ addr.mac # NoAddress /\ a.addr.mac = addr.mac

ByAddress_AddressOnly(assets, addr) == SelectInSeq(assets, LAMBDA a : Shares(a, addr))

ByAddress(assets, addr) ==
  LET exact == SelectInSeq(assets, LAMBDA a : a.id = NewID(addr))
  IN  IF exact # 0 THEN exact ELSE SelectInSeq(assets, LAMBDA a : Shares(a, addr))

FillAddresses(old, new) ==
  [v4 |-> KeepAddress(old.v4, new.v4), v6 |-> KeepAddress(old.v6, new.v6),
   mac |-> KeepAddress(old.mac, new.mac), name |-> KeepName(old.name, new.name)]

(* sink.device: the asset of an address, added on first sight.              *)
Device(assets, addr) ==
  LET at == ByAddress(assets, addr)
  IN  IF at = 0 THEN Append(assets, NewAsset(addr))
      ELSE [assets EXCEPT ![at].addr = FillAddresses(@, addr)]

(* The inventory with the asset of addr changed. *)
Update(assets, addr, Change(_)) ==
  LET known == Device(assets, addr)
  IN  [known EXCEPT ![ByAddress(known, addr)] = Change(@)]

(* What an entry does not say yet. *)
Filled(service, told) ==
  [service EXCEPT !.protocol = IF @ = "" THEN told.protocol ELSE @,
                  !.banner = KeepName(@, told.banner)]

(* Asset.AddService: one entry for a port and transport. *)
AddService(asset, service) ==
  LET at == SelectInSeq(asset.services, LAMBDA s :
              s.port = service.port /\ s.transport = service.transport)
  IN  IF at = 0 THEN [asset EXCEPT !.services = Append(@, service)]
      ELSE [asset EXCEPT !.services[at] = Filled(@, service)]

AddEvidence(asset, evidence) == [asset EXCEPT !.evidence = Append(@, evidence)]

SetRole(asset, role) == IF asset.role = "" THEN [asset EXCEPT !.role = role] ELSE asset

Identify(asset, identity) == [asset EXCEPT !.identity = MergeIdentity(@, identity)]

(* Asset.Merge and Inventory.Upsert, which looks the id up and nothing else. *)
MergeAsset(asset, other) ==
  LET named == [Identify(asset, other.identity) EXCEPT
                  !.addr = FillAddresses(@, other.addr),
                  !.purdue = IF @ = "" THEN other.purdue ELSE @]
      served == FoldLeft(AddService, SetRole(named, other.role), other.services)
  IN  FoldLeft(AddEvidence, served, other.evidence)

Upsert(assets, asset) ==
  LET at == SelectInSeq(assets, LAMBDA a : a.id = asset.id)
  IN  IF at = 0 THEN Append(assets, asset) ELSE [assets EXCEPT ![at] = MergeAsset(@, asset)]

Merge(assets, others) == FoldLeft(Upsert, assets, others)

-----------------------------------------------------------------------------
(* Classification. *)
ProtocolForPort(port) == IF port \in DOMAIN Signatures THEN Signatures[port].protocol ELSE ""

DefaultPurdue(role) ==
  CASE role \in {"plc", "rtu", "ied"} -> "L1"
    [] role \in {"hmi", "building-controller", "network-device"} -> "L2"
    [] role \in {"historian", "engineering-workstation", "opc-server"} -> "L3"
    [] role \in {"server", "workstation"} -> "L4"
    [] OTHER -> ""

(* The strongest port on which nothing else was seen; what is set stays.    *)
Classify(asset) ==
  LET Agrees(s) == /\ s.port \in DOMAIN Signatures
                   /\ s.protocol \in {"", Signatures[s.port].protocol}
      best == FoldLeft(LAMBDA b, s :
                IF b = 0 \/ Signatures[s.port].weight > Signatures[b].weight THEN s.port ELSE b,
                0, SelectSeq(asset.services, Agrees))
      role == IF asset.role = "" THEN Signatures[best].role ELSE asset.role
  IN  IF best = 0 THEN asset
      ELSE [asset EXCEPT !.role = role,
                         !.purdue = IF @ = "" THEN DefaultPurdue(role) ELSE @]

(* MergeFlows: one record for each key, counters added up.                  *)
FlowKey(flow) == <<flow.src, flow.dst, flow.port, flow.transport>>

MergeFlow(flows, flow) ==
  LET at == SelectInSeq(flows, LAMBDA f : FlowKey(f) = FlowKey(flow))
  IN  IF at = 0 THEN Append(flows, flow)
      ELSE [flows EXCEPT ![at].packets = @ + flow.packets,
                         ![at].protocol = IF @ = "" THEN flow.protocol ELSE @]

(* compareAssets: those with an IPv4 address first, in its order.           *)
Before(a, b) ==
  LET has == a.addr.v4 # NoAddress
      other == b.addr.v4 # NoAddress
  IN  CASE has /\ other /\ a.addr.v4 # b.addr.v4 -> a.addr.v4 < b.addr.v4
        [] has # other -> has
        [] OTHER -> Primary(a.addr) < Primary(b.addr)

(* sort.SliceStable: an asset goes before the first that must follow it.    *)
Insert(sorted, asset) ==
  LET at == SelectInSeq(sorted, LAMBDA a : Before(asset, a))
  IN  IF at = 0 THEN Append(sorted, asset) ELSE InsertAt(sorted, at, asset)

Sorted(assets) == FoldLeft(Insert, <<>>, assets)

Finalize(assets, flows) ==
  [assets |-> Sorted([i \in DOMAIN assets |-> Classify(assets[i])]),
   flows |-> FoldLeft(MergeFlow, <<>>, flows)]

-----------------------------------------------------------------------------
(* Segmentation. *)
Levels == <<"L0", "L1", "L2", "L3", "L3.5", "L4", "L5">>

Rank(level) == SelectInSeq(Levels, LAMBDA l : l = level)

Enterprise == {"L4", "L5"}
Control == {"L0", "L1"}

GradeFlow(src, dst, port) ==
  LET lower == IF Rank(src) > Rank(dst) THEN dst ELSE src
      upper == IF Rank(src) > Rank(dst) THEN src ELSE dst
  IN  CASE src = dst -> ""
        [] upper \in Enterprise /\ lower \in Control -> "critical"
        [] upper \in Enterprise /\ lower = "L2" -> "high"
        [] upper = "L3" /\ lower \in Control /\ dst \in Control /\ ProtocolForPort(port) # "" -> "info"
        [] upper \in Enterprise /\ lower = "L3" -> "medium"
        [] OTHER -> ""

(* AnalyzeSegmentation: a flow whose ends are not both placed is skipped.   *)
LevelOf(assets, id) ==
  LET at == SelectInSeq(assets, LAMBDA a : a.id = id)
  IN  IF at = 0 THEN "" ELSE assets[at].purdue

AnalyzeSegmentation(assets, flows) ==
  {f \in ToSet(flows) :
     LET src == LevelOf(assets, f.srcAsset)
         dst == LevelOf(assets, f.dstAsset)
     IN  src # "" /\ dst # "" /\ GradeFlow(src, dst, f.port) # ""}
=============================================================================

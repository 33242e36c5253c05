-------------------------- MODULE Discovery_proofs --------------------------
(***************************************************************************)
(* What holds of the inventory for any captures, scans, logs and answers,  *)
(* in any number: an asset is in it once, however many commands named,     *)
(* changed and merged it, and what one capture may hold stays bounded; an  *)
(* asset is of one device and says of it what is true; both ends of each   *)
(* conversation are in the file; and a service is there, is probed and is  *)
(* found only where it was seen, or answered.                              *)
(*                                                                         *)
(* The invariants build on each other: IInv, of the shapes of things; TInv,*)
(* of whose they are; HInv, of what was heard and is served; and PInv, of  *)
(* what is planned and found.  Evidence_proofs adds EInv, of what has been *)
(* said.                                                                   *)
(***************************************************************************)
EXTENDS Discovery, Counting_proofs

-----------------------------------------------------------------------------
(* The inductive invariant. *)

IsAsset(a) ==
  /\ a = [id |-> a.id, addr |-> a.addr, identity |-> a.identity, role |-> a.role,
          purdue |-> a.purdue, services |-> a.services, evidence |-> a.evidence]
  /\ IsList(a.services) /\ IsList(a.evidence)

IsInventory(known) ==
  /\ IsList(known)
  /\ \A i \in DOMAIN known : IsAsset(known[i])
  /\ \A i, j \in DOMAIN known : known[i].id = known[j].id => i = j

IsPass(p) ==
  /\ p = [flows |-> p.flows, buffers |-> p.buffers, identified |-> p.identified,
          open |-> p.open, services |-> p.services]
  /\ \A service \in DOMAIN p.buffers : Len(p.buffers[service]) < MaxFlowBuffer
  /\ IsFiniteSet(DOMAIN p.flows) /\ Cardinality(DOMAIN p.flows) <= MaxTrackedFlows

(* What is left to read is what is left of a command that was given. *)
IsLeft(l) ==
  /\ l = [captures |-> l.captures, hosts |-> l.hosts, logs |-> l.logs]
  /\ IsScan(l.hosts) /\ AreLogs(l.logs)

Staged ==
  /\ stage \in {"read", "replay", "write", "plan", "probe", "done"}
  /\ commands \in Commands /\ command \in 1 .. Len(commands)
  /\ stage \in {"replay", "write"} => left.captures # <<>>
  /\ stage = "read" => pass = NewPass

IInv ==
  /\ Staged
  /\ IsLeft(left)
  /\ IsPass(pass)
  /\ IsInventory(assets) /\ IsInventory(saved.assets) /\ IsInventory(probed)
  /\ IsList(plan)

-----------------------------------------------------------------------------
(* Lists. *)

(* A list of members of any set is a list, and has places 1 to its length. *)
LEMMA ListOf ==
  ASSUME NEW S, NEW s \in Seq(S)
  PROVE  IsList(s) /\ Len(s) \in Nat /\ DOMAIN s = 1 .. Len(s)
  BY DEF IsList, ToSet

(* A list is one of its own members, and has a length. *)
LEMMA ListHas ==
  ASSUME NEW s, IsList(s)
  PROVE  /\ s \in Seq(ToSet(s)) /\ Len(s) \in Nat /\ DOMAIN s = 1 .. Len(s)
         /\ \A i \in DOMAIN s : s[i] \in ToSet(s)
  BY DEF IsList, ToSet

(* The places of a function from 1 on make it a list. *)
LEMMA ListFrom ==
  ASSUME NEW n \in Nat, NEW s, s = [i \in 1 .. n |-> s[i]]
  PROVE  IsList(s) /\ Len(s) = n
<1>1. s \in Seq({s[i] : i \in 1 .. n}) /\ Len(s) = n
  OBVIOUS
<1> QED
  BY <1>1, ListOf

(* The empty list is a list. *)
LEMMA NoneIsList == IsList(<<>>) /\ DOMAIN <<>> = {}
<1>1. <<>> \in Seq({}) /\ Len(<<>>) = 0 /\ DOMAIN <<>> = {}
  OBVIOUS
<1>2. IsList(<<>>)
  BY <1>1, ListOf, Zenon
<1> QED
  BY <1>1, <1>2

(* A list with one more member is a list: the old ones and the new one. *)
LEMMA AppendIsList ==
  ASSUME NEW s, IsList(s), NEW x
  PROVE  /\ IsList(Append(s, x))
         /\ DOMAIN Append(s, x) = 1 .. Len(s) + 1
         /\ \A i \in DOMAIN s : Append(s, x)[i] = s[i]
         /\ Append(s, x)[Len(s) + 1] = x
<1> DEFINE S == ToSet(s) \cup {x}
<1>1. s \in Seq(S) /\ Len(s) \in Nat
  <2>1. \A i \in 1 .. Len(s) : s[i] \in S
    BY ListHas
  <2> QED
    BY <2>1, ListHas
<1>2. Append(s, x) \in Seq(S)
  <2> HIDE DEF S
  <2>1. x \in S
    BY DEF S
  <2> QED
    BY <1>1, <2>1
<1> HIDE DEF S
<1>3. /\ Len(Append(s, x)) = Len(s) + 1
      /\ \A i \in 1 .. Len(s) : Append(s, x)[i] = s[i]
      /\ Append(s, x)[Len(s) + 1] = x
  BY <1>1
<1>4. IsList(Append(s, x)) /\ DOMAIN Append(s, x) = 1 .. Len(s) + 1 /\ DOMAIN s = 1 .. Len(s)
  BY <1>1, <1>2, <1>3, ListOf
<1> QED
  BY <1>3, <1>4

(* A list with one member changed is a list. *)
LEMMA ChangeIsList ==
  ASSUME NEW s, IsList(s), NEW k, NEW x
  PROVE  LET t == [s EXCEPT ![k] = x]
         IN  /\ IsList(t) /\ DOMAIN t = DOMAIN s /\ Len(t) = Len(s)
             /\ \A i \in DOMAIN s : t[i] = IF i = k THEN x ELSE s[i]
<1> DEFINE t == [s EXCEPT ![k] = x]
<1>1. DOMAIN t = 1 .. Len(s) /\ DOMAIN s = 1 .. Len(s) /\ Len(s) \in Nat
  BY ListHas
<1>2. t = [i \in 1 .. Len(s) |-> t[i]]
  BY <1>1
<1>3. IsList(t) /\ Len(t) = Len(s)
  <2> HIDE DEF t
  <2> QED
    BY <1>1, <1>2, ListFrom
<1> QED
  BY <1>1, <1>3

(* What is left of a list after its head. *)
LEMMA TailIsList ==
  ASSUME NEW s, IsList(s), s # <<>>
  PROVE  /\ IsList(Tail(s)) /\ 1 \in DOMAIN s /\ Head(s) = s[1]
         /\ \A i \in DOMAIN Tail(s) : i + 1 \in DOMAIN s /\ Tail(s)[i] = s[i + 1]
<1>1. s \in Seq(ToSet(s)) /\ DOMAIN s = 1 .. Len(s)
  BY ListHas
<1>2. Tail(s) \in Seq(ToSet(s)) /\ Len(Tail(s)) = Len(s) - 1 /\ Len(s) \in Nat \ {0}
  BY <1>1
<1>3. IsList(Tail(s)) /\ DOMAIN Tail(s) = 1 .. Len(s) - 1
  BY <1>2, ListOf
<1> QED
  BY <1>1, <1>2, <1>3

-----------------------------------------------------------------------------
(* One asset of the inventory, added or changed. *)

(* An asset that is new to the inventory may be added. *)
LEMMA AssetAdded ==
  ASSUME NEW known, IsInventory(known), NEW a, IsAsset(a),
         \A i \in DOMAIN known : known[i].id # a.id
  PROVE  IsInventory(Append(known, a))
<1> DEFINE more == Append(known, a)
<1>1. /\ IsList(more) /\ DOMAIN known = 1 .. Len(known) /\ Len(known) \in Nat
      /\ DOMAIN more = 1 .. Len(known) + 1
      /\ \A i \in DOMAIN known : more[i] = known[i]
      /\ more[Len(known) + 1] = a
  BY AppendIsList, ListHas DEF IsInventory
<1> HIDE DEF more
<1>2. \A i \in DOMAIN more : IsAsset(more[i])
  <2> TAKE i \in DOMAIN more
  <2>1. i \in DOMAIN known \/ i = Len(known) + 1
    BY <1>1
  <2> QED
    BY <1>1, <2>1 DEF IsInventory
<1>3. ASSUME NEW i \in DOMAIN more, NEW j \in DOMAIN more, more[i].id = more[j].id
      PROVE  i = j
  <2>1. /\ i \in DOMAIN known \/ i = Len(known) + 1
        /\ j \in DOMAIN known \/ j = Len(known) + 1
    BY <1>1
  <2> QED
    BY <1>1, <1>3, <2>1 DEF IsInventory
<1>4. IsInventory(more)
  BY <1>1, <1>2, <1>3 DEF IsInventory
<1> QED
  BY <1>4 DEF more

(* An asset may be replaced by one with its id. *)
LEMMA AssetReplaced ==
  ASSUME NEW known, IsInventory(known), NEW k, NEW a,
         k \in DOMAIN known => IsAsset(a) /\ a.id = known[k].id
  PROVE  IsInventory([known EXCEPT ![k] = a])
<1> DEFINE other == [known EXCEPT ![k] = a]
<1>1. /\ IsList(other) /\ DOMAIN other = DOMAIN known
      /\ \A i \in DOMAIN known : other[i] = IF i = k THEN a ELSE known[i]
  BY ChangeIsList DEF IsInventory
<1> HIDE DEF other
<1>2. \A i \in DOMAIN known : IsAsset(other[i]) /\ other[i].id = known[i].id
  BY <1>1 DEF IsInventory
<1>3. IsInventory(other)
  BY <1>1, <1>2 DEF IsInventory
<1> QED
  BY <1>3 DEF other

(* A new asset is an asset. *)
LEMMA NewIsAsset ==
  ASSUME NEW addr
  PROVE  IsAsset(NewAsset(addr)) /\ NewAsset(addr).id = NewID(addr)
<1>1. IsList(<<>>)
  BY NoneIsList
<1> QED
  BY <1>1, Zenon DEF IsAsset, NewAsset

(* Where no asset is of an address, none has the id it would get. *)
LEMMA UnknownIsNew ==
  ASSUME NEW known, IsList(known), NEW addr, ByAddress(known, addr) = 0
  PROVE  \A i \in DOMAIN known : known[i].id # NewID(addr)
<1> DEFINE exact == {i \in 1 .. Len(known) : known[i].id = NewID(addr)}
<1>1. DOMAIN known = 1 .. Len(known) /\ Len(known) \in Nat
  BY ListHas
<1>2. ASSUME exact # {} PROVE FALSE
  <2>1. exact \in SUBSET Nat
    OBVIOUS
  <2> HIDE DEF exact
  <2>2. Min(exact) \in exact
    BY <1>2, <2>1, MinIsLeast
  <2>3. ByAddress(known, addr) = IF Min(exact) # 0 THEN Min(exact) ELSE ByAddress(known, addr)
    BY <1>2 DEF ByAddress, SelectInSeq, exact
  <2> QED
    BY <2>2, <2>3 DEF exact
<1> QED
  BY <1>1, <1>2

(* The asset of an address is found or added: the others stay. *)
LEMMA DeviceKeeps ==
  ASSUME NEW known, IsInventory(known), NEW addr
  PROVE  IsInventory(Device(known, addr))
<1>1. CASE ByAddress(known, addr) = 0
  <2>1. IsInventory(Append(known, NewAsset(addr)))
    BY <1>1, UnknownIsNew, NewIsAsset, AssetAdded DEF IsInventory
  <2> QED
    BY <1>1, <2>1 DEF Device
<1>2. CASE ByAddress(known, addr) # 0
  <2> DEFINE k == ByAddress(known, addr)
             a == [known[k] EXCEPT !.addr = FillAddresses(known[k].addr, addr)]
  <2>1. k \in DOMAIN known => IsAsset(a) /\ a.id = known[k].id
    BY DEF IsInventory, IsAsset
  <2>2. IsInventory([known EXCEPT ![k] = a])
    <3> HIDE DEF a, k
    <3> QED
      BY <2>1, AssetReplaced
  <2>3. Device(known, addr) = [known EXCEPT ![k] = a]
    BY <1>2 DEF Device
  <2> QED
    BY <2>2, <2>3
<1> QED
  BY <1>1, <1>2

-----------------------------------------------------------------------------
(* What is done to one asset. *)

(* b is an asset where a is one, and has its id. *)
Keeps(a, b) == IsAsset(a) => IsAsset(b) /\ b.id = a.id

(* Its addresses and its identity too are those of a. *)
Same(a, b) == IsAsset(a) => IsAsset(b) /\ b.id = a.id /\ b.addr = a.addr /\ b.identity = a.identity

LEMMA SameKeeps ==
  ASSUME NEW a, NEW b, Same(a, b)
  PROVE  Keeps(a, b)
  BY DEF Same, Keeps

(* The folds over the lists of an asset and of a scanned host. *)
Serving == INSTANCE Folding_proofs WITH
  Op <- LAMBDA a, b, x : AddService(b, x), Good <- LAMBDA a, k, b : Same(a, b)
Proving == INSTANCE Folding_proofs WITH
  Op <- LAMBDA a, b, x : AddEvidence(b, x), Good <- LAMBDA a, k, b : Same(a, b)
Porting == INSTANCE Folding_proofs WITH
  Op <- LAMBDA a, b, x : ServePort(b, x), Good <- LAMBDA a, k, b : Same(a, b)

(* A service more, or one told more of. *)
LEMMA AddServiceKeeps ==
  ASSUME NEW a, NEW service
  PROVE  Same(a, AddService(a, service)) /\ Keeps(a, AddService(a, service))
<1> SUFFICES ASSUME IsAsset(a)
             PROVE  LET b == AddService(a, service)
                    IN  IsAsset(b) /\ b.id = a.id /\ b.addr = a.addr /\ b.identity = a.identity
  BY SameKeeps DEF Same
<1> DEFINE place == SelectInSeq(a.services, LAMBDA s :
                   s.port = service.port /\ s.transport = service.transport)
<1>1. CASE place = 0
  <2>1. IsList(Append(a.services, service))
    BY AppendIsList DEF IsAsset
  <2>2. AddService(a, service) = [a EXCEPT !.services = Append(a.services, service)]
    BY <1>1 DEF AddService
  <2> QED
    BY <2>1, <2>2 DEF IsAsset
<1>2. CASE place # 0
  <2> DEFINE more == [a.services EXCEPT ![place] = Filled(a.services[place], service)]
  <2>1. IsList(more)
    <3> HIDE DEF place
    <3> QED
      BY ChangeIsList DEF IsAsset
  <2>2. AddService(a, service) = [a EXCEPT !.services = more]
    BY <1>2 DEF AddService
  <2> HIDE DEF more
  <2> QED
    BY <2>1, <2>2 DEF IsAsset
<1> QED
  BY <1>1, <1>2

(* A piece of evidence more. *)
LEMMA AddEvidenceKeeps ==
  ASSUME NEW a, NEW evidence
  PROVE  Same(a, AddEvidence(a, evidence)) /\ Keeps(a, AddEvidence(a, evidence))
<1> SUFFICES ASSUME IsAsset(a)
             PROVE  LET b == AddEvidence(a, evidence)
                    IN  IsAsset(b) /\ b.id = a.id /\ b.addr = a.addr /\ b.identity = a.identity
  BY SameKeeps DEF Same
<1>1. IsList(Append(a.evidence, evidence))
  BY AppendIsList DEF IsAsset
<1> QED
  BY <1>1 DEF IsAsset, AddEvidence

(* A role, an identity and the levels read off them. *)
LEMMA SetRoleKeeps ==
  ASSUME NEW a, NEW role
  PROVE  Same(a, SetRole(a, role)) /\ Keeps(a, SetRole(a, role))
  BY DEF Same, Keeps, IsAsset, SetRole

LEMMA IdentifyKeeps ==
  ASSUME NEW a, NEW identity
  PROVE  Keeps(a, Identify(a, identity))
  BY DEF Keeps, IsAsset, Identify

LEMMA ClassifyKeeps ==
  ASSUME NEW a
  PROVE  Same(a, Classify(a)) /\ Keeps(a, Classify(a))
  BY DEF Same, Keeps, IsAsset, Classify

(* One after the other. *)
LEMMA KeepsBoth ==
  ASSUME NEW a, NEW b, NEW c, Keeps(a, b), Keeps(b, c)
  PROVE  Keeps(a, c)
  BY DEF Keeps

(* All the services of a list, all its evidence, all the ports of a scan. *)
LEMMA AllServicesKeep ==
  ASSUME NEW a, NEW s, IsList(s)
  PROVE  Same(a, FoldLeft(AddService, a, s)) /\ Keeps(a, FoldLeft(AddService, a, s))
<1>1. FoldLeft(AddService, a, s) = Serving!Table(a, a, s)[DOMAIN s]
  BY DEF FoldLeft, MapThenFoldSet, Max, Serving!Table, Serving!Row, Serving!Top
<1>2. DOMAIN s = 1 .. Len(s) /\ Len(s) \in Nat
  BY ListHas
<1>3. Same(a, a)
  BY DEF Same
<1>4. \A b, x : Same(a, b) => Same(a, AddService(b, x))
  BY AddServiceKeeps DEF Same
<1> QED
  BY <1>1, <1>2, <1>3, <1>4, Serving!FoldKeeps, InductionHolds, SameKeeps

LEMMA AllEvidenceKeeps ==
  ASSUME NEW a, NEW s, IsList(s)
  PROVE  Same(a, FoldLeft(AddEvidence, a, s)) /\ Keeps(a, FoldLeft(AddEvidence, a, s))
<1>1. FoldLeft(AddEvidence, a, s) = Proving!Table(a, a, s)[DOMAIN s]
  BY DEF FoldLeft, MapThenFoldSet, Max, Proving!Table, Proving!Row, Proving!Top
<1>2. DOMAIN s = 1 .. Len(s) /\ Len(s) \in Nat
  BY ListHas
<1>3. Same(a, a)
  BY DEF Same
<1>4. \A b, x : Same(a, b) => Same(a, AddEvidence(b, x))
  BY AddEvidenceKeeps DEF Same
<1> QED
  BY <1>1, <1>2, <1>3, <1>4, Proving!FoldKeeps, InductionHolds, SameKeeps

LEMMA AllPortsKeep ==
  ASSUME NEW a, NEW s, IsList(s)
  PROVE  Same(a, FoldLeft(ServePort, a, s)) /\ Keeps(a, FoldLeft(ServePort, a, s))
<1>1. FoldLeft(ServePort, a, s) = Porting!Table(a, a, s)[DOMAIN s]
  BY DEF FoldLeft, MapThenFoldSet, Max, Porting!Table, Porting!Row, Porting!Top
<1>2. DOMAIN s = 1 .. Len(s) /\ Len(s) \in Nat
  BY ListHas
<1>3. Same(a, a)
  BY DEF Same
<1>4. \A b, x : Same(a, b) => Same(a, ServePort(b, x))
  BY AddServiceKeeps DEF Same, ServePort
<1> QED
  BY <1>1, <1>2, <1>3, <1>4, Porting!FoldKeeps, InductionHolds, SameKeeps

(* Two assets merged: the one that is kept keeps its id. *)
LEMMA MergeAssetKeeps ==
  ASSUME NEW a, NEW b, IsAsset(b)
  PROVE  Keeps(a, MergeAsset(a, b))
<1> DEFINE identified == Identify(a, b.identity)
           named == [identified EXCEPT
                       !.addr = FillAddresses(@, b.addr),
                       !.purdue = IF @ = "" THEN b.purdue ELSE @]
           roled == SetRole(named, b.role)
           served == FoldLeft(AddService, roled, b.services)
<1>1. Keeps(a, identified)
  BY IdentifyKeeps
<1>2. Keeps(identified, named)
  <2> DEFINE addr == FillAddresses(identified.addr, b.addr)
             level == IF identified.purdue = "" THEN b.purdue ELSE identified.purdue
  <2>1. named = [[identified EXCEPT !.addr = addr] EXCEPT !.purdue = level]
    OBVIOUS
  <2> HIDE DEF identified, addr, level, named
  <2> QED
    BY <2>1 DEF Keeps, IsAsset
<1>3. Keeps(named, roled)
  <2> HIDE DEF named
  <2> QED
    BY SetRoleKeeps
<1>4. Keeps(roled, served)
  <2> HIDE DEF roled
  <2> QED
    BY AllServicesKeep DEF IsAsset
<1>5. MergeAsset(a, b) = FoldLeft(AddEvidence, served, b.evidence)
  BY DEF MergeAsset
<1> HIDE DEF identified, named, roled, served
<1>6. Keeps(served, MergeAsset(a, b))
  BY <1>5, AllEvidenceKeeps DEF IsAsset
<1> QED
  BY <1>1, <1>2, <1>3, <1>4, <1>6 DEF Keeps

-----------------------------------------------------------------------------
(* What is done to the inventory. *)

(* The asset of an address is changed. *)
LEMMA UpdateKeeps ==
  ASSUME NEW known, IsInventory(known), NEW addr, NEW b,
         Keeps(Device(known, addr)[ByAddress(Device(known, addr), addr)], b)
  PROVE  IsInventory([Device(known, addr) EXCEPT ![ByAddress(Device(known, addr), addr)] = b])
<1> DEFINE d == Device(known, addr)
           k == ByAddress(d, addr)
<1>1. IsInventory(d)
  BY DeviceKeeps
<1>2. k \in DOMAIN d => IsAsset(b) /\ b.id = d[k].id
  BY <1>1 DEF IsInventory, Keeps
<1> HIDE DEF d, k
<1>3. IsInventory([d EXCEPT ![k] = b])
  BY <1>1, <1>2, AssetReplaced
<1> QED
  BY <1>3 DEF d, k

(* Where no asset has an id, it is a new one. *)
LEMMA UpsertKeeps ==
  ASSUME NEW known, IsInventory(known), NEW a, IsAsset(a)
  PROVE  IsInventory(Upsert(known, a))
<1> DEFINE same == {i \in 1 .. Len(known) : known[i].id = a.id}
           place == IF same # {} THEN Min(same) ELSE 0
<1>1. DOMAIN known = 1 .. Len(known) /\ Len(known) \in Nat
  BY ListHas DEF IsInventory
<1>2. Upsert(known, a) = IF place = 0 THEN Append(known, a)
                         ELSE [known EXCEPT ![place] = MergeAsset(known[place], a)]
  BY DEF Upsert, SelectInSeq
<1>3. CASE place = 0
  <2>1. same = {}
    <3>1. same \in SUBSET Nat /\ 0 \notin same
      OBVIOUS
    <3>2. same # {} => Min(same) \in same
      <4> HIDE DEF same
      <4> QED
        BY <3>1, MinIsLeast
    <3> HIDE DEF same
    <3> QED
      BY <1>3, <3>1, <3>2
  <2>2. \A i \in DOMAIN known : known[i].id # a.id
    BY <1>1, <2>1
  <2>3. Upsert(known, a) = Append(known, a)
    BY <1>2, <1>3
  <2> HIDE DEF place, same
  <2>4. IsInventory(Append(known, a))
    BY <2>2, AssetAdded
  <2> QED
    BY <2>3, <2>4
<1>4. CASE place # 0
  <2>1. place \in DOMAIN known => IsAsset(MergeAsset(known[place], a)) /\ MergeAsset(known[place], a).id = known[place].id
    <3> HIDE DEF place
    <3> QED
      BY MergeAssetKeeps DEF Keeps, IsInventory
  <2>2. Upsert(known, a) = [known EXCEPT ![place] = MergeAsset(known[place], a)]
    BY <1>2, <1>4
  <2> HIDE DEF place
  <2>3. IsInventory([known EXCEPT ![place] = MergeAsset(known[place], a)])
    BY <2>1, AssetReplaced
  <2> QED
    BY <2>2, <2>3
<1> QED
  BY <1>3, <1>4

Merging == INSTANCE Folding_proofs WITH
  Op <- LAMBDA ctx, known, a : Upsert(known, a), Good <- LAMBDA ctx, k, known : IsInventory(known)

(* Two inventories merged. *)
LEMMA MergeKeeps ==
  ASSUME NEW known, IsInventory(known), NEW others, IsInventory(others)
  PROVE  IsInventory(Merge(known, others))
<1>1. Merge(known, others) = Merging!Table(0, known, others)[DOMAIN others]
  BY DEF Merge, FoldLeft, MapThenFoldSet, Max, Merging!Table, Merging!Row, Merging!Top
<1>2. DOMAIN others = 1 .. Len(others) /\ Len(others) \in Nat
  BY ListHas DEF IsInventory
<1>3. \A k \in 0 .. Len(others) - 1 : \A acc : IsInventory(acc) => IsInventory(Upsert(acc, others[k + 1]))
  BY <1>2, UpsertKeeps DEF IsInventory
<1> QED
  BY <1>1, <1>2, <1>3, Merging!FoldKeeps, InductionHolds

(* An asset that is new to the inventory may be put anywhere in it. *)
LEMMA AssetInserted ==
  ASSUME NEW known, IsInventory(known), NEW a, IsAsset(a),
         \A i \in DOMAIN known : known[i].id # a.id, NEW p \in DOMAIN known
  PROVE  LET more == InsertAt(known, p, a)
         IN  /\ IsInventory(more)
             /\ \A i \in DOMAIN more : more[i] = a \/ \E j \in DOMAIN known : more[i] = known[j]
             /\ \E i \in DOMAIN more : more[i] = a
             /\ \A j \in DOMAIN known : \E i \in DOMAIN more : more[i] = known[j]
<1> DEFINE more == InsertAt(known, p, a)
           S == ToSet(known) \cup {a}
           n == Len(known)
<1>1. known \in Seq(S) /\ a \in S /\ n \in Nat /\ DOMAIN known = 1 .. n
  <2>1. known \in Seq(ToSet(known)) /\ \A i \in 1 .. n : known[i] \in ToSet(known)
    BY ListHas DEF IsInventory
  <2> QED
    BY <2>1, ListHas DEF IsInventory
<1> HIDE DEF S
<1>2. more \in Seq(S) /\ Len(more) = n + 1
  BY <1>1 DEF InsertAt
<1>3. \A i \in 1 .. n + 1 : more[i] = IF i < p THEN known[i] ELSE IF i = p THEN a ELSE known[i - 1]
  <2> DEFINE L == SubSeq(known, 1, p - 1)
             R == SubSeq(known, p, n)
  <2>1. L \in Seq(S) /\ Len(L) = p - 1 /\ \A i \in 1 .. p - 1 : L[i] = known[i]
    BY <1>1
  <2>2. R \in Seq(S) /\ Len(R) = n - p + 1 /\ \A i \in 1 .. n - p + 1 : R[i] = known[p + i - 1]
    BY <1>1
  <2>3. more = (L \o <<a>>) \o R
    BY DEF InsertAt
  <2> HIDE DEF L, R, more
  <2>4. \A i \in 1 .. n + 1 : more[i] = IF i < p THEN L[i] ELSE IF i = p THEN a ELSE R[i - p]
    BY <1>1, <2>1, <2>2, <2>3
  <2> TAKE i \in 1 .. n + 1
  <2>5. CASE i < p
    BY <1>1, <2>1, <2>4, <2>5
  <2>6. CASE i = p
    BY <1>1, <2>4, <2>6
  <2>7. CASE i > p
    <3>1. i - p \in 1 .. n - p + 1 /\ p + (i - p) - 1 = i - 1
      BY <1>1, <2>7
    <3>2. R[i - p] = known[i - 1]
      BY <2>2, <3>1
    <3>3. more[i] = R[i - p]
      BY <1>1, <2>4, <2>7
    <3> QED
      BY <1>1, <2>7, <3>2, <3>3
  <2> QED
    BY <1>1, <2>5, <2>6, <2>7
<1>4. IsList(more) /\ DOMAIN more = 1 .. n + 1
  <2> HIDE DEF more
  <2> QED
    BY <1>2, ListOf
<1> HIDE DEF more, n
<1>5. \A i \in DOMAIN known : IsAsset(known[i])
  BY DEF IsInventory
<1>6. \A i \in DOMAIN more : IsAsset(more[i])
  BY <1>1, <1>3, <1>4, <1>5
<1>7. ASSUME NEW i \in DOMAIN more, NEW j \in DOMAIN more, more[i].id = more[j].id
      PROVE  i = j
  BY <1>1, <1>3, <1>4, <1>7 DEF IsInventory
<1>8. \A i \in DOMAIN more : more[i] = a \/ \E j \in DOMAIN known : more[i] = known[j]
  BY <1>1, <1>3, <1>4
<1>9. IsInventory(more)
  BY <1>4, <1>6, <1>7 DEF IsInventory
<1>10. \E i \in DOMAIN more : more[i] = a
  <2>1. p \in DOMAIN more /\ more[p] = a
    BY <1>1, <1>3, <1>4
  <2> QED
    BY <2>1
<1>11. ASSUME NEW j \in DOMAIN known PROVE \E i \in DOMAIN more : more[i] = known[j]
  <2>1. CASE j < p
    <3>1. j \in DOMAIN more /\ more[j] = known[j]
      BY <1>1, <1>3, <1>4, <2>1
    <3> QED
      BY <3>1
  <2>2. CASE ~ j < p
    <3>1. j + 1 \in DOMAIN more /\ more[j + 1] = known[j]
      BY <1>1, <1>3, <1>4, <2>2
    <3> QED
      BY <3>1
  <2> QED
    BY <2>1, <2>2
<1> QED
  BY <1>8, <1>9, <1>10, <1>11 DEF more

(* The assets of sorted are among the first k of known. *)
Among(known, k, sorted) ==
  /\ \A i \in DOMAIN sorted : \E j \in 1 .. k : sorted[i] = known[j]
  /\ \A j \in 1 .. k : \E i \in DOMAIN sorted : sorted[i] = known[j]

Sorting == INSTANCE Folding_proofs WITH
  Op <- LAMBDA ctx, sorted, a : Insert(sorted, a),
  Good <- LAMBDA ctx, k, sorted : IsInventory(sorted) /\ Among(ctx, k, sorted)

(* One asset more in the sorted inventory. *)
LEMMA InsertKeeps ==
  ASSUME NEW known, IsInventory(known), NEW a, IsAsset(a),
         \A i \in DOMAIN known : known[i].id # a.id
  PROVE  /\ IsInventory(Insert(known, a))
         /\ \A i \in DOMAIN Insert(known, a) :
              \/ Insert(known, a)[i] = a
              \/ \E j \in DOMAIN known : Insert(known, a)[i] = known[j]
         /\ \E i \in DOMAIN Insert(known, a) : Insert(known, a)[i] = a
         /\ \A j \in DOMAIN known : \E i \in DOMAIN Insert(known, a) : Insert(known, a)[i] = known[j]
<1> DEFINE after == {i \in 1 .. Len(known) : Before(a, known[i])}
           place == IF after # {} THEN Min(after) ELSE 0
<1>1. DOMAIN known = 1 .. Len(known) /\ Len(known) \in Nat
  BY ListHas DEF IsInventory
<1>2. Insert(known, a) = IF place = 0 THEN Append(known, a) ELSE InsertAt(known, place, a)
  BY DEF Insert, SelectInSeq
<1>3. place # 0 => place \in DOMAIN known
  <2>1. after \in SUBSET Nat /\ after \subseteq DOMAIN known
    BY <1>1
  <2> HIDE DEF after
  <2> QED
    BY <2>1, MinIsLeast
<1> HIDE DEF place, after
<1>4. CASE place = 0
  <2>1. Insert(known, a) = Append(known, a)
    BY <1>2, <1>4
  <2>2. IsInventory(Append(known, a))
    BY AssetAdded
  <2>3. /\ DOMAIN Append(known, a) = 1 .. Len(known) + 1
        /\ \A i \in DOMAIN known : Append(known, a)[i] = known[i]
        /\ Append(known, a)[Len(known) + 1] = a
    BY AppendIsList DEF IsInventory
  <2>4. \A i \in DOMAIN Append(known, a) : i \in DOMAIN known \/ i = Len(known) + 1
    BY <1>1, <2>3
  <2>5. DOMAIN known \subseteq DOMAIN Append(known, a) /\ Len(known) + 1 \in DOMAIN Append(known, a)
    BY <1>1, <2>3
  <2> QED
    BY <2>1, <2>2, <2>3, <2>4, <2>5
<1>5. CASE place # 0
  <2>1. Insert(known, a) = InsertAt(known, place, a)
    BY <1>2, <1>5
  <2> QED
    BY <1>3, <1>5, <2>1, AssetInserted
<1> QED
  BY <1>4, <1>5

(* Sorting keeps every asset once. *)
LEMMA SortedKeeps ==
  ASSUME NEW known, IsInventory(known)
  PROVE  IsInventory(Sorted(known)) /\ Among(known, Len(known), Sorted(known))
<1>1. Sorted(known) = Sorting!Table(known, <<>>, known)[DOMAIN known]
  BY DEF Sorted, FoldLeft, MapThenFoldSet, Max, Sorting!Table, Sorting!Row, Sorting!Top
<1>2. DOMAIN known = 1 .. Len(known) /\ Len(known) \in Nat
  BY ListHas DEF IsInventory
<1>3. IsInventory(<<>>) /\ Among(known, 0, <<>>)
  BY NoneIsList DEF IsInventory, Among
<1>4. ASSUME NEW k \in 0 .. Len(known) - 1, NEW acc, IsInventory(acc), Among(known, k, acc)
      PROVE  LET more == Insert(acc, known[k + 1]) IN IsInventory(more) /\ Among(known, k + 1, more)
  <2> DEFINE a == known[k + 1]
             more == Insert(acc, a)
  <2>1. k + 1 \in DOMAIN known /\ IsAsset(a)
    BY <1>2 DEF IsInventory
  <2>2. ASSUME NEW i \in DOMAIN acc, acc[i].id = a.id PROVE FALSE
    <3>1. PICK j \in 1 .. k : acc[i] = known[j]
      BY <1>4 DEF Among
    <3>2. j \in DOMAIN known /\ j # k + 1
      BY <1>2
    <3> QED
      BY <2>1, <2>2, <3>1, <3>2 DEF IsInventory
  <2> HIDE DEF a
  <2>3. /\ IsInventory(more)
        /\ \A i \in DOMAIN more : more[i] = a \/ \E j \in DOMAIN acc : more[i] = acc[j]
        /\ \E i \in DOMAIN more : more[i] = a
        /\ \A j \in DOMAIN acc : \E i \in DOMAIN more : more[i] = acc[j]
    BY <1>4, <2>1, <2>2, InsertKeeps
  <2> HIDE DEF more
  <2>4. ASSUME NEW i \in DOMAIN more PROVE \E j \in 1 .. k + 1 : more[i] = known[j]
    <3>1. CASE more[i] = a
      BY <3>1 DEF a
    <3>2. ASSUME NEW j \in DOMAIN acc, more[i] = acc[j]
          PROVE  \E l \in 1 .. k + 1 : more[i] = known[l]
      <4>1. PICK l \in 1 .. k : acc[j] = known[l]
        BY <1>4 DEF Among
      <4>2. l \in 1 .. k + 1
        OBVIOUS
      <4> QED
        BY <3>2, <4>1, <4>2
    <3> QED
      BY <2>3, <3>1, <3>2
  <2>5. ASSUME NEW j \in 1 .. k + 1 PROVE \E i \in DOMAIN more : more[i] = known[j]
    <3>1. CASE j = k + 1
      BY <2>3, <3>1 DEF a
    <3>2. CASE j # k + 1
      <4>1. j \in 1 .. k
        BY <3>2
      <4>2. PICK i \in DOMAIN acc : acc[i] = known[j]
        BY <1>4, <4>1 DEF Among
      <4> QED
        BY <2>3, <4>2
    <3> QED
      BY <3>1, <3>2
  <2>6. Among(known, k + 1, more)
    BY <2>4, <2>5 DEF Among
  <2> QED
    BY <2>3, <2>6 DEF more, a
<1>5. IsInventory(Sorted(known)) /\ Among(known, Len(known), Sorted(known))
  BY <1>1, <1>2, <1>3, <1>4, Sorting!FoldKeeps, InductionHolds
<1> QED
  BY <1>5

(* So does the whole of Finalize. *)
LEMMA FinalizeKeeps ==
  ASSUME NEW known, IsInventory(known), NEW conversations
  PROVE  IsInventory(Finalize(known, conversations).assets)
<1> DEFINE classified == [i \in DOMAIN known |-> Classify(known[i])]
<1>1. DOMAIN known = 1 .. Len(known) /\ Len(known) \in Nat
  BY ListHas DEF IsInventory
<1>2. \A i \in DOMAIN known : IsAsset(classified[i]) /\ classified[i].id = known[i].id
  <2> TAKE i \in DOMAIN known
  <2>1. classified[i] = Classify(known[i])
    OBVIOUS
  <2>2. IsAsset(known[i])
    BY DEF IsInventory
  <2> HIDE DEF classified
  <2> QED
    BY <2>1, <2>2, ClassifyKeeps DEF Keeps
<1>3. DOMAIN classified = DOMAIN known /\ classified = [i \in 1 .. Len(known) |-> classified[i]]
  BY <1>1
<1>4. Finalize(known, conversations).assets = Sorted(classified)
  BY DEF Finalize
<1> HIDE DEF classified
<1>5. IsList(classified)
  BY <1>1, <1>3, ListFrom
<1>6. IsInventory(classified)
  BY <1>2, <1>3, <1>5 DEF IsInventory
<1> QED
  BY <1>4, <1>6, SortedKeeps

-----------------------------------------------------------------------------
(* What one frame does. *)

IsState(s) ==
  /\ s = [pass |-> s.pass, assets |-> s.assets]
  /\ IsPass(s.pass) /\ IsInventory(s.assets)

(* A conversation more, where there is room. *)
LEMMA AddFlowKeeps ==
  ASSUME NEW p, IsPass(p), NEW frame
  PROVE  IsPass(AddFlow(p, frame))
<1> DEFINE key == <<Client(frame)>> \o Server(frame)
<1>1. CASE AddFlow(p, frame) = p
  BY <1>1
<1>2. CASE key \in DOMAIN p.flows /\ AddFlow(p, frame) = [p EXCEPT !.flows[key] = @ + 1]
  <2> HIDE DEF key
  <2> DEFINE more == [p.flows EXCEPT ![key] = @ + 1]
  <2>1. DOMAIN more = DOMAIN p.flows
    OBVIOUS
  <2>2. AddFlow(p, frame) = [p EXCEPT !.flows = more]
    BY <1>2 DEF IsPass
  <2> HIDE DEF more
  <2> QED
    BY <2>1, <2>2 DEF IsPass
<1>3. CASE /\ key \notin DOMAIN p.flows /\ Cardinality(DOMAIN p.flows) < MaxTrackedFlows
           /\ AddFlow(p, frame) = [p EXCEPT !.flows = With(@, key, 1)]
  <2> HIDE DEF key
  <2> DEFINE more == With(p.flows, key, 1)
  <2>1. DOMAIN more = DOMAIN p.flows \cup {key}
    BY DEF With
  <2> HIDE DEF more
  <2>2. IsFiniteSet(DOMAIN p.flows) /\ Cardinality(DOMAIN p.flows) \in Nat /\ MaxTrackedFlows \in Nat
    BY FS_CardinalityType, LimitsAssumption DEF IsPass
  <2>3. IsFiniteSet(DOMAIN more) /\ Cardinality(DOMAIN more) = Cardinality(DOMAIN p.flows) + 1
    BY <1>3, <2>1, <2>2, FS_AddElement
  <2>4. AddFlow(p, frame) = [p EXCEPT !.flows = more]
    BY <1>3 DEF more
  <2> QED
    BY <1>3, <2>2, <2>3, <2>4 DEF IsPass
<1>4. \/ AddFlow(p, frame) = p
      \/ key \in DOMAIN p.flows /\ AddFlow(p, frame) = [p EXCEPT !.flows[key] = @ + 1]
      \/ /\ key \notin DOMAIN p.flows /\ ~ Cardinality(DOMAIN p.flows) >= MaxTrackedFlows
         /\ AddFlow(p, frame) = [p EXCEPT !.flows = With(@, key, 1)]
  BY DEF AddFlow
<1>5. Cardinality(DOMAIN p.flows) \in Nat /\ MaxTrackedFlows \in Nat
  BY FS_CardinalityType, LimitsAssumption DEF IsPass
<1> HIDE DEF key
<1> QED
  BY <1>1, <1>2, <1>3, <1>4, <1>5

(* A service seen open. *)
LEMMA MarkOpenKeeps ==
  ASSUME NEW p, IsPass(p), NEW frame
  PROVE  IsPass(MarkOpen(p, frame))
<1> DEFINE opened == MarkOpen(p, frame).open
<1>1. MarkOpen(p, frame) = [p EXCEPT !.open = opened]
  BY DEF MarkOpen, IsPass
<1> HIDE DEF opened
<1> QED
  BY <1>1 DEF IsPass

(* What a service has said is written to its asset. *)
LEMMA RecordObservationKeeps ==
  ASSUME NEW s, IsState(s), NEW bound, NEW service, NEW decoded
  PROVE  IsState(RecordObservation(s, bound, service, decoded))
<1> DEFINE r == RecordObservation(s, bound, service, decoded)
           addr == BoundAddresses(bound, service[1])
           d == Device(s.assets, addr)
           a == d[ByAddress(d, addr)]
           identified == Identify(a, decoded.identity)
           roled == SetRole(identified, decoded.role)
           b == AddEvidence(roled, Evidence("pcap", decoded.protocol, service, decoded.fields))
<1>1. IsInventory(r.assets)
  <2>1. Keeps(a, b)
    <3>1. Keeps(a, identified)
      BY IdentifyKeeps
    <3>2. Keeps(identified, roled)
      BY SetRoleKeeps
    <3>3. Keeps(roled, b)
      BY AddEvidenceKeeps
    <3> HIDE DEF a, identified, roled, b
    <3> QED
      BY <3>1, <3>2, <3>3, KeepsBoth
  <2>2. r.assets = [d EXCEPT ![ByAddress(d, addr)] = b]
    BY DEF RecordObservation, Update
  <2>3. IsInventory(s.assets)
    BY DEF IsState
  <2> HIDE DEF b, r, addr
  <2>4. IsInventory([d EXCEPT ![ByAddress(d, addr)] = b])
    BY <2>1, <2>3, UpdateKeeps
  <2> QED
    BY <2>2, <2>4
<1>2. IsPass(r.pass)
  <2> DEFINE p == s.pass
             held == Without(p.buffers, service)
             said == With(p.identified, service, At(p.identified, service, {}) \cup Contribution(decoded))
             opened == p.open \cup {service}
             told == Append(p.services, [service |-> service, protocol |-> decoded.protocol, banner |-> Unsaid])
  <2>1. r.pass = [[[[p EXCEPT !.buffers = held] EXCEPT !.identified = said] EXCEPT !.open = opened]
                    EXCEPT !.services = told]
    BY DEF RecordObservation
  <2>2. DOMAIN held \subseteq DOMAIN p.buffers /\ \A x \in DOMAIN held : held[x] = p.buffers[x]
    BY DEF Without
  <2>3. IsPass(p)
    BY DEF IsState
  <2> HIDE DEF p, held, said, opened, told, r
  <2> QED
    BY <2>1, <2>2, <2>3 DEF IsPass
<1>3. r = [pass |-> r.pass, assets |-> r.assets]
  BY DEF RecordObservation
<1> QED
  BY <1>1, <1>2, <1>3 DEF IsState

(* The pass of a state is changed, or what is held of its services. *)
LEMMA PassChanges ==
  ASSUME NEW s, IsState(s), NEW p, IsPass(p)
  PROVE  IsState([s EXCEPT !.pass = p])
  BY DEF IsState

LEMMA BuffersChange ==
  ASSUME NEW s, IsState(s), NEW held, \A x \in DOMAIN held : Len(held[x]) < MaxFlowBuffer
  PROVE  IsState([s EXCEPT !.pass.buffers = held])
<1> DEFINE p == [s.pass EXCEPT !.buffers = held]
<1>1. IsPass(p)
  BY DEF IsState, IsPass
<1>2. [s EXCEPT !.pass.buffers = held] = [s EXCEPT !.pass = p]
  OBVIOUS
<1> HIDE DEF p
<1> QED
  BY <1>1, <1>2, PassChanges

(* An answer is decoded, kept for the rest of it, or dropped. *)
LEMMA TryDecodeKeeps ==
  ASSUME NEW s, IsState(s), NEW bound, NEW service, NEW payload
  PROVE  IsState(TryDecode(s, bound, service, payload))
<1> DEFINE all == At(s.pass.buffers, service, <<>>) \o payload
           bytes == SubSeq(all, 1, Min({Len(all), MaxDecodeAttempt}))
           more == With(s.pass.buffers, service, bytes)
           less == Without(s.pass.buffers, service)
           r == TryDecode(s, bound, service, payload)
<1>1. \/ \E decoded : r = RecordObservation(s, bound, service, decoded)
      \/ r = s
      \/ Len(bytes) < MaxFlowBuffer /\ r = [s EXCEPT !.pass.buffers = more]
      \/ r = [s EXCEPT !.pass.buffers = less]
  BY DEF TryDecode
<1>2. CASE \E decoded : r = RecordObservation(s, bound, service, decoded)
  BY <1>2, RecordObservationKeeps
<1>3. CASE Len(bytes) < MaxFlowBuffer /\ r = [s EXCEPT !.pass.buffers = more]
  <2>1. DOMAIN more = DOMAIN s.pass.buffers \cup {service}
    BY DEF With
  <2>2. \A x \in DOMAIN more : more[x] = IF x = service THEN bytes ELSE s.pass.buffers[x]
    BY DEF With
  <2> HIDE DEF more, bytes
  <2>3. \A x \in DOMAIN more : Len(more[x]) < MaxFlowBuffer
    BY <1>3, <2>1, <2>2 DEF IsState, IsPass
  <2>4. IsState([s EXCEPT !.pass.buffers = more])
    BY <2>3, BuffersChange
  <2> HIDE DEF r
  <2> QED
    BY <1>3, <2>4 DEF r
<1>4. CASE r = [s EXCEPT !.pass.buffers = less]
  <2>1. DOMAIN less \subseteq DOMAIN s.pass.buffers /\ \A x \in DOMAIN less : less[x] = s.pass.buffers[x]
    BY DEF Without
  <2> HIDE DEF less
  <2>2. \A x \in DOMAIN less : Len(less[x]) < MaxFlowBuffer
    BY <2>1 DEF IsState, IsPass
  <2>3. IsState([s EXCEPT !.pass.buffers = less])
    BY <2>2, BuffersChange
  <2> HIDE DEF r
  <2> QED
    BY <1>4, <2>3 DEF r
<1> HIDE DEF r, more, less, bytes
<1> QED
  BY <1>1, <1>2, <1>3, <1>4 DEF r

LEMMA TryHTTPBannerKeeps ==
  ASSUME NEW s, IsState(s), NEW service, NEW server
  PROVE  IsState(TryHTTPBanner(s, service, server))
<1> DEFINE old == s.pass
           opened == old.open \cup {service}
           told == Append(old.services, [service |-> service, protocol |-> "http", banner |-> server])
           p == [[old EXCEPT !.open = opened] EXCEPT !.services = told]
<1>1. TryHTTPBanner(s, service, server) = s
      \/ TryHTTPBanner(s, service, server) = [s EXCEPT !.pass = p]
  BY DEF TryHTTPBanner, IsState
<1>2. IsPass(p)
  <2>1. IsPass(old)
    BY DEF IsState
  <2>2. p = [[old EXCEPT !.open = opened] EXCEPT !.services = told]
    OBVIOUS
  <2> HIDE DEF old, opened, told, p
  <2> QED
    BY <2>1, <2>2 DEF IsPass
<1> HIDE DEF p
<1> QED
  BY <1>1, <1>2 DEF IsState

LEMMA HandleIPKeeps ==
  ASSUME NEW s, IsState(s), NEW bound, NEW frame
  PROVE  IsState(HandleIP(s, bound, frame))
<1> DEFINE p == MarkOpen(AddFlow(s.pass, frame), frame)
           seen == [s EXCEPT !.pass = p]
           decoded == TryDecode(seen, bound, Responder(frame), frame.payload)
<1>1. IsState(seen)
  <2>1. IsPass(p)
    BY AddFlowKeeps, MarkOpenKeeps DEF IsState
  <2> HIDE DEF p
  <2> QED
    BY <2>1 DEF IsState
<1>2. HandleIP(s, bound, frame) =
        IF ~ FromListener(frame) THEN seen ELSE TryHTTPBanner(decoded, Responder(frame), frame.server)
  BY DEF HandleIP
<1> HIDE DEF seen
<1>3. IsState(decoded)
  BY <1>1, TryDecodeKeeps
<1> HIDE DEF decoded
<1>4. IsState(TryHTTPBanner(decoded, Responder(frame), frame.server))
  BY <1>3, TryHTTPBannerKeeps
<1> QED
  BY <1>1, <1>2, <1>4

(* The inventory of a state is changed. *)
LEMMA AssetsChange ==
  ASSUME NEW s, IsState(s), NEW known, IsInventory(known)
  PROVE  IsState([s EXCEPT !.assets = known])
  BY DEF IsState

LEMMA HandleARPKeeps ==
  ASSUME NEW s, IsState(s), NEW bound, NEW frame
  PROVE  IsState(HandleARP(s, bound, frame))
<1> DEFINE addr == [Hardware(frame.mac) EXCEPT !.v4 = frame.ip]
           d == Device(s.assets, addr)
           a == d[ByAddress(d, addr)]
           b == AddEvidence(a, Evidence("pcap", "arp", <<frame.ip>>, {"arp_announced_ip"}))
           known == [d EXCEPT ![ByAddress(d, addr)] = b]
<1>1. HandleARP(s, bound, frame) = s \/ HandleARP(s, bound, frame) = [s EXCEPT !.assets = known]
  BY DEF HandleARP, Update
<1>2. Keeps(a, b)
  BY AddEvidenceKeeps
<1>3. IsInventory(known)
  <2> HIDE DEF b, addr
  <2> QED
    BY <1>2, UpdateKeeps DEF IsState
<1> HIDE DEF known
<1> QED
  BY <1>1, <1>3, AssetsChange

LEMMA HandleLLDPKeeps ==
  ASSUME NEW s, IsState(s), NEW bound, NEW frame
  PROVE  IsState(HandleLLDP(s, bound, frame))
<1> DEFINE addr == [Hardware(frame.mac) EXCEPT !.v4 = IPFor(bound, frame.mac), !.name = frame.name]
           told == SniffText(frame.text)
           d == Device(s.assets, addr)
           a == d[ByAddress(d, addr)]
           identified == Identify(a, [vendor |-> told.vendor, catalog |-> told.catalog])
           roled == SetRole(identified, IF frame.bridge THEN "network-device" ELSE "")
           b == AddEvidence(roled,
                  Evidence("pcap", "lldp", <<frame.mac>>,
                           (IF frame.name = Unsaid THEN {} ELSE {"lldp_system_name"})
                           \cup (IF frame.text = <<>> THEN {} ELSE {"lldp_system_description"})))
           known == [d EXCEPT ![ByAddress(d, addr)] = b]
<1>1. HandleLLDP(s, bound, frame) = s \/ HandleLLDP(s, bound, frame) = [s EXCEPT !.assets = known]
  BY DEF HandleLLDP, Update
<1>2. Keeps(a, b)
  <2>1. Keeps(a, identified)
    BY IdentifyKeeps
  <2>2. Keeps(identified, roled)
    BY SetRoleKeeps
  <2>3. Keeps(roled, b)
    BY AddEvidenceKeeps
  <2> HIDE DEF a, identified, roled, b
  <2> QED
    BY <2>1, <2>2, <2>3, KeepsBoth
<1>3. IsInventory(known)
  <2> HIDE DEF b, addr
  <2> QED
    BY <1>2, UpdateKeeps DEF IsState
<1> HIDE DEF known
<1> QED
  BY <1>1, <1>3, AssetsChange

LEMMA HandleKeeps ==
  ASSUME NEW s, IsState(s), NEW bound, NEW frame
  PROVE  IsState(Handle(s, bound, frame))
<1>1. \/ Handle(s, bound, frame) = HandleARP(s, bound, frame)
      \/ Handle(s, bound, frame) = HandleLLDP(s, bound, frame)
      \/ Handle(s, bound, frame) = HandleIP(s, bound, frame)
      \/ Handle(s, bound, frame) = s
  BY DEF Handle
<1> QED
  BY <1>1, HandleARPKeeps, HandleLLDPKeeps, HandleIPKeeps

-----------------------------------------------------------------------------
(* What is written at the end of a capture. *)

(* The members of a finite set in an order are a list. *)
LEMMA SortedFlowsAreListed ==
  ASSUME NEW p, IsPass(p)
  PROVE  \E n \in Nat : DOMAIN SortedFlows(p) = 1 .. n
<1>1. Cardinality(DOMAIN p.flows) \in Nat
  BY FS_CardinalityType DEF IsPass
<1> QED
  BY <1>1 DEF SortedFlows, InOrder

Ending == INSTANCE Folding_proofs WITH
  Op <- LAMBDA bound, known, key :
          Device(Device(known, BoundAddresses(bound, key[1])), BoundAddresses(bound, key[2])),
  Good <- LAMBDA bound, k, known : IsInventory(known)

(* Both ends of every conversation. *)
LEMMA AddEndsKeeps ==
  ASSUME NEW known, IsInventory(known), NEW bound, NEW p, IsPass(p)
  PROVE  IsInventory(AddEnds(known, bound, p))
<1> DEFINE keys == SortedFlows(p)
<1>1. AddEnds(known, bound, p) = Ending!Table(bound, known, keys)[DOMAIN keys]
  BY DEF AddEnds, FoldLeft, MapThenFoldSet, Max, Ending!Table, Ending!Row, Ending!Top
<1>2. PICK n \in Nat : DOMAIN keys = 1 .. n
  BY SortedFlowsAreListed
<1>3. \A acc, key : IsInventory(acc) =>
        IsInventory(Device(Device(acc, BoundAddresses(bound, key[1])), BoundAddresses(bound, key[2])))
  BY DeviceKeeps
<1> HIDE DEF keys
<1>4. IsInventory(Ending!Table(bound, known, keys)[DOMAIN keys])
  BY <1>2, <1>3, Ending!FoldKeeps, InductionHolds
<1> QED
  BY <1>1, <1>4

(* One service. *)
LEMMA UpdateServiceKeeps ==
  ASSUME NEW known, IsInventory(known), NEW addr, NEW service
  PROVE  IsInventory([Device(known, addr) EXCEPT
                        ![ByAddress(Device(known, addr), addr)] = AddService(@, service)])
<1> DEFINE d == Device(known, addr)
           b == AddService(d[ByAddress(d, addr)], service)
<1>1. IsInventory([d EXCEPT ![ByAddress(d, addr)] = b])
  <2>1. Keeps(d[ByAddress(d, addr)], b)
    BY AddServiceKeeps
  <2> HIDE DEF b
  <2> QED
    BY <2>1, UpdateKeeps
<1> QED
  BY <1>1

-----------------------------------------------------------------------------
(* What a scanned host and a record of a log do. *)

(* A state of the reading: its inventory is changed, or both of its parts. *)
LEMMA HostKeeps ==
  ASSUME NEW s, IsInventory(s.assets), s = [assets |-> s.assets, flows |-> s.flows],
         NEW host, IsList(host.ports)
  PROVE  IsInventory(IngestNmapHost(s, host).assets)
<1> DEFINE addr == [v4 |-> host.v4, v6 |-> host.v6, mac |-> host.mac, name |-> host.name]
           fields == UNION {ScriptKeys(q) : q \in ToSet(host.scripts)
                              \cup UNION {ToSet(p.scripts) : p \in ToSet(OpenPorts(host))}}
           d == Device(s.assets, addr)
           a == d[ByAddress(d, addr)]
           served == FoldLeft(ServePort, a, host.ports)
           named == [served EXCEPT !.identity = NmapIdentity(@, host)]
           b == AddEvidence(named, Evidence("nmap", "", <<Primary(addr)>>, fields))
           known == [d EXCEPT ![ByAddress(d, addr)] = b]
<1>1. \/ IngestNmapHost(s, host) = s
      \/ IngestNmapHost(s, host) = [s EXCEPT !.assets = known]
  BY DEF IngestNmapHost, Update
<1>2. Keeps(a, b)
  <2>1. Keeps(a, served)
    <3> HIDE DEF a
    <3> QED
      BY AllPortsKeep
  <2>2. Keeps(served, named)
    <3> HIDE DEF served
    <3> QED
      BY DEF Keeps, IsAsset
  <2>3. Keeps(named, b)
    <3> HIDE DEF named
    <3> QED
      BY AddEvidenceKeeps
  <2> HIDE DEF a, served, named, b
  <2> QED
    BY <2>1, <2>2, <2>3, KeepsBoth
<1>3. IsInventory(known)
  <2> HIDE DEF b, addr
  <2> QED
    BY <1>2, UpdateKeeps
<1> HIDE DEF known
<1>4. [s EXCEPT !.assets = known].assets = known
  OBVIOUS
<1> QED
  BY <1>1, <1>3, <1>4

(* An address seen. *)
LEMMA SeenKeeps ==
  ASSUME NEW known, IsInventory(known), NEW ip
  PROVE  IsInventory(Seen(known, ip))
  BY DeviceKeeps DEF Seen

LEMMA ServeKeeps ==
  ASSUME NEW known, IsInventory(known), NEW ip, NEW service
  PROVE  IsInventory(Serve(known, ip, service))
  BY UpdateServiceKeeps DEF Serve, Update

LEMMA NamedKeeps ==
  ASSUME NEW known, IsInventory(known), NEW ip, NEW name
  PROVE  IsInventory(Named(known, ip, name))
<1> DEFINE addr == AddressesFor(ip)
           d == Device(known, addr)
           a == d[ByAddress(d, addr)]
           b == [a EXCEPT !.addr.name = KeepName(@, name)]
<1>1. Named(known, ip, name) = known \/ Named(known, ip, name) = [d EXCEPT ![ByAddress(d, addr)] = b]
  BY DEF Named, Update
<1>2. Keeps(a, b)
  <2> DEFINE called == [a.addr EXCEPT !.name = KeepName(@, name)]
  <2>1. b = [a EXCEPT !.addr = called]
    OBVIOUS
  <2> HIDE DEF a, b, called
  <2> QED
    BY <2>1 DEF Keeps, IsAsset
<1>3. IsInventory([d EXCEPT ![ByAddress(d, addr)] = b])
  <2> HIDE DEF b, addr
  <2> QED
    BY <1>2, UpdateKeeps
<1> QED
  BY <1>1, <1>3

Naming == INSTANCE Folding_proofs WITH
  Op <- LAMBDA name, known, ip : Named(known, ip, name),
  Good <- LAMBDA name, k, known : IsInventory(known)

(* All the answers of a lookup. *)
LEMMA AllNamedKeep ==
  ASSUME NEW known, IsInventory(known), NEW s, IsList(s), NEW name
  PROVE  IsInventory(AllNamed(known, s, name))
<1>1. AllNamed(known, s, name) = Naming!Table(name, known, s)[DOMAIN s]
  BY DEF AllNamed, FoldLeft, MapThenFoldSet, Max, Naming!Table, Naming!Row, Naming!Top
<1>2. DOMAIN s = 1 .. Len(s) /\ Len(s) \in Nat
  BY ListHas
<1>3. \A acc, ip : IsInventory(acc) => IsInventory(Named(acc, ip, name))
  BY NamedKeeps
<1>4. IsInventory(Naming!Table(name, known, s)[DOMAIN s])
  BY <1>2, <1>3, Naming!FoldKeeps, InductionHolds
<1> QED
  BY <1>1, <1>4

(* What is read so far: the inventory and the conversations. *)
IsReading(s) == s = [assets |-> s.assets, flows |-> s.flows] /\ IsInventory(s.assets)

LEMMA ReadingChanges ==
  ASSUME NEW s, IsReading(s), NEW known, IsInventory(known)
  PROVE  IsReading([s EXCEPT !.assets = known])
  BY DEF IsReading

LEMMA ApplyConnKeeps ==
  ASSUME NEW s, IsReading(s), NEW record
  PROVE  IsReading(ApplyConn(s, record))
<1> DEFINE both == Seen(Seen(s.assets, record.orig), record.resp)
           served == Serve(both, record.resp, ZeekService(record))
           known == IF Answered(record) THEN served ELSE both
           more == ApplyConn(s, record).flows
<1>1. IsInventory(both)
  BY SeenKeeps DEF IsReading
<1>2. IsInventory(served)
  <2> HIDE DEF both
  <2> QED
    BY <1>1, ServeKeeps
<1>3. ApplyConn(s, record) = s \/ ApplyConn(s, record) = [flows |-> more, assets |-> known]
  BY DEF ApplyConn
<1> HIDE DEF both, served, more
<1> QED
  BY <1>1, <1>2, <1>3 DEF IsReading

LEMMA ApplyDHCPKeeps ==
  ASSUME NEW s, IsReading(s), NEW record
  PROVE  IsReading(ApplyDHCP(s, record))
<1> DEFINE addr == [Hardware(IF Usable(record.mac) THEN record.mac ELSE NoAddress) EXCEPT
                      !.v4 = record.host, !.name = record.name]
           d == Device(s.assets, addr)
           a == d[ByAddress(d, addr)]
           b == AddEvidence(a, Evidence("zeek", "dhcp", <<record.host>>,
                                        IF record.name = Unsaid THEN {} ELSE {"dhcp_host_name"}))
           known == [d EXCEPT ![ByAddress(d, addr)] = b]
<1>1. ApplyDHCP(s, record) = s \/ ApplyDHCP(s, record) = [s EXCEPT !.assets = known]
  BY DEF ApplyDHCP, Update
<1>2. Keeps(a, b)
  BY AddEvidenceKeeps
<1>3. IsInventory(known)
  <2> HIDE DEF b, addr
  <2> QED
    BY <1>2, UpdateKeeps DEF IsReading
<1> HIDE DEF known
<1> QED
  BY <1>1, <1>3, ReadingChanges

LEMMA ApplyDNSKeeps ==
  ASSUME NEW s, IsReading(s), NEW record,
         "answers" \in DOMAIN record => IsList(record.answers)
  PROVE  IsReading(ApplyDNS(s, record))
<1> DEFINE answers == At(record, "answers", <<>>)
           known == AllNamed(s.assets, answers, record.name)
<1>1. ApplyDNS(s, record) = s \/ ApplyDNS(s, record) = [s EXCEPT !.assets = known]
  BY DEF ApplyDNS
<1>2. IsList(answers)
  BY NoneIsList DEF At
<1>3. IsInventory(known)
  <2> HIDE DEF answers
  <2> QED
    BY <1>2, AllNamedKeep DEF IsReading
<1> HIDE DEF known
<1> QED
  BY <1>1, <1>3, ReadingChanges

LEMMA ApplySoftwareKeeps ==
  ASSUME NEW s, IsReading(s), NEW record
  PROVE  IsReading(ApplySoftware(s, record))
<1> DEFINE addr == AddressesFor(record.host)
           d == Device(s.assets, addr)
           a == d[ByAddress(d, addr)]
           b == AddEvidence(a, Evidence("zeek", "software", <<record.host>>, {"zeek_software"}))
           known == [d EXCEPT ![ByAddress(d, addr)] = b]
<1>1. ApplySoftware(s, record) = s \/ ApplySoftware(s, record) = [s EXCEPT !.assets = known]
  BY DEF ApplySoftware, Update
<1>2. Keeps(a, b)
  BY AddEvidenceKeeps
<1>3. IsInventory(known)
  <2> HIDE DEF b, addr
  <2> QED
    BY <1>2, UpdateKeeps DEF IsReading
<1> HIDE DEF known
<1> QED
  BY <1>1, <1>3, ReadingChanges

LEMMA ApplyICSKeeps ==
  ASSUME NEW s, IsReading(s), NEW record, NEW readout
  PROVE  IsReading(ApplyICS(s, record, readout))
<1> DEFINE met == IF Usable(PeerOf(record)) THEN Seen(s.assets, PeerOf(record)) ELSE s.assets
           addr == AddressesFor(SenderOf(record))
           d == Device(met, addr)
           a == d[ByAddress(d, addr)]
           identified == Identify(a, readout)
           b == AddEvidence(identified,
                  Evidence("zeek", record.kind, <<SenderOf(record)>>, DOMAIN readout))
           known == [d EXCEPT ![ByAddress(d, addr)] = b]
<1>1. \/ ApplyICS(s, record, readout) = s
      \/ ApplyICS(s, record, readout) = [s EXCEPT !.assets = met]
      \/ ApplyICS(s, record, readout) = [s EXCEPT !.assets = known]
  BY DEF ApplyICS, Update
<1>2. IsInventory(met)
  BY SeenKeeps DEF IsReading
<1>3. Keeps(a, b)
  <2>1. Keeps(a, identified)
    BY IdentifyKeeps
  <2>2. Keeps(identified, b)
    BY AddEvidenceKeeps
  <2> HIDE DEF a, identified, b
  <2> QED
    BY <2>1, <2>2, KeepsBoth
<1>4. IsInventory(known)
  <2>1. Keeps(Device(met, addr)[ByAddress(Device(met, addr), addr)], b)
    BY <1>3
  <2> HIDE DEF b, addr, met
  <2> QED
    BY <1>2, <2>1, UpdateKeeps
<1> HIDE DEF known, met
<1> QED
  BY <1>1, <1>2, <1>4, ReadingChanges

(* One record of a log, whatever its kind. *)
LEMMA ApplyRecordKeeps ==
  ASSUME NEW s, IsReading(s), NEW record, NEW after \in ApplyRecord(s, record),
         "answers" \in DOMAIN record => IsList(record.answers)
  PROVE  IsReading(after)
<1>1. IsReading(ApplyKnownHost(s, record))
  BY SeenKeeps, ReadingChanges DEF ApplyKnownHost, IsReading
<1>2. IsReading(ApplyKnownService(s, record))
  BY ServeKeeps, ReadingChanges DEF ApplyKnownService, IsReading
<1>3. \/ after \in {ApplyConn(s, record), ApplyKnownHost(s, record), ApplyKnownService(s, record),
                    ApplyDHCP(s, record), ApplyDNS(s, record), ApplySoftware(s, record), s}
      \/ \E r \in Readouts(record) : after = ApplyICS(s, record, r)
  BY DEF ApplyRecord
<1> QED
  BY <1>1, <1>2, <1>3, ApplyConnKeeps, ApplyDHCPKeeps, ApplyDNSKeeps, ApplySoftwareKeeps, ApplyICSKeeps

-----------------------------------------------------------------------------
(* The plan and the answers. *)

Selecting == INSTANCE Folding_proofs WITH
  Op <- LAMBDA to, acc, template : AddExchange(acc, to.host, template, to.only, to.known),
  Good <- LAMBDA to, k, acc : IsList(acc)

Targeting == INSTANCE Folding_proofs WITH
  Op <- LAMBDA of, acc, host : AddTarget(acc, host, of.templates, of.only, of.known),
  Good <- LAMBDA of, k, acc : IsList(acc)

LEMMA AddTargetKeeps ==
  ASSUME NEW acc, IsList(acc), NEW host, NEW templates, IsList(templates), NEW only, NEW known
  PROVE  IsList(AddTarget(acc, host, templates, only, known))
<1> DEFINE to == [host |-> host, only |-> only, known |-> known]
<1>1. AddTarget(acc, host, templates, only, known) = Selecting!Table(to, acc, templates)[DOMAIN templates]
  BY DEF AddTarget, FoldLeft, MapThenFoldSet, Max, Selecting!Table, Selecting!Row, Selecting!Top
<1> HIDE DEF to
<1>2. DOMAIN templates = 1 .. Len(templates) /\ Len(templates) \in Nat
  BY ListHas
<1>3. \A more, template : IsList(more) => IsList(AddExchange(more, to.host, template, to.only, to.known))
  BY AppendIsList DEF AddExchange
<1>4. IsList(Selecting!Table(to, acc, templates)[DOMAIN templates])
  BY <1>2, <1>3, Selecting!FoldKeeps, InductionHolds
<1> QED
  BY <1>1, <1>4

(* A plan is a list of exchanges. *)
LEMMA PlanIsList ==
  ASSUME NEW hosts, NEW n \in Nat, DOMAIN hosts = 1 .. n, NEW port, NEW only, NEW known
  PROVE  IsList(BuildPlan(hosts, Templates, port, only, known))
<1> DEFINE templates == Addressed(Templates, port)
           of == [templates |-> templates, only |-> only, known |-> known]
<1>1. IsList(templates)
  <2>1. DOMAIN Templates = 1 .. Len(Templates) /\ Len(Templates) \in Nat
    BY InputsAssumption, ListHas
  <2>2. templates = [i \in 1 .. Len(Templates) |-> templates[i]]
    BY <2>1 DEF Addressed
  <2> HIDE DEF templates
  <2> QED
    BY <2>1, <2>2, ListFrom
<1>2. BuildPlan(hosts, Templates, port, only, known) = Targeting!Table(of, <<>>, hosts)[DOMAIN hosts]
  BY DEF BuildPlan, FoldLeft, MapThenFoldSet, Max, Targeting!Table, Targeting!Row, Targeting!Top
<1> HIDE DEF templates
<1>3. of.templates = templates
  OBVIOUS
<1> HIDE DEF of
<1>4. \A acc, host : IsList(acc) => IsList(AddTarget(acc, host, of.templates, of.only, of.known))
  BY <1>1, <1>3, AddTargetKeeps
<1>5. IsList(<<>>)
  BY NoneIsList
<1>6. IsList(Targeting!Table(of, <<>>, hosts)[DOMAIN hosts])
  BY <1>4, <1>5, Targeting!FoldKeeps, InductionHolds
<1> QED
  BY <1>2, <1>6

(* What a target names is finitely many addresses. *)
LEMMA TargetIsFinite ==
  ASSUME NEW spec, IsTarget(spec)
  PROVE  IsFiniteSet(ExpandOne(spec).addresses)
<1>1. 2 ^ spec.bits \in Int
  BY DEF IsTarget
<1>2. \A from, to \in Int : IsFiniteSet(from .. to)
  BY FS_Interval
<1>3. IsFiniteSet({}) /\ IsFiniteSet({spec.from})
  BY FS_EmptySet, FS_Singleton
<1>4. IsFiniteSet(ExpandRange(spec).addresses)
  BY <1>2, <1>3 DEF ExpandRange, Accepted, Refused, IsTarget
<1>5. IsFiniteSet(ExpandPrefix(spec).addresses)
  BY <1>1, <1>2, <1>3 DEF ExpandPrefix, Accepted, Refused, IsTarget
<1> QED
  BY <1>3, <1>4, <1>5 DEF ExpandOne, Accepted, Refused

(* So the targets are a list of addresses. *)
LEMMA TargetsAreListed ==
  ASSUME NEW specs, IsList(specs), \A i \in DOMAIN specs : IsTarget(specs[i])
  PROVE  \E n \in Nat : DOMAIN ExpandTargets(specs) = 1 .. n
<1> DEFINE expanded == [i \in DOMAIN specs |-> ExpandOne(specs[i])]
           F == {expanded[i].addresses : i \in DOMAIN specs}
           all == UNION F
<1>1. IsFiniteSet(all)
  <2>1. \A S \in F : IsFiniteSet(S)
    BY TargetIsFinite
  <2>2. IsFiniteSet(DOMAIN specs)
    <3>1. DOMAIN specs = 1 .. Len(specs) /\ Len(specs) \in Nat
      BY ListHas
    <3> QED
      BY <3>1, FS_Interval
  <2>3. IsFiniteSet(F)
    <3> DEFINE g == [i \in DOMAIN specs |-> expanded[i].addresses]
    <3>1. F = {g[i] : i \in DOMAIN specs}
      OBVIOUS
    <3> HIDE DEF g, F
    <3> QED
      BY <2>2, <3>1, ImageIsFinite
  <2> HIDE DEF F
  <2> QED
    BY <2>1, <2>3, FS_UNION
<1>2. \/ ExpandTargets(specs) = <<>>
      \/ DOMAIN ExpandTargets(specs) = 1 .. Cardinality(all)
  BY DEF ExpandTargets, InOrder
<1>3. DOMAIN <<>> = 1 .. 0
  BY NoneIsList
<1> HIDE DEF all
<1>4. Cardinality(all) \in Nat
  BY <1>1, FS_CardinalityType
<1> QED
  BY <1>2, <1>3, <1>4

Observing == INSTANCE Folding_proofs WITH
  Op <- LAMBDA ctx, known, observation : Recorded(known, observation),
  Good <- LAMBDA ctx, k, known : IsInventory(known)

(* One answer. *)
LEMMA RecordedKeeps ==
  ASSUME NEW known, IsInventory(known), NEW observation
  PROVE  IsInventory(Recorded(known, observation))
<1> DEFINE reply == observation.reply
           service == [port |-> observation.template.port, transport |-> observation.template.transport,
                       protocol |-> reply.protocol, banner |-> Unsaid, source |-> "probe"]
           addr == AddressesFor(observation.host)
           d == Device(known, addr)
           a == d[ByAddress(d, addr)]
           identified == Identify(a, reply.identity)
           named == SetRole(identified, reply.role)
           served == IF reply.protocol = "" THEN named ELSE AddService(named, service)
           b == AddEvidence(served, Evidence("probe", reply.protocol,
                              <<observation.host, service.port, service.transport>>, reply.fields))
<1>1. Recorded(known, observation) = [d EXCEPT ![ByAddress(d, addr)] = b]
  BY DEF Recorded, Update
<1>2. Keeps(a, b)
  <2>1. Keeps(a, identified)
    BY IdentifyKeeps
  <2>2. Keeps(identified, named)
    BY SetRoleKeeps
  <2>3. Keeps(named, served)
    <3>1. Keeps(named, named) /\ Keeps(named, AddService(named, service))
      BY AddServiceKeeps DEF Keeps
    <3> QED
      BY <3>1
  <2>4. Keeps(served, b)
    BY AddEvidenceKeeps
  <2> HIDE DEF a, identified, named, served, b
  <2> QED
    BY <2>1, <2>2, <2>3, <2>4, KeepsBoth
<1>3. IsInventory([d EXCEPT ![ByAddress(d, addr)] = b])
  <2> HIDE DEF b, addr
  <2> QED
    BY <1>2, UpdateKeeps
<1> QED
  BY <1>1, <1>3

(* The inventory of a scan. *)
LEMMA BuildInventoryKeeps ==
  ASSUME NEW n \in Nat, NEW observations, DOMAIN observations = 1 .. n
  PROVE  IsInventory(BuildInventory(observations))
<1> DEFINE known == FoldLeft(Recorded, <<>>, observations)
<1>1. known = Observing!Table(0, <<>>, observations)[DOMAIN observations]
  BY DEF FoldLeft, MapThenFoldSet, Max, Observing!Table, Observing!Row, Observing!Top
<1>2. IsInventory(<<>>)
  BY NoneIsList DEF IsInventory
<1>3. \A acc, observation : IsInventory(acc) => IsInventory(Recorded(acc, observation))
  BY RecordedKeeps
<1>4. IsInventory(Observing!Table(0, <<>>, observations)[DOMAIN observations])
  BY <1>2, <1>3, Observing!FoldKeeps, InductionHolds
<1>5. BuildInventory(observations) = Finalize(known, <<>>).assets
  BY DEF BuildInventory
<1> HIDE DEF known
<1> QED
  BY <1>1, <1>4, <1>5, FinalizeKeeps

-----------------------------------------------------------------------------
(* The steps. *)

(* A command that starts has all there is of it left. *)
LEMMA ScheduledIsLeft ==
  ASSUME NEW list \in Commands, NEW i \in 1 .. Len(list)
  PROVE  IsLeft(Scheduled(list[i]))
<1>1. i \in DOMAIN list
  BY InputsAssumption, ListHas
<1> QED
  BY <1>1, InputsAssumption DEF Scheduled, IsLeft

(* An empty inventory is one, and a new pass has seen nothing. *)
LEMMA EmptyInventory == IsInventory(<<>>)
  BY NoneIsList DEF IsInventory

LEMMA NewPassIsPass == IsPass(NewPass)
<1>1. DOMAIN <<>> = {}
  BY NoneIsList
<1>2. IsFiniteSet({}) /\ Cardinality({}) = 0 /\ MaxTrackedFlows \in Nat
  BY FS_EmptySet, LimitsAssumption
<1> QED
  BY <1>1, <1>2 DEF NewPass, IsPass

LEMMA InitHolds == Init => IInv
<1> SUFFICES ASSUME Init PROVE IInv
  OBVIOUS
<1>1. IsList(commands) /\ commands # <<>>
  BY InputsAssumption DEF Init
<1>2. 1 \in 1 .. Len(commands)
  BY <1>1, TailIsList, ListHas
<1>3. IsLeft(left)
  BY <1>2, ScheduledIsLeft DEF Init
<1>4. Staged
  BY <1>2 DEF Init, Staged
<1>5. IsPass(pass)
  BY NewPassIsPass DEF Init
<1>6. IsInventory(assets) /\ IsInventory(saved.assets) /\ IsInventory(probed)
  BY EmptyInventory DEF Init
<1>7. IsList(plan)
  BY NoneIsList DEF Init
<1> QED
  BY <1>3, <1>4, <1>5, <1>6, <1>7 DEF IInv

(* The lines of the log that is read, and what is left after one. *)
LEMMA LineIsRead ==
  ASSUME IInv, InLog, Lines # <<>>
  PROVE  /\ IsLine(Head(Lines))
         /\ NextLine => IsLeft(left')
<1>1. AreLogs(left.logs) /\ left.logs # <<>>
  BY DEF IInv, IsLeft, InLog
<1>2. 1 \in DOMAIN left.logs /\ Head(left.logs) = left.logs[1] /\ IsLog(left.logs[1])
  BY <1>1, TailIsList DEF AreLogs
<1>3. IsList(Lines) /\ \A i \in DOMAIN Lines : IsLine(Lines[i])
  BY <1>2 DEF IsLog, Lines
<1>4. /\ IsLine(Head(Lines)) /\ IsList(Tail(Lines))
      /\ \A i \in DOMAIN Tail(Lines) : IsLine(Tail(Lines)[i])
  BY <1>3, TailIsList
<1>5. ASSUME NextLine PROVE IsLeft(left')
  <2> DEFINE log == [left.logs[1] EXCEPT !.lines = Tail(Lines)]
             logs == [left.logs EXCEPT ![1] = log]
  <2>1. IsLog(log)
    BY <1>2, <1>4 DEF IsLog
  <2>2. left' = [left EXCEPT !.logs = logs]
    BY <1>2, <1>5 DEF NextLine, Lines, IInv, IsLeft
  <2> HIDE DEF log
  <2>3. IsList(logs) /\ DOMAIN logs = DOMAIN left.logs /\ \A i \in DOMAIN logs : IsLog(logs[i])
    BY <1>1, <2>1, ChangeIsList DEF AreLogs
  <2> HIDE DEF logs
  <2> QED
    BY <2>2, <2>3 DEF IInv, IsLeft, AreLogs
<1> QED
  BY <1>4, <1>5

(* What is left after a log. *)
LEMMA LogIsLeft ==
  ASSUME IInv, left.logs # <<>>, left' = [left EXCEPT !.logs = Tail(@)]
  PROVE  IsLeft(left')
<1>1. AreLogs(Tail(left.logs))
  BY TailIsList DEF IInv, IsLeft, AreLogs
<1> DEFINE logs == Tail(left.logs)
<1>2. left' = [left EXCEPT !.logs = logs]
  OBVIOUS
<1> HIDE DEF logs
<1> QED
  BY <1>1, <1>2 DEF IInv, IsLeft, logs

LEMMA ScanBindingsKeeps == IInv /\ ScanBindings => IInv'
<1> SUFFICES ASSUME IInv, ScanBindings PROVE IInv'
  OBVIOUS
<1> USE DEF ScanBindings, ingesting
<1>1. IsPass(pass')
  BY NewPassIsPass
<1>2. Staged'
  BY DEF IInv, Staged
<1> QED
  BY <1>1, <1>2 DEF IInv

LEMMA HandleFrameKeeps == IInv /\ HandleFrame => IInv'
<1> SUFFICES ASSUME IInv, HandleFrame PROVE IInv'
  OBVIOUS
<1> DEFINE before == [pass |-> pass, assets |-> assets]
           after == Handle(before, bindings, Head(left.captures)[at + 1])
<1>1. IsState(before)
  BY DEF IInv, IsState
<1>2. IsState(after)
  <2> HIDE DEF before
  <2> QED
    BY <1>1, HandleKeeps
<1>3. pass' = after.pass /\ assets' = after.assets
  BY DEF HandleFrame
<1> HIDE DEF before, after
<1>4. IsPass(pass') /\ IsInventory(assets')
  BY <1>2, <1>3 DEF IsState
<1>5. Staged'
  BY DEF IInv, Staged, HandleFrame, ingesting
<1> QED
  BY <1>4, <1>5 DEF IInv, HandleFrame, ingesting

LEMMA WriteEndsKeeps == IInv /\ WriteEnds => IInv'
<1> SUFFICES ASSUME IInv, WriteEnds PROVE IInv'
  OBVIOUS
<1> USE DEF WriteEnds, ingesting
<1>1. IsInventory(assets')
  BY AddEndsKeeps DEF IInv
<1>2. Staged'
  BY DEF IInv, Staged
<1> QED
  BY <1>1, <1>2 DEF IInv

LEMMA WriteServiceKeeps ==
  ASSUME IInv, NEW service, WriteService(service)
  PROVE  IInv'
<1> USE DEF WriteService, ingesting
<1>1. IsInventory(assets')
  BY UpdateServiceKeeps DEF IInv, Update
<1>2. IsPass(pass')
  <2> DEFINE opened == pass.open \ {service}
  <2>1. pass' = [pass EXCEPT !.open = opened]
    OBVIOUS
  <2> HIDE DEF opened
  <2> QED
    BY <2>1 DEF IInv, IsPass
<1>3. Staged'
  BY DEF IInv, Staged
<1> QED
  BY <1>1, <1>2, <1>3 DEF IInv

LEMMA WriteFlowsKeeps == IInv /\ WriteFlows => IInv'
<1> SUFFICES ASSUME IInv, WriteFlows PROVE IInv'
  OBVIOUS
<1> USE DEF WriteFlows, ingesting
<1>1. IsPass(pass')
  BY NewPassIsPass
<1>2. Staged'
  BY DEF IInv, Staged
<1>3. IsLeft(left')
  <2> DEFINE captures == Tail(left.captures)
  <2>1. left' = [left EXCEPT !.captures = captures]
    OBVIOUS
  <2> HIDE DEF captures
  <2> QED
    BY <2>1 DEF IInv, IsLeft
<1> QED
  BY <1>1, <1>2, <1>3 DEF IInv

LEMMA ScanHostKeeps == IInv /\ ScanHost => IInv'
<1> SUFFICES ASSUME IInv, ScanHost PROVE IInv'
  OBVIOUS
<1> DEFINE before == [assets |-> assets, flows |-> flows]
           hosts == Tail(left.hosts)
<1>1. IsScan(left.hosts) /\ left.hosts # <<>>
  BY DEF IInv, IsLeft, ScanHost
<1>2. IsList(Head(left.hosts).ports) /\ IsScan(hosts)
  BY <1>1, TailIsList DEF IsScan, IsHost
<1>3. IsInventory(before.assets) /\ before = [assets |-> before.assets, flows |-> before.flows]
  BY DEF IInv
<1>4. assets' = IngestNmapHost(before, Head(left.hosts)).assets
  BY DEF ScanHost
<1> HIDE DEF before
<1>5. IsInventory(assets')
  BY <1>2, <1>3, <1>4, HostKeeps
<1>6. left' = [left EXCEPT !.hosts = hosts]
  BY DEF ScanHost
<1> HIDE DEF hosts
<1>7. IsLeft(left')
  BY <1>2, <1>6 DEF IInv, IsLeft
<1>8. Staged'
  <2>1. left'.captures = left.captures
    BY <1>6 DEF IInv, IsLeft
  <2> QED
    BY <2>1 DEF IInv, Staged, ScanHost, reading
<1> QED
  BY <1>5, <1>7, <1>8 DEF IInv, ScanHost, reading

LEMMA ReadDirectiveKeeps == IInv /\ ReadDirective => IInv'
<1> SUFFICES ASSUME IInv, ReadDirective PROVE IInv'
  OBVIOUS
<1>1. IsLeft(left')
  BY LineIsRead DEF ReadDirective
<1>2. Staged'
  BY DEF IInv, Staged, ReadDirective, reading, InLog, Idle
<1> QED
  BY <1>1, <1>2 DEF IInv, ReadDirective, reading

LEMMA ReadRecordKeeps == IInv /\ ReadRecord => IInv'
<1> SUFFICES ASSUME IInv, ReadRecord PROVE IInv'
  OBVIOUS
<1> DEFINE before == [assets |-> assets, flows |-> flows]
           line == Head(Lines)
           record == [line.record EXCEPT !.kind = header.kind]
<1>1. IsLine(line) /\ IsLeft(left') /\ line.line \in {"json", "tsv"}
  BY LineIsRead DEF ReadRecord
<1>2. "answers" \in DOMAIN record => IsList(record.answers)
  <2>1. DOMAIN record = DOMAIN line.record
    OBVIOUS
  <2>2. "answers" \in DOMAIN line.record => record.answers = line.record.answers
    OBVIOUS
  <2> HIDE DEF line, record
  <2> QED
    BY <1>1, <2>1, <2>2 DEF IsLine
<1>3. IsReading(before)
  BY DEF IInv, IsReading
<1>4. PICK after \in ApplyRecord(before, record) : assets' = after.assets /\ flows' = after.flows
  BY DEF ReadRecord
<1> HIDE DEF before, record, line
<1>5. IsInventory(assets')
  <2>1. IsReading(after)
    BY <1>2, <1>3, ApplyRecordKeeps
  <2> QED
    BY <1>4, <2>1 DEF IsReading
<1>6. Staged'
  BY DEF IInv, Staged, ReadRecord, reading, InLog, Idle
<1> QED
  BY <1>1, <1>5, <1>6 DEF IInv, ReadRecord, reading

LEMMA SkipLineKeeps == IInv /\ SkipLine => IInv'
<1> SUFFICES ASSUME IInv, SkipLine PROVE IInv'
  OBVIOUS
<1>1. IsLeft(left')
  BY LineIsRead DEF SkipLine
<1>2. Staged'
  BY DEF IInv, Staged, SkipLine, reading, InLog, Idle
<1> QED
  BY <1>1, <1>2 DEF IInv, SkipLine, reading

LEMMA LeaveLogKeeps == IInv /\ LeaveLog => IInv'
<1> SUFFICES ASSUME IInv, LeaveLog PROVE IInv'
  OBVIOUS
<1>1. IsLeft(left')
  BY LogIsLeft DEF LeaveLog, NextLog, InLog
<1>2. Staged'
  BY DEF IInv, Staged, LeaveLog, reading, InLog, Idle
<1> QED
  BY <1>1, <1>2 DEF IInv, LeaveLog, reading

LEMMA FinishKeeps == IInv /\ Finish => IInv'
<1> SUFFICES ASSUME IInv, Finish PROVE IInv'
  OBVIOUS
<1> DEFINE resolved == [i \in DOMAIN flows |-> Resolved(flows[i])]
           run == Finalize(assets, resolved)
<1>1. IsInventory(run.assets)
  <2> HIDE DEF resolved
  <2> QED
    BY FinalizeKeeps DEF IInv
<1>2. saved' = IF commands[command].merge
               THEN Finalize(Merge(saved.assets, run.assets), saved.flows \o run.flows)
               ELSE Finalize(run.assets, run.flows)
  BY DEF Finish
<1> HIDE DEF run
<1>3. IsInventory(saved'.assets)
  <2>1. IsInventory(Merge(saved.assets, run.assets))
    BY <1>1, MergeKeeps DEF IInv
  <2>2. IsInventory(Finalize(Merge(saved.assets, run.assets), saved.flows \o run.flows).assets)
    BY <2>1, FinalizeKeeps
  <2>3. IsInventory(Finalize(run.assets, run.flows).assets)
    BY <1>1, FinalizeKeeps
  <2> QED
    BY <1>2, <2>2, <2>3
<1>4. IsInventory(assets')
  BY EmptyInventory DEF Finish
<1>5. IsLeft(left') /\ Staged'
  <2>1. CASE command < Len(commands)
    <3>1. /\ command' = command + 1 /\ stage' = "read" /\ commands' = commands /\ pass' = pass
          /\ left' = Scheduled(commands[command + 1])
      BY <2>1 DEF Finish
    <3>2. commands \in Commands /\ command + 1 \in 1 .. Len(commands)
      <4>1. Len(commands) \in Nat
        BY InputsAssumption, ListHas DEF IInv, Staged
      <4> QED
        BY <2>1, <4>1 DEF IInv, Staged
    <3>3. IsLeft(left')
      BY <3>1, <3>2, ScheduledIsLeft
    <3>4. pass = NewPass
      BY DEF IInv, Staged, Finish, Idle
    <3> QED
      BY <3>1, <3>2, <3>3, <3>4 DEF Staged
  <2>2. CASE ~ command < Len(commands)
    BY <2>2 DEF Finish, IInv, Staged
  <2> QED
    BY <2>1, <2>2
<1> QED
  BY <1>3, <1>4, <1>5 DEF IInv, Finish

LEMMA MakePlanKeeps ==
  ASSUME IInv, NEW request \in PlanRequests, MakePlan(request)
  PROVE  IInv'
<1>1. \E n \in Nat : DOMAIN ExpandTargets(request.targets) = 1 .. n
  BY InputsAssumption, TargetsAreListed
<1>2. IsList(plan')
  BY <1>1, PlanIsList DEF MakePlan
<1>3. Staged'
  BY DEF IInv, Staged, MakePlan, planning
<1> QED
  BY <1>2, <1>3 DEF IInv, MakePlan, planning

LEMMA ProbeKeeps == IInv /\ Probe => IInv'
<1> SUFFICES ASSUME IInv, Probe PROVE IInv'
  OBVIOUS
<1>0. PICK answering \in SUBSET {i \in DOMAIN plan :
                 <<plan[i].host, plan[i].template.port>> \in DOMAIN Replies} :
        \E read \in [answering -> 1 .. MaxDecodeAttempt] :
        LET order == InOrder(answering, <)
        IN  probed' = BuildInventory([i \in DOMAIN order |-> Answer(plan[order[i]], read[order[i]])])
  BY DEF Probe
<1>1. PICK read \in [answering -> 1 .. MaxDecodeAttempt] :
        LET order == InOrder(answering, <)
        IN  probed' = BuildInventory([i \in DOMAIN order |-> Answer(plan[order[i]], read[order[i]])])
  BY <1>0
<1> DEFINE order == InOrder(answering, <)
           observations == [i \in DOMAIN order |-> Answer(plan[order[i]], read[order[i]])]
<1>2. IsFiniteSet(DOMAIN plan)
  <2>1. DOMAIN plan = 1 .. Len(plan) /\ Len(plan) \in Nat
    BY ListHas DEF IInv
  <2> QED
    BY <2>1, FS_Interval
<1>3. Cardinality(answering) \in Nat
  BY <1>2, FS_Subset, FS_CardinalityType
<1>4. DOMAIN observations = 1 .. Cardinality(answering)
  BY DEF InOrder
<1>5. probed' = BuildInventory(observations)
  BY <1>1
<1> HIDE DEF observations
<1>6. IsInventory(probed')
  BY <1>3, <1>4, <1>5, BuildInventoryKeeps
<1>7. Staged'
  BY DEF IInv, Staged, Probe, planning
<1> QED
  BY <1>6, <1>7 DEF IInv, Probe, planning

LEMMA NextKeeps == IInv /\ [Next]_vars => IInv'
<1> SUFFICES ASSUME IInv, [Next]_vars PROVE IInv'
  OBVIOUS
<1>1. CASE Next
  <2>1. ASSUME NEW service \in pass.open, WriteService(service) PROVE IInv'
    BY <2>1, WriteServiceKeeps
  <2>2. ASSUME NEW request \in PlanRequests, MakePlan(request) PROVE IInv'
    BY <2>2, MakePlanKeeps
  <2> QED
    BY <1>1, <2>1, <2>2, ScanBindingsKeeps, HandleFrameKeeps, WriteEndsKeeps, WriteFlowsKeeps,
       ScanHostKeeps, ReadDirectiveKeeps, ReadRecordKeeps, SkipLineKeeps, LeaveLogKeeps,
       FinishKeeps, ProbeKeeps
       DEF Next
<1>2. CASE UNCHANGED vars
  BY <1>2 DEF vars, IInv, Staged
<1> QED
  BY <1>1, <1>2

(* The inductive invariant holds in every state: whatever the commands are  *)
(* and in whichever order a map is gone through.                            *)
THEOREM DiscoveryHolds == Spec => []IInv
  BY InitHolds, NextKeeps, PTL DEF Spec

(* An asset is in the inventory once, in the one being built, in the file   *)
(* and in that of a scan (Inventory.ByAddress, Upsert), and what is held of *)
(* a capture stays bounded (maxTrackedFlows, MaxFlowBufferBytes).           *)
THEOREM EachAssetIsThereOnce == Spec => []TypeOK
<1>1. IInv => TypeOK
  BY DEF IInv, Staged, IsPass, IsInventory, TypeOK
<1> QED
  BY <1>1, DiscoveryHolds, PTL

-----------------------------------------------------------------------------
(* Whose each asset is. *)

(* What is known of where an asset is. *)
IsAddr(addr) == addr = [v4 |-> addr.v4, v6 |-> addr.v6, mac |-> addr.mac, name |-> addr.name]

LEMMA HardwareFilled ==
  ASSUME NEW mac, NEW ip, NEW name
  PROVE  LET addr == [Hardware(mac) EXCEPT !.v4 = ip, !.name = name]
         IN  addr.v4 = ip /\ addr.v6 = NoAddress /\ addr.mac = mac /\ IsAddr(addr)
<1> DEFINE one == [Hardware(mac) EXCEPT !.v4 = ip]
           addr == [Hardware(mac) EXCEPT !.v4 = ip, !.name = name]
<1>1. one = [v4 |-> ip, v6 |-> NoAddress, mac |-> mac, name |-> Unsaid]
  BY DEF Hardware
<1>2. addr = [one EXCEPT !.name = name]
  OBVIOUS
<1> HIDE DEF one, addr
<1>3. addr = [v4 |-> ip, v6 |-> NoAddress, mac |-> mac, name |-> name]
  BY <1>1, <1>2
<1>4. addr.v4 = ip /\ addr.v6 = NoAddress /\ addr.mac = mac /\ IsAddr(addr)
  BY <1>3 DEF IsAddr
<1> QED
  BY <1>4 DEF addr

(* An address is of the device. *)
Names(addr, device) ==
  /\ IsAddr(addr)
  /\ \A x \in {addr.v4, addr.v6, addr.mac} \ {NoAddress} : Owner[x] = device
  /\ \E x \in {addr.v4, addr.v6, addr.mac} : x # NoAddress

(* What an asset says is true of the device: its addresses, those it was    *)
(* first seen with, of which there are some, and its identity.              *)
IsOf(a, device) ==
  /\ device \in DOMAIN TruthOf /\ IsAddr(a.addr)
  /\ \A x \in {a.addr.v4, a.addr.v6, a.addr.mac} \ {NoAddress} : Owner[x] = device
  /\ \A i \in 1 .. 3 : a.id[i] # NoAddress => Owner[a.id[i]] = device
  /\ \E i \in 1 .. 3 : a.id[i] # NoAddress
  /\ \A f \in IdentityFields : a.identity[f] \in TruthOf[device] \cup {Unsaid, Garbled}

Owned(known) == \A i \in DOMAIN known : \E device \in DOMAIN TruthOf : IsOf(known[i], device)

(* A hardware address is bound to addresses of the same device. *)
IsBound(bound) ==
  /\ \A pair \in bound.macToIP : Owner[pair[1]] = Owner[pair[2]]
  /\ \A ip \in DOMAIN bound.ipToMAC : Owner[bound.ipToMAC[ip]] = Owner[ip]

(* A conversation is between known addresses; the services heard are at     *)
(* such, and what is held of one is of messages its device may send.        *)
IsKey(key) ==
  /\ key = <<key[1], key[2], key[3], key[4]>>
  /\ \A i \in 1 .. 2 : key[i] \in Int /\ Usable(key[i]) /\ Known(key[i])
  /\ key[3] \in Int /\ key[4] \in {"tcp", "udp"}

IsAt(service) == Usable(service[1]) /\ Known(service[1])

IsHeard(p) ==
  /\ \A key \in DOMAIN p.flows : IsKey(key)
  /\ \A service \in p.open : IsAt(service)
  /\ \A service \in DOMAIN p.buffers :
       IsList(p.buffers[service]) /\ Told(p.buffers[service], Owner[service[1]])

(* What is left to read tells the truth.  Of the log that is being read the *)
(* kind is in the header.                                                   *)
IsTrueLeft(l) ==
  /\ IsList(l.captures)
  /\ \A i \in DOMAIN l.captures :
       IsList(l.captures[i]) /\ \A j \in DOMAIN l.captures[i] : IsTrueFrame(l.captures[i][j])
  /\ \A i \in DOMAIN l.hosts : IsTrueHost(l.hosts[i])
  /\ \A i \in DOMAIN l.logs : IsTrueLog(l.logs[i])

ReadAs(kind, logs) == [kind |-> kind, lines |-> Head(logs).lines]

IsTruthful ==
  /\ IsTrueLeft(left)
  /\ \A i \in DOMAIN left.captures : left.captures[i] \in ReadSoFar
  /\ left.logs # <<>> => IsTrueLog(ReadAs(header.kind, left.logs))

TInv ==
  /\ at \in Nat /\ "kind" \in DOMAIN header
  /\ IsTruthful
  /\ IsHeard(pass)
  /\ Sound => Owned(assets) /\ Owned(saved.assets) /\ Owned(probed) /\ IsBound(bindings)

-----------------------------------------------------------------------------
(* One asset of a device. *)

(* What is said of a device is true of it, or the bytes of two answers.     *)
Says(identity, device) ==
  \A f \in IdentityFields \cap DOMAIN identity : identity[f] \in TruthOf[device] \cup {Unsaid, Garbled}

(* What is done to a leaves it an asset of its device. *)
StaysOf(a, b, device) == IsAsset(a) /\ IsOf(a, device) => IsOf(b, device)

LEMMA SameStays ==
  ASSUME NEW a, NEW b, Same(a, b), NEW device
  PROVE  StaysOf(a, b, device)
  BY DEF Same, StaysOf, IsOf

LEMMA NewIsOf ==
  ASSUME NEW addr, NEW device \in DOMAIN TruthOf, Names(addr, device)
  PROVE  IsOf(NewAsset(addr), device)
<1> DEFINE a == NewAsset(addr)
<1>1. /\ a.addr = addr /\ a.id = <<addr.v4, addr.v6, addr.mac>>
      /\ \A f \in IdentityFields : a.identity[f] = Unsaid
  BY DEF NewAsset, NewID, Nobody
<1>2. a.id[1] = addr.v4 /\ a.id[2] = addr.v6 /\ a.id[3] = addr.mac
  BY <1>1
<1> HIDE DEF a
<1>3. \A i \in 1 .. 3 : i = 1 \/ i = 2 \/ i = 3
  OBVIOUS
<1>4. 1 \in 1 .. 3 /\ 2 \in 1 .. 3 /\ 3 \in 1 .. 3
  OBVIOUS
<1> QED
  BY <1>1, <1>2, <1>3, <1>4 DEF IsOf, Names, a

(* Its addresses are filled in with others of the device. *)
LEMMA FilledStays ==
  ASSUME NEW a, NEW addr, NEW device,
         \A x \in {addr.v4, addr.v6, addr.mac} \ {NoAddress} : Owner[x] = device
  PROVE  StaysOf(a, [a EXCEPT !.addr = FillAddresses(@, addr)], device)
<1> SUFFICES ASSUME IsAsset(a), IsOf(a, device)
             PROVE  IsOf([a EXCEPT !.addr = FillAddresses(@, addr)], device)
  BY DEF StaysOf
<1> DEFINE filled == FillAddresses(a.addr, addr)
           b == [a EXCEPT !.addr = filled]
<1>1. /\ filled.v4 = KeepAddress(a.addr.v4, addr.v4)
      /\ filled.v6 = KeepAddress(a.addr.v6, addr.v6)
      /\ filled.mac = KeepAddress(a.addr.mac, addr.mac)
      /\ IsAddr(filled)
  BY DEF FillAddresses, IsAddr
<1> HIDE DEF filled
<1>2. b.addr = filled /\ b.id = a.id /\ b.identity = a.identity
  BY DEF IsAsset
<1>3. \A x \in {filled.v4, filled.v6, filled.mac} \ {NoAddress} : Owner[x] = device
  BY <1>1 DEF IsOf, KeepAddress
<1> HIDE DEF b
<1>4. IsOf(b, device)
  BY <1>1, <1>2, <1>3 DEF IsOf
<1> QED
  BY <1>4 DEF b, filled

(* So is its identity with what is said of the device. *)
LEMMA IdentifiedStays ==
  ASSUME NEW a, NEW identity, NEW device, Says(identity, device)
  PROVE  StaysOf(a, Identify(a, identity), device)
<1> SUFFICES ASSUME IsAsset(a), IsOf(a, device)
             PROVE  IsOf(Identify(a, identity), device)
  BY DEF StaysOf
<1> DEFINE merged == MergeIdentity(a.identity, identity)
<1>1. \A f \in IdentityFields : merged[f] =
        IF f \in DOMAIN identity THEN KeepName(a.identity[f], identity[f]) ELSE a.identity[f]
  BY DEF MergeIdentity
<1> HIDE DEF merged
<1>2. \A f \in IdentityFields : merged[f] \in TruthOf[device] \cup {Unsaid, Garbled}
  BY <1>1 DEF IsOf, Says, KeepName
<1>3. Identify(a, identity) = [a EXCEPT !.identity = merged]
  BY DEF Identify, merged
<1>4. /\ Identify(a, identity).addr = a.addr /\ Identify(a, identity).id = a.id
      /\ Identify(a, identity).identity = merged
  BY <1>3 DEF IsAsset
<1> QED
  BY <1>2, <1>4 DEF IsOf

(* What an asset of the device says is said of it. *)
LEMMA AssetSays ==
  ASSUME NEW a, NEW device, IsOf(a, device)
  PROVE  Says(a.identity, device)
  BY DEF IsOf, Says

(* Two assets of one device, merged. *)
LEMMA MergedStays ==
  ASSUME NEW a, NEW b, IsAsset(b), NEW device, IsOf(b, device)
  PROVE  StaysOf(a, MergeAsset(a, b), device)
<1> SUFFICES ASSUME IsAsset(a), IsOf(a, device)
             PROVE  IsOf(MergeAsset(a, b), device)
  BY DEF StaysOf
<1> DEFINE identified == Identify(a, b.identity)
           filled == [identified EXCEPT !.addr = FillAddresses(@, b.addr)]
           named == [identified EXCEPT
                       !.addr = FillAddresses(@, b.addr),
                       !.purdue = IF @ = "" THEN b.purdue ELSE @]
           roled == SetRole(named, b.role)
           served == FoldLeft(AddService, roled, b.services)
<1>1. IsAsset(identified) /\ IsOf(identified, device)
  <2>1. Says(b.identity, device)
    BY AssetSays
  <2> QED
    BY <2>1, IdentifyKeeps, IdentifiedStays DEF Keeps, StaysOf
<1>2. IsAsset(filled) /\ IsOf(filled, device)
  <2>1. StaysOf(identified, filled, device)
    <3>1. \A x \in {b.addr.v4, b.addr.v6, b.addr.mac} \ {NoAddress} : Owner[x] = device
      BY DEF IsOf
    <3> HIDE DEF identified
    <3> QED
      BY <3>1, FilledStays
  <2> DEFINE addr == FillAddresses(identified.addr, b.addr)
  <2>2. filled = [identified EXCEPT !.addr = addr]
    OBVIOUS
  <2> HIDE DEF addr, identified, filled
  <2>3. IsAsset(filled)
    BY <1>1, <2>2 DEF IsAsset
  <2> QED
    BY <1>1, <2>1, <2>3 DEF StaysOf
<1>3. IsAsset(named) /\ IsOf(named, device)
  <2> DEFINE level == IF identified.purdue = "" THEN b.purdue ELSE identified.purdue
  <2>1. named = [filled EXCEPT !.purdue = level]
    OBVIOUS
  <2> HIDE DEF level, filled, named
  <2> QED
    BY <1>2, <2>1 DEF IsAsset, IsOf
<1>4. IsAsset(roled) /\ IsOf(roled, device)
  <2> HIDE DEF named
  <2> QED
    BY <1>3, SetRoleKeeps, SameStays DEF Keeps, StaysOf
<1>5. IsAsset(served) /\ IsOf(served, device)
  <2>1. IsList(b.services)
    BY DEF IsAsset
  <2> HIDE DEF roled
  <2> QED
    BY <1>4, <2>1, AllServicesKeep, SameStays DEF Keeps, StaysOf
<1>6. MergeAsset(a, b) = FoldLeft(AddEvidence, served, b.evidence)
  BY DEF MergeAsset
<1>7. IsList(b.evidence)
  BY DEF IsAsset
<1> HIDE DEF served
<1> QED
  BY <1>5, <1>6, <1>7, AllEvidenceKeeps, SameStays DEF StaysOf

-----------------------------------------------------------------------------
(* The inventory of the devices. *)

LEMMA OwnedAdded ==
  ASSUME NEW known, IsInventory(known), Owned(known), NEW a, NEW device, IsOf(a, device)
  PROVE  Owned(Append(known, a))
<1>1. /\ DOMAIN known = 1 .. Len(known) /\ Len(known) \in Nat
      /\ DOMAIN Append(known, a) = 1 .. Len(known) + 1
      /\ \A i \in DOMAIN known : Append(known, a)[i] = known[i]
      /\ Append(known, a)[Len(known) + 1] = a
  BY AppendIsList, ListHas DEF IsInventory
<1>2. device \in DOMAIN TruthOf
  BY DEF IsOf
<1>3. \A i \in DOMAIN Append(known, a) : i \in DOMAIN known \/ i = Len(known) + 1
  BY <1>1
<1> QED
  BY <1>1, <1>2, <1>3 DEF Owned

LEMMA OwnedReplaced ==
  ASSUME NEW known, IsInventory(known), Owned(known), NEW k, NEW a, NEW device,
         k \in DOMAIN known => IsOf(a, device)
  PROVE  Owned([known EXCEPT ![k] = a])
<1> DEFINE other == [known EXCEPT ![k] = a]
<1>1. /\ DOMAIN other = DOMAIN known
      /\ \A i \in DOMAIN known : other[i] = IF i = k THEN a ELSE known[i]
  BY ChangeIsList DEF IsInventory
<1>2. \A i \in DOMAIN known : i = k => device \in DOMAIN TruthOf /\ IsOf(a, device)
  BY DEF IsOf
<1> HIDE DEF other
<1>3. Owned(other)
  BY <1>1, <1>2 DEF Owned
<1> QED
  BY <1>3 DEF other

(* The asset found for an address has its id or shares an address with it.  *)
LEMMA FoundShares ==
  ASSUME NEW known, IsList(known), NEW addr, ByAddress(known, addr) \in DOMAIN known
  PROVE  LET a == known[ByAddress(known, addr)] IN a.id = NewID(addr) \/ Shares(a, addr)
<1> DEFINE exact == {i \in 1 .. Len(known) : known[i].id = NewID(addr)}
           sharing == {i \in 1 .. Len(known) : Shares(known[i], addr)}
           k == ByAddress(known, addr)
<1>1. DOMAIN known = 1 .. Len(known) /\ Len(known) \in Nat
  BY ListHas
<1>2. k = IF exact # {} /\ Min(exact) # 0 THEN Min(exact)
          ELSE IF sharing # {} THEN Min(sharing) ELSE 0
  BY DEF ByAddress, SelectInSeq
<1>3. exact \in SUBSET Nat /\ sharing \in SUBSET Nat
  OBVIOUS
<1>4. k \in exact \cup sharing
  <2> HIDE DEF exact, sharing, k
  <2>1. k # 0
    BY <1>1 DEF k
  <2> QED
    BY <1>2, <1>3, <2>1, MinIsLeast
<1> QED
  BY <1>4

(* So it is of the device that the address names. *)
LEMMA FoundIsOf ==
  ASSUME NEW a, NEW device, IsOf(a, device), NEW addr, NEW d, Names(addr, d),
         a.id = NewID(addr) \/ Shares(a, addr)
  PROVE  device = d
<1>1. CASE a.id = NewID(addr)
  <2>1. a.id[1] = addr.v4 /\ a.id[2] = addr.v6 /\ a.id[3] = addr.mac
    BY <1>1 DEF NewID
  <2>2. 1 \in 1 .. 3 /\ 2 \in 1 .. 3 /\ 3 \in 1 .. 3
    OBVIOUS
  <2> QED
    BY <2>1, <2>2 DEF IsOf, Names
<1>2. CASE Shares(a, addr)
  BY <1>2 DEF Shares, IsOf, Names
<1> QED
  BY <1>1, <1>2

(* The asset of an address of the device is found or added. *)
LEMMA DeviceOwned ==
  ASSUME NEW known, IsInventory(known), Owned(known),
         NEW addr, NEW d \in DOMAIN TruthOf, Names(addr, d)
  PROVE  /\ Owned(Device(known, addr))
         /\ LET k == ByAddress(Device(known, addr), addr)
            IN  k \in DOMAIN Device(known, addr) => IsOf(Device(known, addr)[k], d)
<1>1. Owned(Device(known, addr))
  <2>1. CASE ByAddress(known, addr) = 0
    <3>1. IsOf(NewAsset(addr), d)
      BY NewIsOf
    <3>2. Owned(Append(known, NewAsset(addr)))
      BY <3>1, OwnedAdded
    <3> QED
      BY <2>1, <3>2 DEF Device
  <2>2. CASE ByAddress(known, addr) # 0
    <3> DEFINE k == ByAddress(known, addr)
               a == [known[k] EXCEPT !.addr = FillAddresses(@, addr)]
    <3>1. ASSUME k \in DOMAIN known PROVE IsOf(a, d)
      <4>1. IsList(known) /\ IsAsset(known[k])
        BY <3>1 DEF IsInventory
      <4>2. known[k].id = NewID(addr) \/ Shares(known[k], addr)
        BY <3>1, <4>1, FoundShares
      <4>3. PICK device \in DOMAIN TruthOf : IsOf(known[k], device)
        BY <3>1 DEF Owned
      <4>4. IsOf(known[k], d)
        <5> HIDE DEF k
        <5> QED
          BY <4>2, <4>3, FoundIsOf
      <4>5. StaysOf(known[k], a, d)
        <5>1. \A x \in {addr.v4, addr.v6, addr.mac} \ {NoAddress} : Owner[x] = d
          BY DEF Names
        <5> HIDE DEF k
        <5> QED
          BY <5>1, FilledStays
      <4> QED
        BY <4>1, <4>4, <4>5 DEF StaysOf
    <3>2. Device(known, addr) = [known EXCEPT ![k] = a]
      BY <2>2 DEF Device
    <3> HIDE DEF a, k
    <3>3. Owned([known EXCEPT ![k] = a])
      BY <3>1, OwnedReplaced
    <3> QED
      BY <3>2, <3>3
  <2> QED
    BY <2>1, <2>2
<1> DEFINE more == Device(known, addr)
           k == ByAddress(more, addr)
<1>2. ASSUME k \in DOMAIN more PROVE IsOf(more[k], d)
  <2>1. IsList(more)
    BY DeviceKeeps DEF IsInventory
  <2> HIDE DEF more
  <2>2. more[k].id = NewID(addr) \/ Shares(more[k], addr)
    BY <1>2, <2>1, FoundShares
  <2>3. PICK device \in DOMAIN TruthOf : IsOf(more[k], device)
    BY <1>1, <1>2 DEF Owned, more
  <2> HIDE DEF k
  <2> QED
    BY <2>2, <2>3, FoundIsOf
<1> QED
  BY <1>1, <1>2

(* That asset is changed, and stays of the device. *)
LEMMA UpdateOwned ==
  ASSUME NEW known, IsInventory(known), Owned(known),
         NEW addr, NEW d \in DOMAIN TruthOf, Names(addr, d), NEW b,
         StaysOf(Device(known, addr)[ByAddress(Device(known, addr), addr)], b, d)
  PROVE  Owned([Device(known, addr) EXCEPT ![ByAddress(Device(known, addr), addr)] = b])
<1> DEFINE more == Device(known, addr)
           k == ByAddress(more, addr)
<1>1. IsInventory(more) /\ Owned(more) /\ (k \in DOMAIN more => IsOf(more[k], d))
  BY DeviceKeeps, DeviceOwned
<1>2. k \in DOMAIN more => IsOf(b, d)
  BY <1>1 DEF StaysOf, IsInventory
<1> HIDE DEF more, k
<1>3. Owned([more EXCEPT ![k] = b])
  BY <1>1, <1>2, OwnedReplaced
<1> QED
  BY <1>3 DEF more, k

-----------------------------------------------------------------------------
(* Inventories of the devices, merged and put in order. *)

(* Assets with one id are of one device. *)
LEMMA IdIsOf ==
  ASSUME NEW a, NEW device, IsOf(a, device), NEW b, NEW d, IsOf(b, d), a.id = b.id
  PROVE  device = d
  BY DEF IsOf

LEMMA UpsertOwned ==
  ASSUME NEW known, IsInventory(known), Owned(known), NEW a, IsAsset(a), NEW d, IsOf(a, d)
  PROVE  Owned(Upsert(known, a))
<1> DEFINE same == {i \in 1 .. Len(known) : known[i].id = a.id}
           place == IF same # {} THEN Min(same) ELSE 0
<1>1. DOMAIN known = 1 .. Len(known) /\ Len(known) \in Nat
  BY ListHas DEF IsInventory
<1>2. Upsert(known, a) = IF place = 0 THEN Append(known, a)
                         ELSE [known EXCEPT ![place] = MergeAsset(known[place], a)]
  BY DEF Upsert, SelectInSeq
<1>3. place # 0 => place \in DOMAIN known /\ known[place].id = a.id
  <2>1. same \in SUBSET Nat /\ \A i \in same : i \in DOMAIN known /\ known[i].id = a.id
    BY <1>1
  <2> HIDE DEF same
  <2> QED
    BY <2>1, MinIsLeast
<1> HIDE DEF place
<1>4. CASE place = 0
  BY <1>2, <1>4, OwnedAdded
<1>5. CASE place # 0
  <2>1. PICK device \in DOMAIN TruthOf : IsOf(known[place], device)
    BY <1>3, <1>5 DEF Owned
  <2>2. device = d
    BY <1>3, <1>5, <2>1, IdIsOf
  <2>3. IsAsset(known[place]) /\ IsOf(known[place], d)
    BY <1>3, <1>5, <2>1, <2>2 DEF IsInventory
  <2>4. IsOf(MergeAsset(known[place], a), d)
    BY <2>3, MergedStays DEF StaysOf
  <2>5. Owned([known EXCEPT ![place] = MergeAsset(known[place], a)])
    BY <2>4, OwnedReplaced
  <2> QED
    BY <1>2, <1>5, <2>5
<1> QED
  BY <1>4, <1>5

Joining == INSTANCE Folding_proofs WITH
  Op <- LAMBDA ctx, known, a : Upsert(known, a),
  Good <- LAMBDA ctx, k, known : IsInventory(known) /\ Owned(known)

LEMMA MergeOwned ==
  ASSUME NEW known, IsInventory(known), Owned(known), NEW others, IsInventory(others), Owned(others)
  PROVE  Owned(Merge(known, others))
<1>1. Merge(known, others) = Joining!Table(0, known, others)[DOMAIN others]
  BY DEF Merge, FoldLeft, MapThenFoldSet, Max, Joining!Table, Joining!Row, Joining!Top
<1>2. DOMAIN others = 1 .. Len(others) /\ Len(others) \in Nat
  BY ListHas DEF IsInventory
<1>3. ASSUME NEW k \in 0 .. Len(others) - 1, NEW acc, IsInventory(acc), Owned(acc)
      PROVE  IsInventory(Upsert(acc, others[k + 1])) /\ Owned(Upsert(acc, others[k + 1]))
  <2>1. k + 1 \in DOMAIN others
    BY <1>2
  <2>2. PICK device \in DOMAIN TruthOf : IsOf(others[k + 1], device)
    BY <2>1 DEF Owned
  <2>3. IsAsset(others[k + 1])
    BY <2>1 DEF IsInventory
  <2> QED
    BY <1>3, <2>2, <2>3, UpsertKeeps, UpsertOwned
<1> QED
  BY <1>1, <1>2, <1>3, Joining!FoldKeeps, InductionHolds

(* What is put in order, classified or not. *)
LEMMA FinalizeOwned ==
  ASSUME NEW known, IsInventory(known), Owned(known), NEW conversations
  PROVE  Owned(Finalize(known, conversations).assets)
<1> DEFINE classified == [i \in DOMAIN known |-> Classify(known[i])]
<1>1. DOMAIN known = 1 .. Len(known) /\ Len(known) \in Nat
  BY ListHas DEF IsInventory
<1>2. ASSUME NEW i \in DOMAIN known
      PROVE  /\ IsAsset(classified[i]) /\ classified[i].id = known[i].id
             /\ \E device \in DOMAIN TruthOf : IsOf(classified[i], device)
  <2>1. classified[i] = Classify(known[i])
    OBVIOUS
  <2>2. IsAsset(known[i])
    BY DEF IsInventory
  <2>3. PICK device \in DOMAIN TruthOf : IsOf(known[i], device)
    BY DEF Owned
  <2> HIDE DEF classified
  <2>4. StaysOf(known[i], Classify(known[i]), device)
    BY ClassifyKeeps, SameStays
  <2> QED
    BY <2>1, <2>2, <2>3, <2>4, ClassifyKeeps DEF Keeps, StaysOf
<1>3. DOMAIN classified = DOMAIN known /\ classified = [i \in 1 .. Len(known) |-> classified[i]]
  BY <1>1
<1>4. Finalize(known, conversations).assets = Sorted(classified)
  BY DEF Finalize
<1> HIDE DEF classified
<1>5. IsList(classified) /\ Len(classified) = Len(known)
  BY <1>1, <1>3, ListFrom
<1>6. IsInventory(classified)
  BY <1>2, <1>3, <1>5 DEF IsInventory
<1>7. Among(classified, Len(classified), Sorted(classified))
  BY <1>6, SortedKeeps
<1>8. Owned(Sorted(classified))
  BY <1>1, <1>2, <1>5, <1>7 DEF Among, Owned
<1> QED
  BY <1>4, <1>8

-----------------------------------------------------------------------------
(* Bindings. *)

(* What an honest capture teaches binds no two devices. *)
LEMMA HonestBinds ==
  ASSUME NEW capture, Honest(capture), NEW bound \in Bindings(Learned(capture))
  PROVE  IsBound(bound)
<1> DEFINE tables == Learned(capture)
           macToIP == MacToIP(tables)
<1>1. ASSUME NEW table \in {tables.arp, tables.observed}, NEW pair \in Announced(table)
      PROVE  Owner[pair[1]] = Owner[pair[2]]
  <2>1. /\ pair \in table /\ Cardinality(IPsOf(table, pair[1])) = 1
        /\ pair[2] \notin Groups
    BY DEF Announced, Sole, Usable
  <2>2. \/ Cardinality(IPsOf(table, pair[1])) > 1
        \/ pair[2] \in Groups
        \/ Owner[pair[1]] = Owner[pair[2]]
    BY <2>1 DEF Honest
  <2> QED
    BY <2>1, <2>2
<1>2. macToIP \subseteq Announced(tables.arp) \cup Announced(tables.observed)
  BY DEF MacToIP
<1> HIDE DEF tables
<1>3. \A pair \in macToIP : Owner[pair[1]] = Owner[pair[2]]
  BY <1>1, <1>2
<1> DEFINE Claimants(ip) == {p[1] : p \in {q \in macToIP : q[2] = ip}}
           ips == {p[2] : p \in macToIP}
<1>4. PICK chosen \in [ips -> Macs(macToIP)] :
        /\ bound = [macToIP |-> macToIP, ipToMAC |-> chosen]
        /\ \A ip \in ips : chosen[ip] \in Claimants(ip)
  <2>1. bound \in Bindings(tables)
    BY DEF tables
  <2> QED
    BY <2>1 DEF Bindings
<1> HIDE DEF macToIP
<1>5. \A ip \in ips : Owner[chosen[ip]] = Owner[ip]
  BY <1>3, <1>4
<1> QED
  BY <1>3, <1>4, <1>5 DEF IsBound

LEMMA UnboundIsBound == IsBound(Unbound)
  BY NoneIsList DEF IsBound, Unbound

(* An address names its owner, whatever it is bound to. *)
LEMMA AddressNames ==
  ASSUME NEW ip, ip # NoAddress
  PROVE  Names(AddressesFor(ip), Owner[ip])
  BY DEF Names, IsAddr, AddressesFor, Hardware, NoAddress

LEMMA BoundNames ==
  ASSUME NEW bound, IsBound(bound), NEW ip, ip # NoAddress
  PROVE  Names(BoundAddresses(bound, ip), Owner[ip])
<1> DEFINE mac == MacFor(bound, ip)
           addr == BoundAddresses(bound, ip)
<1>1. mac = NoAddress \/ Owner[mac] = Owner[ip]
  BY DEF MacFor, IsBound
<1> HIDE DEF mac
<1>2. /\ addr.mac = mac /\ IsAddr(addr)
      /\ (addr.v4 = ip /\ addr.v6 = NoAddress) \/ (addr.v4 = NoAddress /\ addr.v6 = ip)
  BY DEF BoundAddresses, AddressesFor, Hardware, IsAddr, mac
<1> HIDE DEF addr
<1>3. Names(addr, Owner[ip])
  BY <1>1, <1>2 DEF Names
<1> QED
  BY <1>3 DEF addr

LEMMA IPIsBound ==
  ASSUME NEW bound, IsBound(bound), NEW mac
  PROVE  IPFor(bound, mac) = NoAddress \/ Owner[IPFor(bound, mac)] = Owner[mac]
<1> DEFINE ips == IPsOf(bound.macToIP, mac)
<1>1. IPFor(bound, mac) = NoAddress \/ IPFor(bound, mac) \in ips
  BY DEF IPFor
<1>2. \A ip \in ips : Owner[ip] = Owner[mac]
  BY DEF IPsOf, IsBound
<1> QED
  BY <1>1, <1>2

-----------------------------------------------------------------------------
(* What is read from bytes. *)

(* Bytes that are held and those that come after them. *)
LEMMA BytesAreTold ==
  ASSUME NEW device, NEW held, IsList(held), Told(held, device),
         NEW payload, IsList(payload), payload # <<>>, Told(payload, device)
  PROVE  LET all == held \o payload
             bytes == SubSeq(all, 1, Min({Len(all), MaxDecodeAttempt}))
         IN  IsList(bytes) /\ 1 \in DOMAIN bytes /\ Told(bytes, device)
<1> DEFINE S == ToSet(held) \cup ToSet(payload)
           all == held \o payload
           n == Min({Len(all), MaxDecodeAttempt})
           bytes == SubSeq(all, 1, n)
<1>1. /\ held \in Seq(S) /\ payload \in Seq(S) /\ Len(held) \in Nat /\ Len(payload) \in Nat \ {0}
      /\ DOMAIN held = 1 .. Len(held) /\ DOMAIN payload = 1 .. Len(payload)
  <2>1. /\ held \in Seq(ToSet(held)) /\ \A i \in DOMAIN held : held[i] \in S
        /\ payload \in Seq(ToSet(payload)) /\ \A i \in DOMAIN payload : payload[i] \in S
    BY ListHas
  <2>2. DOMAIN held = 1 .. Len(held) /\ DOMAIN payload = 1 .. Len(payload)
    BY ListHas
  <2> HIDE DEF S
  <2> QED
    BY <2>1, <2>2
<1> HIDE DEF S
<1>2. /\ all \in Seq(S) /\ Len(all) \in Nat \ {0}
      /\ \A i \in 1 .. Len(all) : \/ i \in DOMAIN held /\ all[i] = held[i]
                                  \/ i - Len(held) \in DOMAIN payload /\ all[i] = payload[i - Len(held)]
  BY <1>1
<1> HIDE DEF all
<1>3. n \in 1 .. Len(all)
  <2>1. MaxDecodeAttempt \in Nat \ {0}
    BY LimitsAssumption
  <2>2. {Len(all), MaxDecodeAttempt} \in SUBSET Nat /\ {Len(all), MaxDecodeAttempt} # {}
    BY <1>2, <2>1
  <2>3. n \in {Len(all), MaxDecodeAttempt} /\ n <= Len(all)
    BY <2>2, MinIsLeast
  <2> QED
    BY <1>2, <2>1, <2>3
<1> HIDE DEF n
<1>4. bytes \in Seq(S) /\ Len(bytes) = n /\ \A i \in 1 .. n : bytes[i] = all[i]
  BY <1>2, <1>3
<1> HIDE DEF bytes
<1>5. IsList(bytes) /\ DOMAIN bytes = 1 .. n
  BY <1>4, ListOf
<1>6. \A i \in 1 .. n : i \in 1 .. Len(all)
  BY <1>2, <1>3
<1>7. Told(bytes, device)
  BY <1>2, <1>4, <1>5, <1>6 DEF Told
<1>8. 1 \in DOMAIN bytes
  BY <1>3, <1>5
<1> QED
  BY <1>5, <1>7, <1>8 DEF bytes, n, all

(* A decoder reads the values of the message, or garbles them. *)
LEMMA DecodedSays ==
  ASSUME NEW device, NEW bytes, 1 \in DOMAIN bytes, Told(bytes, device),
         NEW protocol, Decoder(protocol, bytes).verdict = "said"
  PROVE  Says(Decoder(protocol, bytes).identity, device)
<1>1. Decoder(protocol, bytes) \in {Said(bytes), Truncated, NotThis}
  BY DEF Decoder, DecodeModbus, DecodeENIP, DecodeS7, DecodeBACnet, DecodeStarted
<1>2. Decoder(protocol, bytes) = Said(bytes)
  BY <1>1 DEF Truncated, NotThis
<1> DEFINE said == Messages[bytes[1].message].identity
<1>3. Tells(said, device)
  BY DEF Told
<1>4. Said(bytes).identity = said \/ Said(bytes).identity = [f \in DOMAIN said |-> Garbled]
  BY DEF Said
<1> HIDE DEF said
<1>5. Says(said, device) /\ Says([f \in DOMAIN said |-> Garbled], device)
  BY <1>3 DEF Tells, Says
<1> QED
  BY <1>2, <1>4, <1>5

-----------------------------------------------------------------------------
(* What one frame that tells the truth does. *)

(* What is heard stays of known devices, and so does the inventory where    *)
(* no two of them are bound to each other.                                  *)
Follows(s, bound, r) ==
  /\ IsHeard(s.pass) => IsHeard(r.pass)
  /\ IsBound(bound) /\ Owned(s.assets) => Owned(r.assets)

LEMMA BothAreJoined ==
  ASSUME NEW S, NEW p \in Seq(S), NEW q \in Seq(S)
  PROVE  /\ p \o q \in Seq(S) /\ Len(p \o q) = Len(p) + Len(q)
         /\ \A i \in 1 .. Len(p) + Len(q) :
              (p \o q)[i] = IF i <= Len(p) THEN p[i] ELSE q[i - Len(p)]
  OBVIOUS

LEMMA FourAreJoined ==
  ASSUME NEW a, NEW b, NEW c, NEW d
  PROVE  <<a>> \o <<b, c, d>> = <<a, b, c, d>>
<1> DEFINE S == {a, b, c, d}
           p == <<a>>
           q == <<b, c, d>>
           r == p \o q
           t == <<a, b, c, d>>
<1>1. p \in Seq(S) /\ Len(p) = 1 /\ p[1] = a
  OBVIOUS
<1>2. q \in Seq(S) /\ Len(q) = 3 /\ q[1] = b /\ q[2] = c /\ q[3] = d
  OBVIOUS
<1>3. t \in Seq(S) /\ Len(t) = 4 /\ t[1] = a /\ t[2] = b /\ t[3] = c /\ t[4] = d
  OBVIOUS
<1> HIDE DEF S, p, q, t
<1>4. /\ r \in Seq(S) /\ Len(r) = Len(p) + Len(q)
      /\ \A i \in 1 .. Len(p) + Len(q) : r[i] = IF i <= Len(p) THEN p[i] ELSE q[i - Len(p)]
  BY <1>1, <1>2, BothAreJoined, Zenon
<1> HIDE DEF r
<1>5. Len(r) = 4 /\ r[1] = a /\ r[2] = b /\ r[3] = c /\ r[4] = d
  BY <1>1, <1>2, <1>4
<1>6. r = t
  <2>1. \A i \in 1 .. 4 : i = 1 \/ i = 2 \/ i = 3 \/ i = 4
    OBVIOUS
  <2> QED
    BY <1>3, <1>4, <1>5, <2>1
<1> QED
  BY <1>6 DEF r, p, q, t

LEMMA AddFlowHeard ==
  ASSUME NEW p, IsPass(p), IsHeard(p), NEW frame, IsTrueFrame(frame), frame.kind = "ip"
  PROVE  IsHeard(AddFlow(p, frame))
<1> DEFINE key == <<Client(frame)>> \o Server(frame)
           more == AddFlow(p, frame).flows
<1>1. /\ frame.transport \in {"tcp", "udp"}
      /\ {frame.src, frame.dst, frame.sport, frame.dport} \subseteq Int
      /\ \A a \in {frame.src, frame.dst} : Usable(a) => Known(a)
  BY DEF IsTrueFrame
<1>2. AddFlow(p, frame) = [p EXCEPT !.flows = more]
  BY DEF AddFlow, IsPass
<1>3. /\ DOMAIN more \subseteq DOMAIN p.flows \cup {key}
      /\ ~ Usable(Client(frame)) \/ ~ Usable(Server(frame)[1]) => more = p.flows
  <2>1. DOMAIN With(p.flows, key, 1) = DOMAIN p.flows \cup {key}
    BY DEF With
  <2>2. DOMAIN [p.flows EXCEPT ![key] = @ + 1] = DOMAIN p.flows
    OBVIOUS
  <2>3. p = [flows |-> p.flows, buffers |-> p.buffers, identified |-> p.identified,
             open |-> p.open, services |-> p.services]
    BY DEF IsPass
  <2>4. /\ more \in {p.flows, [p.flows EXCEPT ![key] = @ + 1], With(p.flows, key, 1)}
        /\ ~ Usable(Client(frame)) \/ ~ Usable(Server(frame)[1]) => more = p.flows
    <3> HIDE DEF key
    <3> QED
      BY <2>3 DEF AddFlow, key
  <2> HIDE DEF key, more
  <2> QED
    BY <2>1, <2>2, <2>4
<1>4. Usable(Client(frame)) /\ Usable(Server(frame)[1]) => IsKey(key)
  <2> SUFFICES ASSUME Usable(Client(frame)), Usable(Server(frame)[1]) PROVE IsKey(key)
    OBVIOUS
  <2>1. CASE ServerIsDst(frame)
    <3>1. key = <<frame.src, frame.dst, frame.dport, frame.transport>>
      BY <2>1, FourAreJoined DEF Client, Server
    <3>2. Usable(frame.src) /\ Usable(frame.dst)
      BY <2>1 DEF Client, Server
    <3> HIDE DEF key
    <3> QED
      BY <1>1, <3>1, <3>2 DEF IsKey
  <2>2. CASE ~ ServerIsDst(frame)
    <3>1. key = <<frame.dst, frame.src, frame.sport, frame.transport>>
      BY <2>2, FourAreJoined DEF Client, Server
    <3>2. Usable(frame.src) /\ Usable(frame.dst)
      BY <2>2 DEF Client, Server
    <3> HIDE DEF key
    <3> QED
      BY <1>1, <3>1, <3>2 DEF IsKey
  <2> QED
    BY <2>1, <2>2
<1> HIDE DEF key, more
<1>5. /\ AddFlow(p, frame).flows = more /\ AddFlow(p, frame).open = p.open
      /\ AddFlow(p, frame).buffers = p.buffers
  BY <1>2 DEF IsPass
<1>6. \A k \in DOMAIN more : IsKey(k)
  BY <1>3, <1>4 DEF IsHeard
<1> QED
  BY <1>5, <1>6 DEF IsHeard

LEMMA MarkOpenHeard ==
  ASSUME NEW p, IsPass(p), IsHeard(p), NEW frame, IsTrueFrame(frame), frame.kind = "ip"
  PROVE  IsHeard(MarkOpen(p, frame))
<1>1. \A a \in {frame.src, frame.dst} : Usable(a) => Known(a)
  BY DEF IsTrueFrame
<1>2. Usable(Server(frame)[1]) => IsAt(Server(frame))
  BY <1>1 DEF Server, IsAt
<1>3. Usable(frame.src) => IsAt(Sender(frame))
  BY <1>1 DEF Sender, IsAt
<1> DEFINE opened == MarkOpen(p, frame).open
<1>4. MarkOpen(p, frame) = [p EXCEPT !.open = opened]
  BY DEF MarkOpen, IsPass
<1>5. \A service \in opened : service \in p.open \/ IsAt(service)
  <2>1. opened = p.open
          \cup (IF Usable(Server(frame)[1]) /\ Answers(frame) THEN {Server(frame)} ELSE {})
          \cup (IF frame.payload # <<>> /\ Symmetric(frame) /\ Usable(frame.src) THEN {Sender(frame)} ELSE {})
    BY DEF MarkOpen, IsPass
  <2> HIDE DEF opened
  <2> QED
    BY <1>2, <1>3, <2>1
<1> HIDE DEF opened
<1> QED
  BY <1>4, <1>5 DEF IsHeard, IsPass

(* An observation that says what the device of the service does. *)
LEMMA RecordObservationFollows ==
  ASSUME NEW s, IsState(s), NEW bound, NEW service, IsAt(service),
         NEW decoded, Says(decoded.identity, Owner[service[1]])
  PROVE  Follows(s, bound, RecordObservation(s, bound, service, decoded))
<1> DEFINE r == RecordObservation(s, bound, service, decoded)
           addr == BoundAddresses(bound, service[1])
           d == Device(s.assets, addr)
           a == d[ByAddress(d, addr)]
           identified == Identify(a, decoded.identity)
           roled == SetRole(identified, decoded.role)
           b == AddEvidence(roled, Evidence("pcap", decoded.protocol, service, decoded.fields))
           device == Owner[service[1]]
<1>1. ASSUME IsBound(bound), Owned(s.assets) PROVE Owned(r.assets)
  <2>1. StaysOf(a, b, device)
    <3>1. Keeps(a, identified) /\ StaysOf(a, identified, device)
      <4> HIDE DEF a, device
      <4> QED
        BY IdentifyKeeps, IdentifiedStays DEF device
    <3>2. Keeps(identified, roled) /\ StaysOf(identified, roled, device)
      <4> HIDE DEF identified, device
      <4> QED
        BY SetRoleKeeps, SameStays
    <3>3. StaysOf(roled, b, device)
      <4> HIDE DEF roled, device
      <4> QED
        BY AddEvidenceKeeps, SameStays
    <3> HIDE DEF a, identified, roled, b, device
    <3> QED
      BY <3>1, <3>2, <3>3 DEF Keeps, StaysOf
  <2>2. r.assets = [d EXCEPT ![ByAddress(d, addr)] = b]
    BY DEF RecordObservation, Update
  <2>3. IsInventory(s.assets) /\ device \in DOMAIN TruthOf /\ Names(addr, device)
    BY <1>1, BoundNames DEF IsState, IsAt, Usable, Known
  <2> HIDE DEF b, r, addr, device
  <2>4. Owned([d EXCEPT ![ByAddress(d, addr)] = b])
    BY <1>1, <2>1, <2>3, UpdateOwned
  <2> QED
    BY <2>2, <2>4
<1>2. ASSUME IsHeard(s.pass) PROVE IsHeard(r.pass)
  <2> DEFINE p == s.pass
             held == Without(p.buffers, service)
             opened == p.open \cup {service}
  <2>1. r.pass.flows = p.flows /\ r.pass.buffers = held /\ r.pass.open = opened
    <3>1. IsPass(p)
      BY DEF IsState
    <3>2. p = [flows |-> p.flows, buffers |-> p.buffers, identified |-> p.identified,
               open |-> p.open, services |-> p.services]
      BY <3>1 DEF IsPass
    <3> QED
      BY <3>2 DEF RecordObservation
  <2>2. DOMAIN held \subseteq DOMAIN p.buffers /\ \A x \in DOMAIN held : held[x] = p.buffers[x]
    BY DEF Without
  <2> HIDE DEF held, r
  <2> QED
    BY <1>2, <2>1, <2>2 DEF IsHeard
<1> QED
  BY <1>1, <1>2 DEF Follows

(* What is held of a service is of its device. *)
LEMMA BuffersFollow ==
  ASSUME NEW s, IsState(s), NEW bound, NEW held,
         \A x \in DOMAIN held : \/ x \in DOMAIN s.pass.buffers /\ held[x] = s.pass.buffers[x]
                                \/ IsList(held[x]) /\ Told(held[x], Owner[x[1]])
  PROVE  Follows(s, bound, [s EXCEPT !.pass.buffers = held])
<1> DEFINE r == [s EXCEPT !.pass.buffers = held]
<1>1. r.assets = s.assets
  BY DEF IsState
<1>2. r.pass = [s.pass EXCEPT !.buffers = held]
  BY DEF IsState
<1> HIDE DEF r
<1>3. r.pass.flows = s.pass.flows /\ r.pass.open = s.pass.open /\ r.pass.buffers = held
  BY <1>2 DEF IsState, IsPass
<1>4. IsHeard(s.pass) => IsHeard(r.pass)
  BY <1>3 DEF IsHeard
<1>5. Follows(s, bound, r)
  BY <1>1, <1>4 DEF Follows
<1> QED
  BY <1>5 DEF r

LEMMA TryDecodeFollows ==
  ASSUME NEW s, IsState(s), IsHeard(s.pass), NEW bound, NEW service, IsAt(service),
         NEW payload, IsList(payload), payload # <<>>, Told(payload, Owner[service[1]])
  PROVE  Follows(s, bound, TryDecode(s, bound, service, payload))
<1> DEFINE device == Owner[service[1]]
           held == At(s.pass.buffers, service, <<>>)
           all == held \o payload
           bytes == SubSeq(all, 1, Min({Len(all), MaxDecodeAttempt}))
           decoders == DecodersFor(service[2])
           decoded == [k \in DOMAIN decoders |-> Decoder(decoders[k], bytes)]
           hit == SelectInSeq(decoded, IsObservation)
           more == With(s.pass.buffers, service, bytes)
           less == Without(s.pass.buffers, service)
           r == TryDecode(s, bound, service, payload)
<1>1. IsList(held) /\ Told(held, device)
  BY NoneIsList DEF At, IsHeard, Told
<1>2. IsList(bytes) /\ 1 \in DOMAIN bytes /\ Told(bytes, device)
  <2> HIDE DEF held, device
  <2> QED
    BY <1>1, BytesAreTold DEF device
<1>3. \/ hit # 0 /\ r = RecordObservation(s, bound, service, decoded[hit])
      \/ r = s
      \/ r = [s EXCEPT !.pass.buffers = more]
      \/ r = [s EXCEPT !.pass.buffers = less]
  BY DEF TryDecode
<1> HIDE DEF bytes
<1>4. ASSUME hit # 0 PROVE Says(decoded[hit].identity, device)
  <2> DEFINE hits == {i \in 1 .. Len(decoded) : IsObservation(decoded[i])}
  <2>1. hit \in hits
    <3>1. hit = IF hits # {} THEN Min(hits) ELSE 0
      BY DEF SelectInSeq
    <3>2. hits \in SUBSET Nat
      OBVIOUS
    <3> HIDE DEF hit, hits
    <3> QED
      BY <1>4, <3>1, <3>2, MinIsLeast
  <2>2. DOMAIN decoded = 1 .. Len(decoded)
    <3>1. DOMAIN decoders = 1 .. 1 \/ DOMAIN decoders = 1 .. 4
      BY DEF DecodersFor, AllDecoders
    <3>2. decoded = [k \in DOMAIN decoders |-> decoded[k]]
      OBVIOUS
    <3> HIDE DEF decoded, decoders
    <3>3. ASSUME NEW n \in Nat, DOMAIN decoders = 1 .. n PROVE DOMAIN decoded = 1 .. Len(decoded)
      BY <3>2, <3>3, ListFrom
    <3> QED
      BY <3>1, <3>3
  <2>3. hit \in DOMAIN decoders /\ IsObservation(decoded[hit])
    BY <2>1, <2>2
  <2>4. decoded[hit] = Decoder(decoders[hit], bytes)
    BY <2>3
  <2> HIDE DEF decoded, hit, decoders, device
  <2>5. Decoder(decoders[hit], bytes).verdict = "said"
    BY <2>3, <2>4 DEF IsObservation
  <2> QED
    BY <1>2, <2>4, <2>5, DecodedSays
<1>5. CASE hit # 0 /\ r = RecordObservation(s, bound, service, decoded[hit])
  <2> HIDE DEF decoded, hit
  <2>1. Says(decoded[hit].identity, Owner[service[1]])
    BY <1>4, <1>5
  <2>2. Follows(s, bound, RecordObservation(s, bound, service, decoded[hit]))
    BY <2>1, RecordObservationFollows
  <2> HIDE DEF r
  <2>3. Follows(s, bound, r)
    BY <1>5, <2>2
  <2> QED
    BY <2>3 DEF r
<1>6. Follows(s, bound, s)
  BY DEF Follows
<1>7. Follows(s, bound, [s EXCEPT !.pass.buffers = more])
  <2>1. DOMAIN more = DOMAIN s.pass.buffers \cup {service}
    BY DEF With
  <2>2. \A x \in DOMAIN more : more[x] = IF x = service THEN bytes ELSE s.pass.buffers[x]
    BY DEF With
  <2> HIDE DEF more
  <2>3. \A x \in DOMAIN more : \/ x \in DOMAIN s.pass.buffers /\ more[x] = s.pass.buffers[x]
                               \/ IsList(more[x]) /\ Told(more[x], Owner[x[1]])
    BY <1>2, <2>1, <2>2
  <2> QED
    BY <2>3, BuffersFollow
<1>8. Follows(s, bound, [s EXCEPT !.pass.buffers = less])
  <2>1. \A x \in DOMAIN less : x \in DOMAIN s.pass.buffers /\ less[x] = s.pass.buffers[x]
    BY DEF Without
  <2> HIDE DEF less
  <2> QED
    BY <2>1, BuffersFollow
<1> HIDE DEF hit, decoded, more, less
<1>9. Follows(s, bound, r)
  <2> HIDE DEF r
  <2> QED
    BY <1>3, <1>5, <1>6, <1>7, <1>8 DEF r
<1> QED
  BY <1>9 DEF r

LEMMA TryHTTPBannerFollows ==
  ASSUME NEW s, IsState(s), NEW bound, NEW service, IsAt(service), NEW server
  PROVE  Follows(s, bound, TryHTTPBanner(s, service, server))
<1> DEFINE opened == s.pass.open \cup {service}
           r == TryHTTPBanner(s, service, server)
<1>1. /\ r.assets = s.assets
      /\ r.pass.flows = s.pass.flows /\ r.pass.buffers = s.pass.buffers
      /\ r.pass.open \in {s.pass.open, opened}
  BY DEF TryHTTPBanner, IsState, IsPass
<1> HIDE DEF r
<1>2. IsHeard(s.pass) => IsHeard(r.pass)
  BY <1>1 DEF IsHeard
<1>3. Follows(s, bound, r)
  BY <1>1, <1>2 DEF Follows
<1> QED
  BY <1>3 DEF r

LEMMA HandleIPFollows ==
  ASSUME NEW s, IsState(s), IsHeard(s.pass), NEW bound,
         NEW frame, IsTrueFrame(frame), frame.kind = "ip"
  PROVE  Follows(s, bound, HandleIP(s, bound, frame))
<1> DEFINE p == MarkOpen(AddFlow(s.pass, frame), frame)
           seen == [s EXCEPT !.pass = p]
           service == Responder(frame)
           decoded == TryDecode(seen, bound, service, frame.payload)
           answered == TryHTTPBanner(decoded, service, frame.server)
<1>1. IsPass(p) /\ IsHeard(p)
  <2>1. IsPass(AddFlow(s.pass, frame)) /\ IsHeard(AddFlow(s.pass, frame))
    BY AddFlowKeeps, AddFlowHeard DEF IsState
  <2> QED
    BY <2>1, MarkOpenKeeps, MarkOpenHeard
<1>2. HandleIP(s, bound, frame) = IF ~ FromListener(frame) THEN seen ELSE answered
  BY DEF HandleIP
<1> HIDE DEF p
<1>3. IsState(seen) /\ seen.pass = p /\ seen.assets = s.assets
  BY <1>1 DEF IsState
<1> HIDE DEF seen
<1>4. Follows(s, bound, seen)
  BY <1>1, <1>3 DEF Follows
<1>5. ASSUME FromListener(frame) PROVE Follows(s, bound, answered)
  <2>1. /\ frame.payload # <<>> /\ IsList(frame.payload)
        /\ Usable(frame.src) /\ Known(frame.src) /\ Told(frame.payload, Owner[frame.src])
    BY <1>5 DEF IsTrueFrame, FromListener
  <2>2. service[1] = frame.src
    BY <1>5 DEF Responder, Sender, Server, FromListener
  <2>3. IsAt(service) /\ Told(frame.payload, Owner[service[1]])
    BY <2>1, <2>2 DEF IsAt
  <2> HIDE DEF service
  <2>4. Follows(seen, bound, decoded) /\ IsState(decoded)
    BY <1>1, <1>3, <2>1, <2>3, TryDecodeFollows, TryDecodeKeeps
  <2> HIDE DEF decoded
  <2>5. Follows(decoded, bound, answered)
    BY <2>3, <2>4, TryHTTPBannerFollows
  <2> HIDE DEF answered
  <2> QED
    BY <1>4, <2>4, <2>5 DEF Follows
<1> HIDE DEF answered
<1> QED
  BY <1>2, <1>4, <1>5

(* The inventory alone is changed. *)
LEMMA AssetsFollow ==
  ASSUME NEW s, IsState(s), NEW bound, NEW known,
         IsBound(bound) /\ Owned(s.assets) => Owned(known)
  PROVE  Follows(s, bound, [s EXCEPT !.assets = known])
<1> DEFINE r == [s EXCEPT !.assets = known]
<1>1. r.assets = known /\ r.pass = s.pass
  BY DEF IsState
<1> HIDE DEF r
<1>2. Follows(s, bound, r)
  BY <1>1 DEF Follows
<1> QED
  BY <1>2 DEF r

LEMMA HandleARPFollows ==
  ASSUME NEW s, IsState(s), NEW bound, NEW frame, IsTrueFrame(frame), frame.kind = "arp"
  PROVE  Follows(s, bound, HandleARP(s, bound, frame))
<1> DEFINE addr == [Hardware(frame.mac) EXCEPT !.v4 = frame.ip]
           d == Device(s.assets, addr)
           a == d[ByAddress(d, addr)]
           b == AddEvidence(a, Evidence("pcap", "arp", <<frame.ip>>, {"arp_announced_ip"}))
           known == [d EXCEPT ![ByAddress(d, addr)] = b]
           device == Owner[frame.ip]
<1>1. \/ HandleARP(s, bound, frame) = s
      \/ /\ Usable(frame.mac) /\ Usable(frame.ip) /\ MacFor(bound, frame.ip) = frame.mac
         /\ HandleARP(s, bound, frame) = [s EXCEPT !.assets = known]
  BY DEF HandleARP, Update
<1>2. ASSUME Usable(frame.mac), Usable(frame.ip), MacFor(bound, frame.ip) = frame.mac,
             IsBound(bound), Owned(s.assets)
      PROVE  Owned(known)
  <2>1. device \in DOMAIN TruthOf /\ Owner[frame.mac] = device
    BY <1>2 DEF IsTrueFrame, Known, MacFor, IsBound, Usable
  <2>2. addr.v4 = frame.ip /\ addr.v6 = NoAddress /\ addr.mac = frame.mac /\ IsAddr(addr)
    BY DEF Hardware, IsAddr
  <2>3. StaysOf(a, b, device)
    <3> HIDE DEF a, device
    <3> QED
      BY AddEvidenceKeeps, SameStays
  <2> HIDE DEF b, addr
  <2>4. Names(addr, device)
    BY <1>2, <2>1, <2>2 DEF Names, Usable
  <2> HIDE DEF device
  <2> QED
    BY <1>2, <2>1, <2>3, <2>4, UpdateOwned DEF IsState
<1> HIDE DEF known
<1>3. Follows(s, bound, s)
  BY DEF Follows
<1>4. CASE /\ Usable(frame.mac) /\ Usable(frame.ip) /\ MacFor(bound, frame.ip) = frame.mac
           /\ HandleARP(s, bound, frame) = [s EXCEPT !.assets = known]
  BY <1>2, <1>4, AssetsFollow
<1> QED
  BY <1>1, <1>3, <1>4

(* What is read in free text is said of the device. *)
LEMMA SniffedSays ==
  ASSUME NEW text, NEW device, Tells(SniffText(text), device)
  PROVE  LET told == SniffText(text)
         IN  Says([vendor |-> told.vendor, catalog |-> told.catalog], device)
<1> DEFINE told == SniffText(text)
<1>1. told = [vendor |-> told.vendor, catalog |-> told.catalog]
  BY DEF SniffText
<1> HIDE DEF told
<1>2. Tells(told, device)
  BY DEF told
<1>3. Says(told, device)
  BY <1>2 DEF Tells, Says
<1> QED
  BY <1>1, <1>3 DEF told

LEMMA HandleLLDPFollows ==
  ASSUME NEW s, IsState(s), NEW bound, NEW frame, IsTrueFrame(frame), frame.kind = "lldp"
  PROVE  Follows(s, bound, HandleLLDP(s, bound, frame))
<1> DEFINE addr == [Hardware(frame.mac) EXCEPT !.v4 = IPFor(bound, frame.mac), !.name = frame.name]
           told == SniffText(frame.text)
           d == Device(s.assets, addr)
           a == d[ByAddress(d, addr)]
           identified == Identify(a, [vendor |-> told.vendor, catalog |-> told.catalog])
           roled == SetRole(identified, IF frame.bridge THEN "network-device" ELSE "")
           b == AddEvidence(roled,
                  Evidence("pcap", "lldp", <<frame.mac>>,
                           (IF frame.name = Unsaid THEN {} ELSE {"lldp_system_name"})
                           \cup (IF frame.text = <<>> THEN {} ELSE {"lldp_system_description"})))
           known == [d EXCEPT ![ByAddress(d, addr)] = b]
           device == Owner[frame.mac]
<1>1. \/ HandleLLDP(s, bound, frame) = s
      \/ Usable(frame.mac) /\ HandleLLDP(s, bound, frame) = [s EXCEPT !.assets = known]
  BY DEF HandleLLDP, Update
<1>2. ASSUME Usable(frame.mac), IsBound(bound), Owned(s.assets)
      PROVE  Owned(known)
  <2>1. device \in DOMAIN TruthOf /\ Tells(SniffText(frame.text), device)
    BY <1>2 DEF IsTrueFrame, Known
  <2>2. addr.v4 = IPFor(bound, frame.mac) /\ addr.v6 = NoAddress /\ addr.mac = frame.mac /\ IsAddr(addr)
    BY HardwareFilled
  <2>3. StaysOf(a, b, device)
    <3>1. Keeps(a, identified) /\ StaysOf(a, identified, device)
      <4>1. Says([vendor |-> told.vendor, catalog |-> told.catalog], device)
        BY <2>1, SniffedSays
      <4> HIDE DEF a, told, device
      <4> QED
        BY <4>1, IdentifyKeeps, IdentifiedStays
    <3>2. Keeps(identified, roled) /\ StaysOf(identified, roled, device)
      <4> HIDE DEF identified, device
      <4> QED
        BY SetRoleKeeps, SameStays
    <3>3. StaysOf(roled, b, device)
      <4> HIDE DEF roled, device
      <4> QED
        BY AddEvidenceKeeps, SameStays
    <3> HIDE DEF a, identified, roled, b, device
    <3> QED
      BY <3>1, <3>2, <3>3 DEF Keeps, StaysOf
  <2> HIDE DEF b, addr
  <2>4. Names(addr, device)
    BY <1>2, <2>2, IPIsBound DEF Names, Usable
  <2> HIDE DEF device
  <2> QED
    BY <1>2, <2>1, <2>3, <2>4, UpdateOwned DEF IsState
<1> HIDE DEF known
<1>3. Follows(s, bound, s)
  BY DEF Follows
<1>4. CASE Usable(frame.mac) /\ HandleLLDP(s, bound, frame) = [s EXCEPT !.assets = known]
  BY <1>2, <1>4, AssetsFollow
<1> QED
  BY <1>1, <1>3, <1>4

LEMMA HandleFollows ==
  ASSUME NEW s, IsState(s), IsHeard(s.pass), NEW bound, NEW frame, IsTrueFrame(frame)
  PROVE  Follows(s, bound, Handle(s, bound, frame))
<1>1. frame.kind \in {"arp", "lldp", "ip", "other"}
  BY DEF IsTrueFrame
<1>2. CASE frame.kind = "arp"
  BY <1>2, HandleARPFollows DEF Handle
<1>3. CASE frame.kind = "lldp"
  BY <1>3, HandleLLDPFollows DEF Handle
<1>4. CASE frame.kind = "ip"
  BY <1>4, HandleIPFollows DEF Handle
<1>5. CASE frame.kind = "other"
  BY <1>5 DEF Handle, Follows
<1> QED
  BY <1>1, <1>2, <1>3, <1>4, <1>5

-----------------------------------------------------------------------------
(* What is written at the end of a capture that tells the truth. *)

(* Of two conversations the one goes first whose first part that differs is *)
(* the lower.                                                               *)
LEMMA FlowBeforeIs ==
  ASSUME NEW a, NEW b
  PROVE  FlowBefore(a, b) <=>
           IF a[1] # b[1] THEN a[1] < b[1]
           ELSE IF a[2] # b[2] THEN a[2] < b[2]
           ELSE IF a[3] # b[3] THEN a[3] < b[3]
           ELSE a[4] = "tcp" /\ b[4] = "udp"
<1> DEFINE I == {i \in 1 .. Len(<<1, 2, 3>>) : a[<<1, 2, 3>>[i]] # b[<<1, 2, 3>>[i]]}
           differ == IF I # {} THEN Min(I) ELSE 0
<1>1. FlowBefore(a, b) <=>
        IF differ = 0 THEN a[4] = "tcp" /\ b[4] = "udp" ELSE a[differ] < b[differ]
  BY DEF FlowBefore, SelectInSeq
<1>2. I = {i \in 1 .. 3 : a[i] # b[i]}
  <2>1. Len(<<1, 2, 3>>) = 3 /\ \A i \in 1 .. 3 : <<1, 2, 3>>[i] = i
    OBVIOUS
  <2> QED
    BY <2>1
<1> HIDE DEF I
<1>3. I # {} => Min(I) \in I /\ \A i \in I : Min(I) <= i
  <2>1. I \in SUBSET Nat
    BY <1>2
  <2> QED
    BY <2>1, MinIsLeast
<1>4. differ = IF a[1] # b[1] THEN 1 ELSE IF a[2] # b[2] THEN 2 ELSE IF a[3] # b[3] THEN 3 ELSE 0
  <2>1. \A i \in I : i \in {1, 2, 3} /\ a[i] # b[i]
    BY <1>2
  <2>2. /\ a[1] # b[1] => 1 \in I
        /\ a[2] # b[2] => 2 \in I
        /\ a[3] # b[3] => 3 \in I
    BY <1>2
  <2> QED
    BY <1>3, <2>1, <2>2
<1> HIDE DEF differ
<1> QED
  BY <1>1, <1>4

(* So every conversation has its place. *)
LEMMA SortedFlowsAreKept ==
  ASSUME NEW p, IsPass(p), IsHeard(p), NEW i \in DOMAIN SortedFlows(p)
  PROVE  SortedFlows(p)[i] \in DOMAIN p.flows
<1> DEFINE S == DOMAIN p.flows
           order == {q \in S \X S : FlowBefore(q[1], q[2])}
<1>1. \A a, b \in S : <<a, b>> \in order <=> FlowBefore(a, b)
  OBVIOUS
<1>2. \A a \in S : /\ a = <<a[1], a[2], a[3], a[4]>>
                   /\ a[1] \in Int /\ a[2] \in Int /\ a[3] \in Int /\ a[4] \in {"tcp", "udp"}
  BY DEF IsHeard, IsKey
<1>3. IsStrictOrder(order, S)
  <2> HIDE DEF order, S
  <2>1. \A a \in S : ~ FlowBefore(a, a)
    BY <1>2, FlowBeforeIs
  <2>2. ASSUME NEW a \in S, NEW b \in S, a # b PROVE FlowBefore(a, b) \/ FlowBefore(b, a)
    <3>1. a[1] # b[1] \/ a[2] # b[2] \/ a[3] # b[3] \/ a[4] # b[4]
      BY <1>2, <2>2
    <3> QED
      BY <1>2, <3>1, FlowBeforeIs
  <2>3. ASSUME NEW a \in S, NEW b \in S, NEW c \in S, FlowBefore(a, b), FlowBefore(b, c)
        PROVE  FlowBefore(a, c)
    BY <1>2, <2>3, FlowBeforeIs
  <2> QED
    BY <1>1, <2>1, <2>2, <2>3 DEF IsStrictOrder
<1>4. IsFiniteSet(S)
  BY DEF IsPass
<1>5. SortedFlows(p) = [k \in 1 .. Cardinality(S) |->
                          CHOOSE x \in S : Cardinality({y \in S : FlowBefore(y, x)}) = k - 1]
  BY DEF SortedFlows, InOrder
<1>6. i \in 1 .. Cardinality(S)
  BY <1>5
<1> HIDE DEF order, S
<1>7. PICK c \in S : Cardinality({y \in S : <<y, c>> \in order}) = i - 1
  BY <1>3, <1>4, <1>6, EachHasItsRank
<1>8. {y \in S : <<y, c>> \in order} = {y \in S : FlowBefore(y, c)}
  BY <1>1
<1>9. SortedFlows(p)[i] = CHOOSE x \in S : Cardinality({y \in S : FlowBefore(y, x)}) = i - 1
  BY <1>5, <1>6
<1> QED
  BY <1>7, <1>8, <1>9 DEF S

EndingOwned == INSTANCE Folding_proofs WITH
  Op <- LAMBDA bound, known, key :
          Device(Device(known, BoundAddresses(bound, key[1])), BoundAddresses(bound, key[2])),
  Good <- LAMBDA bound, k, known : IsInventory(known) /\ Owned(known)

LEMMA AddEndsOwned ==
  ASSUME NEW known, IsInventory(known), Owned(known), NEW bound, IsBound(bound),
         NEW p, IsPass(p), IsHeard(p)
  PROVE  Owned(AddEnds(known, bound, p))
<1> DEFINE keys == SortedFlows(p)
<1>1. AddEnds(known, bound, p) = EndingOwned!Table(bound, known, keys)[DOMAIN keys]
  BY DEF AddEnds, FoldLeft, MapThenFoldSet, Max, EndingOwned!Table, EndingOwned!Row, EndingOwned!Top
<1>2. PICK n \in Nat : DOMAIN keys = 1 .. n
  BY SortedFlowsAreListed
<1>3. \A i \in 1 .. n : keys[i] \in DOMAIN p.flows
  BY <1>2, SortedFlowsAreKept
<1> HIDE DEF keys
<1>4. ASSUME NEW k \in 0 .. n - 1, NEW acc, IsInventory(acc), Owned(acc)
      PROVE  LET key == keys[k + 1]
                 more == Device(Device(acc, BoundAddresses(bound, key[1])), BoundAddresses(bound, key[2]))
             IN  IsInventory(more) /\ Owned(more)
  <2> DEFINE key == keys[k + 1]
             one == Device(acc, BoundAddresses(bound, key[1]))
             both == Device(one, BoundAddresses(bound, key[2]))
  <2>1. k + 1 \in 1 .. n
    BY <1>2
  <2>2. IsKey(key)
    BY <1>3, <2>1 DEF IsHeard
  <2> HIDE DEF key
  <2>3. /\ key[1] # NoAddress /\ Owner[key[1]] \in DOMAIN TruthOf
        /\ key[2] # NoAddress /\ Owner[key[2]] \in DOMAIN TruthOf
    <3>1. 1 \in 1 .. 2 /\ 2 \in 1 .. 2
      OBVIOUS
    <3> QED
      BY <2>2, <3>1 DEF IsKey, Usable, Known
  <2>4. /\ Names(BoundAddresses(bound, key[1]), Owner[key[1]])
        /\ Names(BoundAddresses(bound, key[2]), Owner[key[2]])
    BY <2>3, BoundNames
  <2>5. IsInventory(one) /\ Owned(one)
    BY <1>4, <2>3, <2>4, DeviceKeeps, DeviceOwned
  <2> HIDE DEF one
  <2>6. IsInventory(both) /\ Owned(both)
    BY <2>3, <2>4, <2>5, DeviceKeeps, DeviceOwned
  <2> QED
    BY <2>6 DEF both, one, key
<1>5. IsInventory(EndingOwned!Table(bound, known, keys)[DOMAIN keys])
      /\ Owned(EndingOwned!Table(bound, known, keys)[DOMAIN keys])
  BY <1>2, <1>4, EndingOwned!FoldKeeps, InductionHolds
<1> QED
  BY <1>1, <1>5

LEMMA UpdateServiceOwned ==
  ASSUME NEW known, IsInventory(known), Owned(known),
         NEW addr, NEW d \in DOMAIN TruthOf, Names(addr, d), NEW service
  PROVE  Owned([Device(known, addr) EXCEPT
                  ![ByAddress(Device(known, addr), addr)] = AddService(@, service)])
<1> DEFINE more == Device(known, addr)
           a == more[ByAddress(more, addr)]
           b == AddService(a, service)
<1>1. StaysOf(a, b, d)
  <2> HIDE DEF a
  <2> QED
    BY AddServiceKeeps, SameStays
<1> HIDE DEF b
<1>2. Owned([more EXCEPT ![ByAddress(more, addr)] = b])
  BY <1>1, UpdateOwned
<1> QED
  BY <1>2 DEF b

-----------------------------------------------------------------------------
(* What a scanned host that tells the truth does. *)

(* An identity that says what is true of the device. *)
Fits(id, device) == \A f \in IdentityFields : id[f] \in TruthOf[device] \cup {Unsaid, Garbled}

LEMMA MergedFits ==
  ASSUME NEW id, NEW device, Fits(id, device), NEW other, Says(other, device)
  PROVE  Fits(MergeIdentity(id, other), device)
<1>1. \A f \in IdentityFields : MergeIdentity(id, other)[f] =
        IF f \in DOMAIN other THEN KeepName(id[f], other[f]) ELSE id[f]
  BY DEF MergeIdentity
<1> QED
  BY <1>1 DEF Fits, Says, KeepName

(* The entries of a script, the scripts of a list, the open ports.          *)
Entering == INSTANCE Folding_proofs WITH
  Op <- LAMBDA of, id, entry : ApplyEntry(id, of.script, entry),
  Good <- LAMBDA of, k, id : Fits(id, of.device)

Scripting == INSTANCE Folding_proofs WITH
  Op <- LAMBDA device, id, script : ApplyScript(id, script),
  Good <- LAMBDA device, k, id : Fits(id, device)

Opening == INSTANCE Folding_proofs WITH
  Op <- LAMBDA device, id, port : ApplyPort(id, port),
  Good <- LAMBDA device, k, id : Fits(id, device)

(* A script that is read says what is true. *)
IsTrueScript(script, device) == script.id \in DOMAIN ScriptFields => Tells(script.values, device)

LEMMA EntryFits ==
  ASSUME NEW id, NEW device, Fits(id, device), NEW script, Tells(script.values, device), NEW entry
  PROVE  Fits(ApplyEntry(id, script, entry), device)
<1> DEFINE other == [f \in {entry[2]} |-> script.values[entry[1]]]
<1>1. entry[1] \in DOMAIN script.values => Says(other, device)
  BY DEF Tells, Says
<1>2. entry[1] \in DOMAIN script.values => ApplyEntry(id, script, entry) = MergeIdentity(id, other)
  BY DEF ApplyEntry
<1> HIDE DEF other
<1>3. entry[1] \notin DOMAIN script.values => ApplyEntry(id, script, entry) = id
  BY DEF ApplyEntry
<1> QED
  BY <1>1, <1>2, <1>3, MergedFits

LEMMA ScriptFits ==
  ASSUME NEW id, NEW device, Fits(id, device), NEW script, IsTrueScript(script, device)
  PROVE  Fits(ApplyScript(id, script), device)
<1>1. CASE script.id \notin DOMAIN ScriptFields
  BY <1>1 DEF ApplyScript
<1>2. CASE script.id \in DOMAIN ScriptFields
  <2> DEFINE of == [script |-> script, device |-> device]
             entries == ScriptFields[script.id]
  <2>1. ApplyScript(id, script) = Entering!Table(of, id, entries)[DOMAIN entries]
    BY <1>2 DEF ApplyScript, FoldLeft, MapThenFoldSet, Max, Entering!Table, Entering!Row, Entering!Top
  <2>2. \E n \in Nat : DOMAIN entries = 1 .. n
    <3>1. script.id \in {"s7_info", "enip_info", "modbus_discover", "bacnet_info"}
      BY <1>2 DEF ScriptFields
    <3>2. CASE script.id \in {"s7_info", "enip_info"}
      <4>1. DOMAIN ScriptFields["s7_info"] = 1 .. 4 /\ DOMAIN ScriptFields["enip_info"] = 1 .. 4
        BY DEF ScriptFields
      <4> QED
        BY <3>2, <4>1
    <3>3. CASE script.id = "modbus_discover"
      <4>1. DOMAIN ScriptFields["modbus_discover"] = 1 .. 1
        BY DEF ScriptFields
      <4> QED
        BY <3>3, <4>1
    <3>4. CASE script.id = "bacnet_info"
      <4>1. DOMAIN ScriptFields["bacnet_info"] = 1 .. 5
        BY DEF ScriptFields
      <4> QED
        BY <3>4, <4>1
    <3> QED
      BY <3>1, <3>2, <3>3, <3>4
  <2>3. of.script = script /\ of.device = device
    OBVIOUS
  <2> HIDE DEF of, entries
  <2>4. \A acc, entry : Fits(acc, of.device) => Fits(ApplyEntry(acc, of.script, entry), of.device)
    BY <1>2, <2>3, EntryFits DEF IsTrueScript
  <2>5. Fits(id, of.device)
    BY <2>3
  <2>6. Fits(Entering!Table(of, id, entries)[DOMAIN entries], of.device)
    BY <2>2, <2>4, <2>5, Entering!FoldKeeps, InductionHolds
  <2> QED
    BY <2>1, <2>3, <2>6
<1> QED
  BY <1>1, <1>2

LEMMA ScriptsFit ==
  ASSUME NEW id, NEW device, Fits(id, device),
         NEW scripts, IsList(scripts), \A i \in DOMAIN scripts : IsTrueScript(scripts[i], device)
  PROVE  Fits(FoldLeft(ApplyScript, id, scripts), device)
<1>1. FoldLeft(ApplyScript, id, scripts) = Scripting!Table(device, id, scripts)[DOMAIN scripts]
  BY DEF FoldLeft, MapThenFoldSet, Max, Scripting!Table, Scripting!Row, Scripting!Top
<1>2. DOMAIN scripts = 1 .. Len(scripts) /\ Len(scripts) \in Nat
  BY ListHas
<1>3. \A k \in 0 .. Len(scripts) - 1 : \A acc :
        Fits(acc, device) => Fits(ApplyScript(acc, scripts[k + 1]), device)
  <2>1. \A k \in 0 .. Len(scripts) - 1 : k + 1 \in DOMAIN scripts
    BY <1>2
  <2> QED
    BY <2>1, ScriptFits
<1>4. Fits(Scripting!Table(device, id, scripts)[DOMAIN scripts], device)
  BY <1>2, <1>3, Scripting!FoldKeeps, InductionHolds
<1> QED
  BY <1>1, <1>4

LEMMA PortsFit ==
  ASSUME NEW id, NEW device, Fits(id, device), NEW ports, IsList(ports),
         \A i \in DOMAIN ports : IsList(ports[i].scripts),
         \A i \in DOMAIN ports : ports[i].open =>
           \A j \in DOMAIN ports[i].scripts : IsTrueScript(ports[i].scripts[j], device)
  PROVE  Fits(FoldLeft(ApplyPort, id, ports), device)
<1>1. FoldLeft(ApplyPort, id, ports) = Opening!Table(device, id, ports)[DOMAIN ports]
  BY DEF FoldLeft, MapThenFoldSet, Max, Opening!Table, Opening!Row, Opening!Top
<1>2. DOMAIN ports = 1 .. Len(ports) /\ Len(ports) \in Nat
  BY ListHas
<1>3. ASSUME NEW k \in 0 .. Len(ports) - 1, NEW acc, Fits(acc, device)
      PROVE  Fits(ApplyPort(acc, ports[k + 1]), device)
  <2> DEFINE port == ports[k + 1]
  <2>1. /\ IsList(port.scripts)
        /\ port.open => \A j \in DOMAIN port.scripts : IsTrueScript(port.scripts[j], device)
    <3>1. k + 1 \in DOMAIN ports
      BY <1>2
    <3> QED
      BY <3>1
  <2> HIDE DEF port
  <2>2. Fits(ApplyPort(acc, port), device)
    BY <1>3, <2>1, ScriptsFit DEF ApplyPort
  <2> QED
    BY <2>2 DEF port
<1>4. Fits(Opening!Table(device, id, ports)[DOMAIN ports], device)
  BY <1>2, <1>3, Opening!FoldKeeps, InductionHolds
<1> QED
  BY <1>1, <1>4

LEMMA TextFits ==
  ASSUME NEW id, NEW device, Fits(id, device), NEW text, Tells(SniffText(text), device)
  PROVE  Fits(ApplyText(id, text), device)
  BY SniffedSays, MergedFits DEF ApplyText

(* No address at all is the primary one only of an address without any.     *)
Lacking == INSTANCE Folding_proofs WITH
  Op <- LAMBDA ctx, old, new : KeepAddress(old, new), Good <- LAMBDA ctx, k, old : old = NoAddress

LEMMA NoneIsPrimary ==
  ASSUME NEW addr, {addr.v4, addr.v6, addr.mac} \ {NoAddress} = {}
  PROVE  Primary(addr) = NoAddress
<1> DEFINE s == NewID(addr)
<1>1. Primary(addr) = Lacking!Table(0, NoAddress, s)[DOMAIN s]
  BY DEF Primary, FoldLeft, MapThenFoldSet, Max, Lacking!Table, Lacking!Row, Lacking!Top
<1> DEFINE n == 3
<1>2. DOMAIN s = 1 .. n /\ s[1] = addr.v4 /\ s[2] = addr.v6 /\ s[3] = addr.mac
  BY DEF NewID
<1> HIDE DEF s
<1>3. \A i \in 1 .. 3 : s[i] = NoAddress
  <2>1. \A i \in 1 .. 3 : i = 1 \/ i = 2 \/ i = 3
    OBVIOUS
  <2> QED
    BY <1>2, <2>1
<1>4. \A k \in 0 .. n - 1 : \A acc : acc = NoAddress => KeepAddress(acc, s[k + 1]) = NoAddress
  BY <1>3 DEF KeepAddress
<1>5. n \in Nat /\ NoAddress = NoAddress
  OBVIOUS
<1> HIDE DEF n
<1>6. Lacking!Table(0, NoAddress, s)[DOMAIN s] = NoAddress
  BY <1>2, <1>4, <1>5, Lacking!FoldKeeps, InductionHolds
<1> QED
  BY <1>1, <1>6

(* All that a scan says of a host: its scripts, its product and its banners. *)
LEMMA NmapFits ==
  ASSUME NEW host, IsHost(host), NEW device \in DOMAIN TruthOf,
         LET open == {p \in ToSet(host.ports) : p.open}
             scripts == ToSet(host.scripts) \cup UNION {ToSet(p.scripts) : p \in open}
         IN  \A q \in {r \in scripts : r.id \in DOMAIN ScriptFields} : Tells(q.values, device),
         LET banners == SelectSeq([i \in DOMAIN OpenPorts(host) |-> OpenPorts(host)[i].banner],
                                  LAMBDA b : b # Unsaid)
         IN  Tells(SniffText(banners), device),
         NEW id, Fits(id, device)
  PROVE  Fits(NmapIdentity(id, host), device)
<1> DEFINE first == FoldLeft(ApplyScript, id, host.scripts)
           scripted == FoldLeft(ApplyPort, first, host.ports)
           banners == SelectSeq([i \in DOMAIN OpenPorts(host) |-> OpenPorts(host)[i].banner],
                                LAMBDA b : b # Unsaid)
<1>1. \A i \in DOMAIN host.scripts : IsTrueScript(host.scripts[i], device)
  BY DEF ToSet, IsTrueScript
<1>2. ASSUME NEW i \in DOMAIN host.ports, host.ports[i].open, NEW j \in DOMAIN host.ports[i].scripts
      PROVE  IsTrueScript(host.ports[i].scripts[j], device)
  <2> DEFINE p == host.ports[i]
  <2>1. p \in ToSet(host.ports) /\ p.open /\ p.scripts[j] \in ToSet(p.scripts)
    BY <1>2 DEF ToSet
  <2> QED
    BY <2>1 DEF IsTrueScript
<1>3. Fits(first, device)
  BY <1>1, ScriptsFit DEF IsHost
<1>4. NmapIdentity(id, host) = ApplyText(ApplyText(scripted, <<scripted.product>>), banners)
  BY DEF NmapIdentity
<1>5. Tells(SniffText(banners), device)
  OBVIOUS
<1> HIDE DEF first, banners
<1>6. Fits(scripted, device)
  BY <1>2, <1>3, PortsFit DEF IsHost
<1> HIDE DEF scripted
<1>7. Tells(SniffText(<<scripted.product>>), device)
  <2>1. scripted["product"] \in TruthOf[device] \cup {Unsaid, Garbled}
    BY <1>6 DEF Fits, IdentityFields
  <2> QED
    BY <2>1, PlantAssumption
<1>8. Fits(ApplyText(scripted, <<scripted.product>>), device)
  BY <1>6, <1>7, TextFits
<1> QED
  BY <1>4, <1>5, <1>8, TextFits

LEMMA HostOwned ==
  ASSUME NEW s, IsInventory(s.assets), s = [assets |-> s.assets, flows |-> s.flows], Owned(s.assets),
         NEW host, IsHost(host), IsTrueHost(host)
  PROVE  Owned(IngestNmapHost(s, host).assets)
<1> DEFINE addr == [v4 |-> host.v4, v6 |-> host.v6, mac |-> host.mac, name |-> host.name]
           fields == UNION {ScriptKeys(q) : q \in ToSet(host.scripts)
                              \cup UNION {ToSet(p.scripts) : p \in ToSet(OpenPorts(host))}}
           d == Device(s.assets, addr)
           a == d[ByAddress(d, addr)]
           served == FoldLeft(ServePort, a, host.ports)
           named == [served EXCEPT !.identity = NmapIdentity(@, host)]
           b == AddEvidence(named, Evidence("nmap", "", <<Primary(addr)>>, fields))
           known == [d EXCEPT ![ByAddress(d, addr)] = b]
<1>1. \/ IngestNmapHost(s, host) = s
      \/ /\ host.state \in {"", "up"} /\ (Primary(addr) # NoAddress \/ host.name # Unsaid)
         /\ IngestNmapHost(s, host) = [s EXCEPT !.assets = known]
  BY DEF IngestNmapHost, Update
<1>2. ASSUME host.state \in {"", "up"}, Primary(addr) # NoAddress \/ host.name # Unsaid
      PROVE  Owned(known)
  <2>1. addr.v4 = host.v4 /\ addr.v6 = host.v6 /\ addr.mac = host.mac /\ IsAddr(addr)
    BY DEF IsAddr
  <2> HIDE DEF addr
  <2>2. ~ ({host.v4, host.v6, host.mac} \ {NoAddress} = {} /\ host.name = Unsaid)
    BY <1>2, <2>1, NoneIsPrimary
  <2>3. PICK device \in DOMAIN TruthOf :
          /\ {host.v4, host.v6, host.mac} \ {NoAddress} # {}
          /\ \A x \in {host.v4, host.v6, host.mac} \ {NoAddress} : Owner[x] = device
          /\ \A id : Fits(id, device) => Fits(NmapIdentity(id, host), device)
    BY <1>2, <2>2, NmapFits DEF IsTrueHost
  <2>4. Names(addr, device)
    BY <2>1, <2>3 DEF Names
  <2>5. StaysOf(a, b, device)
    <3>1. Keeps(a, served) /\ StaysOf(a, served, device)
      <4> HIDE DEF a
      <4> QED
        BY AllPortsKeep, SameStays DEF IsHost
    <3>2. Keeps(served, named) /\ StaysOf(served, named, device)
      <4> DEFINE identity == NmapIdentity(served.identity, host)
      <4>1. Fits(served.identity, device) => Fits(identity, device)
        BY <2>3
      <4>2. named = [served EXCEPT !.identity = identity]
        OBVIOUS
      <4> HIDE DEF served, identity, named
      <4> QED
        BY <4>1, <4>2 DEF Keeps, StaysOf, IsAsset, IsOf, Fits
    <3>3. StaysOf(named, b, device)
      <4> HIDE DEF named
      <4> QED
        BY AddEvidenceKeeps, SameStays
    <3> HIDE DEF a, served, named, b
    <3> QED
      BY <3>1, <3>2, <3>3 DEF Keeps, StaysOf
  <2> HIDE DEF b
  <2> QED
    BY <2>4, <2>5, UpdateOwned
<1> HIDE DEF known
<1>3. [s EXCEPT !.assets = known].assets = known
  OBVIOUS
<1> QED
  BY <1>1, <1>2, <1>3

-----------------------------------------------------------------------------
(* What a record that tells the truth does. *)

LEMMA SeenOwned ==
  ASSUME NEW known, IsInventory(known), Owned(known), NEW ip, Usable(ip), Known(ip)
  PROVE  Owned(Seen(known, ip))
<1>1. Names(AddressesFor(ip), Owner[ip]) /\ Owner[ip] \in DOMAIN TruthOf
  BY AddressNames DEF Usable, Known
<1> QED
  BY <1>1, DeviceOwned DEF Seen

LEMMA ServeOwned ==
  ASSUME NEW known, IsInventory(known), Owned(known), NEW ip, Usable(ip), Known(ip), NEW service
  PROVE  Owned(Serve(known, ip, service))
<1>1. Names(AddressesFor(ip), Owner[ip]) /\ Owner[ip] \in DOMAIN TruthOf
  BY AddressNames DEF Usable, Known
<1> DEFINE addr == AddressesFor(ip)
<1>2. Serve(known, ip, service) =
        [Device(known, addr) EXCEPT ![ByAddress(Device(known, addr), addr)] = AddService(@, service)]
  BY DEF Serve, Update
<1> HIDE DEF addr
<1>3. Names(addr, Owner[ip])
  BY <1>1 DEF addr
<1>4. Owned([Device(known, addr) EXCEPT
               ![ByAddress(Device(known, addr), addr)] = AddService(@, service)])
  BY <1>1, <1>3, UpdateServiceOwned
<1> QED
  BY <1>2, <1>4

LEMMA NamedOwned ==
  ASSUME NEW known, IsInventory(known), Owned(known), NEW ip, Usable(ip) => Known(ip), NEW name
  PROVE  Owned(Named(known, ip, name))
<1> DEFINE addr == AddressesFor(ip)
           more == Device(known, addr)
           a == more[ByAddress(more, addr)]
           b == [a EXCEPT !.addr.name = KeepName(@, name)]
<1>1. Named(known, ip, name) =
        IF Usable(ip) THEN [more EXCEPT ![ByAddress(more, addr)] = b] ELSE known
  BY DEF Named, Update
<1>2. ASSUME Usable(ip) PROVE Owned([more EXCEPT ![ByAddress(more, addr)] = b])
  <2>1. Names(addr, Owner[ip]) /\ Owner[ip] \in DOMAIN TruthOf
    BY <1>2, AddressNames DEF Usable, Known
  <2>2. StaysOf(a, b, Owner[ip])
    <3> HIDE DEF a
    <3> SUFFICES ASSUME IsAsset(a), IsOf(a, Owner[ip]) PROVE IsOf(b, Owner[ip])
      BY DEF StaysOf
    <3>1. b.id = a.id /\ b.identity = a.identity
      BY DEF IsAsset
    <3>2. b.addr = [a.addr EXCEPT !.name = KeepName(@, name)]
      BY DEF IsAsset
    <3>3. /\ b.addr.v4 = a.addr.v4 /\ b.addr.v6 = a.addr.v6 /\ b.addr.mac = a.addr.mac
          /\ IsAddr(b.addr)
      BY <3>2 DEF IsOf, IsAddr
    <3> HIDE DEF b
    <3> QED
      BY <3>1, <3>3 DEF IsOf
  <2> HIDE DEF addr, b
  <2> QED
    BY <2>1, <2>2, UpdateOwned
<1> HIDE DEF more, b
<1> QED
  BY <1>1, <1>2

NamingOwned == INSTANCE Folding_proofs WITH
  Op <- LAMBDA name, known, ip : Named(known, ip, name),
  Good <- LAMBDA name, k, known : IsInventory(known) /\ Owned(known)

LEMMA AllNamedOwned ==
  ASSUME NEW known, IsInventory(known), Owned(known), NEW s, IsList(s), NEW name,
         \A i \in DOMAIN s : Usable(s[i]) => Known(s[i])
  PROVE  Owned(AllNamed(known, s, name))
<1>1. AllNamed(known, s, name) = NamingOwned!Table(name, known, s)[DOMAIN s]
  BY DEF AllNamed, FoldLeft, MapThenFoldSet, Max, NamingOwned!Table, NamingOwned!Row, NamingOwned!Top
<1>2. DOMAIN s = 1 .. Len(s) /\ Len(s) \in Nat
  BY ListHas
<1>3. \A k \in 0 .. Len(s) - 1 : \A acc :
        IsInventory(acc) /\ Owned(acc) =>
          IsInventory(Named(acc, s[k + 1], name)) /\ Owned(Named(acc, s[k + 1], name))
  <2>1. \A k \in 0 .. Len(s) - 1 : k + 1 \in DOMAIN s
    BY <1>2
  <2> QED
    BY <2>1, NamedKeeps, NamedOwned
<1>4. LET named == NamingOwned!Table(name, known, s)[DOMAIN s] IN IsInventory(named) /\ Owned(named)
  BY <1>2, <1>3, NamingOwned!FoldKeeps, InductionHolds
<1> QED
  BY <1>1, <1>4

LEMMA ApplyConnOwned ==
  ASSUME NEW s, IsReading(s), Owned(s.assets),
         NEW record, record.kind = "conn", IsTrueRecord(record)
  PROVE  Owned(ApplyConn(s, record).assets)
<1> DEFINE one == Seen(s.assets, record.orig)
           both == Seen(one, record.resp)
           after == Serve(both, record.resp, ZeekService(record))
<1>1. CASE ~ Usable(record.orig) \/ ~ Usable(record.resp)
  BY <1>1 DEF ApplyConn
<1>2. CASE Usable(record.orig) /\ Usable(record.resp)
  <2>1. Known(record.orig) /\ Known(record.resp)
    BY <1>2 DEF IsTrueRecord
  <2>2. IsInventory(one) /\ Owned(one)
    BY <1>2, <2>1, SeenKeeps, SeenOwned DEF IsReading
  <2>3. IsInventory(both) /\ Owned(both)
    <3> HIDE DEF one
    <3> QED
      BY <1>2, <2>1, <2>2, SeenKeeps, SeenOwned
  <2>4. Owned(after)
    <3> HIDE DEF both
    <3> QED
      BY <1>2, <2>1, <2>3, ServeOwned
  <2>5. ApplyConn(s, record).assets = IF Answered(record) THEN after ELSE both
    BY <1>2 DEF ApplyConn
  <2> HIDE DEF both, after
  <2> QED
    BY <2>3, <2>4, <2>5
<1> QED
  BY <1>1, <1>2

LEMMA ApplyDHCPOwned ==
  ASSUME NEW s, IsReading(s), Owned(s.assets),
         NEW record, record.kind = "dhcp", IsTrueRecord(record)
  PROVE  Owned(ApplyDHCP(s, record).assets)
<1> DEFINE mac == IF Usable(record.mac) THEN record.mac ELSE NoAddress
           addr == [Hardware(mac) EXCEPT !.v4 = record.host, !.name = record.name]
           more == Device(s.assets, addr)
           a == more[ByAddress(more, addr)]
           e == Evidence("zeek", "dhcp", <<record.host>>,
                         IF record.name = Unsaid THEN {} ELSE {"dhcp_host_name"})
           b == AddEvidence(a, e)
           known == [more EXCEPT ![ByAddress(more, addr)] = b]
<1>1. ApplyDHCP(s, record) = IF Usable(record.host) THEN [s EXCEPT !.assets = known] ELSE s
  BY DEF ApplyDHCP, Update
<1>2. ASSUME Usable(record.host) PROVE Owned(known)
  <2>1. /\ Owner[record.host] \in DOMAIN TruthOf
        /\ Usable(record.mac) => Owner[record.mac] = Owner[record.host]
    BY <1>2 DEF IsTrueRecord, ICSKinds, Known
  <2>2. addr.v4 = record.host /\ addr.v6 = NoAddress /\ addr.mac = mac /\ IsAddr(addr)
    <3> HIDE DEF mac
    <3> QED
      BY HardwareFilled
  <2>3. Names(addr, Owner[record.host])
    <3> HIDE DEF addr
    <3> QED
      BY <1>2, <2>1, <2>2 DEF Names, Usable
  <2>4. StaysOf(a, b, Owner[record.host])
    <3> HIDE DEF a, e
    <3> QED
      BY AddEvidenceKeeps, SameStays
  <2> HIDE DEF addr, b
  <2> QED
    BY <2>1, <2>3, <2>4, UpdateOwned DEF IsReading
<1> HIDE DEF known
<1>3. Usable(record.host) => ApplyDHCP(s, record).assets = known
  BY <1>1 DEF IsReading
<1>4. ~ Usable(record.host) => ApplyDHCP(s, record).assets = s.assets
  BY <1>1
<1> QED
  BY <1>2, <1>3, <1>4

LEMMA ApplyDNSOwned ==
  ASSUME NEW s, IsReading(s), Owned(s.assets),
         NEW record, record.kind = "dns", IsTrueRecord(record),
         "answers" \in DOMAIN record => IsList(record.answers)
  PROVE  Owned(ApplyDNS(s, record).assets)
<1> DEFINE ips == At(record, "answers", <<>>)
           known == AllNamed(s.assets, ips, record.name)
<1>1. IsList(ips) /\ \A i \in DOMAIN ips : Usable(ips[i]) => Known(ips[i])
  <2>1. CASE "answers" \in DOMAIN record
    BY <2>1 DEF IsTrueRecord, ICSKinds, At
  <2>2. CASE "answers" \notin DOMAIN record
    BY <2>2, NoneIsList DEF At
  <2> QED
    BY <2>1, <2>2
<1>2. Owned(known)
  <2> HIDE DEF ips
  <2> QED
    BY <1>1, AllNamedOwned DEF IsReading
<1>3. ApplyDNS(s, record) =
        IF ~ record.forward \/ record.name = Unsaid THEN s ELSE [s EXCEPT !.assets = known]
  BY DEF ApplyDNS
<1> HIDE DEF known
<1>4. \/ ApplyDNS(s, record).assets = s.assets
      \/ ApplyDNS(s, record).assets = known
  BY <1>3 DEF IsReading
<1> QED
  BY <1>2, <1>4

LEMMA ApplySoftwareOwned ==
  ASSUME NEW s, IsReading(s), Owned(s.assets),
         NEW record, record.kind = "software", IsTrueRecord(record)
  PROVE  Owned(ApplySoftware(s, record).assets)
<1> DEFINE addr == AddressesFor(record.host)
           more == Device(s.assets, addr)
           a == more[ByAddress(more, addr)]
           b == AddEvidence(a, Evidence("zeek", "software", <<record.host>>, {"zeek_software"}))
           known == [more EXCEPT ![ByAddress(more, addr)] = b]
<1>1. ApplySoftware(s, record) =
        IF Usable(record.host) /\ record.banner # Unsaid THEN [s EXCEPT !.assets = known] ELSE s
  BY DEF ApplySoftware, Update
<1>2. ASSUME Usable(record.host) PROVE Owned(known)
  <2>1. Names(addr, Owner[record.host]) /\ Owner[record.host] \in DOMAIN TruthOf
    BY <1>2, AddressNames DEF IsTrueRecord, ICSKinds, Known, Usable
  <2>2. StaysOf(a, b, Owner[record.host])
    <3> HIDE DEF a
    <3> QED
      BY AddEvidenceKeeps, SameStays
  <2> HIDE DEF addr, b
  <2> QED
    BY <2>1, <2>2, UpdateOwned DEF IsReading
<1> HIDE DEF known
<1>3. \/ ApplySoftware(s, record).assets = s.assets
      \/ Usable(record.host) /\ ApplySoftware(s, record).assets = known
  BY <1>1 DEF IsReading
<1> QED
  BY <1>2, <1>3

LEMMA ApplyICSOwned ==
  ASSUME NEW s, IsReading(s), Owned(s.assets),
         NEW record, record.kind \in ICSKinds, IsTrueRecord(record),
         NEW readout \in Readouts(record)
  PROVE  Owned(ApplyICS(s, record, readout).assets)
<1> DEFINE met == IF Usable(PeerOf(record)) THEN Seen(s.assets, PeerOf(record)) ELSE s.assets
           addr == AddressesFor(SenderOf(record))
           more == Device(met, addr)
           a == more[ByAddress(more, addr)]
           named == Identify(a, readout)
           b == AddEvidence(named, Evidence("zeek", record.kind, <<SenderOf(record)>>, DOMAIN readout))
           known == [more EXCEPT ![ByAddress(more, addr)] = b]
           device == Owner[SenderOf(record)]
<1>1. ApplyICS(s, record, readout) =
        IF ~ Usable(SenderOf(record)) THEN s
        ELSE IF record.said = {} THEN [s EXCEPT !.assets = met] ELSE [s EXCEPT !.assets = known]
  BY DEF ApplyICS, Update
<1>2. /\ \A x \in {record.orig, record.resp} : Usable(x) => Known(x)
      /\ Usable(SenderOf(record)) =>
           \A said \in record.said : said.value \in TruthOf[device] \cup {Unsaid}
  BY DEF IsTrueRecord, ICSKinds
<1>3. IsInventory(met) /\ Owned(met)
  <2>1. PeerOf(record) \in {record.orig, record.resp}
    BY DEF PeerOf
  <2> QED
    BY <1>2, <2>1, SeenKeeps, SeenOwned DEF IsReading
<1>4. ASSUME Usable(SenderOf(record)) PROVE Owned(known)
  <2>1. SenderOf(record) \in {record.orig, record.resp}
    BY DEF SenderOf
  <2>2. Names(addr, device) /\ device \in DOMAIN TruthOf
    BY <1>2, <1>4, <2>1, AddressNames DEF Known, Usable
  <2>3. Says(readout, device)
    <3>1. \A f \in DOMAIN readout : \E said \in record.said : said.value = readout[f]
      BY DEF Readouts
    <3> QED
      BY <1>2, <1>4, <3>1 DEF Says
  <2>4. StaysOf(a, b, device)
    <3> HIDE DEF a, device
    <3>1. Keeps(a, named) /\ StaysOf(a, named, device)
      BY <2>3, IdentifyKeeps, IdentifiedStays
    <3>2. StaysOf(named, b, device)
      <4> HIDE DEF named
      <4> QED
        BY AddEvidenceKeeps, SameStays
    <3> HIDE DEF named, b
    <3> QED
      BY <3>1, <3>2 DEF Keeps, StaysOf
  <2> HIDE DEF met, addr, b, device
  <2> QED
    BY <1>3, <2>2, <2>4, UpdateOwned
<1> HIDE DEF met, known
<1>5. \/ ApplyICS(s, record, readout).assets \in {s.assets, met}
      \/ Usable(SenderOf(record)) /\ ApplyICS(s, record, readout).assets = known
  BY <1>1 DEF IsReading
<1> QED
  BY <1>3, <1>4, <1>5

LEMMA ApplyRecordOwned ==
  ASSUME NEW s, IsReading(s), Owned(s.assets), NEW record, IsTrueRecord(record),
         "answers" \in DOMAIN record => IsList(record.answers),
         NEW after \in ApplyRecord(s, record)
  PROVE  Owned(after.assets)
<1>1. CASE record.kind = "conn"
  <2>1. after = ApplyConn(s, record)
    BY <1>1 DEF ApplyRecord, ICSKinds
  <2> QED
    BY <1>1, <2>1, ApplyConnOwned
<1>2. CASE record.kind = "known_hosts"
  <2>1. after = ApplyKnownHost(s, record) /\ (Usable(record.host) => Known(record.host))
    BY <1>2 DEF ApplyRecord, IsTrueRecord, ICSKinds
  <2>2. \/ after.assets = s.assets
        \/ Usable(record.host) /\ after.assets = Seen(s.assets, record.host)
    BY <2>1 DEF ApplyKnownHost, IsReading
  <2> QED
    BY <2>1, <2>2, SeenOwned DEF IsReading
<1>3. CASE record.kind = "known_services"
  <2>1. after = ApplyKnownService(s, record) /\ (Usable(record.host) => Known(record.host))
    BY <1>3 DEF ApplyRecord, IsTrueRecord, ICSKinds
  <2>2. \/ after.assets = s.assets
        \/ Usable(record.host) /\ after.assets = Serve(s.assets, record.host, ZeekService(record))
    BY <2>1 DEF ApplyKnownService, IsReading
  <2> QED
    BY <2>1, <2>2, ServeOwned DEF IsReading
<1>4. CASE record.kind = "dhcp"
  <2>1. after = ApplyDHCP(s, record)
    BY <1>4 DEF ApplyRecord, ICSKinds
  <2> QED
    BY <1>4, <2>1, ApplyDHCPOwned
<1>5. CASE record.kind = "dns"
  <2>1. after = ApplyDNS(s, record)
    BY <1>5 DEF ApplyRecord, ICSKinds
  <2> QED
    BY <1>5, <2>1, ApplyDNSOwned
<1>6. CASE record.kind = "software"
  <2>1. after = ApplySoftware(s, record)
    BY <1>6 DEF ApplyRecord, ICSKinds
  <2> QED
    BY <1>6, <2>1, ApplySoftwareOwned
<1>7. CASE record.kind \in ICSKinds
  <2>1. PICK readout \in Readouts(record) : after = ApplyICS(s, record, readout)
    BY <1>7 DEF ApplyRecord, ICSKinds
  <2> QED
    BY <1>7, <2>1, ApplyICSOwned
<1>8. CASE record.kind \notin ICSKinds \cup {"conn", "known_hosts", "known_services", "dhcp", "dns", "software"}
  BY <1>8 DEF ApplyRecord, ICSKinds
<1> QED
  BY <1>1, <1>2, <1>3, <1>4, <1>5, <1>6, <1>7, <1>8

-----------------------------------------------------------------------------
(* What the answers of a scan say. *)

LEMMA InterpretSays ==
  ASSUME NEW device, NEW bytes, 1 \in DOMAIN bytes, Told(bytes, device), NEW template
  PROVE  Says(Interpret(template, bytes).identity, device)
<1> DEFINE decoded == Decoder(template.protocol, bytes)
<1>1. decoded \in {Said(bytes), Truncated, NotThis}
  BY DEF Decoder, DecodeModbus, DecodeENIP, DecodeS7, DecodeBACnet, DecodeStarted
<1>2. \/ Interpret(template, bytes).identity = <<>>
      \/ decoded = Said(bytes) /\ Interpret(template, bytes) = decoded
  BY <1>1 DEF Interpret
<1>3. Says(<<>>, device)
  BY NoneIsList DEF Says
<1>4. decoded = Said(bytes) => Says(decoded.identity, device)
  <2>1. decoded = Said(bytes) => decoded.verdict = "said"
    BY DEF Said
  <2> QED
    BY <2>1, DecodedSays
<1> HIDE DEF decoded
<1> QED
  BY <1>2, <1>3, <1>4

(* What the device at an address answers, as far as it was read. *)
IsTrueAnswer(observation) ==
  /\ observation.host # NoAddress /\ Known(observation.host)
  /\ Says(observation.reply.identity, Owner[observation.host])

LEMMA AnswerIsTrue ==
  ASSUME NEW exchange, <<exchange.host, exchange.template.port>> \in DOMAIN Replies,
         NEW pieces \in 1 .. MaxDecodeAttempt
  PROVE  IsTrueAnswer(Answer(exchange, pieces))
<1> DEFINE e == <<exchange.host, exchange.template.port>>
           bytes == Pieces(Reply(exchange), 1, pieces)
<1>1. /\ exchange.host # NoAddress /\ Known(exchange.host)
      /\ Tells(Messages[Reply(exchange)].identity, Owner[exchange.host])
  <2>1. e \in DOMAIN Replies /\ e[1] = exchange.host /\ Reply(exchange) = Replies[e]
    BY DEF Reply
  <2> HIDE DEF e
  <2> QED
    BY <2>1, PlantAssumption
<1>2. /\ DOMAIN bytes = 1 .. pieces
      /\ \A i \in DOMAIN bytes : bytes[i].message = Reply(exchange)
  BY LimitsAssumption DEF Pieces
<1>3. 1 \in DOMAIN bytes
  BY <1>2, LimitsAssumption
<1> HIDE DEF bytes
<1>4. Told(bytes, Owner[exchange.host])
  BY <1>1, <1>2 DEF Told
<1>5. Says(Interpret(exchange.template, bytes).identity, Owner[exchange.host])
  BY <1>3, <1>4, InterpretSays
<1>6. Answer(exchange, pieces) =
        [host |-> exchange.host, template |-> exchange.template,
         reply |-> Interpret(exchange.template, bytes)]
  BY DEF Answer, bytes
<1> QED
  BY <1>1, <1>5, <1>6 DEF IsTrueAnswer

LEMMA RecordedOwned ==
  ASSUME NEW known, IsInventory(known), Owned(known), NEW observation, IsTrueAnswer(observation)
  PROVE  Owned(Recorded(known, observation))
<1> DEFINE reply == observation.reply
           service == [port |-> observation.template.port, transport |-> observation.template.transport,
                       protocol |-> reply.protocol, banner |-> Unsaid, source |-> "probe"]
           addr == AddressesFor(observation.host)
           more == Device(known, addr)
           a == more[ByAddress(more, addr)]
           identified == Identify(a, reply.identity)
           named == SetRole(identified, reply.role)
           served == IF reply.protocol = "" THEN named ELSE AddService(named, service)
           b == AddEvidence(served, Evidence("probe", reply.protocol,
                              <<observation.host, service.port, service.transport>>, reply.fields))
           device == Owner[observation.host]
<1>1. Recorded(known, observation) = [more EXCEPT ![ByAddress(more, addr)] = b]
  BY DEF Recorded, Update
<1>2. Names(addr, device) /\ device \in DOMAIN TruthOf
  BY AddressNames DEF IsTrueAnswer, Known
<1>3. StaysOf(a, b, device)
  <2> HIDE DEF a
  <2>1. Keeps(a, identified) /\ StaysOf(a, identified, device)
    BY IdentifyKeeps, IdentifiedStays DEF IsTrueAnswer
  <2> HIDE DEF identified
  <2>2. Keeps(identified, named) /\ StaysOf(identified, named, device)
    BY SetRoleKeeps, SameStays
  <2> HIDE DEF named, service
  <2>3. Keeps(named, served) /\ StaysOf(named, served, device)
    <3>1. Keeps(named, AddService(named, service)) /\ StaysOf(named, AddService(named, service), device)
      BY AddServiceKeeps, SameStays
    <3>2. Keeps(named, named) /\ StaysOf(named, named, device)
      BY DEF Keeps, StaysOf
    <3> QED
      BY <3>1, <3>2
  <2> HIDE DEF served
  <2>4. StaysOf(served, b, device)
    BY AddEvidenceKeeps, SameStays
  <2> HIDE DEF b, device
  <2> QED
    BY <2>1, <2>2, <2>3, <2>4 DEF Keeps, StaysOf
<1>4. Owned([more EXCEPT ![ByAddress(more, addr)] = b])
  <2> HIDE DEF b, addr, device
  <2> QED
    BY <1>2, <1>3, UpdateOwned
<1> QED
  BY <1>1, <1>4

ObservingOwned == INSTANCE Folding_proofs WITH
  Op <- LAMBDA ctx, known, observation : Recorded(known, observation),
  Good <- LAMBDA ctx, k, known : IsInventory(known) /\ Owned(known)

LEMMA BuildInventoryOwned ==
  ASSUME NEW n \in Nat, NEW observations, DOMAIN observations = 1 .. n,
         \A i \in 1 .. n : IsTrueAnswer(observations[i])
  PROVE  Owned(BuildInventory(observations))
<1> DEFINE known == FoldLeft(Recorded, <<>>, observations)
<1>1. known = ObservingOwned!Table(0, <<>>, observations)[DOMAIN observations]
  BY DEF FoldLeft, MapThenFoldSet, Max, ObservingOwned!Table, ObservingOwned!Row, ObservingOwned!Top
<1>2. IsInventory(<<>>) /\ Owned(<<>>)
  BY NoneIsList, EmptyInventory DEF Owned
<1>3. \A k \in 0 .. n - 1 : \A acc :
        IsInventory(acc) /\ Owned(acc) =>
          IsInventory(Recorded(acc, observations[k + 1])) /\ Owned(Recorded(acc, observations[k + 1]))
  <2>1. \A k \in 0 .. n - 1 : k + 1 \in 1 .. n
    OBVIOUS
  <2> QED
    BY <2>1, RecordedKeeps, RecordedOwned
<1>4. LET all == ObservingOwned!Table(0, <<>>, observations)[DOMAIN observations]
      IN  IsInventory(all) /\ Owned(all)
  BY <1>2, <1>3, ObservingOwned!FoldKeeps, InductionHolds
<1>5. BuildInventory(observations) = Finalize(known, <<>>).assets
  BY DEF BuildInventory
<1> HIDE DEF known
<1> QED
  BY <1>1, <1>4, <1>5, FinalizeOwned

(* Numbers in order are the numbers there are. *)
LEMMA InOrderAreThose ==
  ASSUME NEW S, IsFiniteSet(S), S \subseteq Int, NEW k \in 1 .. Cardinality(S)
  PROVE  InOrder(S, <)[k] \in S
<1> DEFINE f == [x \in S |-> x]
<1>1. PICK c \in S : Cardinality(Lower(f, S, c)) = k - 1
  <2>1. f \in [S -> Int] /\ \A c, d \in S : f[c] = f[d] => c = d
    OBVIOUS
  <2> HIDE DEF f
  <2> QED
    BY <2>1, EachHasItsPlace
<1>2. Lower(f, S, c) = {y \in S : y < c}
  BY DEF Lower
<1>3. \E x \in S : Cardinality({y \in S : y < x}) = k - 1
  BY <1>1, <1>2
<1> QED
  BY <1>3 DEF InOrder

-----------------------------------------------------------------------------
(* What is read tells the truth, step after step. *)

(* A log is taken for the kind its header gives. *)
LEMMA HeaderIsTrue ==
  ASSUME NEW logs, IsList(logs), \A k \in DOMAIN logs : IsTrueLog(logs[k]), logs # <<>>
  PROVE  IsTrueLog(ReadAs(HeaderOf(logs).kind, logs))
<1> DEFINE log == Head(logs)
           kind == HeaderOf(logs).kind
<1>1. IsTrueLog(log)
  BY TailIsList
<1>2. kind = log.kind
  BY DEF HeaderOf, NoHeader
<1> HIDE DEF log, kind
<1> DEFINE taken == [kind |-> kind, lines |-> log.lines]
<1>3. taken.kind = log.kind /\ taken.lines = log.lines
  BY <1>2
<1> HIDE DEF taken
<1>4. IsTrueLog(taken)
  BY <1>1, <1>3 DEF IsTrueLog
<1> QED
  BY <1>4 DEF ReadAs, taken, log, kind

(* So is the rest of it, once a line has been read. *)
LEMMA TailIsTrue ==
  ASSUME NEW log, IsTrueLog(log), IsList(log.lines), log.lines # <<>>,
         NEW kind, \/ kind = log.kind
                   \/ Head(log.lines).line = "path" /\ kind = Head(log.lines).kind
  PROVE  IsTrueLog([kind |-> kind, lines |-> Tail(log.lines)])
<1> DEFINE lines == log.lines
           rest == Tail(lines)
           KindsOf(k, l) == {k} \cup (IF l.line = "path" THEN {l.kind} ELSE {})
<1>1. /\ 1 \in DOMAIN lines /\ Head(lines) = lines[1]
      /\ \A i \in DOMAIN rest : i + 1 \in DOMAIN lines /\ rest[i] = lines[i + 1]
  BY TailIsList
<1>2. \A i, j \in DOMAIN lines : lines[i].line \in {"json", "tsv"} =>
        \A k \in KindsOf(log.kind, lines[j]) : IsTrueRecord([lines[i].record EXCEPT !.kind = k])
  BY DEF IsTrueLog
<1>3. kind \in KindsOf(log.kind, lines[1])
  BY <1>1
<1>4. \A l : \A k \in KindsOf(kind, l) : k = kind \/ k \in KindsOf(log.kind, l)
  OBVIOUS
<1> HIDE DEF lines, rest, KindsOf
<1>5. ASSUME NEW i \in DOMAIN rest, NEW j \in DOMAIN rest, rest[i].line \in {"json", "tsv"},
             NEW k \in KindsOf(kind, rest[j])
      PROVE  IsTrueRecord([rest[i].record EXCEPT !.kind = k])
  <2>1. \/ k \in KindsOf(log.kind, lines[1])
        \/ k \in KindsOf(log.kind, lines[j + 1])
    BY <1>1, <1>3, <1>4, <1>5
  <2> QED
    BY <1>1, <1>2, <1>5, <2>1
<1> DEFINE taken == [kind |-> kind, lines |-> rest]
<1>6. taken.kind = kind /\ taken.lines = rest
  OBVIOUS
<1> HIDE DEF taken
<1>7. IsTrueLog(taken)
  BY <1>5, <1>6 DEF IsTrueLog, KindsOf
<1> QED
  BY <1>7 DEF taken, lines, rest

(* What a command starts with. *)
LEMMA ScheduledIsTrue ==
  ASSUME NEW list \in Commands, NEW i \in 1 .. Len(list)
  PROVE  LET l == Scheduled(list[i])
         IN  /\ IsTrueLeft(l)
             /\ \A k \in DOMAIN l.captures : l.captures[k] \in ToSet(list[i].captures)
             /\ l.logs # <<>> => IsTrueLog(ReadAs(HeaderOf(l.logs).kind, l.logs))
<1> DEFINE c == list[i]
           l == Scheduled(c)
<1>1. c \in ToSet(list) /\ i \in DOMAIN list
  BY InputsAssumption, ListHas
<1>2. /\ IsList(c.captures) /\ \A capture \in ToSet(c.captures) : IsList(capture)
      /\ IsScan(c.hosts) /\ AreLogs(c.logs)
  BY <1>1, InputsAssumption
<1>3. /\ \A capture \in ToSet(c.captures) : \A frame \in ToSet(capture) : IsTrueFrame(frame)
      /\ \A host \in ToSet(c.hosts) : IsTrueHost(host)
      /\ \A log \in ToSet(c.logs) : IsTrueLog(log)
  BY <1>1, PlantAssumption
<1>4. l.captures = c.captures /\ l.hosts = c.hosts /\ l.logs = c.logs
  BY DEF Scheduled
<1> HIDE DEF c, l
<1>5. /\ \A k \in DOMAIN c.captures : c.captures[k] \in ToSet(c.captures)
      /\ \A k \in DOMAIN c.hosts : IsTrueHost(c.hosts[k])
      /\ \A k \in DOMAIN c.logs : IsTrueLog(c.logs[k])
  BY <1>3 DEF ToSet
<1>6. \A k \in DOMAIN c.captures :
        IsList(c.captures[k]) /\ \A j \in DOMAIN c.captures[k] : IsTrueFrame(c.captures[k][j])
  <2>1. \A k \in DOMAIN c.captures : \A j \in DOMAIN c.captures[k] :
          c.captures[k][j] \in ToSet(c.captures[k])
    BY DEF ToSet
  <2> QED
    BY <1>2, <1>3, <1>5, <2>1
<1>7. c.logs # <<>> => IsTrueLog(ReadAs(HeaderOf(c.logs).kind, c.logs))
  BY <1>2, <1>5, HeaderIsTrue DEF AreLogs
<1> QED
  BY <1>2, <1>4, <1>5, <1>6, <1>7 DEF IsTrueLeft, c, l

(* The line that is read, and what is left after it. *)
LEMMA LineIsTrue ==
  ASSUME IInv, TInv, InLog, Lines # <<>>, NextLine,
         \/ header'.kind = header.kind
         \/ Head(Lines).line = "path" /\ header'.kind = Head(Lines).kind
  PROVE  /\ IsTrueLeft(left') /\ left'.captures = left.captures
         /\ left'.logs # <<>> => IsTrueLog(ReadAs(header'.kind, left'.logs))
<1>1. AreLogs(left.logs) /\ left.logs # <<>>
  BY DEF IInv, IsLeft, InLog
<1>2. 1 \in DOMAIN left.logs /\ Head(left.logs) = left.logs[1] /\ IsLog(left.logs[1])
  BY <1>1, TailIsList DEF AreLogs
<1>3. IsList(Lines) /\ Lines = left.logs[1].lines
  BY <1>2 DEF IsLog, Lines
<1> DEFINE rest == Tail(Lines)
           log == [left.logs[1] EXCEPT !.lines = rest]
           logs == [left.logs EXCEPT ![1] = log]
<1>4. left' = [left EXCEPT !.logs = logs]
  BY <1>2 DEF NextLine, Lines, IInv, IsLeft
<1>5. log = [kind |-> left.logs[1].kind, lines |-> rest]
  BY <1>2 DEF IsLog
<1>6. IsTrueLog(log)
  <2>1. IsTrueLog(left.logs[1])
    BY <1>2 DEF TInv, IsTruthful, IsTrueLeft
  <2> QED
    BY <1>3, <1>5, <2>1, TailIsTrue
<1>7. IsTrueLog([kind |-> header'.kind, lines |-> rest])
  <2> DEFINE reading_log == [kind |-> header.kind, lines |-> Lines]
  <2>1. IsTrueLog(reading_log) /\ reading_log.kind = header.kind /\ reading_log.lines = Lines
    BY <1>1 DEF TInv, IsTruthful, ReadAs, Lines
  <2> HIDE DEF reading_log
  <2> QED
    BY <1>3, <2>1, TailIsTrue
<1> HIDE DEF rest
<1>8. log.lines = rest
  BY <1>5
<1> HIDE DEF log
<1>9. /\ IsList(logs) /\ DOMAIN logs = DOMAIN left.logs
      /\ \A k \in DOMAIN left.logs : logs[k] = IF k = 1 THEN log ELSE left.logs[k]
  <2>1. IsList(left.logs)
    BY <1>1 DEF AreLogs
  <2> QED
    BY <2>1, ChangeIsList
<1> HIDE DEF logs
<1>10. /\ left'.captures = left.captures /\ left'.hosts = left.hosts /\ left'.logs = logs
  BY <1>4 DEF IInv, IsLeft
<1>11. IsTrueLeft(left')
  BY <1>6, <1>9, <1>10 DEF TInv, IsTruthful, IsTrueLeft
<1>12. logs # <<>> => Head(logs) = log
  BY <1>2, <1>9, TailIsList
<1> QED
  BY <1>7, <1>8, <1>10, <1>11, <1>12 DEF ReadAs

-----------------------------------------------------------------------------
(* Every step keeps the assets those of devices. *)

LEMMA InitIsTrue == Init => TInv
<1> SUFFICES ASSUME Init PROVE TInv
  OBVIOUS
<1>1. commands \in Commands /\ 1 \in 1 .. Len(commands)
  <2>1. IsList(commands) /\ commands # <<>>
    BY InputsAssumption DEF Init
  <2> QED
    BY <2>1, TailIsList, ListHas DEF Init
<1>2. /\ IsTrueLeft(left)
      /\ \A k \in DOMAIN left.captures : left.captures[k] \in ToSet(commands[1].captures)
      /\ left.logs # <<>> => IsTrueLog(ReadAs(HeaderOf(left.logs).kind, left.logs))
  BY <1>1, ScheduledIsTrue DEF Init
<1>3. ToSet(commands[1].captures) \subseteq ReadSoFar
  BY DEF Init, ReadSoFar
<1>4. left.logs = commands[1].logs
  BY DEF Init, Scheduled
<1>5. IsTruthful
  BY <1>2, <1>3, <1>4 DEF IsTruthful, Init
<1>6. IsHeard(NewPass)
  BY NoneIsList DEF IsHeard, NewPass
<1>7. Owned(<<>>)
  BY NoneIsList DEF Owned
<1>8. "kind" \in DOMAIN header
  BY DEF Init, HeaderOf, NoHeader
<1> QED
  BY <1>5, <1>6, <1>7, <1>8, UnboundIsBound DEF Init, TInv

(* No command is forgotten. *)
LEMMA SoundBefore ==
  ASSUME IInv, commands' = commands, command' \in {command, command + 1}, Sound'
  PROVE  Sound
<1>1. command \in Nat
  BY InputsAssumption, ListHas DEF IInv, Staged
<1>2. ReadSoFar \subseteq ReadSoFar'
  <2>1. 1 .. command \subseteq 1 .. command'
    BY <1>1
  <2> QED
    BY <2>1 DEF ReadSoFar
<1>3. \A capture \in ReadSoFar' : Honest(capture)
  BY DEF Sound
<1> QED
  BY <1>2, <1>3 DEF Sound

LEMMA NewPassIsHeard == IsHeard(NewPass)
  BY NoneIsList DEF IsHeard, NewPass

(* The first capture that is left, of the command that runs. *)
LEMMA CaptureIsTrue ==
  ASSUME IInv, TInv, left.captures # <<>>
  PROVE  /\ Head(left.captures) \in ReadSoFar /\ IsList(Head(left.captures))
         /\ \A j \in DOMAIN Head(left.captures) : IsTrueFrame(Head(left.captures)[j])
<1>1. 1 \in DOMAIN left.captures /\ Head(left.captures) = left.captures[1]
  BY TailIsList DEF TInv, IsTruthful, IsTrueLeft
<1> QED
  BY <1>1 DEF TInv, IsTruthful, IsTrueLeft

LEMMA ScanBindingsIsTrue == IInv /\ TInv /\ ScanBindings => TInv'
<1> SUFFICES ASSUME IInv, TInv, ScanBindings PROVE TInv'
  OBVIOUS
<1> USE DEF ScanBindings, ingesting
<1>1. IsTruthful'
  BY DEF TInv, IsTruthful, ReadSoFar
<1>2. ASSUME Sound'
      PROVE  Owned(assets') /\ Owned(saved'.assets) /\ Owned(probed') /\ IsBound(bindings')
  <2>1. Sound
    BY <1>2, SoundBefore
  <2>2. Honest(Head(left.captures))
    BY <2>1, CaptureIsTrue DEF Sound
  <2>3. IsBound(bindings')
    BY <2>2, HonestBinds
  <2> QED
    BY <2>1, <2>3 DEF TInv
<1> QED
  BY <1>1, <1>2, NewPassIsHeard DEF TInv

LEMMA HandleFrameIsTrue == IInv /\ TInv /\ HandleFrame => TInv'
<1> SUFFICES ASSUME IInv, TInv, HandleFrame PROVE TInv'
  OBVIOUS
<1> DEFINE before == [pass |-> pass, assets |-> assets]
           capture == Head(left.captures)
           frame == capture[at + 1]
           after == Handle(before, bindings, frame)
<1>1. IsState(before) /\ before.pass = pass /\ before.assets = assets
  BY DEF IInv, IsState
<1>2. IsTrueFrame(frame)
  <2>1. left.captures # <<>>
    BY DEF HandleFrame, IInv, Staged
  <2>2. IsList(capture) /\ \A j \in DOMAIN capture : IsTrueFrame(capture[j])
    BY <2>1, CaptureIsTrue
  <2>3. at \in Nat /\ at < Len(Frames(capture))
    BY DEF HandleFrame, TInv
  <2> HIDE DEF capture
  <2> DEFINE n == Min({Len(capture), MaxPacketsPerFile})
  <2>4. Len(capture) \in Nat /\ DOMAIN capture = 1 .. Len(capture) /\ capture \in Seq(ToSet(capture))
    BY <2>2, ListHas
  <2>5. n \in Nat /\ n <= Len(capture)
    <3>1. MaxPacketsPerFile \in Nat
      BY LimitsAssumption
    <3>2. {Len(capture), MaxPacketsPerFile} \in SUBSET Nat /\ {Len(capture), MaxPacketsPerFile} # {}
      BY <2>4, <3>1
    <3> QED
      BY <2>4, <3>1, <3>2, MinIsLeast
  <2>6. Frames(capture) = SubSeq(capture, 1, n)
    BY DEF Frames
  <2> HIDE DEF n
  <2>7. Len(SubSeq(capture, 1, n)) = n
    BY <2>4, <2>5
  <2>8. at + 1 \in DOMAIN capture
    BY <2>3, <2>4, <2>5, <2>6, <2>7
  <2> QED
    BY <2>2, <2>8
<1>3. pass' = after.pass /\ assets' = after.assets
  BY DEF HandleFrame
<1>4. Follows(before, bindings, after)
  <2> HIDE DEF before, frame
  <2> QED
    BY <1>1, <1>2, HandleFollows DEF TInv
<1> HIDE DEF before, after
<1>5. IsHeard(pass')
  BY <1>1, <1>3, <1>4 DEF Follows, TInv
<1>6. IsTruthful' /\ at' \in Nat
  BY DEF TInv, IsTruthful, ReadSoFar, HandleFrame, ingesting
<1>7. ASSUME Sound'
      PROVE  Owned(assets') /\ Owned(saved'.assets) /\ Owned(probed') /\ IsBound(bindings')
  <2>1. Sound
    BY <1>7, SoundBefore DEF HandleFrame, ingesting
  <2>2. Owned(assets')
    BY <1>1, <1>3, <1>4, <2>1 DEF Follows, TInv
  <2> QED
    BY <2>1, <2>2 DEF TInv, HandleFrame, ingesting
<1> QED
  BY <1>5, <1>6, <1>7 DEF TInv, HandleFrame, ingesting

LEMMA WriteEndsIsTrue == IInv /\ TInv /\ WriteEnds => TInv'
<1> SUFFICES ASSUME IInv, TInv, WriteEnds PROVE TInv'
  OBVIOUS
<1> USE DEF WriteEnds, ingesting
<1>1. IsTruthful'
  BY DEF TInv, IsTruthful, ReadSoFar
<1>2. ASSUME Sound'
      PROVE  Owned(assets') /\ Owned(saved'.assets) /\ Owned(probed') /\ IsBound(bindings')
  <2>1. Sound
    BY <1>2, SoundBefore
  <2>2. Owned(assets')
    BY <2>1, AddEndsOwned DEF IInv, TInv
  <2> QED
    BY <2>1, <2>2 DEF TInv
<1> QED
  BY <1>1, <1>2 DEF TInv

LEMMA WriteServiceIsTrue ==
  ASSUME IInv, TInv, NEW service \in pass.open, WriteService(service)
  PROVE  TInv'
<1> USE DEF WriteService, ingesting
<1>1. IsTruthful'
  BY DEF TInv, IsTruthful, ReadSoFar
<1>2. IsHeard(pass')
  <2> DEFINE opened == pass.open \ {service}
  <2>1. pass' = [pass EXCEPT !.open = opened] /\ opened \subseteq pass.open
    OBVIOUS
  <2> HIDE DEF opened
  <2>2. pass'.open = opened /\ pass'.flows = pass.flows /\ pass'.buffers = pass.buffers
    BY <2>1 DEF IInv, IsPass
  <2> QED
    BY <2>1, <2>2 DEF TInv, IsHeard
<1>3. ASSUME Sound'
      PROVE  Owned(assets') /\ Owned(saved'.assets) /\ Owned(probed') /\ IsBound(bindings')
  <2>1. Sound
    BY <1>3, SoundBefore
  <2> DEFINE addr == BoundAddresses(bindings, service[1])
             seen == ServiceSeen(pass, service)
  <2>2. assets' = [Device(assets, addr) EXCEPT
                     ![ByAddress(Device(assets, addr), addr)] = AddService(@, seen)]
    BY DEF Update
  <2>3. service[1] # NoAddress /\ Owner[service[1]] \in DOMAIN TruthOf
    BY DEF TInv, IsHeard, IsAt, Usable, Known
  <2>4. Names(addr, Owner[service[1]])
    BY <2>1, <2>3, BoundNames DEF TInv
  <2> HIDE DEF addr, seen
  <2>5. Owned([Device(assets, addr) EXCEPT
                 ![ByAddress(Device(assets, addr), addr)] = AddService(@, seen)])
    BY <2>1, <2>3, <2>4, UpdateServiceOwned DEF IInv, TInv
  <2>6. Owned(assets')
    BY <2>2, <2>5
  <2> QED
    BY <2>1, <2>6 DEF TInv
<1> QED
  BY <1>1, <1>2, <1>3 DEF TInv

LEMMA WriteFlowsIsTrue == IInv /\ TInv /\ WriteFlows => TInv'
<1> SUFFICES ASSUME IInv, TInv, WriteFlows PROVE TInv'
  OBVIOUS
<1> USE DEF WriteFlows, ingesting
<1>1. IsTruthful'
  <2> DEFINE captures == Tail(left.captures)
  <2>1. left.captures # <<>> /\ IsList(left.captures)
    BY DEF IInv, Staged, TInv, IsTruthful, IsTrueLeft
  <2>2. /\ IsList(captures)
        /\ \A i \in DOMAIN captures : i + 1 \in DOMAIN left.captures /\ captures[i] = left.captures[i + 1]
    BY <2>1, TailIsList
  <2>3. left' = [left EXCEPT !.captures = captures]
    OBVIOUS
  <2> HIDE DEF captures
  <2>4. left'.captures = captures /\ left'.hosts = left.hosts /\ left'.logs = left.logs
    BY <2>3 DEF IInv, IsLeft
  <2>5. IsTrueLeft(left') /\ \A i \in DOMAIN captures : captures[i] \in ReadSoFar
    BY <2>2, <2>4 DEF TInv, IsTruthful, IsTrueLeft
  <2> QED
    BY <2>4, <2>5 DEF TInv, IsTruthful, ReadSoFar
<1>2. ASSUME Sound'
      PROVE  Owned(assets') /\ Owned(saved'.assets) /\ Owned(probed') /\ IsBound(bindings')
  <2>1. Sound
    BY <1>2, SoundBefore
  <2> QED
    BY <2>1, UnboundIsBound DEF TInv
<1> QED
  BY <1>1, <1>2, NewPassIsHeard DEF TInv

LEMMA ScanHostIsTrue == IInv /\ TInv /\ ScanHost => TInv'
<1> SUFFICES ASSUME IInv, TInv, ScanHost PROVE TInv'
  OBVIOUS
<1> DEFINE before == [assets |-> assets, flows |-> flows]
           hosts == Tail(left.hosts)
<1>1. IsScan(left.hosts) /\ left.hosts # <<>>
  BY DEF IInv, IsLeft, ScanHost
<1>2. /\ 1 \in DOMAIN left.hosts /\ Head(left.hosts) = left.hosts[1]
      /\ \A i \in DOMAIN hosts : i + 1 \in DOMAIN left.hosts /\ hosts[i] = left.hosts[i + 1]
  BY <1>1, TailIsList DEF IsScan
<1>3. IsHost(Head(left.hosts)) /\ IsTrueHost(Head(left.hosts))
  BY <1>1, <1>2 DEF IsScan, TInv, IsTruthful, IsTrueLeft
<1>4. /\ before = [assets |-> before.assets, flows |-> before.flows]
      /\ before.assets = assets
  OBVIOUS
<1>5. assets' = IngestNmapHost(before, Head(left.hosts)).assets /\ left' = [left EXCEPT !.hosts = hosts]
  BY DEF ScanHost
<1> HIDE DEF before, hosts
<1>6. IsTruthful'
  <2>1. left'.captures = left.captures /\ left'.hosts = hosts /\ left'.logs = left.logs
    BY <1>5 DEF IInv, IsLeft
  <2>2. IsTrueLeft(left')
    BY <1>2, <2>1 DEF TInv, IsTruthful, IsTrueLeft
  <2> QED
    BY <2>1, <2>2 DEF TInv, IsTruthful, ReadSoFar, ScanHost, reading
<1>7. ASSUME Sound'
      PROVE  Owned(assets') /\ Owned(saved'.assets) /\ Owned(probed') /\ IsBound(bindings')
  <2>1. Sound
    BY <1>7, SoundBefore DEF ScanHost, reading
  <2>2. Owned(assets')
    BY <1>3, <1>4, <1>5, <2>1, HostOwned DEF IInv, TInv
  <2> QED
    BY <2>1, <2>2 DEF TInv, ScanHost, reading
<1> QED
  BY <1>6, <1>7 DEF TInv, ScanHost, reading

LEMMA ReadDirectiveIsTrue == IInv /\ TInv /\ ReadDirective => TInv'
<1> SUFFICES ASSUME IInv, TInv, ReadDirective PROVE TInv'
  OBVIOUS
<1>1. \/ header'.kind = header.kind
      \/ Head(Lines).line = "path" /\ header'.kind = Head(Lines).kind
  <2>1. CASE Head(Lines).line = "fields"
    <3>1. header' = [header EXCEPT !.named = TRUE]
      BY <2>1 DEF ReadDirective
    <3> QED
      BY <3>1
  <2>2. CASE Head(Lines).line = "path"
    <3> DEFINE kind == Head(Lines).kind
    <3>1. header' = [header EXCEPT !.kind = kind] /\ "kind" \in DOMAIN header
      BY <2>2 DEF ReadDirective, TInv
    <3> HIDE DEF kind
    <3>2. header'.kind = kind
      BY <3>1
    <3> QED
      BY <2>2, <3>2 DEF kind
  <2> QED
    BY <2>1, <2>2 DEF ReadDirective
<1>2. /\ IsTrueLeft(left') /\ left'.captures = left.captures
      /\ left'.logs # <<>> => IsTrueLog(ReadAs(header'.kind, left'.logs))
  BY <1>1, LineIsTrue DEF ReadDirective
<1>3. IsTruthful'
  BY <1>2 DEF TInv, IsTruthful, ReadSoFar, ReadDirective, reading
<1>4. Sound' => Sound
  BY SoundBefore DEF ReadDirective, reading
<1>5. "kind" \in DOMAIN header'
  BY DEF ReadDirective, TInv
<1> QED
  BY <1>3, <1>4, <1>5 DEF TInv, ReadDirective, reading

LEMMA ReadRecordIsTrue == IInv /\ TInv /\ ReadRecord => TInv'
<1> SUFFICES ASSUME IInv, TInv, ReadRecord PROVE TInv'
  OBVIOUS
<1> DEFINE before == [assets |-> assets, flows |-> flows]
           line == Head(Lines)
           record == [line.record EXCEPT !.kind = header.kind]
<1>1. IsLine(line) /\ line.line \in {"json", "tsv"}
  BY LineIsRead DEF ReadRecord
<1>2. "answers" \in DOMAIN record => IsList(record.answers)
  <2>1. DOMAIN record = DOMAIN line.record
    OBVIOUS
  <2>2. "answers" \in DOMAIN line.record => record.answers = line.record.answers
    OBVIOUS
  <2> HIDE DEF line, record
  <2> QED
    BY <1>1, <2>1, <2>2 DEF IsLine
<1>3. IsReading(before) /\ before.assets = assets
  BY DEF IInv, IsReading
<1>4. PICK after \in ApplyRecord(before, record) : assets' = after.assets /\ flows' = after.flows
  BY DEF ReadRecord
<1>5. IsTrueRecord(record)
  <2> DEFINE log == ReadAs(header.kind, left.logs)
  <2>1. IsTrueLog(log) /\ log.kind = header.kind /\ log.lines = Lines
    BY DEF TInv, IsTruthful, ReadRecord, InLog, ReadAs, Lines
  <2>2. IsList(Lines) /\ Lines # <<>>
    <3>1. AreLogs(left.logs) /\ left.logs # <<>>
      BY DEF IInv, IsLeft, ReadRecord, InLog
    <3> QED
      BY <3>1, TailIsList DEF AreLogs, IsLog, Lines, ReadRecord
  <2>3. 1 \in DOMAIN Lines /\ line = Lines[1]
    BY <2>2, TailIsList
  <2> HIDE DEF log, line
  <2>4. IsTrueRecord([log.lines[1].record EXCEPT !.kind = log.kind])
    <3>1. log.lines[1].line \in {"json", "tsv"} /\ 1 \in DOMAIN log.lines
      BY <1>1, <2>1, <2>3
    <3> QED
      BY <2>1, <3>1 DEF IsTrueLog
  <2> QED
    BY <2>1, <2>3, <2>4
<1>6. IsTruthful'
  <2>1. /\ IsTrueLeft(left') /\ left'.captures = left.captures
        /\ left'.logs # <<>> => IsTrueLog(ReadAs(header'.kind, left'.logs))
    BY LineIsTrue DEF ReadRecord
  <2> QED
    BY <2>1 DEF TInv, IsTruthful, ReadSoFar, ReadRecord, reading
<1> HIDE DEF before, record
<1>7. ASSUME Sound'
      PROVE  Owned(assets') /\ Owned(saved'.assets) /\ Owned(probed') /\ IsBound(bindings')
  <2>1. Sound
    BY <1>7, SoundBefore DEF ReadRecord, reading
  <2>2. Owned(assets')
    BY <1>2, <1>3, <1>4, <1>5, <2>1, ApplyRecordOwned DEF TInv
  <2> QED
    BY <2>1, <2>2 DEF TInv, ReadRecord, reading
<1> QED
  BY <1>6, <1>7 DEF TInv, ReadRecord, reading

LEMMA SkipLineIsTrue == IInv /\ TInv /\ SkipLine => TInv'
<1> SUFFICES ASSUME IInv, TInv, SkipLine PROVE TInv'
  OBVIOUS
<1>1. /\ IsTrueLeft(left') /\ left'.captures = left.captures
      /\ left'.logs # <<>> => IsTrueLog(ReadAs(header'.kind, left'.logs))
  BY LineIsTrue DEF SkipLine
<1>2. IsTruthful'
  BY <1>1 DEF TInv, IsTruthful, ReadSoFar, SkipLine, reading
<1>3. Sound' => Sound
  BY SoundBefore DEF SkipLine, reading
<1> QED
  BY <1>2, <1>3 DEF TInv, SkipLine, reading

LEMMA LeaveLogIsTrue == IInv /\ TInv /\ LeaveLog => TInv'
<1> SUFFICES ASSUME IInv, TInv, LeaveLog PROVE TInv'
  OBVIOUS
<1> DEFINE logs == Tail(left.logs)
<1>1. left' = [left EXCEPT !.logs = logs] /\ header' = HeaderOf(logs)
  BY DEF LeaveLog, NextLog
<1>2. IsList(left.logs) /\ left.logs # <<>>
  BY DEF IInv, IsLeft, AreLogs, LeaveLog, InLog
<1>3. IsList(logs) /\ \A k \in DOMAIN logs : IsTrueLog(logs[k])
  <2>1. \A k \in DOMAIN left.logs : IsTrueLog(left.logs[k])
    BY DEF TInv, IsTruthful, IsTrueLeft
  <2> QED
    BY <1>2, <2>1, TailIsList
<1> HIDE DEF logs
<1>4. left'.captures = left.captures /\ left'.hosts = left.hosts /\ left'.logs = logs
  BY <1>1 DEF IInv, IsLeft
<1>5. logs # <<>> => IsTrueLog(ReadAs(HeaderOf(logs).kind, logs))
  BY <1>3, HeaderIsTrue
<1>6. IsTrueLeft(left')
  BY <1>3, <1>4 DEF TInv, IsTruthful, IsTrueLeft
<1>7. IsTruthful'
  BY <1>1, <1>4, <1>5, <1>6 DEF TInv, IsTruthful, ReadSoFar, LeaveLog, reading
<1>8. Sound' => Sound
  BY SoundBefore DEF LeaveLog, reading
<1>9. "kind" \in DOMAIN header'
  BY <1>1 DEF HeaderOf, NoHeader
<1> QED
  BY <1>7, <1>8, <1>9 DEF TInv, LeaveLog, reading

LEMMA FinishIsTrue == IInv /\ TInv /\ Finish => TInv'
<1> SUFFICES ASSUME IInv, TInv, Finish PROVE TInv'
  OBVIOUS
<1> DEFINE resolved == [i \in DOMAIN flows |-> Resolved(flows[i])]
           run == Finalize(assets, resolved)
<1>1. saved' = IF commands[command].merge
               THEN Finalize(Merge(saved.assets, run.assets), saved.flows \o run.flows)
               ELSE Finalize(run.assets, run.flows)
  BY DEF Finish
<1>2. ASSUME Sound'
      PROVE  Owned(assets') /\ Owned(saved'.assets) /\ Owned(probed') /\ IsBound(bindings')
  <2>1. Sound
    BY <1>2, SoundBefore DEF Finish
  <2>2. IsInventory(run.assets) /\ Owned(run.assets)
    <3> HIDE DEF resolved
    <3> QED
      BY <2>1, FinalizeKeeps, FinalizeOwned DEF IInv, TInv
  <2> HIDE DEF run
  <2> DEFINE all == Merge(saved.assets, run.assets)
  <2>3. IsInventory(all) /\ Owned(all)
    BY <2>1, <2>2, MergeKeeps, MergeOwned DEF IInv, TInv
  <2> HIDE DEF all
  <2>4. /\ Owned(Finalize(all, saved.flows \o run.flows).assets)
        /\ Owned(Finalize(run.assets, run.flows).assets)
    BY <2>2, <2>3, FinalizeOwned
  <2>5. Owned(saved'.assets)
    BY <1>1, <2>4 DEF all
  <2>6. Owned(<<>>)
    BY NoneIsList DEF Owned
  <2> QED
    BY <2>1, <2>5, <2>6 DEF TInv, Finish
<1>3. IsTruthful' /\ "kind" \in DOMAIN header'
  <2>1. CASE command < Len(commands)
    <3>1. /\ command' = command + 1 /\ commands' = commands
          /\ left' = Scheduled(commands[command + 1]) /\ header' = HeaderOf(commands[command + 1].logs)
      BY <2>1 DEF Finish
    <3>2. commands \in Commands /\ command + 1 \in 1 .. Len(commands)
      <4>1. Len(commands) \in Nat
        BY InputsAssumption, ListHas DEF IInv, Staged
      <4> QED
        BY <2>1, <4>1 DEF IInv, Staged
    <3>3. /\ IsTrueLeft(left')
          /\ \A k \in DOMAIN left'.captures : left'.captures[k] \in ToSet(commands[command + 1].captures)
          /\ left'.logs # <<>> => IsTrueLog(ReadAs(HeaderOf(left'.logs).kind, left'.logs))
      BY <3>1, <3>2, ScheduledIsTrue
    <3>4. left'.logs = commands[command + 1].logs
      BY <3>1 DEF Scheduled
    <3>5. ToSet(commands[command + 1].captures) \subseteq ReadSoFar'
      BY <3>1, <3>2 DEF ReadSoFar
    <3>6. "kind" \in DOMAIN header'
      BY <3>1 DEF HeaderOf, NoHeader
    <3> QED
      BY <3>1, <3>3, <3>4, <3>5, <3>6 DEF IsTruthful
  <2>2. CASE ~ command < Len(commands)
    BY <2>2 DEF TInv, IsTruthful, ReadSoFar, Finish
  <2> QED
    BY <2>1, <2>2
<1> QED
  BY <1>2, <1>3 DEF TInv, Finish

LEMMA MakePlanIsTrue ==
  ASSUME IInv, TInv, NEW request, MakePlan(request)
  PROVE  TInv'
<1>1. IsTruthful'
  BY DEF TInv, IsTruthful, ReadSoFar, MakePlan, planning
<1>2. Sound' => Sound
  BY SoundBefore DEF MakePlan, planning
<1> QED
  BY <1>1, <1>2 DEF TInv, MakePlan, planning

LEMMA ProbeIsTrue == IInv /\ TInv /\ Probe => TInv'
<1> SUFFICES ASSUME IInv, TInv, Probe PROVE TInv'
  OBVIOUS
<1>0. PICK answering \in SUBSET {i \in DOMAIN plan :
                 <<plan[i].host, plan[i].template.port>> \in DOMAIN Replies} :
        \E read \in [answering -> 1 .. MaxDecodeAttempt] :
        LET order == InOrder(answering, <)
        IN  probed' = BuildInventory([i \in DOMAIN order |-> Answer(plan[order[i]], read[order[i]])])
  BY DEF Probe
<1>1. PICK read \in [answering -> 1 .. MaxDecodeAttempt] :
        LET order == InOrder(answering, <)
        IN  probed' = BuildInventory([i \in DOMAIN order |-> Answer(plan[order[i]], read[order[i]])])
  BY <1>0
<1> DEFINE order == InOrder(answering, <)
           observations == [i \in DOMAIN order |-> Answer(plan[order[i]], read[order[i]])]
           n == Cardinality(answering)
<1>2. IsFiniteSet(answering) /\ answering \subseteq Int
  <2>1. DOMAIN plan = 1 .. Len(plan) /\ Len(plan) \in Nat
    BY ListHas DEF IInv
  <2>2. answering \subseteq 1 .. Len(plan)
    BY <2>1
  <2>3. IsFiniteSet(1 .. Len(plan))
    BY <2>1, FS_Interval
  <2>4. IsFiniteSet(answering)
    BY <2>2, <2>3, FS_Subset
  <2> QED
    BY <2>1, <2>2, <2>4
<1>3. n \in Nat
  BY <1>2, FS_CardinalityType
<1>4. DOMAIN order = 1 .. n /\ DOMAIN observations = 1 .. n
  BY DEF InOrder
<1>5. \A i \in 1 .. n : order[i] \in answering
  BY <1>2, InOrderAreThose
<1>6. \A i \in 1 .. n : observations[i] = Answer(plan[order[i]], read[order[i]])
  BY <1>4
<1>7. probed' = BuildInventory(observations)
  BY <1>1
<1> HIDE DEF order, observations, n
<1>8. \A i \in 1 .. n : IsTrueAnswer(observations[i])
  <2>1. \A k \in answering : /\ <<plan[k].host, plan[k].template.port>> \in DOMAIN Replies
                             /\ read[k] \in 1 .. MaxDecodeAttempt
    OBVIOUS
  <2>2. \A k \in answering : IsTrueAnswer(Answer(plan[k], read[k]))
    BY <2>1, AnswerIsTrue
  <2> QED
    BY <1>5, <1>6, <2>2
<1>9. Owned(probed')
  BY <1>3, <1>4, <1>7, <1>8, BuildInventoryOwned
<1>10. IsTruthful'
  BY DEF TInv, IsTruthful, ReadSoFar, Probe, planning
<1>11. Sound' => Sound
  BY SoundBefore DEF Probe, planning
<1> QED
  BY <1>9, <1>10, <1>11 DEF TInv, Probe, planning

LEMMA NextIsTrue == IInv /\ TInv /\ [Next]_vars => TInv'
<1> SUFFICES ASSUME IInv, TInv, [Next]_vars PROVE TInv'
  OBVIOUS
<1>1. CASE Next
  <2>1. ASSUME NEW service \in pass.open, WriteService(service) PROVE TInv'
    BY <2>1, WriteServiceIsTrue
  <2>2. ASSUME NEW request \in PlanRequests, MakePlan(request) PROVE TInv'
    BY <2>2, MakePlanIsTrue
  <2> QED
    BY <1>1, <2>1, <2>2, ScanBindingsIsTrue, HandleFrameIsTrue, WriteEndsIsTrue, WriteFlowsIsTrue,
       ScanHostIsTrue, ReadDirectiveIsTrue, ReadRecordIsTrue, SkipLineIsTrue, LeaveLogIsTrue,
       FinishIsTrue, ProbeIsTrue
       DEF Next
<1>2. CASE UNCHANGED vars
  BY <1>2 DEF vars, TInv, IsTruthful, ReadSoFar, Sound
<1> QED
  BY <1>1, <1>2

(* What is read tells the truth all along, and where the bindings come from *)
(* honest captures so do the inventories.                                   *)
THEOREM TruthHolds == Spec => [](IInv /\ TInv)
  BY InitHolds, InitIsTrue, NextKeeps, NextIsTrue, PTL DEF Spec

(* Where hosts, records and devices tell the truth of themselves and no     *)
(* capture shows a hardware address with an IP that is another's alone      *)
(* (scanBindings), every asset is of one device, in the inventory being     *)
(* built, in the file and in that of a scan, and its identity is true of    *)
(* that device, or the bytes of two answers read as one (sink.device,       *)
(* Inventory.ByAddress, Identity.Merge).                                    *)
THEOREM NothingIsMisattributed == Spec => []NothingMisattributed
<1>1. IInv /\ TInv => NothingMisattributed
  <2> SUFFICES ASSUME IInv, TInv, Sound, NEW known \in {assets, saved.assets, probed},
                      NEW asset \in ToSet(known)
               PROVE  \E device \in DOMAIN TruthOf :
                        /\ \A address \in AddressesOf(asset) : Owner[address] = device
                        /\ {asset.identity[f] : f \in IdentityFields}
                             \subseteq TruthOf[device] \cup {Unsaid, Garbled}
    BY DEF NothingMisattributed
  <2>1. Owned(known)
    BY DEF TInv
  <2>2. PICK i \in DOMAIN known : asset = known[i]
    BY DEF ToSet
  <2>3. PICK device \in DOMAIN TruthOf : IsOf(asset, device)
    BY <2>1, <2>2 DEF Owned
  <2> QED
    BY <2>3 DEF IsOf, AddressesOf
<1> QED
  BY <1>1, TruthHolds, PTL

-----------------------------------------------------------------------------
(* Where each service is. *)

(* The IP that is read for a device of one. *)
IPOf == [d \in DOMAIN TruthOf |-> CHOOSE ip \in IPsRead \cup {NoAddress} :
           (\E a \in IPsRead : Owner[a] = d) => ip \in IPsRead /\ Owner[ip] = d]

(* An IP is that one, and no hardware address is.                           *)
IsOwn(ip) == Owner[ip] \in OneIP => IPOf[Owner[ip]] = ip

IsNoIP(mac) == Owner[mac] \in OneIP => IPOf[Owner[mac]] # mac

LEMMA ReadIsOwn ==
  ASSUME NEW ip \in IPsRead
  PROVE  IsOwn(ip)
<1> SUFFICES ASSUME Owner[ip] \in OneIP PROVE IPOf[Owner[ip]] = ip
  BY DEF IsOwn
<1> DEFINE d == Owner[ip]
           IsIt(x) == (\E a \in IPsRead : Owner[a] = d) => x \in IPsRead /\ Owner[x] = d
<1>1. d \in DOMAIN TruthOf /\ \A a, b \in IPsRead : Owner[a] = d /\ Owner[b] = d => a = b
  BY DEF OneIP
<1>2. ip \in IPsRead \cup {NoAddress} /\ IsIt(ip)
  OBVIOUS
<1>3. IPOf[d] = CHOOSE x \in IPsRead \cup {NoAddress} : IsIt(x)
  BY <1>1 DEF IPOf
<1>4. IsIt(CHOOSE x \in IPsRead \cup {NoAddress} : IsIt(x))
  <2> HIDE DEF IsIt
  <2> QED
    BY <1>2
<1> QED
  BY <1>1, <1>3, <1>4

LEMMA MacIsNoIP ==
  ASSUME NEW mac \in MacsRead, mac # NoAddress
  PROVE  IsNoIP(mac)
<1> SUFFICES ASSUME Owner[mac] \in OneIP, IPOf[Owner[mac]] = mac PROVE FALSE
  BY DEF IsNoIP
<1> DEFINE d == Owner[mac]
           IsIt(x) == (\E a \in IPsRead : Owner[a] = d) => x \in IPsRead /\ Owner[x] = d
<1>1. d \in DOMAIN TruthOf
  BY DEF OneIP
<1>2. IPOf[d] = CHOOSE x \in IPsRead \cup {NoAddress} : IsIt(x)
  BY <1>1 DEF IPOf
<1>3. \E x \in IPsRead \cup {NoAddress} : IsIt(x)
  <2>1. CASE \E a \in IPsRead : Owner[a] = d
    BY <2>1
  <2>2. CASE ~ \E a \in IPsRead : Owner[a] = d
    BY <2>2
  <2> QED
    BY <2>1, <2>2
<1>4. (CHOOSE x \in IPsRead \cup {NoAddress} : IsIt(x)) \in IPsRead \cup {NoAddress}
  <2> HIDE DEF IsIt
  <2> QED
    BY <1>3
<1>5. mac \in IPsRead
  BY <1>2, <1>4
<1> QED
  BY <1>5, AddressesAssumption

(* The addresses are of the device: if it has one IP no other than that,    *)
(* and no hardware address for it.                                          *)
Home(addr, d) ==
  d \in OneIP =>
    /\ {addr.v4, addr.v6} \subseteq {NoAddress, IPOf[d]}
    /\ addr.mac # NoAddress => addr.mac # IPOf[d]

(* They show an IP of the device, the one it has if it has one.             *)
Shows(addr, d) == \E ip \in {addr.v4, addr.v6} \ {NoAddress} : d \in OneIP => ip = IPOf[d]

(* Its port is open, at that IP.                                            *)
SeenAt(d, port, transport, open) ==
  \E ip : Owner[ip] = d /\ (d \in OneIP => ip = IPOf[d]) /\ <<ip, port, transport>> \in open

(* An entry tells what it is of. *)
IsServer(a) ==
  IsAsset(a) /\ \A i \in DOMAIN a.services : {"port", "transport"} \subseteq DOMAIN a.services[i]

(* What the asset serves is open at an IP of the device, of which it shows  *)
(* one.                                                                     *)
Lodged(a, d, open) ==
  /\ IsServer(a) /\ Home(a.addr, d)
  /\ \A i \in DOMAIN a.services :
       SeenAt(d, a.services[i].port, a.services[i].transport, open)
  /\ a.services # <<>> => Shows(a.addr, d)

Housed(known, open) ==
  \A i \in DOMAIN known : \A d \in DOMAIN TruthOf : IsOf(known[i], d) => Lodged(known[i], d, open)

(* b is what has become of a: it has its id, and the IP of a device of one. *)
Grown(a, b) ==
  /\ b.id = a.id
  /\ a.addr.v4 # NoAddress /\ Owner[a.addr.v4] \in OneIP => b.addr.v4 = a.addr.v4
  /\ a.addr.v6 # NoAddress /\ Owner[a.addr.v6] \in OneIP => b.addr.v6 = a.addr.v6

Grows(known, more) == \A i \in DOMAIN known : \E j \in DOMAIN more : Grown(known[i], more[j])

Present(known, ip) ==
  Owner[ip] \in OneIP => \E i \in DOMAIN known : ip \in {known[i].addr.v4, known[i].addr.v6}

(* What one serves the other serves, or it is one of S.                     *)
Served(b, a, S) ==
  \A j \in DOMAIN b :
    \/ \E i \in DOMAIN a : a[i].port = b[j].port /\ a[i].transport = b[j].transport
    \/ <<b[j].port, b[j].transport>> \in S

(* b is an asset where a is one, with the addresses of a and no service     *)
(* besides those of a and the ones, as <<port, transport>>, of S.           *)
Adds(a, b, S) ==
  IsServer(a) =>
    /\ IsServer(b) /\ b.id = a.id
    /\ b.addr.v4 = a.addr.v4 /\ b.addr.v6 = a.addr.v6 /\ b.addr.mac = a.addr.mac
    /\ Served(b.services, a.services, S)

LEMMA AddsNothing ==
  ASSUME NEW a, NEW b, NEW S,
         IsAsset(a) => /\ IsAsset(b) /\ b.id = a.id /\ b.services = a.services
                       /\ b.addr.v4 = a.addr.v4 /\ b.addr.v6 = a.addr.v6 /\ b.addr.mac = a.addr.mac
  PROVE  Adds(a, b, S)
  BY DEF Adds, Served, IsServer

LEMMA AddsBoth ==
  ASSUME NEW a, NEW b, NEW c, NEW S, Adds(a, b, S), Adds(b, c, S)
  PROVE  Adds(a, c, S)
<1>1. ASSUME NEW p, NEW q, NEW r, Served(q, p, S), Served(r, q, S) PROVE Served(r, p, S)
  <2> SUFFICES ASSUME NEW j \in DOMAIN r, <<r[j].port, r[j].transport>> \notin S
               PROVE  \E i \in DOMAIN p : p[i].port = r[j].port /\ p[i].transport = r[j].transport
    BY DEF Served
  <2>1. PICK i \in DOMAIN q : q[i].port = r[j].port /\ q[i].transport = r[j].transport
    BY <1>1 DEF Served
  <2>2. <<q[i].port, q[i].transport>> \notin S
    BY <2>1
  <2> QED
    BY <1>1, <2>1, <2>2 DEF Served
<1> QED
  BY <1>1 DEF Adds

LEMMA AddServiceAdds ==
  ASSUME NEW a, NEW service, {"port", "transport"} \subseteq DOMAIN service,
         NEW S, <<service.port, service.transport>> \in S
  PROVE  Adds(a, AddService(a, service), S)
<1> SUFFICES ASSUME IsServer(a) PROVE Adds(a, AddService(a, service), S)
  BY DEF Adds
<1> DEFINE old == a.services
           places == {i \in 1 .. Len(old) :
                        old[i].port = service.port /\ old[i].transport = service.transport}
           place == IF places # {} THEN Min(places) ELSE 0
           told == Filled(old[place], service)
           more == IF place = 0 THEN Append(old, service) ELSE [old EXCEPT ![place] = told]
           b == AddService(a, service)
<1>1. DOMAIN old = 1 .. Len(old) /\ Len(old) \in Nat /\ IsList(old)
  BY ListHas DEF IsAsset, IsServer
<1>2. b = [a EXCEPT !.services = more]
  BY DEF AddService, SelectInSeq
<1>3. place # 0 => place \in DOMAIN old
                   /\ old[place].port = service.port /\ old[place].transport = service.transport
  <2>1. places \in SUBSET Nat /\ \A i \in places : i \in DOMAIN old
           /\ old[i].port = service.port /\ old[i].transport = service.transport
    BY <1>1
  <2> HIDE DEF places
  <2> QED
    BY <2>1, MinIsLeast
<1>4. Same(a, b) /\ IsAsset(a)
  BY AddServiceKeeps DEF IsServer
<1> HIDE DEF place
<1>5. \A j \in DOMAIN more : {"port", "transport"} \subseteq DOMAIN more[j]
                            /\ (\/ more[j].port = service.port /\ more[j].transport = service.transport
                                \/ j \in DOMAIN old /\ more[j] = old[j])
  <2>1. CASE place = 0
    <3>1. /\ DOMAIN more = 1 .. Len(old) + 1
          /\ \A i \in DOMAIN old : more[i] = old[i]
          /\ more[Len(old) + 1] = service
      BY <1>1, <2>1, AppendIsList
    <3> HIDE DEF more
    <3>2. \A j \in DOMAIN more : j \in DOMAIN old \/ j = Len(old) + 1
      BY <1>1, <3>1
    <3> QED
      BY <3>1, <3>2 DEF IsServer
  <2>2. CASE place # 0
    <3>1. /\ DOMAIN more = DOMAIN old
          /\ \A i \in DOMAIN old : more[i] = IF i = place THEN told ELSE old[i]
      BY <1>1, <2>2
    <3>2. {"port", "transport"} \subseteq DOMAIN old[place]
      BY <1>3, <2>2 DEF IsServer
    <3>3. /\ {"port", "transport"} \subseteq DOMAIN told
          /\ told.port = service.port /\ told.transport = service.transport
      BY <1>3, <2>2, <3>2 DEF Filled
    <3> HIDE DEF more, told
    <3> QED
      BY <3>1, <3>3 DEF IsServer
  <2> QED
    BY <2>1, <2>2
<1> HIDE DEF more, b
<1>6. b.services = more
  BY <1>2, <1>4 DEF IsAsset
<1>7. Served(more, old, S)
  BY <1>5 DEF Served
<1>8. IsServer(b)
  BY <1>4, <1>5, <1>6 DEF IsServer, Same
<1> QED
  BY <1>4, <1>6, <1>7, <1>8 DEF Adds, Same, b

LEMMA AddEvidenceAdds ==
  ASSUME NEW a, NEW evidence, NEW S
  PROVE  Adds(a, AddEvidence(a, evidence), S)
<1> DEFINE b == AddEvidence(a, evidence)
<1>1. Same(a, b)
  BY AddEvidenceKeeps
<1>2. IsAsset(a) => b.services = a.services
  BY DEF IsAsset, AddEvidence
<1> HIDE DEF b
<1>3. Adds(a, b, S)
  BY <1>1, <1>2, AddsNothing DEF Same
<1> QED
  BY <1>3 DEF b

LEMMA SetRoleAdds ==
  ASSUME NEW a, NEW role, NEW S
  PROVE  Adds(a, SetRole(a, role), S)
<1> DEFINE b == SetRole(a, role)
<1>1. Same(a, b)
  BY SetRoleKeeps
<1>2. IsAsset(a) => b.services = a.services
  BY DEF IsAsset, SetRole
<1> HIDE DEF b
<1>3. Adds(a, b, S)
  BY <1>1, <1>2, AddsNothing DEF Same
<1> QED
  BY <1>3 DEF b

LEMMA IdentifyAdds ==
  ASSUME NEW a, NEW identity, NEW S
  PROVE  Adds(a, Identify(a, identity), S)
<1> DEFINE b == Identify(a, identity)
<1>1. Keeps(a, b)
  BY IdentifyKeeps
<1>2. IsAsset(a) => b.services = a.services /\ b.addr = a.addr
  BY DEF IsAsset, Identify
<1> HIDE DEF b
<1>3. Adds(a, b, S)
  BY <1>1, <1>2, AddsNothing DEF Keeps
<1> QED
  BY <1>3 DEF b

LEMMA ClassifyAdds ==
  ASSUME NEW a, NEW S
  PROVE  Adds(a, Classify(a), S)
<1> DEFINE b == Classify(a)
<1>1. Same(a, b)
  BY ClassifyKeeps
<1>2. IsAsset(a) => b.services = a.services
  BY DEF IsAsset, Classify
<1> HIDE DEF b
<1>3. Adds(a, b, S)
  BY <1>1, <1>2, AddsNothing DEF Same
<1> QED
  BY <1>3 DEF b

(* All the services of a list, and all the open ports of a scan.            *)
ServingAll == INSTANCE Folding_proofs WITH
  Op <- LAMBDA ctx, b, x : AddService(b, x), Good <- LAMBDA ctx, k, b : Adds(ctx[1], b, ctx[2])
PortingAll == INSTANCE Folding_proofs WITH
  Op <- LAMBDA ctx, b, x : ServePort(b, x), Good <- LAMBDA ctx, k, b : Adds(ctx[1], b, ctx[2])

LEMMA AllServicesAdd ==
  ASSUME NEW a, NEW s, IsList(s), NEW S,
         \A i \in DOMAIN s : {"port", "transport"} \subseteq DOMAIN s[i] /\ <<s[i].port, s[i].transport>> \in S
  PROVE  Adds(a, FoldLeft(AddService, a, s), S)
<1> DEFINE ctx == <<a, S>>
<1>1. FoldLeft(AddService, a, s) = ServingAll!Table(ctx, a, s)[DOMAIN s]
  BY DEF FoldLeft, MapThenFoldSet, Max, ServingAll!Table, ServingAll!Row, ServingAll!Top
<1>2. DOMAIN s = 1 .. Len(s) /\ Len(s) \in Nat /\ ctx[1] = a /\ ctx[2] = S
  BY ListHas
<1> HIDE DEF ctx
<1>3. Adds(a, a, S)
  BY AddsNothing
<1>4. ASSUME NEW k \in 0 .. Len(s) - 1, NEW b, Adds(a, b, S) PROVE Adds(a, AddService(b, s[k + 1]), S)
  <2>1. k + 1 \in DOMAIN s
    BY <1>2
  <2>2. Adds(b, AddService(b, s[k + 1]), S)
    BY <2>1, AddServiceAdds
  <2> QED
    BY <1>4, <2>2, AddsBoth
<1>5. Adds(ctx[1], ServingAll!Table(ctx, a, s)[DOMAIN s], ctx[2])
  BY <1>2, <1>3, <1>4, ServingAll!FoldKeeps, InductionHolds
<1> QED
  BY <1>1, <1>2, <1>5

LEMMA AllPortsAdd ==
  ASSUME NEW a, NEW s, IsList(s), NEW S,
         \A i \in DOMAIN s : s[i].open => <<s[i].port, s[i].transport>> \in S
  PROVE  Adds(a, FoldLeft(ServePort, a, s), S)
<1> DEFINE ctx == <<a, S>>
<1>1. FoldLeft(ServePort, a, s) = PortingAll!Table(ctx, a, s)[DOMAIN s]
  BY DEF FoldLeft, MapThenFoldSet, Max, PortingAll!Table, PortingAll!Row, PortingAll!Top
<1>2. DOMAIN s = 1 .. Len(s) /\ Len(s) \in Nat /\ ctx[1] = a /\ ctx[2] = S
  BY ListHas
<1> HIDE DEF ctx
<1>3. Adds(a, a, S)
  BY AddsNothing
<1>4. ASSUME NEW k \in 0 .. Len(s) - 1, NEW b, Adds(a, b, S) PROVE Adds(a, ServePort(b, s[k + 1]), S)
  <2> DEFINE p == s[k + 1]
             service == NmapService(p)
  <2>1. k + 1 \in DOMAIN s
    BY <1>2
  <2>2. CASE p.open
    <3>1. service.port = p.port /\ service.transport = p.transport
             /\ {"port", "transport"} \subseteq DOMAIN service
      BY DEF NmapService
    <3>2. <<p.port, p.transport>> \in S
      BY <2>1, <2>2
    <3>3. ServePort(b, p) = AddService(b, service)
      BY <2>2 DEF ServePort
    <3> HIDE DEF service, p
    <3>4. Adds(b, AddService(b, service), S)
      BY <3>1, <3>2, AddServiceAdds
    <3>5. Adds(a, AddService(b, service), S)
      BY <1>4, <3>4, AddsBoth
    <3> QED
      BY <3>3, <3>5 DEF p
  <2>3. CASE ~ p.open
    BY <1>4, <2>3 DEF ServePort
  <2> QED
    BY <2>2, <2>3
<1>5. Adds(ctx[1], PortingAll!Table(ctx, a, s)[DOMAIN s], ctx[2])
  BY <1>2, <1>3, <1>4, PortingAll!FoldKeeps, InductionHolds
<1> QED
  BY <1>1, <1>2, <1>5

-----------------------------------------------------------------------------
(* The inventory, and what becomes of it. *)

LEMMA GrownSame ==
  ASSUME NEW a
  PROVE  Grown(a, a)
  BY DEF Grown

LEMMA GrownBoth ==
  ASSUME NEW a, NEW b, NEW c, Grown(a, b), Grown(b, c)
  PROVE  Grown(a, c)
  BY DEF Grown

LEMMA GrowsBoth ==
  ASSUME NEW known, NEW more, NEW most, Grows(known, more), Grows(more, most)
  PROVE  Grows(known, most)
  BY GrownBoth DEF Grows

LEMMA GrowsSame ==
  ASSUME NEW known
  PROVE  Grows(known, known)
  BY GrownSame DEF Grows

LEMMA PresentStays ==
  ASSUME NEW known, NEW more, Grows(known, more), NEW ip, ip # NoAddress, Present(known, ip)
  PROVE  Present(more, ip)
<1> SUFFICES ASSUME Owner[ip] \in OneIP PROVE Present(more, ip)
  BY DEF Present
<1>1. PICK i \in DOMAIN known : ip \in {known[i].addr.v4, known[i].addr.v6}
  BY DEF Present
<1>2. PICK j \in DOMAIN more : Grown(known[i], more[j])
  BY DEF Grows
<1> QED
  BY <1>1, <1>2 DEF Grown, Present

(* What is open stays open. *)
LEMMA HousedStays ==
  ASSUME NEW known, NEW open, NEW more, open \subseteq more, Housed(known, open)
  PROVE  Housed(known, more)
  BY DEF Housed, Lodged, SeenAt

LEMMA HousedAdded ==
  ASSUME NEW known, IsInventory(known), NEW open, Housed(known, open), NEW a,
         \A d \in DOMAIN TruthOf : IsOf(a, d) => Lodged(a, d, open)
  PROVE  Housed(Append(known, a), open) /\ Grows(known, Append(known, a))
<1> DEFINE more == Append(known, a)
<1>1. /\ DOMAIN known = 1 .. Len(known) /\ Len(known) \in Nat
      /\ DOMAIN more = 1 .. Len(known) + 1
      /\ \A i \in DOMAIN known : more[i] = known[i]
      /\ more[Len(known) + 1] = a
  BY AppendIsList, ListHas DEF IsInventory
<1> HIDE DEF more
<1>2. \A i \in DOMAIN more : i \in DOMAIN known \/ i = Len(known) + 1
  BY <1>1
<1>3. \A i \in DOMAIN known : i \in DOMAIN more /\ Grown(known[i], more[i])
  BY <1>1, GrownSame
<1>4. Housed(more, open) /\ Grows(known, more)
  BY <1>1, <1>2, <1>3 DEF Housed, Grows
<1> QED
  BY <1>4 DEF more

LEMMA HousedReplaced ==
  ASSUME NEW known, IsInventory(known), NEW open, Housed(known, open), NEW k, NEW a,
         k \in DOMAIN known => /\ Grown(known[k], a)
                               /\ \A d \in DOMAIN TruthOf : IsOf(a, d) => Lodged(a, d, open)
  PROVE  Housed([known EXCEPT ![k] = a], open) /\ Grows(known, [known EXCEPT ![k] = a])
<1> DEFINE other == [known EXCEPT ![k] = a]
<1>1. /\ DOMAIN other = DOMAIN known
      /\ \A i \in DOMAIN known : other[i] = IF i = k THEN a ELSE known[i]
  BY ChangeIsList DEF IsInventory
<1> HIDE DEF other
<1>2. \A i \in DOMAIN known : Grown(known[i], other[i])
  BY <1>1, GrownSame
<1>3. Housed(other, open)
  BY <1>1 DEF Housed
<1>4. Grows(known, other)
  BY <1>1, <1>2 DEF Grows
<1> QED
  BY <1>3, <1>4 DEF other

(* Where an asset has been found, it has the id of the address or shares    *)
(* one with it, and is the first that does.                                 *)
LEMMA FoundIs ==
  ASSUME NEW known, IsList(known), NEW addr
  PROVE  LET k == ByAddress(known, addr)
             exact == {i \in DOMAIN known : known[i].id = NewID(addr)}
             sharing == {i \in DOMAIN known : Shares(known[i], addr)}
         IN  /\ exact # {} => k \in exact /\ \A i \in exact : k <= i
             /\ exact = {} /\ sharing # {} => k \in sharing /\ \A i \in sharing : k <= i
             /\ exact = {} /\ sharing = {} => k = 0
             /\ k # 0 => k \in DOMAIN known
<1> DEFINE exact == {i \in 1 .. Len(known) : known[i].id = NewID(addr)}
           sharing == {i \in 1 .. Len(known) : Shares(known[i], addr)}
           k == ByAddress(known, addr)
<1>1. DOMAIN known = 1 .. Len(known) /\ Len(known) \in Nat
  BY ListHas
<1>2. k = IF (IF exact # {} THEN Min(exact) ELSE 0) # 0 THEN (IF exact # {} THEN Min(exact) ELSE 0)
          ELSE IF sharing # {} THEN Min(sharing) ELSE 0
  BY DEF ByAddress, SelectInSeq
<1>3. /\ exact \in SUBSET Nat /\ sharing \in SUBSET Nat /\ 0 \notin exact
      /\ exact \subseteq DOMAIN known /\ sharing \subseteq DOMAIN known
  BY <1>1
<1>4. /\ exact = {i \in DOMAIN known : known[i].id = NewID(addr)}
      /\ sharing = {i \in DOMAIN known : Shares(known[i], addr)}
  BY <1>1
<1> HIDE DEF exact, sharing, k
<1>5. /\ exact # {} => k \in exact /\ \A i \in exact : k <= i
      /\ exact = {} /\ sharing # {} => k \in sharing /\ \A i \in sharing : k <= i
      /\ exact = {} /\ sharing = {} => k = 0
  BY <1>2, <1>3, MinIsLeast
<1>6. k # 0 => k \in DOMAIN known
  BY <1>3, <1>5
<1> QED
  BY <1>4, <1>5, <1>6 DEF k

(* The asset of an address is still that of the address once it has been    *)
(* given it.                                                                *)
LEMMA ByAddressStays ==
  ASSUME NEW known, IsInventory(known), NEW addr
  PROVE  LET k == ByAddress(known, addr)
             more == Device(known, addr)
         IN  /\ ByAddress(more, addr) = IF k = 0 THEN Len(known) + 1 ELSE k
             /\ ByAddress(more, addr) \in DOMAIN more
<1> DEFINE k == ByAddress(known, addr)
           more == Device(known, addr)
           l == ByAddress(more, addr)
           exact == {i \in DOMAIN known : known[i].id = NewID(addr)}
           sharing == {i \in DOMAIN known : Shares(known[i], addr)}
           exactly == {i \in DOMAIN more : more[i].id = NewID(addr)}
           shared == {i \in DOMAIN more : Shares(more[i], addr)}
<1>1. DOMAIN known = 1 .. Len(known) /\ Len(known) \in Nat /\ IsList(known)
  BY ListHas DEF IsInventory
<1>2. /\ exact # {} => k \in exact /\ \A i \in exact : k <= i
      /\ exact = {} /\ sharing # {} => k \in sharing /\ \A i \in sharing : k <= i
      /\ exact = {} /\ sharing = {} => k = 0
      /\ k # 0 => k \in DOMAIN known
  BY <1>1, FoundIs
<1>3. /\ exactly # {} => l \in exactly /\ \A i \in exactly : l <= i
      /\ exactly = {} /\ shared # {} => l \in shared /\ \A i \in shared : l <= i
      /\ l # 0 => l \in DOMAIN more
  <2>1. IsList(more)
    BY DeviceKeeps DEF IsInventory
  <2> HIDE DEF more
  <2> QED
    BY <2>1, FoundIs
<1>4. CASE k = 0
  <2>1. more = Append(known, NewAsset(addr))
    BY <1>4 DEF Device
  <2>2. exact = {}
    BY <1>1, <1>2, <1>4
  <2>3. /\ DOMAIN more = 1 .. Len(known) + 1
        /\ \A i \in DOMAIN known : more[i] = known[i]
        /\ more[Len(known) + 1].id = NewID(addr)
    <3>1. NewAsset(addr).id = NewID(addr)
      BY NewIsAsset
    <3> DEFINE a == NewAsset(addr)
    <3> HIDE DEF a
    <3>2. more = Append(known, a) /\ a.id = NewID(addr)
      BY <2>1, <3>1 DEF a
    <3> HIDE DEF more
    <3> QED
      BY <1>1, <3>2, AppendIsList
  <2> HIDE DEF k, more
  <2>4. exactly = {Len(known) + 1}
    BY <1>1, <2>2, <2>3
  <2> HIDE DEF exactly, exact, l
  <2> QED
    BY <1>3, <1>4, <2>3, <2>4 DEF k, more, l
<1>5. CASE k # 0
  <2> DEFINE filled == FillAddresses(known[k].addr, addr)
             a == [known[k] EXCEPT !.addr = filled]
  <2>1. more = [known EXCEPT ![k] = a]
    BY <1>5 DEF Device
  <2>2. IsAsset(known[k]) /\ k \in DOMAIN known
    BY <1>2, <1>5 DEF IsInventory
  <2>3. a.id = known[k].id /\ a.addr = filled
    <3> HIDE DEF k, filled
    <3> QED
      BY <2>2 DEF IsAsset
  <2>4. filled.v4 = KeepAddress(known[k].addr.v4, addr.v4) /\ filled.mac = KeepAddress(known[k].addr.mac, addr.mac)
    BY DEF FillAddresses
  <2>5. Shares(known[k], addr) => Shares(a, addr)
    <3> HIDE DEF k, filled, a
    <3> QED
      BY <2>3, <2>4 DEF Shares, KeepAddress
  <2> HIDE DEF a, k
  <2>6. DOMAIN more = DOMAIN known /\ \A i \in DOMAIN known : more[i] = IF i = k THEN a ELSE known[i]
    BY <2>1
  <2> HIDE DEF more
  <2>7. exactly = exact
    BY <2>3, <2>6
  <2>8. \A i \in DOMAIN known : i \in sharing \/ i = k => i \in shared \/ i \notin sharing
    BY <2>5, <2>6
  <2>9. \A i \in shared : i \in sharing \/ i = k
    BY <2>6
  <2>10. exact \subseteq Nat /\ sharing \subseteq Nat /\ shared \subseteq Nat
    BY <1>1, <2>6
  <2> HIDE DEF exact, sharing, exactly, shared, l
  <2>11. l = k
    <3>1. CASE exact # {}
      <4>1. k \in exact /\ \A i \in exact : k <= i
        BY <1>2, <3>1
      <4>2. l \in exact /\ \A i \in exact : l <= i
        BY <1>3, <2>7, <3>1
      <4>3. k <= l /\ l <= k /\ k \in Nat /\ l \in Nat
        BY <2>10, <4>1, <4>2
      <4> QED
        BY <4>3
    <3>2. CASE exact = {}
      <4>1. k \in sharing /\ \A i \in sharing : k <= i
        BY <1>2, <1>5, <3>2
      <4>2. k \in shared
        BY <2>2, <2>8, <4>1
      <4>3. l \in shared /\ \A i \in shared : l <= i
        BY <1>3, <2>7, <3>2, <4>2
      <4>4. k <= l
        BY <2>9, <2>10, <4>1, <4>3
      <4>5. l <= k /\ l \in Nat /\ k \in Nat
        BY <2>10, <4>1, <4>2, <4>3
      <4> QED
        BY <4>4, <4>5
    <3> QED
      BY <3>1, <3>2
  <2> QED
    BY <1>5, <2>2, <2>6, <2>11 DEF l, more, k
<1> QED
  BY <1>4, <1>5

(* An asset of the device that is given addresses of its. *)
LEMMA FilledLodged ==
  ASSUME NEW a, NEW d, NEW open, Lodged(a, d, open), NEW addr, Home(addr, d)
  PROVE  LET b == [a EXCEPT !.addr = FillAddresses(@, addr)]
         IN  /\ Lodged(b, d, open) /\ Grown(a, b)
             /\ Shows(addr, d) \/ Shows(a.addr, d) => Shows(b.addr, d)
<1> DEFINE filled == FillAddresses(a.addr, addr)
           b == [a EXCEPT !.addr = filled]
<1>1. IsAsset(a)
  BY DEF Lodged, IsServer
<1>2. /\ filled.v4 = KeepAddress(a.addr.v4, addr.v4)
      /\ filled.v6 = KeepAddress(a.addr.v6, addr.v6)
      /\ filled.mac = KeepAddress(a.addr.mac, addr.mac)
  BY DEF FillAddresses
<1> HIDE DEF filled
<1>3. b.addr = filled /\ b.id = a.id /\ b.services = a.services /\ IsAsset(b)
  BY <1>1 DEF IsAsset
<1> HIDE DEF b
<1>4. Home(b.addr, d) /\ (Shows(addr, d) \/ Shows(a.addr, d) => Shows(b.addr, d))
  BY <1>2, <1>3 DEF Lodged, Home, Shows, KeepAddress
<1>5. Grown(a, b)
  BY <1>2, <1>3 DEF Grown, KeepAddress
<1>6. Lodged(b, d, open)
  BY <1>3, <1>4 DEF Lodged, IsServer
<1> QED
  BY <1>4, <1>5, <1>6 DEF b, filled

(* Of two devices an asset is of one. *)
LEMMA OneDevice ==
  ASSUME NEW a, NEW d, IsOf(a, d), NEW e, IsOf(a, e)
  PROVE  d = e
  BY IdIsOf

LEMMA NewLodged ==
  ASSUME NEW addr, NEW d, Home(addr, d), NEW open
  PROVE  Lodged(NewAsset(addr), d, open)
<1>1. /\ NewAsset(addr).addr = addr /\ NewAsset(addr).services = <<>> /\ IsAsset(NewAsset(addr))
  BY NewIsAsset DEF NewAsset
<1> QED
  BY <1>1, NoneIsList DEF Lodged, IsServer

LEMMA DeviceHoused ==
  ASSUME NEW known, IsInventory(known), Owned(known), NEW open, Housed(known, open),
         NEW addr, NEW d \in DOMAIN TruthOf, Names(addr, d), Home(addr, d)
  PROVE  LET more == Device(known, addr)
             k == ByAddress(more, addr)
         IN  /\ Housed(more, open) /\ Grows(known, more)
             /\ k \in DOMAIN more /\ IsOf(more[k], d) /\ Lodged(more[k], d, open)
             /\ Shows(addr, d) => Shows(more[k].addr, d)
<1> DEFINE more == Device(known, addr)
           k == ByAddress(known, addr)
           l == ByAddress(more, addr)
<1>1. /\ l = IF k = 0 THEN Len(known) + 1 ELSE k
      /\ l \in DOMAIN more
  BY ByAddressStays
<1>2. IsOf(more[l], d)
  BY <1>1, DeviceOwned
<1>3. DOMAIN known = 1 .. Len(known) /\ Len(known) \in Nat /\ IsList(known)
  BY ListHas DEF IsInventory
<1>4. CASE k = 0
  <2> DEFINE a == NewAsset(addr)
  <2>1. more = Append(known, a)
    BY <1>4 DEF Device
  <2>2. Lodged(a, d, open) /\ IsOf(a, d) /\ a.addr = addr
    BY NewLodged, NewIsOf DEF NewAsset
  <2> HIDE DEF a, more, l
  <2>3. Housed(more, open) /\ Grows(known, more)
    BY <2>1, <2>2, HousedAdded, OneDevice
  <2>4. more[l] = a
    BY <1>1, <1>3, <1>4, <2>1, AppendIsList
  <2> QED
    BY <1>1, <1>2, <2>2, <2>3, <2>4 DEF more, l
<1>5. CASE k # 0
  <2> DEFINE x == known[k]
             a == [x EXCEPT !.addr = FillAddresses(@, addr)]
  <2>1. more = [known EXCEPT ![k] = a]
    BY <1>5 DEF Device
  <2>2. k \in DOMAIN known
    BY <1>3, <1>5, FoundIs
  <2>3. more[l] = a
    BY <1>1, <1>5, <2>1, <2>2
  <2>4. IsOf(x, d)
    <3>1. x.id = NewID(addr) \/ Shares(x, addr)
      BY <1>3, <2>2, FoundShares
    <3>2. PICK e \in DOMAIN TruthOf : IsOf(x, e)
      BY <2>2 DEF Owned
    <3> HIDE DEF x
    <3> QED
      BY <3>1, <3>2, FoundIsOf
  <2>5. Lodged(x, d, open)
    BY <2>2, <2>4 DEF Housed
  <2>6. /\ Lodged(a, d, open) /\ Grown(x, a)
        /\ Shows(addr, d) => Shows(a.addr, d)
    <3> HIDE DEF x
    <3> QED
      BY <2>5, FilledLodged
  <2>7. IsOf(a, d)
    BY <1>2, <2>3
  <2>8. Grown(known[k], a)
    BY <2>6
  <2> HIDE DEF a, more, l, k, x
  <2>9. Housed(more, open) /\ Grows(known, more)
    <3>1. \A e \in DOMAIN TruthOf : IsOf(a, e) => Lodged(a, e, open)
      BY <2>6, <2>7, OneDevice
    <3> QED
      BY <2>1, <2>8, <3>1, HousedReplaced
  <2> QED
    BY <1>1, <1>2, <2>3, <2>6, <2>9 DEF more, l
<1> QED
  BY <1>4, <1>5

(* An asset with more services that are open at the IP that it shows. *)
LEMMA AddsLodged ==
  ASSUME NEW a, NEW d, NEW open, Lodged(a, d, open), NEW b, NEW S, Adds(a, b, S),
         S # {} => Shows(a.addr, d),
         \A s \in S : s = <<s[1], s[2]>> /\ SeenAt(d, s[1], s[2], open)
  PROVE  Lodged(b, d, open) /\ Grown(a, b) /\ (Shows(a.addr, d) => Shows(b.addr, d))
<1>1. /\ IsServer(b) /\ b.id = a.id
      /\ b.addr.v4 = a.addr.v4 /\ b.addr.v6 = a.addr.v6 /\ b.addr.mac = a.addr.mac
      /\ Served(b.services, a.services, S)
  BY DEF Adds, Lodged
<1>2. Grown(a, b)
  BY <1>1 DEF Grown
<1>3. Home(b.addr, d) /\ (Shows(a.addr, d) <=> Shows(b.addr, d))
  BY <1>1 DEF Lodged, Home, Shows
<1>4. ASSUME NEW j \in DOMAIN b.services
      PROVE  /\ SeenAt(d, b.services[j].port, b.services[j].transport, open)
             /\ Shows(b.addr, d)
  <2>1. CASE \E i \in DOMAIN a.services : /\ a.services[i].port = b.services[j].port
                                          /\ a.services[i].transport = b.services[j].transport
    <3>1. a.services # <<>>
      BY <2>1, NoneIsList
    <3> QED
      BY <1>3, <2>1, <3>1 DEF Lodged
  <2>2. CASE <<b.services[j].port, b.services[j].transport>> \in S
    <3> DEFINE s == <<b.services[j].port, b.services[j].transport>>
    <3>1. s[1] = b.services[j].port /\ s[2] = b.services[j].transport /\ s \in S
      BY <2>2
    <3> HIDE DEF s
    <3> QED
      BY <1>3, <3>1
  <2> QED
    BY <1>1, <2>1, <2>2 DEF Served
<1>5. b.services # <<>> => \E j \in DOMAIN b.services : TRUE
  <2>1. IsList(b.services)
    BY <1>1 DEF IsServer, IsAsset
  <2> SUFFICES ASSUME b.services # <<>> PROVE 1 \in DOMAIN b.services
    OBVIOUS
  <2> QED
    BY <2>1, TailIsList
<1>6. Lodged(b, d, open)
  BY <1>1, <1>3, <1>4, <1>5 DEF Lodged
<1> QED
  BY <1>2, <1>3, <1>6

(* That asset is changed, and serves what is open at the IP of the address. *)
LEMMA UpdateHoused ==
  ASSUME NEW known, IsInventory(known), Owned(known), NEW open, Housed(known, open),
         NEW addr, NEW d \in DOMAIN TruthOf, Names(addr, d), Home(addr, d), NEW b, NEW S,
         Adds(Device(known, addr)[ByAddress(Device(known, addr), addr)], b, S),
         S # {} => Shows(addr, d),
         \A s \in S : s = <<s[1], s[2]>> /\ SeenAt(d, s[1], s[2], open)
  PROVE  LET more == [Device(known, addr) EXCEPT ![ByAddress(Device(known, addr), addr)] = b]
         IN  Housed(more, open) /\ Grows(known, more)
<1> DEFINE found == Device(known, addr)
           k == ByAddress(found, addr)
           a == found[k]
           more == [found EXCEPT ![k] = b]
<1>1. /\ IsInventory(found) /\ Housed(found, open) /\ Grows(known, found)
      /\ k \in DOMAIN found /\ IsOf(a, d) /\ Lodged(a, d, open)
      /\ Shows(addr, d) => Shows(a.addr, d)
  BY DeviceKeeps, DeviceHoused
<1>2. Adds(a, b, S)
  OBVIOUS
<1> HIDE DEF found, k
<1>3. Lodged(b, d, open) /\ Grown(a, b)
  <2> HIDE DEF a
  <2> QED
    BY <1>1, <1>2, AddsLodged
<1>4. \A e \in DOMAIN TruthOf : IsOf(b, e) => e = d
  BY <1>1, <1>3, IdIsOf DEF Grown
<1>5. Housed(more, open) /\ Grows(found, more)
  <2>1. \A e \in DOMAIN TruthOf : IsOf(b, e) => Lodged(b, e, open)
    BY <1>3, <1>4
  <2> QED
    BY <1>1, <1>3, <2>1, HousedReplaced
<1> HIDE DEF more
<1>6. Grows(known, more)
  BY <1>1, <1>5, GrowsBoth
<1> QED
  BY <1>5, <1>6 DEF more, found, k

-----------------------------------------------------------------------------
(* The addresses a capture, a scan or a log gives. *)

(* An IP address is the one of its device, if that has one. *)
IsHome(ip) == ip # NoAddress /\ IsOwn(ip)

IsIP(address) == Usable(address) => IsOwn(address)

IsMac(address) == Usable(address) => IsNoIP(address)

(* Hardware addresses are bound to such, and are none themselves. *)
BindsHome(bound) ==
  /\ \A pair \in bound.macToIP : IsHome(pair[2])
  /\ \A ip \in DOMAIN bound.ipToMAC : IsNoIP(bound.ipToMAC[ip])

LEMMA IPIsHome ==
  ASSUME NEW ip, Usable(ip), IsIP(ip)
  PROVE  IsHome(ip)
  BY DEF Usable, IsIP, IsHome

LEMMA AddressHome ==
  ASSUME NEW ip, IsHome(ip)
  PROVE  Home(AddressesFor(ip), Owner[ip]) /\ Shows(AddressesFor(ip), Owner[ip])
<1>1. /\ AddressesFor(ip).mac = NoAddress
      /\ \/ AddressesFor(ip).v4 = ip /\ AddressesFor(ip).v6 = NoAddress
         \/ AddressesFor(ip).v4 = NoAddress /\ AddressesFor(ip).v6 = ip
  BY DEF AddressesFor, Hardware, NoAddress
<1> QED
  BY <1>1 DEF Home, Shows, IsHome, IsOwn

LEMMA BoundHome ==
  ASSUME NEW bound, IsBound(bound), BindsHome(bound), NEW ip, IsHome(ip)
  PROVE  Home(BoundAddresses(bound, ip), Owner[ip]) /\ Shows(BoundAddresses(bound, ip), Owner[ip])
<1> DEFINE mac == MacFor(bound, ip)
           addr == BoundAddresses(bound, ip)
<1>1. mac = NoAddress \/ (Owner[ip] \in OneIP => mac # IPOf[Owner[ip]])
  BY DEF MacFor, IsBound, BindsHome, IsNoIP
<1> HIDE DEF mac
<1>2. /\ addr.mac = mac
      /\ (addr.v4 = ip /\ addr.v6 = NoAddress) \/ (addr.v4 = NoAddress /\ addr.v6 = ip)
  BY DEF BoundAddresses, AddressesFor, Hardware, mac
<1> HIDE DEF addr
<1>3. Home(addr, Owner[ip]) /\ Shows(addr, Owner[ip])
  BY <1>1, <1>2 DEF Home, Shows, IsHome, IsOwn
<1> QED
  BY <1>3 DEF addr

LEMMA IPForIsHome ==
  ASSUME NEW bound, BindsHome(bound), NEW mac
  PROVE  IPFor(bound, mac) = NoAddress \/ IsHome(IPFor(bound, mac))
<1> DEFINE ips == IPsOf(bound.macToIP, mac)
<1>1. IPFor(bound, mac) = NoAddress \/ IPFor(bound, mac) \in ips
  BY DEF IPFor
<1>2. \A ip \in ips : IsHome(ip)
  BY DEF IPsOf, BindsHome
<1> QED
  BY <1>1, <1>2

-----------------------------------------------------------------------------
(* What becomes of the inventory, where what is served is open. *)

Settled(known, more, open) == Housed(more, open) /\ Grows(known, more)

Sits(known, open) == IsInventory(known) /\ Owned(known) /\ Housed(known, open)

LEMMA SettledBoth ==
  ASSUME NEW known, NEW more, NEW most, NEW open, Settled(known, more, open), Settled(more, most, open)
  PROVE  Settled(known, most, open)
  BY GrowsBoth DEF Settled

LEMMA SettledSame ==
  ASSUME NEW known, NEW open, Housed(known, open)
  PROVE  Settled(known, known, open)
  BY GrowsSame DEF Settled

(* The asset of an address of the device. *)
LEMMA DeviceSettled ==
  ASSUME NEW known, NEW open, Sits(known, open), NEW addr,
         NEW ip, Known(ip), Names(addr, Owner[ip]), Home(addr, Owner[ip]), IsHome(ip), Shows(addr, Owner[ip])
  PROVE  LET more == Device(known, addr)
         IN  Sits(more, open) /\ Settled(known, more, open) /\ Present(more, ip)
<1> DEFINE more == Device(known, addr)
           k == ByAddress(more, addr)
<1>1. IsInventory(more) /\ Owned(more)
  BY DeviceKeeps, DeviceOwned DEF Sits, Known
<1>2. /\ Housed(more, open) /\ Grows(known, more)
      /\ k \in DOMAIN more /\ Shows(more[k].addr, Owner[ip])
  BY DeviceHoused DEF Sits, Known
<1> HIDE DEF more, k
<1>3. Present(more, ip)
  BY <1>2 DEF Present, Shows, IsHome, IsOwn
<1>4. Sits(more, open) /\ Settled(known, more, open)
  BY <1>1, <1>2 DEF Sits, Settled
<1> QED
  BY <1>3, <1>4 DEF more

(* A service more at the IP of the address. *)
LEMMA ServiceSettled ==
  ASSUME NEW known, NEW open, Sits(known, open), NEW addr,
         NEW ip, Known(ip), Names(addr, Owner[ip]), Home(addr, Owner[ip]), IsHome(ip), Shows(addr, Owner[ip]),
         NEW service, {"port", "transport"} \subseteq DOMAIN service,
         <<ip, service.port, service.transport>> \in open
  PROVE  Settled(known, [Device(known, addr) EXCEPT
                           ![ByAddress(Device(known, addr), addr)] = AddService(@, service)], open)
<1> DEFINE found == Device(known, addr)
           a == found[ByAddress(found, addr)]
           b == AddService(a, service)
           s == <<service.port, service.transport>>
           S == {s}
<1>1. Adds(a, b, S)
  <2> HIDE DEF a
  <2> QED
    BY AddServiceAdds
<1>2. s[1] = service.port /\ s[2] = service.transport /\ s = <<s[1], s[2]>>
  OBVIOUS
<1>3. Owner[ip] \in OneIP => ip = IPOf[Owner[ip]]
  BY DEF IsHome, IsOwn
<1>4. SeenAt(Owner[ip], s[1], s[2], open)
  BY <1>2, <1>3 DEF SeenAt
<1> HIDE DEF b, s
<1>5. \A t \in S : t = <<t[1], t[2]>> /\ SeenAt(Owner[ip], t[1], t[2], open)
  BY <1>2, <1>4
<1> HIDE DEF S
<1>6. LET more == [Device(known, addr) EXCEPT ![ByAddress(Device(known, addr), addr)] = b]
      IN  Housed(more, open) /\ Grows(known, more)
  BY <1>1, <1>5, UpdateHoused DEF Sits, Known
<1> QED
  BY <1>6 DEF Settled, b

(* A change that adds no service. *)
LEMMA ChangeSettled ==
  ASSUME NEW known, NEW open, Sits(known, open), NEW addr,
         NEW d \in DOMAIN TruthOf, Names(addr, d), Home(addr, d), NEW b,
         Adds(Device(known, addr)[ByAddress(Device(known, addr), addr)], b, {})
  PROVE  Settled(known, [Device(known, addr) EXCEPT ![ByAddress(Device(known, addr), addr)] = b], open)
<1>1. LET more == [Device(known, addr) EXCEPT ![ByAddress(Device(known, addr), addr)] = b]
      IN  Housed(more, open) /\ Grows(known, more)
  BY UpdateHoused DEF Sits
<1> QED
  BY <1>1 DEF Settled

LEMMA SeenSettled ==
  ASSUME NEW known, NEW open, Sits(known, open), NEW ip, Known(ip), IsHome(ip)
  PROVE  Sits(Seen(known, ip), open) /\ Settled(known, Seen(known, ip), open) /\ Present(Seen(known, ip), ip)
<1>1. Names(AddressesFor(ip), Owner[ip])
  BY AddressNames DEF IsHome
<1> QED
  BY <1>1, AddressHome, DeviceSettled DEF Seen

LEMMA ServeSettled ==
  ASSUME NEW known, NEW open, Sits(known, open), NEW ip, Known(ip), IsHome(ip),
         NEW service, {"port", "transport"} \subseteq DOMAIN service,
         <<ip, service.port, service.transport>> \in open
  PROVE  Settled(known, Serve(known, ip, service), open)
<1> DEFINE addr == AddressesFor(ip)
<1>1. Names(addr, Owner[ip]) /\ Home(addr, Owner[ip]) /\ Shows(addr, Owner[ip])
  BY AddressNames, AddressHome DEF IsHome
<1>2. Serve(known, ip, service) =
        [Device(known, addr) EXCEPT ![ByAddress(Device(known, addr), addr)] = AddService(@, service)]
  BY DEF Serve, Update
<1> HIDE DEF addr
<1>3. Settled(known, [Device(known, addr) EXCEPT
                        ![ByAddress(Device(known, addr), addr)] = AddService(@, service)], open)
  BY <1>1, ServiceSettled
<1> QED
  BY <1>2, <1>3

LEMMA NamedSettled ==
  ASSUME NEW known, NEW open, Sits(known, open), NEW ip, Usable(ip) => Known(ip) /\ IsHome(ip), NEW name
  PROVE  Settled(known, Named(known, ip, name), open)
<1> DEFINE addr == AddressesFor(ip)
           found == Device(known, addr)
           a == found[ByAddress(found, addr)]
           b == [a EXCEPT !.addr.name = KeepName(@, name)]
           more == [found EXCEPT ![ByAddress(found, addr)] = b]
<1>1. Named(known, ip, name) = IF Usable(ip) THEN more ELSE known
  BY DEF Named, Update
<1>2. ASSUME Usable(ip) PROVE Settled(known, more, open)
  <2>1. Names(addr, Owner[ip]) /\ Home(addr, Owner[ip]) /\ Owner[ip] \in DOMAIN TruthOf
    BY <1>2, AddressNames, AddressHome DEF IsHome, Known
  <2>2. Adds(a, b, {}) \/ ~ IsAddr(a.addr)
    <3> HIDE DEF a
    <3> SUFFICES ASSUME IsAddr(a.addr), IsAsset(a)
                 PROVE  /\ IsAsset(b) /\ b.id = a.id /\ b.services = a.services
                        /\ b.addr.v4 = a.addr.v4 /\ b.addr.v6 = a.addr.v6 /\ b.addr.mac = a.addr.mac
      BY AddsNothing
    <3> DEFINE given == [a.addr EXCEPT !.name = KeepName(@, name)]
    <3>1. b = [a EXCEPT !.addr = given]
      BY DEF IsAsset
    <3>2. given.v4 = a.addr.v4 /\ given.v6 = a.addr.v6 /\ given.mac = a.addr.mac
      BY DEF IsAddr
    <3> HIDE DEF given, b
    <3> QED
      BY <3>1, <3>2 DEF IsAsset
  <2>3. IsAddr(a.addr)
    <3>1. ByAddress(found, addr) \in DOMAIN found
      BY ByAddressStays DEF Sits
    <3>2. IsOf(a, Owner[ip])
      BY <2>1, <3>1, DeviceOwned DEF Sits
    <3> QED
      BY <3>2 DEF IsOf
  <2> HIDE DEF addr, b
  <2> QED
    BY <2>1, <2>2, <2>3, ChangeSettled
<1> HIDE DEF more
<1>3. Settled(known, known, open)
  BY SettledSame DEF Sits
<1> QED
  BY <1>1, <1>2, <1>3

NamingSettled == INSTANCE Folding_proofs WITH
  Op <- LAMBDA ctx, known, ip : Named(known, ip, ctx[1]),
  Good <- LAMBDA ctx, k, known : Sits(known, ctx[3]) /\ Settled(ctx[2], known, ctx[3])

LEMMA AllNamedSettled ==
  ASSUME NEW known, NEW open, Sits(known, open), NEW s, IsList(s), NEW name,
         \A i \in DOMAIN s : Usable(s[i]) => Known(s[i]) /\ IsHome(s[i])
  PROVE  Settled(known, AllNamed(known, s, name), open)
<1> DEFINE ctx == <<name, known, open>>
<1>0. ctx[1] = name /\ ctx[2] = known /\ ctx[3] = open
  OBVIOUS
<1> HIDE DEF ctx
<1>1. AllNamed(known, s, name) = NamingSettled!Table(ctx, known, s)[DOMAIN s]
  BY <1>0 DEF AllNamed, FoldLeft, MapThenFoldSet, Max, NamingSettled!Table, NamingSettled!Row, NamingSettled!Top
<1>2. DOMAIN s = 1 .. Len(s) /\ Len(s) \in Nat
  BY ListHas
<1>3. Settled(known, known, open)
  BY SettledSame DEF Sits
<1>4. ASSUME NEW k \in 0 .. Len(s) - 1, NEW acc, Sits(acc, open), Settled(known, acc, open)
      PROVE  LET more == Named(acc, s[k + 1], name) IN Sits(more, open) /\ Settled(known, more, open)
  <2>1. k + 1 \in DOMAIN s
    BY <1>2
  <2>2. Settled(acc, Named(acc, s[k + 1], name), open)
    BY <1>4, <2>1, NamedSettled
  <2>3. IsInventory(Named(acc, s[k + 1], name)) /\ Owned(Named(acc, s[k + 1], name))
    BY <1>4, <2>1, NamedKeeps, NamedOwned DEF Sits
  <2> QED
    BY <1>4, <2>2, <2>3, SettledBoth DEF Sits, Settled
<1>5. Settled(known, NamingSettled!Table(ctx, known, s)[DOMAIN s], open)
  BY <1>0, <1>2, <1>3, <1>4, NamingSettled!FoldKeeps, InductionHolds
<1> QED
  BY <1>1, <1>5

-----------------------------------------------------------------------------
(* Frames. *)

IsPlacedFrame(frame) ==
  /\ IsMac(frame.mac)
  /\ frame.kind = "arp" => IsIP(frame.ip)
  /\ frame.kind = "ip" => IsIP(frame.src) /\ IsIP(frame.dst)
  /\ frame.kind = "other" => IsIP(frame.src)

(* What has been heard was heard at the IP addresses of devices, and is     *)
(* open.                                                                    *)
IsPlacedPass(p, open) ==
  /\ \A key \in DOMAIN p.flows : IsHome(key[1]) /\ IsHome(key[2])
  /\ \A s \in p.open : s = <<s[1], s[2], s[3]>> /\ IsHome(s[1]) /\ s \in open

(* Its sender listens. *)
Speaks(frame) == frame.flag = "synack" \/ frame.payload # <<>> \/ frame.transport = "udp"

LEMMA AddFlowPlaced ==
  ASSUME NEW p, IsPass(p), NEW open, IsPlacedPass(p, open), NEW frame, IsPlacedFrame(frame), frame.kind = "ip"
  PROVE  IsPlacedPass(AddFlow(p, frame), open)
<1> DEFINE key == <<Client(frame)>> \o Server(frame)
           more == AddFlow(p, frame).flows
<1>1. AddFlow(p, frame) = [p EXCEPT !.flows = more]
  BY DEF AddFlow, IsPass
<1>2. /\ DOMAIN more \subseteq DOMAIN p.flows \cup {key}
      /\ ~ Usable(Client(frame)) \/ ~ Usable(Server(frame)[1]) => more = p.flows
  <2>1. DOMAIN With(p.flows, key, 1) = DOMAIN p.flows \cup {key}
    BY DEF With
  <2>2. DOMAIN [p.flows EXCEPT ![key] = @ + 1] = DOMAIN p.flows
    OBVIOUS
  <2>3. p = [flows |-> p.flows, buffers |-> p.buffers, identified |-> p.identified,
             open |-> p.open, services |-> p.services]
    BY DEF IsPass
  <2>4. /\ more \in {p.flows, [p.flows EXCEPT ![key] = @ + 1], With(p.flows, key, 1)}
        /\ ~ Usable(Client(frame)) \/ ~ Usable(Server(frame)[1]) => more = p.flows
    <3> HIDE DEF key
    <3> QED
      BY <2>3 DEF AddFlow, key
  <2> HIDE DEF key, more
  <2> QED
    BY <2>1, <2>2, <2>4
<1>3. Usable(Client(frame)) /\ Usable(Server(frame)[1]) => IsHome(key[1]) /\ IsHome(key[2])
  <2> SUFFICES ASSUME Usable(Client(frame)), Usable(Server(frame)[1]) PROVE IsHome(key[1]) /\ IsHome(key[2])
    OBVIOUS
  <2>1. \A ip \in {frame.src, frame.dst} : Usable(ip) => IsHome(ip)
    BY IPIsHome DEF IsPlacedFrame
  <2>2. CASE ServerIsDst(frame)
    <3>1. key = <<frame.src, frame.dst, frame.dport, frame.transport>>
      BY <2>2, FourAreJoined DEF Client, Server
    <3>2. Usable(frame.src) /\ Usable(frame.dst)
      BY <2>2 DEF Client, Server
    <3> HIDE DEF key
    <3> QED
      BY <2>1, <3>1, <3>2
  <2>3. CASE ~ ServerIsDst(frame)
    <3>1. key = <<frame.dst, frame.src, frame.sport, frame.transport>>
      BY <2>3, FourAreJoined DEF Client, Server
    <3>2. Usable(frame.src) /\ Usable(frame.dst)
      BY <2>3 DEF Client, Server
    <3> HIDE DEF key
    <3> QED
      BY <2>1, <3>1, <3>2
  <2> QED
    BY <2>2, <2>3
<1> HIDE DEF key, more
<1>4. AddFlow(p, frame).flows = more /\ AddFlow(p, frame).open = p.open
  BY <1>1 DEF IsPass
<1>5. \A k \in DOMAIN more : IsHome(k[1]) /\ IsHome(k[2])
  BY <1>2, <1>3 DEF IsPlacedPass
<1> QED
  BY <1>4, <1>5 DEF IsPlacedPass

LEMMA MarkOpenPlaced ==
  ASSUME NEW p, IsPass(p), NEW open, IsPlacedPass(p, open), NEW frame, IsPlacedFrame(frame), frame.kind = "ip",
         Speaks(frame) => Sender(frame) \in open
  PROVE  IsPlacedPass(MarkOpen(p, frame), open)
<1>1. Usable(frame.src) => IsHome(frame.src)
  BY IPIsHome DEF IsPlacedFrame
<1>2. Sender(frame) = <<Sender(frame)[1], Sender(frame)[2], Sender(frame)[3]>> /\ Sender(frame)[1] = frame.src
  BY DEF Sender
<1>3. Answers(frame) => Server(frame) = Sender(frame) /\ Speaks(frame)
  BY DEF Answers, Server, Sender, Speaks, ServerIsDst
<1> DEFINE opened == MarkOpen(p, frame).open
<1>4. MarkOpen(p, frame) = [p EXCEPT !.open = opened]
  BY DEF MarkOpen, IsPass
<1>5. opened = p.open
        \cup (IF Usable(Server(frame)[1]) /\ Answers(frame) THEN {Server(frame)} ELSE {})
        \cup (IF frame.payload # <<>> /\ Symmetric(frame) /\ Usable(frame.src) THEN {Sender(frame)} ELSE {})
  BY DEF MarkOpen, IsPass
<1> HIDE DEF opened
<1>6. \A s \in opened : s \in p.open \/ (s = Sender(frame) /\ Speaks(frame) /\ Usable(frame.src))
  BY <1>2, <1>3, <1>5 DEF Speaks
<1>7. \A s \in opened : s = <<s[1], s[2], s[3]>> /\ IsHome(s[1]) /\ s \in open
  BY <1>1, <1>2, <1>6 DEF IsPlacedPass
<1>8. MarkOpen(p, frame).flows = p.flows /\ MarkOpen(p, frame).open = opened
  BY <1>4 DEF IsPass
<1> QED
  BY <1>7, <1>8 DEF IsPlacedPass

(* What is done leaves what is heard and the inventory where they belong.   *)
Places(s, bound, open, r) ==
  /\ IsPlacedPass(s.pass, open) => IsPlacedPass(r.pass, open)
  /\ IsBound(bound) /\ BindsHome(bound) /\ Sits(s.assets, open) => Settled(s.assets, r.assets, open)

LEMMA PlacesSame ==
  ASSUME NEW s, NEW bound, NEW open
  PROVE  Places(s, bound, open, s)
  BY SettledSame DEF Places, Sits

LEMMA PlacesBoth ==
  ASSUME NEW s, NEW bound, NEW open, NEW r, IsState(r), Follows(s, bound, r), Places(s, bound, open, r),
         NEW t, Places(r, bound, open, t)
  PROVE  Places(s, bound, open, t)
<1>1. ASSUME IsBound(bound), BindsHome(bound), Sits(s.assets, open) PROVE Settled(s.assets, t.assets, open)
  <2>1. Settled(s.assets, r.assets, open)
    BY <1>1 DEF Places
  <2>2. Sits(r.assets, open)
    BY <1>1, <2>1 DEF Sits, Follows, IsState, Settled
  <2>3. Settled(r.assets, t.assets, open)
    BY <1>1, <2>2 DEF Places
  <2> QED
    BY <2>1, <2>3, SettledBoth
<1> QED
  BY <1>1 DEF Places

LEMMA RecordObservationPlaces ==
  ASSUME NEW s, IsState(s), NEW bound, NEW open, NEW service, IsAt(service), IsHome(service[1]),
         service = <<service[1], service[2], service[3]>>, service \in open, NEW decoded
  PROVE  Places(s, bound, open, RecordObservation(s, bound, service, decoded))
<1> DEFINE r == RecordObservation(s, bound, service, decoded)
           addr == BoundAddresses(bound, service[1])
           d == Device(s.assets, addr)
           a == d[ByAddress(d, addr)]
           identified == Identify(a, decoded.identity)
           roled == SetRole(identified, decoded.role)
           b == AddEvidence(roled, Evidence("pcap", decoded.protocol, service, decoded.fields))
           device == Owner[service[1]]
<1>1. ASSUME IsBound(bound), BindsHome(bound), Sits(s.assets, open) PROVE Settled(s.assets, r.assets, open)
  <2>1. Adds(a, b, {})
    <3>1. Adds(a, identified, {})
      <4> HIDE DEF a
      <4> QED
        BY IdentifyAdds
    <3>2. Adds(identified, roled, {})
      <4> HIDE DEF identified
      <4> QED
        BY SetRoleAdds
    <3>3. Adds(roled, b, {})
      <4> HIDE DEF roled
      <4> QED
        BY AddEvidenceAdds
    <3> HIDE DEF a, identified, roled, b
    <3> QED
      BY <3>1, <3>2, <3>3, AddsBoth
  <2>2. r.assets = [d EXCEPT ![ByAddress(d, addr)] = b]
    BY DEF RecordObservation, Update
  <2>3. device \in DOMAIN TruthOf /\ Names(addr, device) /\ Home(addr, device)
    BY <1>1, BoundNames, BoundHome DEF IsAt, Usable, Known
  <2> HIDE DEF b, r, addr, device
  <2>4. Settled(s.assets, [d EXCEPT ![ByAddress(d, addr)] = b], open)
    BY <1>1, <2>1, <2>3, ChangeSettled
  <2> QED
    BY <2>2, <2>4
<1>2. ASSUME IsPlacedPass(s.pass, open) PROVE IsPlacedPass(r.pass, open)
  <2> DEFINE p == s.pass
             opened == p.open \cup {service}
  <2>1. r.pass.flows = p.flows /\ r.pass.open = opened
    <3>1. p = [flows |-> p.flows, buffers |-> p.buffers, identified |-> p.identified,
               open |-> p.open, services |-> p.services]
      BY DEF IsState, IsPass
    <3> QED
      BY <3>1 DEF RecordObservation
  <2> HIDE DEF r
  <2> QED
    BY <1>2, <2>1 DEF IsPlacedPass
<1> HIDE DEF r
<1>3. Places(s, bound, open, r)
  BY <1>1, <1>2 DEF Places
<1> QED
  BY <1>3 DEF r

(* What is held of the services alone is changed. *)
LEMMA BuffersPlace ==
  ASSUME NEW s, IsState(s), NEW bound, NEW open, NEW held
  PROVE  Places(s, bound, open, [s EXCEPT !.pass.buffers = held])
<1> DEFINE r == [s EXCEPT !.pass.buffers = held]
<1>1. r.assets = s.assets
  BY DEF IsState
<1>2. r.pass = [s.pass EXCEPT !.buffers = held]
  BY DEF IsState
<1> HIDE DEF r
<1>3. r.pass.flows = s.pass.flows /\ r.pass.open = s.pass.open
  BY <1>2 DEF IsState, IsPass
<1>4. Places(s, bound, open, r)
  BY <1>1, <1>3, SettledSame DEF Places, IsPlacedPass, Sits
<1> QED
  BY <1>4 DEF r

LEMMA TryDecodePlaces ==
  ASSUME NEW s, IsState(s), NEW bound, NEW open, NEW service, IsAt(service), IsHome(service[1]),
         service = <<service[1], service[2], service[3]>>, service \in open, NEW payload
  PROVE  Places(s, bound, open, TryDecode(s, bound, service, payload))
<1> DEFINE all == At(s.pass.buffers, service, <<>>) \o payload
           bytes == SubSeq(all, 1, Min({Len(all), MaxDecodeAttempt}))
           more == With(s.pass.buffers, service, bytes)
           less == Without(s.pass.buffers, service)
           r == TryDecode(s, bound, service, payload)
<1>1. \/ \E decoded : r = RecordObservation(s, bound, service, decoded)
      \/ r = s
      \/ r = [s EXCEPT !.pass.buffers = more]
      \/ r = [s EXCEPT !.pass.buffers = less]
  BY DEF TryDecode
<1> HIDE DEF more, less, r
<1>2. Places(s, bound, open, [s EXCEPT !.pass.buffers = more])
  BY BuffersPlace
<1>3. Places(s, bound, open, [s EXCEPT !.pass.buffers = less])
  BY BuffersPlace
<1>4. ASSUME NEW decoded PROVE Places(s, bound, open, RecordObservation(s, bound, service, decoded))
  BY RecordObservationPlaces
<1>5. Places(s, bound, open, s)
  BY PlacesSame
<1>6. Places(s, bound, open, r)
  BY <1>1, <1>2, <1>3, <1>4, <1>5
<1> QED
  BY <1>6 DEF r

LEMMA TryHTTPBannerPlaces ==
  ASSUME NEW s, IsState(s), NEW bound, NEW open, NEW service, IsHome(service[1]),
         service = <<service[1], service[2], service[3]>>, service \in open, NEW server
  PROVE  Places(s, bound, open, TryHTTPBanner(s, service, server))
<1> DEFINE opened == s.pass.open \cup {service}
           r == TryHTTPBanner(s, service, server)
<1>1. /\ r.assets = s.assets
      /\ r.pass.flows = s.pass.flows
      /\ r.pass.open \in {s.pass.open, opened}
  BY DEF TryHTTPBanner, IsState, IsPass
<1> HIDE DEF r
<1>2. Places(s, bound, open, r)
  BY <1>1, SettledSame DEF Places, IsPlacedPass, Sits
<1> QED
  BY <1>2 DEF r

LEMMA HandleIPPlaces ==
  ASSUME NEW s, IsState(s), IsHeard(s.pass), NEW bound, NEW open,
         NEW frame, IsTrueFrame(frame), IsPlacedFrame(frame), frame.kind = "ip",
         Speaks(frame) => Sender(frame) \in open
  PROVE  Places(s, bound, open, HandleIP(s, bound, frame))
<1> DEFINE p == MarkOpen(AddFlow(s.pass, frame), frame)
           seen == [s EXCEPT !.pass = p]
           service == Responder(frame)
           decoded == TryDecode(seen, bound, service, frame.payload)
           answered == TryHTTPBanner(decoded, service, frame.server)
<1>1. IsPass(p) /\ IsHeard(p) /\ (IsPlacedPass(s.pass, open) => IsPlacedPass(p, open))
  <2>1. /\ IsPass(AddFlow(s.pass, frame)) /\ IsHeard(AddFlow(s.pass, frame))
        /\ IsPlacedPass(s.pass, open) => IsPlacedPass(AddFlow(s.pass, frame), open)
    BY AddFlowKeeps, AddFlowHeard, AddFlowPlaced DEF IsState
  <2> QED
    BY <2>1, MarkOpenKeeps, MarkOpenHeard, MarkOpenPlaced
<1>2. HandleIP(s, bound, frame) = IF ~ FromListener(frame) THEN seen ELSE answered
  BY DEF HandleIP
<1> HIDE DEF p
<1>3. IsState(seen) /\ seen.pass = p /\ seen.assets = s.assets
  BY <1>1 DEF IsState
<1> HIDE DEF seen
<1>4. Follows(s, bound, seen) /\ Places(s, bound, open, seen)
  BY <1>1, <1>3, SettledSame DEF Follows, Places, Sits
<1>5. ASSUME FromListener(frame) PROVE Places(s, bound, open, answered)
  <2>1. /\ frame.payload # <<>> /\ IsList(frame.payload)
        /\ Usable(frame.src) /\ Known(frame.src) /\ Told(frame.payload, Owner[frame.src])
    BY <1>5 DEF IsTrueFrame, FromListener
  <2>2. service = Sender(frame)
    BY <1>5 DEF Responder, Sender, Server, FromListener
  <2>3. service[1] = frame.src /\ service = <<service[1], service[2], service[3]>> /\ service \in open
    BY <2>1, <2>2 DEF Sender, Speaks
  <2>4. IsHome(service[1]) /\ IsAt(service) /\ Told(frame.payload, Owner[service[1]])
    BY <2>1, <2>3, IPIsHome DEF IsAt, IsPlacedFrame
  <2> HIDE DEF service
  <2>5. IsState(decoded) /\ Follows(seen, bound, decoded) /\ Places(seen, bound, open, decoded)
    BY <1>1, <1>3, <2>1, <2>3, <2>4, TryDecodeFollows, TryDecodeKeeps, TryDecodePlaces
  <2> HIDE DEF decoded
  <2>6. Places(decoded, bound, open, answered)
    BY <2>3, <2>4, <2>5, TryHTTPBannerPlaces
  <2> HIDE DEF answered
  <2>7. Places(seen, bound, open, answered)
    BY <2>5, <2>6, PlacesBoth
  <2> QED
    BY <1>3, <1>4, <2>7, PlacesBoth
<1> HIDE DEF answered
<1> QED
  BY <1>2, <1>4, <1>5

(* The inventory alone is changed. *)
LEMMA AssetsPlace ==
  ASSUME NEW s, IsState(s), NEW bound, NEW open, NEW known,
         IsBound(bound) /\ BindsHome(bound) /\ Sits(s.assets, open) => Settled(s.assets, known, open)
  PROVE  Places(s, bound, open, [s EXCEPT !.assets = known])
<1> DEFINE r == [s EXCEPT !.assets = known]
<1>1. r.assets = known /\ r.pass = s.pass
  BY DEF IsState
<1> HIDE DEF r
<1>2. Places(s, bound, open, r)
  BY <1>1 DEF Places
<1> QED
  BY <1>2 DEF r

LEMMA HandleARPPlaces ==
  ASSUME NEW s, IsState(s), NEW bound, NEW open,
         NEW frame, IsTrueFrame(frame), IsPlacedFrame(frame), frame.kind = "arp"
  PROVE  Places(s, bound, open, HandleARP(s, bound, frame))
<1> DEFINE addr == [Hardware(frame.mac) EXCEPT !.v4 = frame.ip]
           d == Device(s.assets, addr)
           a == d[ByAddress(d, addr)]
           b == AddEvidence(a, Evidence("pcap", "arp", <<frame.ip>>, {"arp_announced_ip"}))
           known == [d EXCEPT ![ByAddress(d, addr)] = b]
           device == Owner[frame.ip]
<1>1. \/ HandleARP(s, bound, frame) = s
      \/ /\ Usable(frame.mac) /\ Usable(frame.ip) /\ MacFor(bound, frame.ip) = frame.mac
         /\ HandleARP(s, bound, frame) = [s EXCEPT !.assets = known]
  BY DEF HandleARP, Update
<1>2. ASSUME Usable(frame.mac), Usable(frame.ip), MacFor(bound, frame.ip) = frame.mac,
             IsBound(bound), Sits(s.assets, open)
      PROVE  Settled(s.assets, known, open)
  <2>1. device \in DOMAIN TruthOf /\ Owner[frame.mac] = device
    BY <1>2 DEF IsTrueFrame, Known, MacFor, IsBound, Usable
  <2>2. addr.v4 = frame.ip /\ addr.v6 = NoAddress /\ addr.mac = frame.mac /\ IsAddr(addr)
    BY DEF Hardware, IsAddr
  <2>3. Adds(a, b, {})
    <3> HIDE DEF a
    <3> QED
      BY AddEvidenceAdds
  <2>4. device \in OneIP => IPOf[device] = frame.ip /\ frame.mac # IPOf[device]
    BY <1>2, <2>1 DEF IsPlacedFrame, IsIP, IsMac, IsOwn, IsNoIP
  <2> HIDE DEF b, addr
  <2>5. Names(addr, device) /\ Home(addr, device)
    BY <1>2, <2>1, <2>2, <2>4 DEF Names, Usable, Home
  <2> HIDE DEF device
  <2> QED
    BY <1>2, <2>1, <2>3, <2>5, ChangeSettled
<1> HIDE DEF known
<1>3. Places(s, bound, open, s)
  BY PlacesSame
<1>4. CASE /\ Usable(frame.mac) /\ Usable(frame.ip) /\ MacFor(bound, frame.ip) = frame.mac
           /\ HandleARP(s, bound, frame) = [s EXCEPT !.assets = known]
  BY <1>2, <1>4, AssetsPlace
<1> QED
  BY <1>1, <1>3, <1>4

LEMMA HandleLLDPPlaces ==
  ASSUME NEW s, IsState(s), NEW bound, NEW open,
         NEW frame, IsTrueFrame(frame), IsPlacedFrame(frame), frame.kind = "lldp"
  PROVE  Places(s, bound, open, HandleLLDP(s, bound, frame))
<1> DEFINE addr == [Hardware(frame.mac) EXCEPT !.v4 = IPFor(bound, frame.mac), !.name = frame.name]
           told == SniffText(frame.text)
           d == Device(s.assets, addr)
           a == d[ByAddress(d, addr)]
           identified == Identify(a, [vendor |-> told.vendor, catalog |-> told.catalog])
           roled == SetRole(identified, IF frame.bridge THEN "network-device" ELSE "")
           b == AddEvidence(roled,
                  Evidence("pcap", "lldp", <<frame.mac>>,
                           (IF frame.name = Unsaid THEN {} ELSE {"lldp_system_name"})
                           \cup (IF frame.text = <<>> THEN {} ELSE {"lldp_system_description"})))
           known == [d EXCEPT ![ByAddress(d, addr)] = b]
           device == Owner[frame.mac]
<1>1. \/ HandleLLDP(s, bound, frame) = s
      \/ Usable(frame.mac) /\ HandleLLDP(s, bound, frame) = [s EXCEPT !.assets = known]
  BY DEF HandleLLDP, Update
<1>2. ASSUME Usable(frame.mac), IsBound(bound), BindsHome(bound), Sits(s.assets, open)
      PROVE  Settled(s.assets, known, open)
  <2>1. device \in DOMAIN TruthOf
    BY <1>2 DEF IsTrueFrame, Known
  <2>2. addr.v4 = IPFor(bound, frame.mac) /\ addr.v6 = NoAddress /\ addr.mac = frame.mac /\ IsAddr(addr)
    BY HardwareFilled
  <2>3. Adds(a, b, {})
    <3>1. Adds(a, identified, {})
      <4> HIDE DEF a, told
      <4> QED
        BY IdentifyAdds
    <3>2. Adds(identified, roled, {})
      <4> HIDE DEF identified
      <4> QED
        BY SetRoleAdds
    <3>3. Adds(roled, b, {})
      <4> HIDE DEF roled
      <4> QED
        BY AddEvidenceAdds
    <3> HIDE DEF a, identified, roled, b
    <3> QED
      BY <3>1, <3>2, <3>3, AddsBoth
  <2>4. device \in OneIP =>
          /\ IPFor(bound, frame.mac) = NoAddress \/ IPOf[device] = IPFor(bound, frame.mac)
          /\ frame.mac # IPOf[device]
    BY <1>2, IPIsBound, IPForIsHome DEF IsPlacedFrame, IsMac, IsHome, IsOwn, IsNoIP
  <2> HIDE DEF b, addr
  <2>5. Names(addr, device) /\ Home(addr, device)
    BY <1>2, <2>2, <2>4, IPIsBound DEF Names, Usable, Home
  <2> HIDE DEF device
  <2> QED
    BY <1>2, <2>1, <2>3, <2>5, ChangeSettled
<1> HIDE DEF known
<1>3. Places(s, bound, open, s)
  BY PlacesSame
<1>4. CASE Usable(frame.mac) /\ HandleLLDP(s, bound, frame) = [s EXCEPT !.assets = known]
  BY <1>2, <1>4, AssetsPlace
<1> QED
  BY <1>1, <1>3, <1>4

LEMMA HandlePlaces ==
  ASSUME NEW s, IsState(s), IsHeard(s.pass), NEW bound, NEW open,
         NEW frame, IsTrueFrame(frame), IsPlacedFrame(frame),
         frame.kind = "ip" /\ Speaks(frame) => Sender(frame) \in open
  PROVE  Places(s, bound, open, Handle(s, bound, frame))
<1>1. frame.kind \in {"arp", "lldp", "ip", "other"}
  BY DEF IsTrueFrame
<1>2. CASE frame.kind = "arp"
  BY <1>2, HandleARPPlaces DEF Handle
<1>3. CASE frame.kind = "lldp"
  BY <1>3, HandleLLDPPlaces DEF Handle
<1>4. CASE frame.kind = "ip"
  BY <1>4, HandleIPPlaces DEF Handle
<1>5. CASE frame.kind = "other"
  BY <1>5, PlacesSame DEF Handle
<1> QED
  BY <1>1, <1>2, <1>3, <1>4, <1>5

-----------------------------------------------------------------------------
(* What a capture, a scan and a log leave behind. *)

SettlingEnds == INSTANCE Folding_proofs WITH
  Op <- LAMBDA ctx, known, key :
          Device(Device(known, BoundAddresses(ctx[1], key[1])), BoundAddresses(ctx[1], key[2])),
  Good <- LAMBDA ctx, k, known :
            /\ Sits(known, ctx[4]) /\ Settled(ctx[2], known, ctx[4])
            /\ \A i \in 1 .. k : Present(known, ctx[3][i][1]) /\ Present(known, ctx[3][i][2])

LEMMA AddEndsSettled ==
  ASSUME NEW known, NEW open, Sits(known, open), NEW bound, IsBound(bound), BindsHome(bound),
         NEW p, IsPass(p), IsHeard(p), IsPlacedPass(p, open)
  PROVE  LET more == AddEnds(known, bound, p)
         IN  /\ Settled(known, more, open)
             /\ \A i \in DOMAIN SortedFlows(p) :
                  Present(more, SortedFlows(p)[i][1]) /\ Present(more, SortedFlows(p)[i][2])
<1> DEFINE keys == SortedFlows(p)
           ctx == <<bound, known, keys, open>>
<1>0. ctx[1] = bound /\ ctx[2] = known /\ ctx[3] = keys /\ ctx[4] = open
  OBVIOUS
<1> HIDE DEF ctx
<1>1. AddEnds(known, bound, p) = SettlingEnds!Table(ctx, known, keys)[DOMAIN keys]
  BY <1>0 DEF AddEnds, FoldLeft, MapThenFoldSet, Max, SettlingEnds!Table, SettlingEnds!Row, SettlingEnds!Top
<1>2. PICK n \in Nat : DOMAIN keys = 1 .. n
  BY SortedFlowsAreListed
<1>3. \A i \in 1 .. n : keys[i] \in DOMAIN p.flows
  BY <1>2, SortedFlowsAreKept
<1> HIDE DEF keys
<1>4. ASSUME NEW k \in 0 .. n - 1, NEW acc, Sits(acc, open), Settled(known, acc, open),
             \A i \in 1 .. k : Present(acc, keys[i][1]) /\ Present(acc, keys[i][2])
      PROVE  LET key == keys[k + 1]
                 more == Device(Device(acc, BoundAddresses(bound, key[1])), BoundAddresses(bound, key[2]))
             IN  /\ Sits(more, open) /\ Settled(known, more, open)
                 /\ \A i \in 1 .. k + 1 : Present(more, keys[i][1]) /\ Present(more, keys[i][2])
  <2> DEFINE key == keys[k + 1]
             one == Device(acc, BoundAddresses(bound, key[1]))
             both == Device(one, BoundAddresses(bound, key[2]))
  <2>1. k + 1 \in 1 .. n /\ \A i \in 1 .. k : i \in 1 .. n
    OBVIOUS
  <2>2. \A i \in 1 .. n : /\ IsHome(keys[i][1]) /\ Known(keys[i][1])
                          /\ IsHome(keys[i][2]) /\ Known(keys[i][2])
    <3>1. 1 \in 1 .. 2 /\ 2 \in 1 .. 2
      OBVIOUS
    <3> QED
      BY <1>3, <3>1 DEF IsHeard, IsKey, IsPlacedPass
  <2>3. /\ IsHome(key[1]) /\ Known(key[1]) /\ IsHome(key[2]) /\ Known(key[2])
    BY <2>1, <2>2
  <2>4. key = keys[k + 1]
    OBVIOUS
  <2> HIDE DEF key
  <2>5. /\ Names(BoundAddresses(bound, key[1]), Owner[key[1]])
        /\ Home(BoundAddresses(bound, key[1]), Owner[key[1]]) /\ Shows(BoundAddresses(bound, key[1]), Owner[key[1]])
        /\ Names(BoundAddresses(bound, key[2]), Owner[key[2]])
        /\ Home(BoundAddresses(bound, key[2]), Owner[key[2]]) /\ Shows(BoundAddresses(bound, key[2]), Owner[key[2]])
    BY <2>3, BoundNames, BoundHome DEF IsHome
  <2>6. Sits(one, open) /\ Settled(acc, one, open) /\ Present(one, key[1])
    BY <1>4, <2>3, <2>5, DeviceSettled
  <2> HIDE DEF one
  <2>7. Sits(both, open) /\ Settled(one, both, open) /\ Present(both, key[2])
    BY <2>3, <2>5, <2>6, DeviceSettled
  <2> HIDE DEF both
  <2>8. Settled(acc, both, open) /\ Settled(known, both, open)
    BY <1>4, <2>6, <2>7, SettledBoth
  <2>9. Present(both, key[1])
    BY <2>3, <2>6, <2>7, PresentStays DEF Settled, IsHome
  <2>10. \A i \in 1 .. k : Present(both, keys[i][1]) /\ Present(both, keys[i][2])
    BY <1>4, <2>1, <2>2, <2>8, PresentStays DEF Settled, IsHome
  <2>11. \A i \in 1 .. k + 1 : i \in 1 .. k \/ i = k + 1
    OBVIOUS
  <2>12. \A i \in 1 .. k + 1 : Present(both, keys[i][1]) /\ Present(both, keys[i][2])
    BY <2>4, <2>7, <2>9, <2>10, <2>11
  <2> QED
    BY <2>7, <2>8, <2>12 DEF both, one, key
<1>5. Settled(known, known, open)
  BY SettledSame DEF Sits
<1>6. LET all == SettlingEnds!Table(ctx, known, keys)[DOMAIN keys]
      IN  /\ Sits(all, open) /\ Settled(known, all, open)
          /\ \A i \in 1 .. n : Present(all, keys[i][1]) /\ Present(all, keys[i][2])
  <2>1. \A i \in 1 .. 0 : FALSE
    OBVIOUS
  <2>2. \A i \in 1 .. 0 : Present(known, keys[i][1]) /\ Present(known, keys[i][2])
    BY <2>1
  <2> QED
    BY <1>0, <1>2, <1>4, <1>5, <2>2, SettlingEnds!FoldKeeps, InductionHolds
<1> QED
  BY <1>1, <1>2, <1>6 DEF keys

IsPlacedHost(host) ==
  host.state \in {"", "up"} =>
    /\ \A ip \in {host.v4, host.v6} : ip # NoAddress => IsOwn(ip)
    /\ host.mac # NoAddress => IsNoIP(host.mac)

(* What a scan says is open is open. *)
ShownByHost(host, open) ==
  \A p \in ToSet(host.ports) : \A ip \in {host.v4, host.v6} \ {NoAddress} :
    p.open => <<ip, p.port, p.transport>> \in open

LEMMA HostSettled ==
  ASSUME NEW s, s = [assets |-> s.assets, flows |-> s.flows], NEW open, Sits(s.assets, open),
         NEW host, IsHost(host), IsTrueHost(host), IsPlacedHost(host), ShownByHost(host, open)
  PROVE  Settled(s.assets, IngestNmapHost(s, host).assets, open)
<1> DEFINE addr == [v4 |-> host.v4, v6 |-> host.v6, mac |-> host.mac, name |-> host.name]
           fields == UNION {ScriptKeys(q) : q \in ToSet(host.scripts)
                              \cup UNION {ToSet(p.scripts) : p \in ToSet(OpenPorts(host))}}
           d == Device(s.assets, addr)
           a == d[ByAddress(d, addr)]
           served == FoldLeft(ServePort, a, host.ports)
           named == [served EXCEPT !.identity = NmapIdentity(@, host)]
           b == AddEvidence(named, Evidence("nmap", "", <<Primary(addr)>>, fields))
           known == [d EXCEPT ![ByAddress(d, addr)] = b]
<1>1. \/ IngestNmapHost(s, host) = s
      \/ /\ host.state \in {"", "up"} /\ (Primary(addr) # NoAddress \/ host.name # Unsaid)
         /\ IngestNmapHost(s, host) = [s EXCEPT !.assets = known]
  BY DEF IngestNmapHost, Update
<1>2. ASSUME host.state \in {"", "up"}, Primary(addr) # NoAddress \/ host.name # Unsaid
      PROVE  Settled(s.assets, known, open)
  <2>1. addr.v4 = host.v4 /\ addr.v6 = host.v6 /\ addr.mac = host.mac /\ IsAddr(addr)
    BY DEF IsAddr
  <2> HIDE DEF addr
  <2>2. ~ ({host.v4, host.v6, host.mac} \ {NoAddress} = {} /\ host.name = Unsaid)
    BY <1>2, <2>1, NoneIsPrimary
  <2>3. PICK device \in DOMAIN TruthOf :
          /\ {host.v4, host.v6} # {NoAddress}
          /\ \A x \in {host.v4, host.v6, host.mac} \ {NoAddress} : Owner[x] = device
    BY <1>2, <2>2 DEF IsTrueHost
  <2>4. Names(addr, device)
    BY <2>1, <2>3 DEF Names
  <2>5. device \in OneIP =>
          /\ \A ip \in {host.v4, host.v6} \ {NoAddress} : IPOf[device] = ip
          /\ host.mac # NoAddress => IPOf[device] # host.mac
    BY <1>2, <2>3 DEF IsPlacedHost, IsOwn, IsNoIP
  <2>6. /\ Home(addr, device) /\ Shows(addr, device)
        /\ \E ip \in {host.v4, host.v6} \ {NoAddress} : Owner[ip] = device /\ (device \in OneIP => ip = IPOf[device])
    BY <2>1, <2>3, <2>5 DEF Home, Shows
  <2> DEFINE S == {<<p.port, p.transport>> : p \in {q \in ToSet(host.ports) : q.open}}
  <2>7. Adds(a, b, S)
    <3>1. Adds(a, served, S)
      <4>1. \A i \in DOMAIN host.ports :
              host.ports[i].open => <<host.ports[i].port, host.ports[i].transport>> \in S
        <5>1. \A i \in DOMAIN host.ports : host.ports[i] \in ToSet(host.ports)
          BY ListHas DEF IsHost
        <5> QED
          BY <5>1
      <4> HIDE DEF a, S
      <4> QED
        BY <4>1, AllPortsAdd DEF IsHost
    <3>2. Adds(served, named, S)
      <4> DEFINE identity == NmapIdentity(served.identity, host)
      <4>1. named = [served EXCEPT !.identity = identity]
        OBVIOUS
      <4> HIDE DEF served, identity, named, S
      <4>2. IsAsset(served) => /\ IsAsset(named) /\ named.id = served.id /\ named.services = served.services
                               /\ named.addr = served.addr
        BY <4>1 DEF IsAsset
      <4> QED
        BY <4>2, AddsNothing
    <3>3. Adds(named, b, S)
      <4> HIDE DEF named, S
      <4> QED
        BY AddEvidenceAdds
    <3> HIDE DEF a, served, named, b, S
    <3> QED
      BY <3>1, <3>2, <3>3, AddsBoth
  <2>8. ASSUME NEW t \in S PROVE t = <<t[1], t[2]>> /\ SeenAt(device, t[1], t[2], open)
    <3>1. PICK p \in ToSet(host.ports) : p.open /\ t = <<p.port, p.transport>>
      OBVIOUS
    <3>2. t[1] = p.port /\ t[2] = p.transport
      BY <3>1
    <3>3. SeenAt(device, p.port, p.transport, open)
      BY <2>6, <3>1 DEF ShownByHost, SeenAt
    <3> QED
      BY <3>1, <3>2, <3>3
  <2> HIDE DEF b, S
  <2>9. LET more == [Device(s.assets, addr) EXCEPT ![ByAddress(Device(s.assets, addr), addr)] = b]
        IN  Housed(more, open) /\ Grows(s.assets, more)
    BY <2>4, <2>6, <2>7, <2>8, UpdateHoused DEF Sits
  <2> QED
    BY <2>9 DEF Settled
<1> HIDE DEF known
<1>3. [s EXCEPT !.assets = known].assets = known
  OBVIOUS
<1>4. Settled(s.assets, s.assets, open)
  BY SettledSame DEF Sits
<1> QED
  BY <1>1, <1>2, <1>3, <1>4

-----------------------------------------------------------------------------
(* What a record leaves behind. *)

(* A conversation is between the IP addresses of two devices that the       *)
(* inventory has.                                                           *)
IsFlow(f) ==
  f = [src |-> f.src, dst |-> f.dst, port |-> f.port, transport |-> f.transport, protocol |-> f.protocol,
       packets |-> f.packets, source |-> f.source, srcAsset |-> f.srcAsset, dstAsset |-> f.dstAsset]

Ended(f, known) == IsFlow(f) /\ \A ip \in {f.src, f.dst} : IsHome(ip) /\ Present(known, ip)

AreEnded(conversations, known) ==
  IsList(conversations) /\ \A i \in DOMAIN conversations : Ended(conversations[i], known)

LEMMA FlowIsFlow ==
  ASSUME NEW src, NEW dst, NEW port, NEW transport, NEW protocol, NEW packets, NEW source
  PROVE  LET f == Flow(src, dst, port, transport, protocol, packets, source)
         IN  IsFlow(f) /\ f.src = src /\ f.dst = dst
  BY DEF Flow, IsFlow

LEMMA EndedStays ==
  ASSUME NEW known, NEW more, Grows(known, more), NEW conversations, AreEnded(conversations, known)
  PROVE  AreEnded(conversations, more)
  BY PresentStays DEF AreEnded, Ended, IsHome

LEMMA EndedAdded ==
  ASSUME NEW known, NEW conversations, AreEnded(conversations, known), NEW f, Ended(f, known)
  PROVE  AreEnded(Append(conversations, f), known)
<1> DEFINE more == Append(conversations, f)
<1>1. /\ IsList(more) /\ DOMAIN more = 1 .. Len(conversations) + 1
      /\ \A i \in DOMAIN conversations : more[i] = conversations[i]
      /\ more[Len(conversations) + 1] = f
      /\ DOMAIN conversations = 1 .. Len(conversations) /\ Len(conversations) \in Nat
  BY AppendIsList, ListHas DEF AreEnded
<1> HIDE DEF more
<1>2. \A i \in DOMAIN more : i \in DOMAIN conversations \/ i = Len(conversations) + 1
  BY <1>1
<1>3. AreEnded(more, known)
  BY <1>1, <1>2 DEF AreEnded
<1> QED
  BY <1>3 DEF more

IsPlacedRecord(r) ==
  /\ r.kind = "conn" \/ r.kind \in ICSKinds => IsIP(r.orig) /\ IsIP(r.resp)
  /\ r.kind \in {"known_hosts", "known_services", "software", "dhcp"} => IsIP(r.host)
  /\ r.kind = "dhcp" => IsMac(r.mac)
  /\ r.kind = "dns" => \A i \in DOMAIN r.answers : IsIP(r.answers[i])

(* What it shows open is open. *)
ShownByRecord(r, open) ==
  /\ r.kind = "conn" /\ r.packets # 0 /\ r.state \notin {"S0", "REJ", "SH"} =>
       <<r.resp, r.port, r.transport>> \in open
  /\ r.kind = "known_services" => <<r.host, r.port, r.transport>> \in open

(* The inventory grows by what is open, and one conversation may be added   *)
(* between two of its assets.                                               *)
Leaves(s, open, r) ==
  /\ Settled(s.assets, r.assets, open)
  /\ \/ r.flows = s.flows
     \/ \E f : r.flows = Append(s.flows, f) /\ Ended(f, r.assets)

LEMMA LeavesSame ==
  ASSUME NEW s, NEW open, Sits(s.assets, open)
  PROVE  Leaves(s, open, s)
  BY SettledSame DEF Leaves, Sits

(* The inventory alone is changed. *)
LEMMA AssetsLeave ==
  ASSUME NEW s, IsReading(s), NEW open, NEW known, Settled(s.assets, known, open)
  PROVE  Leaves(s, open, [s EXCEPT !.assets = known])
<1> DEFINE r == [s EXCEPT !.assets = known]
<1>1. r.assets = known /\ r.flows = s.flows
  BY DEF IsReading
<1> HIDE DEF r
<1>2. Leaves(s, open, r)
  BY <1>1 DEF Leaves
<1> QED
  BY <1>2 DEF r

LEMMA ApplyConnLeaves ==
  ASSUME NEW s, IsReading(s), NEW open, Sits(s.assets, open),
         NEW record, record.kind = "conn", IsTrueRecord(record), IsPlacedRecord(record),
         ShownByRecord(record, open)
  PROVE  Leaves(s, open, ApplyConn(s, record))
<1> DEFINE one == Seen(s.assets, record.orig)
           both == Seen(one, record.resp)
           after == Serve(both, record.resp, ZeekService(record))
           f == Flow(record.orig, record.resp, record.port, record.transport, ZeekProtocol(record),
                     record.sent + Max({0, record.packets}), "zeek")
           r == ApplyConn(s, record)
<1>1. CASE ~ Usable(record.orig) \/ ~ Usable(record.resp)
  <2>1. ApplyConn(s, record) = s
    BY <1>1 DEF ApplyConn
  <2> QED
    BY <2>1, LeavesSame
<1>2. CASE Usable(record.orig) /\ Usable(record.resp)
  <2>1. /\ Known(record.orig) /\ IsHome(record.orig)
        /\ Known(record.resp) /\ IsHome(record.resp)
    BY <1>2, IPIsHome DEF IsTrueRecord, IsPlacedRecord
  <2>2. Sits(one, open) /\ Settled(s.assets, one, open) /\ Present(one, record.orig)
    BY <2>1, SeenSettled
  <2>3. Sits(both, open) /\ Settled(one, both, open) /\ Present(both, record.resp)
    <3> HIDE DEF one
    <3> QED
      BY <2>1, <2>2, SeenSettled
  <2>4. Answered(record) => Settled(both, after, open)
    <3> DEFINE service == ZeekService(record)
    <3>1. service.port = record.port /\ service.transport = record.transport
             /\ {"port", "transport"} \subseteq DOMAIN service
      BY DEF ZeekService
    <3>2. Answered(record) => <<record.resp, record.port, record.transport>> \in open
      BY DEF Answered, ShownByRecord
    <3> HIDE DEF both, service
    <3>3. Answered(record) => Settled(both, Serve(both, record.resp, service), open)
      BY <2>1, <2>3, <3>1, <3>2, ServeSettled
    <3> QED
      BY <3>3 DEF service
  <2>5. /\ r.assets = IF Answered(record) THEN after ELSE both
        /\ r.flows = Append(s.flows, f)
    BY <1>2 DEF ApplyConn
  <2>6. IsFlow(f) /\ f.src = record.orig /\ f.dst = record.resp
    BY FlowIsFlow
  <2> HIDE DEF one, both, after, f, r
  <2>7. Settled(both, both, open)
    BY <2>3, SettledSame DEF Sits
  <2>8. Settled(both, r.assets, open)
    BY <2>4, <2>5, <2>7
  <2>9. Settled(one, r.assets, open) /\ Settled(s.assets, r.assets, open)
    BY <2>2, <2>3, <2>8, SettledBoth
  <2>10. Ended(f, r.assets)
    <3>1. Present(r.assets, record.orig) /\ Present(r.assets, record.resp)
      BY <2>1, <2>2, <2>3, <2>8, <2>9, PresentStays DEF Settled, IsHome
    <3> QED
      BY <2>1, <2>6, <3>1 DEF Ended
  <2>11. Leaves(s, open, r)
    BY <2>5, <2>9, <2>10 DEF Leaves
  <2> QED
    BY <2>11 DEF r
<1> QED
  BY <1>1, <1>2

LEMMA ApplyDHCPLeaves ==
  ASSUME NEW s, IsReading(s), NEW open, Sits(s.assets, open),
         NEW record, record.kind = "dhcp", IsTrueRecord(record), IsPlacedRecord(record)
  PROVE  Leaves(s, open, ApplyDHCP(s, record))
<1> DEFINE mac == IF Usable(record.mac) THEN record.mac ELSE NoAddress
           addr == [Hardware(mac) EXCEPT !.v4 = record.host, !.name = record.name]
           more == Device(s.assets, addr)
           a == more[ByAddress(more, addr)]
           e == Evidence("zeek", "dhcp", <<record.host>>,
                         IF record.name = Unsaid THEN {} ELSE {"dhcp_host_name"})
           b == AddEvidence(a, e)
           known == [more EXCEPT ![ByAddress(more, addr)] = b]
<1>1. ApplyDHCP(s, record) = IF Usable(record.host) THEN [s EXCEPT !.assets = known] ELSE s
  BY DEF ApplyDHCP, Update
<1>2. ASSUME Usable(record.host) PROVE Settled(s.assets, known, open)
  <2>1. /\ Owner[record.host] \in DOMAIN TruthOf
        /\ Usable(record.mac) => Owner[record.mac] = Owner[record.host]
        /\ IsOwn(record.host) /\ (Usable(record.mac) => IsNoIP(record.mac))
    BY <1>2 DEF IsTrueRecord, IsPlacedRecord, IsIP, IsMac, ICSKinds, Known
  <2>2. addr.v4 = record.host /\ addr.v6 = NoAddress /\ addr.mac = mac /\ IsAddr(addr)
    <3> HIDE DEF mac
    <3> QED
      BY HardwareFilled
  <2>3. Names(addr, Owner[record.host]) /\ Home(addr, Owner[record.host])
    <3> HIDE DEF addr
    <3> QED
      BY <1>2, <2>1, <2>2 DEF Names, Usable, Home, IsOwn, IsNoIP
  <2>4. Adds(a, b, {})
    <3> HIDE DEF a, e
    <3> QED
      BY AddEvidenceAdds
  <2> HIDE DEF addr, b
  <2> QED
    BY <2>1, <2>3, <2>4, ChangeSettled
<1> HIDE DEF known
<1>3. Leaves(s, open, s)
  BY LeavesSame
<1> QED
  BY <1>1, <1>2, <1>3, AssetsLeave

LEMMA ApplyDNSLeaves ==
  ASSUME NEW s, IsReading(s), NEW open, Sits(s.assets, open),
         NEW record, record.kind = "dns", IsTrueRecord(record), IsPlacedRecord(record),
         "answers" \in DOMAIN record => IsList(record.answers)
  PROVE  Leaves(s, open, ApplyDNS(s, record))
<1> DEFINE ips == At(record, "answers", <<>>)
           known == AllNamed(s.assets, ips, record.name)
<1>1. IsList(ips) /\ \A i \in DOMAIN ips : Usable(ips[i]) => Known(ips[i]) /\ IsHome(ips[i])
  <2>1. CASE "answers" \in DOMAIN record
    BY <2>1, IPIsHome DEF IsTrueRecord, IsPlacedRecord, ICSKinds, At
  <2>2. CASE "answers" \notin DOMAIN record
    BY <2>2, NoneIsList DEF At
  <2> QED
    BY <2>1, <2>2
<1>2. Settled(s.assets, known, open)
  <2> HIDE DEF ips
  <2> QED
    BY <1>1, AllNamedSettled
<1>3. ApplyDNS(s, record) =
        IF ~ record.forward \/ record.name = Unsaid THEN s ELSE [s EXCEPT !.assets = known]
  BY DEF ApplyDNS
<1> HIDE DEF known
<1> QED
  BY <1>2, <1>3, LeavesSame, AssetsLeave

LEMMA ApplySoftwareLeaves ==
  ASSUME NEW s, IsReading(s), NEW open, Sits(s.assets, open),
         NEW record, record.kind = "software", IsTrueRecord(record), IsPlacedRecord(record)
  PROVE  Leaves(s, open, ApplySoftware(s, record))
<1> DEFINE addr == AddressesFor(record.host)
           more == Device(s.assets, addr)
           a == more[ByAddress(more, addr)]
           b == AddEvidence(a, Evidence("zeek", "software", <<record.host>>, {"zeek_software"}))
           known == [more EXCEPT ![ByAddress(more, addr)] = b]
<1>1. ApplySoftware(s, record) =
        IF Usable(record.host) /\ record.banner # Unsaid THEN [s EXCEPT !.assets = known] ELSE s
  BY DEF ApplySoftware, Update
<1>2. ASSUME Usable(record.host) PROVE Settled(s.assets, known, open)
  <2>1. Owner[record.host] \in DOMAIN TruthOf /\ IsHome(record.host)
    BY <1>2, IPIsHome DEF IsTrueRecord, IsPlacedRecord, ICSKinds, Known
  <2>2. Names(addr, Owner[record.host]) /\ Home(addr, Owner[record.host])
    BY <2>1, AddressNames, AddressHome DEF IsHome
  <2>3. Adds(a, b, {})
    <3> HIDE DEF a
    <3> QED
      BY AddEvidenceAdds
  <2> HIDE DEF addr, b
  <2> QED
    BY <2>1, <2>2, <2>3, ChangeSettled
<1> HIDE DEF known
<1> QED
  BY <1>1, <1>2, LeavesSame, AssetsLeave

LEMMA ApplyICSLeaves ==
  ASSUME NEW s, IsReading(s), NEW open, Sits(s.assets, open),
         NEW record, record.kind \in ICSKinds, IsTrueRecord(record), IsPlacedRecord(record),
         NEW readout
  PROVE  Leaves(s, open, ApplyICS(s, record, readout))
<1> DEFINE met == IF Usable(PeerOf(record)) THEN Seen(s.assets, PeerOf(record)) ELSE s.assets
           addr == AddressesFor(SenderOf(record))
           more == Device(met, addr)
           a == more[ByAddress(more, addr)]
           named == Identify(a, readout)
           b == AddEvidence(named, Evidence("zeek", record.kind, <<SenderOf(record)>>, DOMAIN readout))
           known == [more EXCEPT ![ByAddress(more, addr)] = b]
           device == Owner[SenderOf(record)]
<1>1. ApplyICS(s, record, readout) =
        IF ~ Usable(SenderOf(record)) THEN s
        ELSE IF record.said = {} THEN [s EXCEPT !.assets = met] ELSE [s EXCEPT !.assets = known]
  BY DEF ApplyICS, Update
<1>2. \A x \in {record.orig, record.resp} : Usable(x) => Known(x) /\ IsHome(x)
  BY IPIsHome DEF IsTrueRecord, IsPlacedRecord, ICSKinds
<1>3. Sits(met, open) /\ Settled(s.assets, met, open)
  <2>1. PeerOf(record) \in {record.orig, record.resp}
    BY DEF PeerOf
  <2>2. Settled(s.assets, s.assets, open)
    BY SettledSame DEF Sits
  <2> QED
    BY <1>2, <2>1, <2>2, SeenSettled
<1>4. ASSUME Usable(SenderOf(record)) PROVE Settled(s.assets, known, open)
  <2>1. SenderOf(record) \in {record.orig, record.resp}
    BY DEF SenderOf
  <2>2. Names(addr, device) /\ Home(addr, device) /\ device \in DOMAIN TruthOf
    BY <1>2, <1>4, <2>1, AddressNames, AddressHome DEF Known, IsHome
  <2>3. Adds(a, b, {})
    <3> HIDE DEF a, device
    <3>1. Adds(a, named, {})
      BY IdentifyAdds
    <3>2. Adds(named, b, {})
      <4> HIDE DEF named
      <4> QED
        BY AddEvidenceAdds
    <3> HIDE DEF named, b
    <3> QED
      BY <3>1, <3>2, AddsBoth
  <2> HIDE DEF met, addr, b, device
  <2>4. Settled(met, known, open)
    BY <1>3, <2>2, <2>3, ChangeSettled
  <2> HIDE DEF known
  <2> QED
    BY <1>3, <2>4, SettledBoth
<1> HIDE DEF met, known
<1> QED
  BY <1>1, <1>3, <1>4, LeavesSame, AssetsLeave

LEMMA ApplyRecordLeaves ==
  ASSUME NEW s, IsReading(s), NEW open, Sits(s.assets, open),
         NEW record, IsTrueRecord(record), IsPlacedRecord(record), ShownByRecord(record, open),
         "answers" \in DOMAIN record => IsList(record.answers),
         NEW after \in ApplyRecord(s, record)
  PROVE  Leaves(s, open, after)
<1>0. Leaves(s, open, s)
  BY LeavesSame
<1>1. CASE record.kind = "conn"
  <2>1. after = ApplyConn(s, record)
    BY <1>1 DEF ApplyRecord, ICSKinds
  <2> QED
    BY <1>1, <2>1, ApplyConnLeaves
<1>2. CASE record.kind = "known_hosts"
  <2>1. after = ApplyKnownHost(s, record) /\ (Usable(record.host) => Known(record.host) /\ IsHome(record.host))
    BY <1>2, IPIsHome DEF ApplyRecord, IsTrueRecord, IsPlacedRecord, ICSKinds
  <2>2. \/ after = s
        \/ Usable(record.host) /\ after = [s EXCEPT !.assets = Seen(s.assets, record.host)]
    BY <2>1 DEF ApplyKnownHost
  <2>3. Usable(record.host) => Settled(s.assets, Seen(s.assets, record.host), open)
    BY <2>1, SeenSettled
  <2> QED
    BY <1>0, <2>2, <2>3, AssetsLeave
<1>3. CASE record.kind = "known_services"
  <2> DEFINE service == ZeekService(record)
  <2>1. after = ApplyKnownService(s, record) /\ (Usable(record.host) => Known(record.host) /\ IsHome(record.host))
    BY <1>3, IPIsHome DEF ApplyRecord, IsTrueRecord, IsPlacedRecord, ICSKinds
  <2>2. \/ after = s
        \/ Usable(record.host) /\ after = [s EXCEPT !.assets = Serve(s.assets, record.host, service)]
    BY <2>1 DEF ApplyKnownService
  <2>3. service.port = record.port /\ service.transport = record.transport
           /\ {"port", "transport"} \subseteq DOMAIN service
    BY DEF ZeekService
  <2>4. <<record.host, record.port, record.transport>> \in open
    BY <1>3 DEF ShownByRecord
  <2> HIDE DEF service
  <2>5. Usable(record.host) => Settled(s.assets, Serve(s.assets, record.host, service), open)
    BY <2>1, <2>3, <2>4, ServeSettled
  <2> QED
    BY <1>0, <2>2, <2>5, AssetsLeave
<1>4. CASE record.kind = "dhcp"
  <2>1. after = ApplyDHCP(s, record)
    BY <1>4 DEF ApplyRecord, ICSKinds
  <2> QED
    BY <1>4, <2>1, ApplyDHCPLeaves
<1>5. CASE record.kind = "dns"
  <2>1. after = ApplyDNS(s, record)
    BY <1>5 DEF ApplyRecord, ICSKinds
  <2> QED
    BY <1>5, <2>1, ApplyDNSLeaves
<1>6. CASE record.kind = "software"
  <2>1. after = ApplySoftware(s, record)
    BY <1>6 DEF ApplyRecord, ICSKinds
  <2> QED
    BY <1>6, <2>1, ApplySoftwareLeaves
<1>7. CASE record.kind \in ICSKinds
  <2>1. PICK readout \in Readouts(record) : after = ApplyICS(s, record, readout)
    BY <1>7 DEF ApplyRecord, ICSKinds
  <2> QED
    BY <1>7, <2>1, ApplyICSLeaves
<1>8. CASE record.kind \notin ICSKinds \cup {"conn", "known_hosts", "known_services", "dhcp", "dns", "software"}
  <2>1. after = s
    BY <1>8 DEF ApplyRecord, ICSKinds
  <2> QED
    BY <1>0, <2>1
<1> QED
  BY <1>1, <1>2, <1>3, <1>4, <1>5, <1>6, <1>7, <1>8

-----------------------------------------------------------------------------
(* Inventories merged and put in order. *)

ProvingAll == INSTANCE Folding_proofs WITH
  Op <- LAMBDA ctx, b, x : AddEvidence(b, x), Good <- LAMBDA ctx, k, b : Adds(ctx, b, {})

LEMMA AllEvidenceAdds ==
  ASSUME NEW a, NEW s, IsList(s)
  PROVE  Adds(a, FoldLeft(AddEvidence, a, s), {})
<1>1. FoldLeft(AddEvidence, a, s) = ProvingAll!Table(a, a, s)[DOMAIN s]
  BY DEF FoldLeft, MapThenFoldSet, Max, ProvingAll!Table, ProvingAll!Row, ProvingAll!Top
<1>2. DOMAIN s = 1 .. Len(s) /\ Len(s) \in Nat
  BY ListHas
<1>3. Adds(a, a, {})
  BY AddsNothing
<1>4. \A b, x : Adds(a, b, {}) => Adds(a, AddEvidence(b, x), {})
  BY AddEvidenceAdds, AddsBoth
<1> QED
  BY <1>1, <1>2, <1>3, <1>4, ProvingAll!FoldKeeps, InductionHolds

(* Two assets of the device: both have become the merged one. *)
LEMMA MergedLodged ==
  ASSUME NEW a, NEW b, NEW d, NEW open, Lodged(a, d, open), Lodged(b, d, open), IsOf(b, d), a.id = b.id
  PROVE  LET m == MergeAsset(a, b) IN Lodged(m, d, open) /\ Grown(a, m) /\ Grown(b, m)
<1> DEFINE identified == Identify(a, b.identity)
           filled == [identified EXCEPT !.addr = FillAddresses(@, b.addr)]
           named == [identified EXCEPT
                       !.addr = FillAddresses(@, b.addr),
                       !.purdue = IF @ = "" THEN b.purdue ELSE @]
           roled == SetRole(named, b.role)
           S == {<<b.services[i].port, b.services[i].transport>> : i \in DOMAIN b.services}
           served == FoldLeft(AddService, roled, b.services)
           m == MergeAsset(a, b)
<1>1. IsList(b.services) /\ IsList(b.evidence) /\ IsServer(b) /\ Home(b.addr, d)
  BY DEF Lodged, IsServer, IsAsset
<1>2. Lodged(identified, d, open) /\ Grown(a, identified)
  <2>1. Adds(a, identified, {})
    BY IdentifyAdds
  <2> HIDE DEF identified
  <2> QED
    BY <2>1, AddsLodged
<1>3. /\ Lodged(filled, d, open) /\ Grown(identified, filled)
      /\ Shows(b.addr, d) => Shows(filled.addr, d)
  <2> HIDE DEF identified
  <2> QED
    BY <1>1, <1>2, FilledLodged
<1>4. /\ IsAsset(filled)
      /\ filled.addr.v4 = KeepAddress(identified.addr.v4, b.addr.v4)
      /\ filled.addr.v6 = KeepAddress(identified.addr.v6, b.addr.v6)
  <2> DEFINE addr == FillAddresses(identified.addr, b.addr)
  <2>1. filled = [identified EXCEPT !.addr = addr]
    OBVIOUS
  <2>2. IsAsset(identified)
    BY <1>2 DEF Lodged, IsServer
  <2>3. /\ addr.v4 = KeepAddress(identified.addr.v4, b.addr.v4)
        /\ addr.v6 = KeepAddress(identified.addr.v6, b.addr.v6)
    BY DEF FillAddresses
  <2> HIDE DEF addr, identified, filled
  <2> QED
    BY <2>1, <2>2, <2>3 DEF IsAsset
<1>5. Grown(b, filled)
  <2>1. filled.id = b.id
    BY <1>2, <1>3 DEF Grown
  <2>2. d \in OneIP =>
          /\ identified.addr.v4 \in {NoAddress, IPOf[d]} /\ identified.addr.v6 \in {NoAddress, IPOf[d]}
          /\ b.addr.v4 \in {NoAddress, IPOf[d]} /\ b.addr.v6 \in {NoAddress, IPOf[d]}
    BY <1>1, <1>2 DEF Lodged, Home
  <2>3. \A ip \in {b.addr.v4, b.addr.v6} : ip # NoAddress => Owner[ip] = d
    BY DEF IsOf
  <2> HIDE DEF identified, filled
  <2> QED
    BY <1>4, <2>1, <2>2, <2>3 DEF Grown, KeepAddress
<1>6. /\ Lodged(named, d, open) /\ Grown(filled, named)
      /\ Shows(filled.addr, d) => Shows(named.addr, d)
  <2> DEFINE level == IF identified.purdue = "" THEN b.purdue ELSE identified.purdue
  <2>1. named = [filled EXCEPT !.purdue = level]
    OBVIOUS
  <2> HIDE DEF level, filled, named
  <2>2. /\ IsAsset(named) /\ named.id = filled.id /\ named.services = filled.services
        /\ named.addr = filled.addr
    BY <1>4, <2>1 DEF IsAsset
  <2>3. Adds(filled, named, {})
    BY <2>2, AddsNothing
  <2> QED
    BY <1>3, <2>3, AddsLodged
<1>7. /\ Lodged(roled, d, open) /\ Grown(named, roled)
      /\ Shows(named.addr, d) => Shows(roled.addr, d)
  <2> HIDE DEF named
  <2>1. Adds(named, roled, {})
    BY SetRoleAdds
  <2> HIDE DEF roled
  <2> QED
    BY <1>6, <2>1, AddsLodged
<1>8. Lodged(served, d, open) /\ Grown(roled, served)
  <2> HIDE DEF roled, named, filled
  <2>1. Adds(roled, served, S)
    <3>1. \A i \in DOMAIN b.services : /\ {"port", "transport"} \subseteq DOMAIN b.services[i]
                                       /\ <<b.services[i].port, b.services[i].transport>> \in S
      BY <1>1 DEF IsServer
    <3> HIDE DEF S
    <3> QED
      BY <1>1, <3>1, AllServicesAdd
  <2>2. ASSUME NEW s \in S
        PROVE  s = <<s[1], s[2]>> /\ SeenAt(d, s[1], s[2], open) /\ Shows(b.addr, d)
    <3>1. PICK i \in DOMAIN b.services : s = <<b.services[i].port, b.services[i].transport>>
      OBVIOUS
    <3>2. s = <<s[1], s[2]>> /\ s[1] = b.services[i].port /\ s[2] = b.services[i].transport
      BY <3>1
    <3>3. b.services # <<>>
      BY NoneIsList
    <3> QED
      BY <3>2, <3>3 DEF Lodged
  <2>3. S # {} => Shows(roled.addr, d)
    BY <1>3, <1>6, <1>7, <2>2
  <2> HIDE DEF S, served
  <2> QED
    BY <1>7, <2>1, <2>2, <2>3, AddsLodged
<1>9. Lodged(m, d, open) /\ Grown(served, m)
  <2>1. m = FoldLeft(AddEvidence, served, b.evidence)
    BY DEF MergeAsset
  <2> HIDE DEF served, m
  <2>2. Adds(served, m, {})
    BY <1>1, <2>1, AllEvidenceAdds
  <2> QED
    BY <1>8, <2>2, AddsLodged
<1> HIDE DEF identified, filled, named, roled, served, m
<1>10. Grown(filled, m) /\ Grown(a, m) /\ Grown(b, m)
  BY <1>2, <1>3, <1>5, <1>6, <1>7, <1>8, <1>9, GrownBoth
<1> QED
  BY <1>9, <1>10 DEF m

LEMMA UpsertSettled ==
  ASSUME NEW known, NEW open, Sits(known, open), NEW a, NEW d \in DOMAIN TruthOf, IsOf(a, d), Lodged(a, d, open)
  PROVE  LET more == Upsert(known, a)
         IN  Settled(known, more, open) /\ \E i \in DOMAIN more : Grown(a, more[i])
<1> DEFINE same == {i \in 1 .. Len(known) : known[i].id = a.id}
           place == IF same # {} THEN Min(same) ELSE 0
           more == Upsert(known, a)
<1>1. DOMAIN known = 1 .. Len(known) /\ Len(known) \in Nat /\ IsList(known) /\ IsInventory(known)
  BY ListHas DEF Sits, IsInventory
<1>2. more = IF place = 0 THEN Append(known, a)
             ELSE [known EXCEPT ![place] = MergeAsset(known[place], a)]
  BY DEF Upsert, SelectInSeq
<1>3. place # 0 => place \in DOMAIN known /\ known[place].id = a.id
  <2>1. same \in SUBSET Nat /\ \A i \in same : i \in DOMAIN known /\ known[i].id = a.id
    BY <1>1
  <2> HIDE DEF same
  <2> QED
    BY <2>1, MinIsLeast
<1> HIDE DEF place, more
<1>4. CASE place = 0
  <2>1. more = Append(known, a)
    BY <1>2, <1>4
  <2>2. Len(known) + 1 \in DOMAIN more /\ more[Len(known) + 1] = a
    BY <1>1, <2>1, AppendIsList
  <2>3. \A e \in DOMAIN TruthOf : IsOf(a, e) => Lodged(a, e, open)
    BY OneDevice
  <2>4. Settled(known, more, open)
    BY <1>1, <2>1, <2>3, HousedAdded DEF Sits, Settled
  <2> QED
    BY <2>2, <2>4, GrownSame DEF more
<1>5. CASE place # 0
  <2> DEFINE x == known[place]
             m == MergeAsset(x, a)
  <2>1. PICK device \in DOMAIN TruthOf : IsOf(x, device)
    BY <1>3, <1>5 DEF Sits, Owned
  <2>2. x.id = a.id /\ place \in DOMAIN known
    BY <1>3, <1>5
  <2>3. IsOf(x, d)
    BY <2>1, <2>2, IdIsOf
  <2>4. Lodged(x, d, open)
    BY <2>2, <2>3 DEF Sits, Housed
  <2> HIDE DEF x
  <2>5. Lodged(m, d, open) /\ Grown(x, m) /\ Grown(a, m)
    BY <2>2, <2>4, MergedLodged
  <2>6. \A e \in DOMAIN TruthOf : IsOf(m, e) => e = d
    BY <2>5, IdIsOf DEF Grown
  <2>7. \A e \in DOMAIN TruthOf : IsOf(m, e) => Lodged(m, e, open)
    BY <2>5, <2>6
  <2>8. more = [known EXCEPT ![place] = m]
    BY <1>2, <1>5 DEF x
  <2> HIDE DEF m
  <2>9. Settled(known, more, open)
    BY <1>1, <2>5, <2>7, <2>8, HousedReplaced DEF Sits, Settled, x
  <2>10. place \in DOMAIN more /\ more[place] = m
    BY <2>2, <2>8
  <2> QED
    BY <2>5, <2>9, <2>10 DEF more
<1> QED
  BY <1>4, <1>5

JoiningAll == INSTANCE Folding_proofs WITH
  Op <- LAMBDA ctx, known, a : Upsert(known, a),
  Good <- LAMBDA ctx, k, known :
            /\ Sits(known, ctx[3]) /\ Settled(ctx[1], known, ctx[3])
            /\ \A i \in 1 .. k : \E j \in DOMAIN known : Grown(ctx[2][i], known[j])

LEMMA MergeSettled ==
  ASSUME NEW known, NEW open, Sits(known, open), NEW others, Sits(others, open)
  PROVE  LET more == Merge(known, others)
         IN  Sits(more, open) /\ Settled(known, more, open) /\ Grows(others, more)
<1> DEFINE ctx == <<known, others, open>>
           Good(k, acc) == /\ Sits(acc, open) /\ Settled(known, acc, open)
                           /\ \A i \in 1 .. k : \E j \in DOMAIN acc : Grown(others[i], acc[j])
<1>0. ctx[1] = known /\ ctx[2] = others /\ ctx[3] = open
  OBVIOUS
<1> HIDE DEF ctx
<1>1. Merge(known, others) = JoiningAll!Table(ctx, known, others)[DOMAIN others]
  BY DEF Merge, FoldLeft, MapThenFoldSet, Max, JoiningAll!Table, JoiningAll!Row, JoiningAll!Top
<1>2. DOMAIN others = 1 .. Len(others) /\ Len(others) \in Nat
  BY ListHas DEF Sits, IsInventory
<1>3. Good(0, known)
  BY SettledSame DEF Sits
<1>4. ASSUME NEW k \in 0 .. Len(others) - 1, NEW acc, Good(k, acc)
      PROVE  Good(k + 1, Upsert(acc, others[k + 1]))
  <2> DEFINE a == others[k + 1]
             more == Upsert(acc, a)
  <2>1. k + 1 \in DOMAIN others
    BY <1>2
  <2>2. PICK d \in DOMAIN TruthOf : IsOf(a, d)
    BY <2>1 DEF Sits, Owned
  <2>3. Lodged(a, d, open) /\ IsAsset(a)
    BY <2>1, <2>2 DEF Sits, Housed, IsInventory
  <2> HIDE DEF a
  <2>4. Settled(acc, more, open) /\ \E i \in DOMAIN more : Grown(a, more[i])
    BY <1>4, <2>2, <2>3, UpsertSettled
  <2>5. IsInventory(more) /\ Owned(more)
    BY <1>4, <2>2, <2>3, UpsertKeeps, UpsertOwned DEF Sits
  <2> HIDE DEF more
  <2>6. Sits(more, open) /\ Settled(known, more, open)
    BY <1>4, <2>4, <2>5, SettledBoth DEF Sits, Settled
  <2>7. ASSUME NEW i \in 1 .. k + 1 PROVE \E j \in DOMAIN more : Grown(others[i], more[j])
    <3>1. CASE i = k + 1
      BY <2>4, <3>1 DEF a
    <3>2. CASE i # k + 1
      <4>1. i \in 1 .. k
        BY <3>2
      <4>2. PICK j \in DOMAIN acc : Grown(others[i], acc[j])
        BY <1>4, <4>1
      <4>3. PICK l \in DOMAIN more : Grown(acc[j], more[l])
        BY <2>4 DEF Settled, Grows
      <4> QED
        BY <4>2, <4>3, GrownBoth
    <3> QED
      BY <3>1, <3>2
  <2> QED
    BY <2>6, <2>7 DEF more, a
<1>5. Good(Len(others), JoiningAll!Table(ctx, known, others)[DOMAIN others])
  BY <1>0, <1>2, <1>3, <1>4, JoiningAll!FoldKeeps, InductionHolds
<1> QED
  BY <1>1, <1>2, <1>5 DEF Grows

(* Put in order, classified or not. *)
LEMMA FinalizeSettled ==
  ASSUME NEW known, NEW open, Sits(known, open), NEW conversations
  PROVE  LET final == Finalize(known, conversations).assets
         IN  Sits(final, open) /\ Settled(known, final, open)
<1> DEFINE classified == [i \in DOMAIN known |-> Classify(known[i])]
           final == Finalize(known, conversations).assets
<1>1. DOMAIN known = 1 .. Len(known) /\ Len(known) \in Nat
  BY ListHas DEF Sits, IsInventory
<1>2. ASSUME NEW i \in DOMAIN known
      PROVE  /\ IsAsset(classified[i]) /\ classified[i].id = known[i].id
             /\ Grown(known[i], classified[i])
             /\ \A d \in DOMAIN TruthOf : IsOf(classified[i], d) => Lodged(classified[i], d, open)
  <2> DEFINE a == known[i]
             b == Classify(a)
  <2>1. classified[i] = b
    OBVIOUS
  <2>2. IsAsset(a)
    BY DEF Sits, IsInventory
  <2>3. PICK device \in DOMAIN TruthOf : IsOf(a, device)
    BY DEF Sits, Owned
  <2>4. Lodged(a, device, open)
    BY <2>3 DEF Sits, Housed
  <2> HIDE DEF classified, a
  <2>5. IsAsset(b) /\ b.id = a.id
    BY <2>2, ClassifyKeeps DEF Keeps
  <2>6. Adds(a, b, {})
    BY ClassifyAdds
  <2> HIDE DEF b
  <2>7. Lodged(b, device, open) /\ Grown(a, b)
    BY <2>4, <2>6, AddsLodged
  <2>8. \A d \in DOMAIN TruthOf : IsOf(b, d) => d = device
    BY <2>3, <2>5, IdIsOf
  <2> QED
    BY <2>1, <2>5, <2>7, <2>8 DEF a
<1>3. DOMAIN classified = DOMAIN known /\ classified = [i \in 1 .. Len(known) |-> classified[i]]
  BY <1>1
<1>4. final = Sorted(classified)
  BY DEF Finalize
<1> HIDE DEF classified
<1>5. IsList(classified) /\ Len(classified) = Len(known)
  BY <1>1, <1>3, ListFrom
<1>6. IsInventory(classified)
  BY <1>2, <1>3, <1>5 DEF Sits, IsInventory
<1>7. Among(classified, Len(classified), final)
  BY <1>4, <1>6, SortedKeeps
<1>8. IsInventory(final) /\ Owned(final)
  BY FinalizeKeeps, FinalizeOwned DEF Sits
<1> HIDE DEF final
<1>9. Housed(final, open)
  BY <1>1, <1>2, <1>5, <1>7 DEF Among, Housed
<1>10. Grows(known, final)
  BY <1>1, <1>2, <1>5, <1>7 DEF Among, Grows
<1> QED
  BY <1>8, <1>9, <1>10 DEF Sits, Settled, final

-----------------------------------------------------------------------------
(* The conversations of the file. *)

(* The asset has the address, if that is of a device of one IP. *)
Has(known, id, ip) ==
  Owner[ip] \in OneIP =>
    \E i \in DOMAIN known : known[i].id = id /\ ip \in {known[i].addr.v4, known[i].addr.v6}

Joined(known, f) ==
  /\ IsFlow(f) /\ f.src # NoAddress /\ f.dst # NoAddress
  /\ Has(known, f.srcAsset, f.src) /\ Has(known, f.dstAsset, f.dst)

AreJoined(known, conversations) ==
  IsList(conversations) /\ \A i \in DOMAIN conversations : Joined(known, conversations[i])

LEMMA HasStays ==
  ASSUME NEW known, NEW more, Grows(known, more), NEW id, NEW ip, ip # NoAddress, Has(known, id, ip)
  PROVE  Has(more, id, ip)
<1> SUFFICES ASSUME Owner[ip] \in OneIP PROVE Has(more, id, ip)
  BY DEF Has
<1>1. PICK i \in DOMAIN known : known[i].id = id /\ ip \in {known[i].addr.v4, known[i].addr.v6}
  BY DEF Has
<1>2. PICK j \in DOMAIN more : Grown(known[i], more[j])
  BY DEF Grows
<1> QED
  BY <1>1, <1>2 DEF Grown, Has

LEMMA JoinedStay ==
  ASSUME NEW known, NEW more, Grows(known, more), NEW conversations, AreJoined(known, conversations)
  PROVE  AreJoined(more, conversations)
  BY HasStays DEF AreJoined, Joined

(* Each address means the last asset that has it, which shows it as its IP. *)
LEMMA AssetOfHas ==
  ASSUME NEW known, NEW open, Sits(known, open), NEW ip, IsHome(ip), Present(known, ip)
  PROVE  Has(known, AssetOf(known, ip), ip)
<1> SUFFICES ASSUME Owner[ip] \in OneIP PROVE Has(known, AssetOf(known, ip), ip)
  BY DEF Has
<1> DEFINE I == {i \in 1 .. Len(known) : ip \in {known[i].addr.v4, known[i].addr.v6, known[i].addr.mac}}
           last == IF I # {} THEN Max(I) ELSE 0
<1>1. DOMAIN known = 1 .. Len(known) /\ Len(known) \in Nat
  BY ListHas DEF Sits, IsInventory
<1>2. AssetOf(known, ip) = IF last = 0 THEN Unsaid ELSE known[last].id
  BY DEF AssetOf, SelectLastInSeq
<1>3. I # {}
  BY <1>1 DEF Present
<1>4. last \in I
  <2>1. I \in SUBSET (0 .. Len(known))
    BY <1>1
  <2> HIDE DEF I
  <2> QED
    BY <1>1, <1>3, <2>1, MaxIsGreatest
<1>5. last # 0 /\ last \in DOMAIN known
      /\ ip \in {known[last].addr.v4, known[last].addr.v6, known[last].addr.mac}
  BY <1>1, <1>4
<1> HIDE DEF last
<1>6. PICK d \in DOMAIN TruthOf : IsOf(known[last], d)
  BY <1>5 DEF Sits, Owned
<1>7. Home(known[last].addr, d)
  BY <1>5, <1>6 DEF Sits, Housed, Lodged
<1>8. Owner[ip] = d
  BY <1>5, <1>6 DEF IsHome, IsOf
<1>9. ip \in {known[last].addr.v4, known[last].addr.v6}
  BY <1>5, <1>7, <1>8 DEF IsHome, IsOwn, Home
<1> QED
  BY <1>2, <1>5, <1>9 DEF Has

LEMMA ResolvedJoined ==
  ASSUME NEW open, Sits(assets, open), NEW f, Ended(f, assets)
  PROVE  Joined(assets, Resolved(f))
<1> DEFINE g == Resolved(f)
<1>1. /\ IsFlow(g) /\ g.src = f.src /\ g.dst = f.dst
      /\ g.srcAsset = AssetOf(assets, f.src) /\ g.dstAsset = AssetOf(assets, f.dst)
  <2> DEFINE src == AssetOf(assets, f.src)
             dst == AssetOf(assets, f.dst)
  <2>1. g = [f EXCEPT !.srcAsset = src, !.dstAsset = dst]
    BY DEF Resolved
  <2> HIDE DEF src, dst, g
  <2>2. g = [src |-> f.src, dst |-> f.dst, port |-> f.port, transport |-> f.transport, protocol |-> f.protocol,
             packets |-> f.packets, source |-> f.source, srcAsset |-> src, dstAsset |-> dst]
    BY <2>1 DEF Ended, IsFlow
  <2>3. IsFlow(g) /\ g.src = f.src /\ g.dst = f.dst /\ g.srcAsset = src /\ g.dstAsset = dst
    BY <2>2 DEF IsFlow
  <2> QED
    BY <2>3 DEF src, dst
<1> HIDE DEF g
<1>2. IsHome(f.src) /\ IsHome(f.dst) /\ Present(assets, f.src) /\ Present(assets, f.dst)
  BY DEF Ended
<1>3. Has(assets, AssetOf(assets, f.src), f.src) /\ Has(assets, AssetOf(assets, f.dst), f.dst)
  BY <1>2, AssetOfHas
<1>4. Joined(assets, g)
  BY <1>1, <1>2, <1>3 DEF Joined, IsHome
<1> QED
  BY <1>4 DEF g

(* Those of one key are made one. *)
LEMMA MergeFlowJoined ==
  ASSUME NEW known, NEW conversations, AreJoined(known, conversations), NEW f, Joined(known, f)
  PROVE  AreJoined(known, MergeFlow(conversations, f))
<1> DEFINE same == {i \in 1 .. Len(conversations) : FlowKey(conversations[i]) = FlowKey(f)}
           place == IF same # {} THEN Min(same) ELSE 0
           old == conversations[place]
           counted == [old EXCEPT !.packets = @ + f.packets]
           one == [conversations EXCEPT ![place] = counted]
           told == [one[place] EXCEPT !.protocol = IF @ = "" THEN f.protocol ELSE @]
           more == MergeFlow(conversations, f)
<1>1. DOMAIN conversations = 1 .. Len(conversations) /\ Len(conversations) \in Nat /\ IsList(conversations)
  BY ListHas DEF AreJoined
<1>2. more = IF place = 0 THEN Append(conversations, f) ELSE [one EXCEPT ![place] = told]
  BY DEF MergeFlow, SelectInSeq
<1>3. place # 0 => place \in DOMAIN conversations
  <2>1. same \in SUBSET Nat /\ \A i \in same : i \in DOMAIN conversations
    BY <1>1
  <2> HIDE DEF same
  <2> QED
    BY <2>1, MinIsLeast
<1> HIDE DEF place, more
<1>4. CASE place = 0
  <2>1. more = Append(conversations, f)
    BY <1>2, <1>4
  <2>2. /\ IsList(more) /\ DOMAIN more = 1 .. Len(conversations) + 1
        /\ \A i \in DOMAIN conversations : more[i] = conversations[i]
        /\ more[Len(conversations) + 1] = f
    BY <1>1, <2>1, AppendIsList
  <2>3. \A i \in DOMAIN more : i \in DOMAIN conversations \/ i = Len(conversations) + 1
    BY <1>1, <2>2
  <2>4. AreJoined(known, more)
    BY <2>2, <2>3 DEF AreJoined
  <2> QED
    BY <2>4 DEF more
<1>5. CASE place # 0
  <2>1. Joined(known, old)
    BY <1>3, <1>5 DEF AreJoined
  <2>2. /\ IsList(one) /\ DOMAIN one = DOMAIN conversations
        /\ \A i \in DOMAIN conversations : one[i] = IF i = place THEN counted ELSE conversations[i]
    <3> HIDE DEF counted
    <3> QED
      BY <1>1, ChangeIsList
  <2>3. Joined(known, counted)
    <3> DEFINE packets == old.packets + f.packets
    <3>1. counted = [old EXCEPT !.packets = packets]
      OBVIOUS
    <3> HIDE DEF packets, old, counted
    <3>2. IsFlow(counted) /\ counted.src = old.src /\ counted.dst = old.dst
          /\ counted.srcAsset = old.srcAsset /\ counted.dstAsset = old.dstAsset
      BY <2>1, <3>1 DEF Joined, IsFlow
    <3> QED
      BY <2>1, <3>2 DEF Joined
  <2>4. one[place] = counted
    BY <1>3, <1>5, <2>2
  <2>5. Joined(known, told)
    <3> DEFINE protocol == IF counted.protocol = "" THEN f.protocol ELSE counted.protocol
    <3>1. told = [counted EXCEPT !.protocol = protocol]
      <4> HIDE DEF one, counted
      <4> QED
        BY <2>4 DEF counted
    <3> HIDE DEF protocol, counted, told
    <3>2. IsFlow(told) /\ told.src = counted.src /\ told.dst = counted.dst
          /\ told.srcAsset = counted.srcAsset /\ told.dstAsset = counted.dstAsset
      BY <2>3, <3>1 DEF Joined, IsFlow
    <3> QED
      BY <2>3, <3>2 DEF Joined
  <2>6. more = [one EXCEPT ![place] = told]
    BY <1>2, <1>5
  <2> HIDE DEF counted, one, told
  <2>7. /\ IsList(more) /\ DOMAIN more = DOMAIN one
        /\ \A i \in DOMAIN one : more[i] = IF i = place THEN told ELSE one[i]
    BY <2>2, <2>6, ChangeIsList
  <2>8. AreJoined(known, more)
    BY <2>2, <2>3, <2>5, <2>7 DEF AreJoined
  <2> QED
    BY <2>8 DEF more
<1> QED
  BY <1>4, <1>5

Conversing == INSTANCE Folding_proofs WITH
  Op <- LAMBDA ctx, conversations, f : MergeFlow(conversations, f),
  Good <- LAMBDA ctx, k, conversations : AreJoined(ctx, conversations)

LEMMA FinalizeJoined ==
  ASSUME NEW known, NEW open, Sits(known, open), NEW conversations, AreJoined(known, conversations)
  PROVE  LET final == Finalize(known, conversations) IN AreJoined(final.assets, final.flows)
<1> DEFINE final == Finalize(known, conversations)
<1>1. FoldLeft(MergeFlow, <<>>, conversations) = Conversing!Table(known, <<>>, conversations)[DOMAIN conversations]
  BY DEF FoldLeft, MapThenFoldSet, Max, Conversing!Table, Conversing!Row, Conversing!Top
<1>2. DOMAIN conversations = 1 .. Len(conversations) /\ Len(conversations) \in Nat
  BY ListHas DEF AreJoined
<1>3. AreJoined(known, <<>>)
  BY NoneIsList DEF AreJoined
<1>4. \A k \in 0 .. Len(conversations) - 1 : \A acc :
        AreJoined(known, acc) => AreJoined(known, MergeFlow(acc, conversations[k + 1]))
  <2> TAKE k \in 0 .. Len(conversations) - 1
  <2>1. k + 1 \in DOMAIN conversations
    BY <1>2
  <2> QED
    BY <2>1, MergeFlowJoined DEF AreJoined
<1>5. AreJoined(known, Conversing!Table(known, <<>>, conversations)[DOMAIN conversations])
  BY <1>2, <1>3, <1>4, Conversing!FoldKeeps, InductionHolds
<1>6. final.flows = FoldLeft(MergeFlow, <<>>, conversations)
  BY DEF Finalize
<1>7. Grows(known, final.assets)
  BY FinalizeSettled DEF Settled
<1> HIDE DEF final
<1>8. AreJoined(final.assets, final.flows)
  BY <1>1, <1>5, <1>6, <1>7, JoinedStay
<1> QED
  BY <1>8 DEF final

LEMMA BothJoined ==
  ASSUME NEW known, NEW s, NEW t, AreJoined(known, s), AreJoined(known, t)
  PROVE  AreJoined(known, s \o t)
<1>1. /\ s \in Seq(ToSet(s)) /\ Len(s) \in Nat /\ DOMAIN s = 1 .. Len(s)
      /\ t \in Seq(ToSet(t)) /\ Len(t) \in Nat /\ DOMAIN t = 1 .. Len(t)
  BY ListHas DEF AreJoined
<1> DEFINE st == s \o t
           S == ToSet(s) \cup ToSet(t)
<1>2. s \in Seq(S) /\ t \in Seq(S)
  BY <1>1
<1> HIDE DEF S
<1>3. /\ st \in Seq(S) /\ Len(st) = Len(s) + Len(t)
      /\ \A i \in 1 .. Len(s) + Len(t) : st[i] = IF i <= Len(s) THEN s[i] ELSE t[i - Len(s)]
  BY <1>1, <1>2
<1> HIDE DEF st
<1>4. IsList(st) /\ DOMAIN st = 1 .. Len(s) + Len(t)
  BY <1>3, ListOf
<1>5. \A i \in DOMAIN st : IF i <= Len(s) THEN i \in DOMAIN s ELSE i - Len(s) \in DOMAIN t
  BY <1>1, <1>4
<1>6. \A i \in DOMAIN st : Joined(known, st[i])
  BY <1>1, <1>3, <1>4, <1>5 DEF AreJoined
<1>7. AreJoined(known, st)
  BY <1>4, <1>6 DEF AreJoined
<1> QED
  BY <1>7 DEF st

(* What is written to the file. *)
LEMMA FinishJoined ==
  ASSUME NEW open, Finish, Sits(assets, open), AreEnded(flows, assets),
         Sits(saved.assets, open), AreJoined(saved.assets, saved.flows)
  PROVE  Sits(saved'.assets, open) /\ AreJoined(saved'.assets, saved'.flows)
<1> DEFINE resolved == [i \in DOMAIN flows |-> Resolved(flows[i])]
           run == Finalize(assets, resolved)
           merged == Merge(saved.assets, run.assets)
<1>1. AreJoined(assets, resolved)
  <2>1. DOMAIN flows = 1 .. Len(flows) /\ Len(flows) \in Nat
    BY ListHas DEF AreEnded
  <2>2. \A i \in DOMAIN flows : Joined(assets, resolved[i])
    BY ResolvedJoined DEF AreEnded
  <2>3. DOMAIN resolved = DOMAIN flows /\ resolved = [i \in 1 .. Len(flows) |-> resolved[i]]
    BY <2>1
  <2> HIDE DEF resolved
  <2>4. IsList(resolved)
    BY <2>1, <2>3, ListFrom
  <2> QED
    BY <2>2, <2>3, <2>4 DEF AreJoined
<1>2. saved' = IF commands[command].merge THEN Finalize(merged, saved.flows \o run.flows)
               ELSE Finalize(run.assets, run.flows)
  BY DEF Finish
<1> HIDE DEF resolved
<1>3. Sits(run.assets, open) /\ AreJoined(run.assets, run.flows)
  BY <1>1, FinalizeSettled, FinalizeJoined
<1> HIDE DEF run
<1>4. /\ Sits(Finalize(run.assets, run.flows).assets, open)
      /\ AreJoined(Finalize(run.assets, run.flows).assets, Finalize(run.assets, run.flows).flows)
  BY <1>3, FinalizeSettled, FinalizeJoined
<1>5. Sits(merged, open) /\ Grows(saved.assets, merged) /\ Grows(run.assets, merged)
  BY <1>3, MergeSettled DEF Settled
<1> HIDE DEF merged
<1>6. AreJoined(merged, saved.flows \o run.flows)
  BY <1>3, <1>5, JoinedStay, BothJoined
<1> DEFINE conversations == saved.flows \o run.flows
<1> HIDE DEF conversations
<1>7. /\ Sits(Finalize(merged, conversations).assets, open)
      /\ AreJoined(Finalize(merged, conversations).assets, Finalize(merged, conversations).flows)
  BY <1>5, <1>6, FinalizeSettled, FinalizeJoined DEF conversations
<1> QED
  BY <1>2, <1>4, <1>7 DEF conversations

-----------------------------------------------------------------------------
(* What a capture teaches, and what is said of the inputs. *)

(* The frames that are read are the first of the capture. *)
LEMMA FramesAre ==
  ASSUME NEW capture, IsList(capture)
  PROVE  /\ IsList(Frames(capture)) /\ DOMAIN Frames(capture) = 1 .. Len(Frames(capture))
         /\ \A i \in DOMAIN Frames(capture) : i \in DOMAIN capture /\ Frames(capture)[i] = capture[i]
<1> DEFINE n == Min({Len(capture), MaxPacketsPerFile})
<1>1. Len(capture) \in Nat /\ DOMAIN capture = 1 .. Len(capture) /\ capture \in Seq(ToSet(capture))
  BY ListHas
<1>2. n \in Nat /\ n <= Len(capture)
  <2>1. MaxPacketsPerFile \in Nat
    BY LimitsAssumption
  <2>2. {Len(capture), MaxPacketsPerFile} \in SUBSET Nat /\ {Len(capture), MaxPacketsPerFile} # {}
    BY <1>1, <2>1
  <2> QED
    BY <1>1, <2>1, <2>2, MinIsLeast
<1>3. Frames(capture) = SubSeq(capture, 1, n)
  BY DEF Frames
<1> HIDE DEF n
<1> DEFINE s == SubSeq(capture, 1, n)
<1>4. Len(s) = n /\ s \in Seq(ToSet(capture)) /\ \A i \in 1 .. n : s[i] = capture[i]
  BY <1>1, <1>2
<1> HIDE DEF s
<1>5. IsList(s) /\ DOMAIN s = 1 .. Len(s)
  BY <1>4, ListOf
<1> QED
  BY <1>1, <1>2, <1>3, <1>4, <1>5 DEF s

(* The pairs of the tables are hardware addresses with IP addresses. *)
ArePlaced(tables) ==
  /\ tables = [arp |-> tables.arp, observed |-> tables.observed]
  /\ \A pair \in tables.arp \cup tables.observed : IsMac(pair[1]) /\ IsIP(pair[2])

LEMMA LearnPlaced ==
  ASSUME NEW tables, ArePlaced(tables), NEW frame, IsPlacedFrame(frame)
  PROVE  ArePlaced(Learn(tables, frame))
<1>1. CASE frame.kind = "arp"
  <2> DEFINE pair == <<frame.mac, frame.ip>>
             arp == tables.arp \cup {pair}
             more == [tables EXCEPT !.arp = arp]
  <2>1. Learn(tables, frame) = more
    BY <1>1 DEF Learn
  <2>2. IsMac(pair[1]) /\ IsIP(pair[2])
    BY <1>1 DEF IsPlacedFrame
  <2>3. more = [arp |-> arp, observed |-> tables.observed]
    BY DEF ArePlaced
  <2> HIDE DEF more, pair
  <2>4. ArePlaced(more)
    BY <2>2, <2>3 DEF ArePlaced
  <2> QED
    BY <2>1, <2>4
<1>2. CASE frame.kind \in {"ip", "other"} /\ Usable(frame.mac)
  <2> DEFINE pair == <<frame.mac, frame.src>>
             seen == tables.observed \cup {pair}
             more == [tables EXCEPT !.observed = seen]
  <2>1. Learn(tables, frame) = more
    BY <1>2 DEF Learn
  <2>2. IsMac(pair[1]) /\ IsIP(pair[2])
    BY <1>2 DEF IsPlacedFrame
  <2> HIDE DEF seen
  <2>3. more = [arp |-> tables.arp, observed |-> seen]
    BY DEF ArePlaced
  <2> HIDE DEF more, pair
  <2>4. ArePlaced(more)
    BY <2>2, <2>3 DEF ArePlaced, seen
  <2> QED
    BY <2>1, <2>4
<1>3. CASE ~ frame.kind = "arp" /\ ~ (frame.kind \in {"ip", "other"} /\ Usable(frame.mac))
  <2>1. Learn(tables, frame) = tables
    BY <1>3 DEF Learn
  <2> QED
    BY <2>1
<1> QED
  BY <1>1, <1>2, <1>3

Learning == INSTANCE Folding_proofs WITH
  Op <- LAMBDA ctx, tables, frame : Learn(tables, frame),
  Good <- LAMBDA ctx, k, tables : ArePlaced(tables)

LEMMA LearnedPlaced ==
  ASSUME NEW capture, IsList(capture), \A i \in DOMAIN capture : IsPlacedFrame(capture[i])
  PROVE  ArePlaced(Learned(capture))
<1> DEFINE s == Frames(capture)
           none == [arp |-> {}, observed |-> {}]
<1>1. Learned(capture) = Learning!Table(0, none, s)[DOMAIN s]
  BY DEF Learned, FoldLeft, MapThenFoldSet, Max, Learning!Table, Learning!Row, Learning!Top
<1>2. DOMAIN s = 1 .. Len(s) /\ Len(s) \in Nat /\ \A i \in DOMAIN s : IsPlacedFrame(s[i])
  BY FramesAre, ListHas
<1>3. ArePlaced(none)
  BY DEF ArePlaced
<1> HIDE DEF s, none
<1>4. \A k \in 0 .. Len(s) - 1 : \A acc : ArePlaced(acc) => ArePlaced(Learn(acc, s[k + 1]))
  BY <1>2, LearnPlaced
<1>5. ArePlaced(Learning!Table(0, none, s)[DOMAIN s])
  BY <1>2, <1>3, <1>4, Learning!FoldKeeps, InductionHolds
<1> QED
  BY <1>1, <1>5

LEMMA PlacedBinds ==
  ASSUME NEW tables, ArePlaced(tables), NEW bound \in Bindings(tables)
  PROVE  BindsHome(bound)
<1> DEFINE macToIP == MacToIP(tables)
           ips == {p[2] : p \in macToIP}
<1>1. \A pair \in macToIP : IsHome(pair[2]) /\ IsNoIP(pair[1])
  <2> SUFFICES ASSUME NEW pair \in macToIP PROVE IsHome(pair[2]) /\ IsNoIP(pair[1])
    OBVIOUS
  <2>1. PICK table \in {tables.arp, tables.observed} : pair \in Announced(table)
    BY DEF MacToIP
  <2>2. pair \in table /\ Usable(pair[1]) /\ Usable(pair[2])
    BY <2>1 DEF Announced, Sole
  <2>3. IsMac(pair[1]) /\ IsIP(pair[2])
    BY <2>1, <2>2 DEF ArePlaced
  <2> QED
    BY <2>2, <2>3, IPIsHome DEF IsMac
<1>2. PICK chosen \in [ips -> Macs(macToIP)] : bound = [macToIP |-> macToIP, ipToMAC |-> chosen]
  BY DEF Bindings
<1>3. \A mac \in Macs(macToIP) : IsNoIP(mac)
  BY <1>1 DEF Macs
<1> HIDE DEF macToIP
<1>4. \A ip \in ips : chosen[ip] \in Macs(macToIP)
  BY <1>2
<1>5. bound.macToIP = macToIP /\ bound.ipToMAC = chosen /\ DOMAIN chosen = ips
  BY <1>2
<1> HIDE DEF ips
<1> QED
  BY <1>1, <1>3, <1>4, <1>5 DEF BindsHome

(* The captures that have been read are of commands that were given. *)
LEMMA CommandsAre ==
  ASSUME IInv, NEW i \in 1 .. command
  PROVE  commands[i] \in ToSet(commands)
<1>1. DOMAIN commands = 1 .. Len(commands) /\ Len(commands) \in Nat
      /\ \A j \in DOMAIN commands : commands[j] \in ToSet(commands)
  BY InputsAssumption, ListHas DEF IInv, Staged
<1>2. i \in DOMAIN commands
  BY <1>1 DEF IInv, Staged
<1> QED
  BY <1>1, <1>2

LEMMA IPsAre ==
  /\ \A frame \in AllFrames : FrameIPs(frame) \ {NoAddress} \subseteq IPsRead
  /\ \A host \in AllHosts : HostIPs(host) \ {NoAddress} \subseteq IPsRead
  /\ \A record \in AllRecords : RecordIPs(record) \ {NoAddress} \subseteq IPsRead
<1> DEFINE OfFrames == {FrameIPs(frame) : frame \in AllFrames}
           OfHosts == {HostIPs(host) : host \in AllHosts}
           OfRecords == {RecordIPs(r) : r \in AllRecords}
<1>1. IPsRead = (UNION (OfFrames \cup OfHosts \cup OfRecords)) \ {NoAddress}
  BY DEF IPsRead
<1>2. \A frame \in AllFrames : FrameIPs(frame) \in OfFrames
  OBVIOUS
<1>3. \A host \in AllHosts : HostIPs(host) \in OfHosts
  OBVIOUS
<1>4. \A record \in AllRecords : RecordIPs(record) \in OfRecords
  OBVIOUS
<1> HIDE DEF OfFrames, OfHosts, OfRecords
<1> QED
  BY <1>1, <1>2, <1>3, <1>4

LEMMA FrameIsPlaced ==
  ASSUME NEW frame \in AllFrames
  PROVE  IsPlacedFrame(frame)
<1>1. FrameIPs(frame) \ {NoAddress} \subseteq IPsRead /\ frame.mac \in MacsRead
  BY IPsAre DEF MacsRead
<1>2. \A ip \in FrameIPs(frame) : Usable(ip) => IsOwn(ip)
  BY <1>1, ReadIsOwn DEF Usable
<1>3. IsMac(frame.mac)
  BY <1>1, MacIsNoIP DEF IsMac, Usable
<1> QED
  BY <1>2, <1>3 DEF IsPlacedFrame, IsIP, FrameIPs

LEMMA HostIsPlaced ==
  ASSUME NEW host \in AllHosts
  PROVE  IsPlacedHost(host)
<1> SUFFICES ASSUME host.state \in {"", "up"} PROVE IsPlacedHost(host)
  BY DEF IsPlacedHost
<1>1. HostIPs(host) \ {NoAddress} \subseteq IPsRead /\ host.mac \in MacsRead
  BY IPsAre DEF MacsRead
<1>2. HostIPs(host) = {host.v4, host.v6}
  BY DEF HostIPs
<1> QED
  BY <1>1, <1>2, ReadIsOwn, MacIsNoIP DEF IsPlacedHost

LEMMA RecordIsPlaced ==
  ASSUME NEW record \in AllRecords
  PROVE  IsPlacedRecord(record)
<1>1. RecordIPs(record) \ {NoAddress} \subseteq IPsRead
  BY IPsAre
<1>2. \A ip \in RecordIPs(record) : IsIP(ip)
  BY <1>1, ReadIsOwn DEF IsIP, Usable
<1>3. record.kind = "dhcp" => IsMac(record.mac)
  <2>1. record.kind = "dhcp" => record.mac \in MacsRead
    BY DEF MacsRead
  <2> QED
    BY <2>1, MacIsNoIP DEF IsMac, Usable
<1>4. record.kind = "conn" \/ record.kind \in ICSKinds => RecordIPs(record) = {record.orig, record.resp}
  BY DEF RecordIPs, ICSKinds
<1>5. record.kind \in {"known_hosts", "known_services", "software", "dhcp"} => RecordIPs(record) = {record.host}
  BY DEF RecordIPs, ICSKinds
<1>6. record.kind = "dns" => RecordIPs(record) = ToSet(record.answers)
  BY DEF RecordIPs, ICSKinds
<1> QED
  BY <1>2, <1>3, <1>4, <1>5, <1>6 DEF IsPlacedRecord, ToSet

LEMMA CapturePlaced ==
  ASSUME IInv, NEW capture \in ReadSoFar
  PROVE  IsList(capture) /\ \A i \in DOMAIN capture : IsPlacedFrame(capture[i])
<1>1. PICK i \in 1 .. command : capture \in ToSet(commands[i].captures)
  BY DEF ReadSoFar
<1>2. commands \in Commands /\ commands[i] \in ToSet(commands)
  BY CommandsAre DEF IInv, Staged
<1>3. ToSet(capture) \subseteq AllFrames
  BY <1>1, <1>2 DEF AllFrames, AllCommands
<1>4. IsList(capture)
  <2>1. PICK j \in DOMAIN commands : commands[j] = commands[i]
    BY <1>2 DEF ToSet
  <2> QED
    BY <1>1, <1>2, <2>1, InputsAssumption
<1> QED
  BY <1>3, <1>4, ListHas, FrameIsPlaced

LEMMA HostsArePlaced ==
  ASSUME IInv, NEW host \in Hosts
  PROVE  IsPlacedHost(host)
<1>1. PICK i \in 1 .. command : host \in ToSet(commands[i].hosts)
  BY DEF Hosts
<1>2. commands \in Commands /\ commands[i] \in ToSet(commands)
  BY CommandsAre DEF IInv, Staged
<1>3. host \in AllHosts
  BY <1>1, <1>2 DEF AllHosts, AllCommands
<1> QED
  BY <1>3, HostIsPlaced

LEMMA RecordsArePlaced ==
  ASSUME IInv, NEW record \in Records
  PROVE  IsPlacedRecord(record)
<1>1. PICK i \in 1 .. command : record \in UNION {RecordsOf(log) : log \in ToSet(commands[i].logs)}
  BY DEF Records
<1>2. PICK log \in ToSet(commands[i].logs) : record \in RecordsOf(log)
  BY <1>1
<1>3. commands \in Commands /\ commands[i] \in ToSet(commands)
  BY CommandsAre DEF IInv, Staged
<1>4. record \in AllRecords
  BY <1>2, <1>3 DEF AllRecords, AllCommands
<1> QED
  BY <1>4, RecordIsPlaced

LEMMA FrameIsSeen ==
  ASSUME NEW capture \in ReadSoFar, NEW frame \in ToSet(Frames(capture)), frame.kind = "ip", Speaks(frame)
  PROVE  Sender(frame) \in SeenOpen
<1>1. frame \in Packets
  BY DEF Packets, Wire
<1>2. Sender(frame) \in SpokenOpen
  BY <1>1 DEF SpokenOpen, Sender, Speaks
<1> QED
  BY <1>2 DEF SeenOpen

LEMMA HostIsSeen ==
  ASSUME NEW host \in Hosts
  PROVE  ShownByHost(host, SeenOpen)
<1>1. OpenPortsOf(host) \subseteq ScannedOpen /\ ScannedOpen \subseteq SeenOpen
  <2>1. OpenPortsOf(host) \subseteq ScannedOpen
    BY DEF ScannedOpen
  <2> QED
    BY <2>1 DEF SeenOpen
<1>2. \A p \in ToSet(host.ports) : \A ip \in {host.v4, host.v6} \ {NoAddress} :
        p.open => <<ip, p.port, p.transport>> \in OpenPortsOf(host)
  BY DEF OpenPortsOf
<1> QED
  BY <1>1, <1>2 DEF ShownByHost

LEMMA RecordIsSeen ==
  ASSUME NEW record \in Records
  PROVE  ShownByRecord(record, SeenOpen)
<1>1. ConnectedOpen \subseteq SeenOpen /\ ServedOpen \subseteq SeenOpen
  BY DEF SeenOpen
<1>2. record.kind = "conn" /\ record.packets # 0 /\ record.state \notin {"S0", "REJ", "SH"}
        => <<record.resp, record.port, record.transport>> \in ConnectedOpen
  BY DEF ConnectedOpen
<1>3. record.kind = "known_services" => <<record.host, record.port, record.transport>> \in ServedOpen
  BY DEF ServedOpen
<1> QED
  BY <1>1, <1>2, <1>3 DEF ShownByRecord

(* No command is forgotten. *)
LEMMA SeenStays ==
  ASSUME IInv, commands' = commands, command' \in {command, command + 1}
  PROVE  SeenOpen \subseteq SeenOpen' /\ Hosts \subseteq Hosts' /\ Records \subseteq Records'
<1>1. command \in Nat
  BY InputsAssumption, ListHas DEF IInv, Staged
<1>2. 1 .. command \subseteq 1 .. command'
  BY <1>1
<1>3. ReadSoFar \subseteq ReadSoFar'
  BY <1>2 DEF ReadSoFar
<1>4. Packets \subseteq Packets'
  <2>1. Wire \subseteq Wire'
    BY <1>3 DEF Wire
  <2> QED
    BY <2>1 DEF Packets
<1>5. Hosts \subseteq Hosts'
  BY <1>2 DEF Hosts
<1>6. Records \subseteq Records'
  BY <1>2 DEF Records
<1>7. SpokenOpen \subseteq SpokenOpen' /\ ConnectedOpen \subseteq ConnectedOpen' /\ ServedOpen \subseteq ServedOpen'
  BY <1>4, <1>6 DEF SpokenOpen, ConnectedOpen, ServedOpen
<1>8. ScannedOpen \subseteq ScannedOpen'
  BY <1>5 DEF ScannedOpen
<1> QED
  BY <1>4, <1>5, <1>6, <1>7, <1>8 DEF SeenOpen

LEMMA InputsStay ==
  ASSUME commands' = commands, command' = command
  PROVE  /\ SeenOpen' = SeenOpen /\ Hosts' = Hosts /\ Records' = Records /\ (Sound' <=> Sound)
         /\ ReadSoFar' = ReadSoFar
<1>1. ReadSoFar' = ReadSoFar /\ Hosts' = Hosts /\ Records' = Records
  BY DEF ReadSoFar, Hosts, Records
<1>2. Packets' = Packets
  BY <1>1 DEF Packets, Wire
<1> QED
  BY <1>1, <1>2 DEF SeenOpen, SpokenOpen, ScannedOpen, ConnectedOpen, ServedOpen, Sound

-----------------------------------------------------------------------------
(* Where everything is, step after step. *)

(* What is left to read is of the commands that were given. *)
IsGiven(l, kind, hosts, records) ==
  /\ \A i \in DOMAIN l.hosts : l.hosts[i] \in hosts
  /\ \A i \in DOMAIN l.logs : RecordsOf(l.logs[i]) \subseteq records
  /\ l.logs # <<>> => RecordsOf(ReadAs(kind, l.logs)) \subseteq records

(* In the inventories what is served is seen open, and the ends of what is  *)
(* heard are assets.                                                        *)
IsHoused ==
  /\ Housed(assets, SeenOpen) /\ Housed(saved.assets, SeenOpen)
  /\ BindsHome(bindings)
  /\ stage = "write" => \A i \in DOMAIN SortedFlows(pass) :
       Present(assets, SortedFlows(pass)[i][1]) /\ Present(assets, SortedFlows(pass)[i][2])
  /\ AreEnded(flows, assets)
  /\ AreJoined(saved.assets, saved.flows)

HInv ==
  /\ IsGiven(left, header.kind, Hosts, Records)
  /\ IsPlacedPass(pass, SeenOpen)
  /\ Sound => IsHoused

LEMMA HeaderIsGiven ==
  ASSUME NEW logs, IsList(logs), NEW records, \A k \in DOMAIN logs : RecordsOf(logs[k]) \subseteq records,
         logs # <<>>
  PROVE  RecordsOf(ReadAs(HeaderOf(logs).kind, logs)) \subseteq records
<1> DEFINE log == Head(logs)
           kind == HeaderOf(logs).kind
<1>1. RecordsOf(log) \subseteq records
  BY TailIsList
<1>2. kind = log.kind
  BY DEF HeaderOf, NoHeader
<1> HIDE DEF log, kind
<1> DEFINE taken == [kind |-> kind, lines |-> log.lines]
<1>3. taken.kind = log.kind /\ taken.lines = log.lines
  BY <1>2
<1> HIDE DEF taken
<1>4. RecordsOf(taken) = RecordsOf(log)
  BY <1>3 DEF RecordsOf
<1> QED
  BY <1>1, <1>4 DEF ReadAs, taken, log, kind

LEMMA TailIsGiven ==
  ASSUME NEW log, IsList(log.lines), log.lines # <<>>,
         NEW kind, \/ kind = log.kind
                   \/ Head(log.lines).line = "path" /\ kind = Head(log.lines).kind
  PROVE  RecordsOf([kind |-> kind, lines |-> Tail(log.lines)]) \subseteq RecordsOf(log)
<1> DEFINE lines == ToSet(log.lines)
           rest == ToSet(Tail(log.lines))
           Kinds(k, ls) == {k} \cup {l.kind : l \in {m \in ls : m.line = "path"}}
<1>1. rest \subseteq lines /\ Head(log.lines) \in lines
  BY TailIsList DEF ToSet
<1>2. kind \in Kinds(log.kind, lines)
  BY <1>1
<1>3. Kinds(kind, rest) \subseteq Kinds(log.kind, lines)
  BY <1>1, <1>2
<1> DEFINE taken == [kind |-> kind, lines |-> Tail(log.lines)]
<1>4. RecordsOf(taken) = {[l.record EXCEPT !.kind = k] :
                            l \in {m \in rest : m.line \in {"json", "tsv"}}, k \in Kinds(kind, rest)}
  BY DEF RecordsOf
<1>5. RecordsOf(log) = {[l.record EXCEPT !.kind = k] :
                          l \in {m \in lines : m.line \in {"json", "tsv"}}, k \in Kinds(log.kind, lines)}
  BY DEF RecordsOf
<1> HIDE DEF lines, rest, Kinds, taken
<1>6. RecordsOf(taken) \subseteq RecordsOf(log)
  BY <1>1, <1>3, <1>4, <1>5
<1> QED
  BY <1>6 DEF taken

LEMMA ScheduledIsGiven ==
  ASSUME NEW list \in Commands, NEW i \in 1 .. Len(list), NEW hosts, NEW records,
         ToSet(list[i].hosts) \subseteq hosts,
         UNION {RecordsOf(log) : log \in ToSet(list[i].logs)} \subseteq records
  PROVE  LET l == Scheduled(list[i]) IN IsGiven(l, HeaderOf(list[i].logs).kind, hosts, records)
<1> DEFINE c == list[i]
           l == Scheduled(c)
<1>1. c \in ToSet(list) /\ i \in DOMAIN list
  BY InputsAssumption, ListHas
<1>2. IsScan(c.hosts) /\ AreLogs(c.logs)
  BY <1>1, InputsAssumption
<1>3. l.hosts = c.hosts /\ l.logs = c.logs
  BY DEF Scheduled
<1>4. ToSet(c.hosts) \subseteq hosts /\ \A log \in ToSet(c.logs) : RecordsOf(log) \subseteq records
  OBVIOUS
<1> HIDE DEF c, l
<1>5. /\ \A k \in DOMAIN c.hosts : c.hosts[k] \in hosts
      /\ \A k \in DOMAIN c.logs : RecordsOf(c.logs[k]) \subseteq records
  BY <1>4 DEF ToSet
<1>6. c.logs # <<>> => RecordsOf(ReadAs(HeaderOf(c.logs).kind, c.logs)) \subseteq records
  BY <1>2, <1>5, HeaderIsGiven DEF AreLogs
<1> QED
  BY <1>3, <1>5, <1>6 DEF IsGiven, c, l

(* The line that is read, and what is left after it. *)
LEMMA LineIsGiven ==
  ASSUME IInv, InLog, Lines # <<>>, NextLine, NEW hosts, NEW records, IsGiven(left, header.kind, hosts, records),
         \/ header'.kind = header.kind
         \/ Head(Lines).line = "path" /\ header'.kind = Head(Lines).kind
  PROVE  IsGiven(left', header'.kind, hosts, records)
<1>1. AreLogs(left.logs) /\ left.logs # <<>>
  BY DEF IInv, IsLeft, InLog
<1>2. 1 \in DOMAIN left.logs /\ Head(left.logs) = left.logs[1] /\ IsLog(left.logs[1])
  BY <1>1, TailIsList DEF AreLogs
<1>3. IsList(Lines) /\ Lines = left.logs[1].lines
  BY <1>2 DEF IsLog, Lines
<1> DEFINE rest == Tail(Lines)
           log == [left.logs[1] EXCEPT !.lines = rest]
           logs == [left.logs EXCEPT ![1] = log]
<1>4. left' = [left EXCEPT !.logs = logs]
  BY <1>2 DEF NextLine, Lines, IInv, IsLeft
<1>5. log = [kind |-> left.logs[1].kind, lines |-> rest]
  BY <1>2 DEF IsLog
<1>6. RecordsOf(log) \subseteq records
  <2>1. RecordsOf(left.logs[1]) \subseteq records
    BY <1>2 DEF IsGiven
  <2>2. RecordsOf([kind |-> left.logs[1].kind, lines |-> Tail(left.logs[1].lines)]) \subseteq RecordsOf(left.logs[1])
    BY <1>3, TailIsGiven
  <2> QED
    BY <1>3, <1>5, <2>1, <2>2
<1>7. RecordsOf([kind |-> header'.kind, lines |-> rest]) \subseteq records
  <2> DEFINE taken == [kind |-> header.kind, lines |-> Lines]
  <2>1. RecordsOf(taken) \subseteq records /\ taken.kind = header.kind /\ taken.lines = Lines
    BY <1>1 DEF IsGiven, ReadAs, Lines
  <2> HIDE DEF taken
  <2>2. RecordsOf([kind |-> header'.kind, lines |-> Tail(taken.lines)]) \subseteq RecordsOf(taken)
    BY <1>3, <2>1, TailIsGiven
  <2> QED
    BY <2>1, <2>2
<1> HIDE DEF rest
<1>8. log.lines = rest
  BY <1>5
<1> HIDE DEF log
<1>9. /\ IsList(logs) /\ DOMAIN logs = DOMAIN left.logs
      /\ \A k \in DOMAIN left.logs : logs[k] = IF k = 1 THEN log ELSE left.logs[k]
  <2>1. IsList(left.logs)
    BY <1>1 DEF AreLogs
  <2> QED
    BY <2>1, ChangeIsList
<1> HIDE DEF logs
<1>10. left'.hosts = left.hosts /\ left'.logs = logs
  BY <1>4 DEF IInv, IsLeft
<1>11. Head(logs) = log
  BY <1>2, <1>9, TailIsList
<1>12. \A k \in DOMAIN logs : RecordsOf(logs[k]) \subseteq records
  BY <1>6, <1>9 DEF IsGiven
<1> QED
  BY <1>7, <1>8, <1>10, <1>11, <1>12 DEF ReadAs, IsGiven

(* What the invariants say of the inventories. *)
LEMMA SitsNow ==
  ASSUME IInv, TInv, HInv, Sound
  PROVE  Sits(assets, SeenOpen) /\ Sits(saved.assets, SeenOpen) /\ IsBound(bindings) /\ IsHoused
  BY DEF IInv, TInv, HInv, IsHoused, Sits

(* Where the inventory alone has changed. *)
LEMMA HousedAfter ==
  ASSUME IInv, TInv, HInv, Sound, Settled(assets, assets', SeenOpen), SeenOpen' = SeenOpen,
         saved' = saved, flows' = flows, stage' # "write" \/ stage = "write", SortedFlows(pass') = SortedFlows(pass),
         BindsHome(bindings')
  PROVE  IsHoused'
<1>1. IsHoused /\ Housed(assets', SeenOpen) /\ Grows(assets, assets')
  BY DEF HInv, Settled
<1>2. AreEnded(flows, assets')
  BY <1>1, EndedStays DEF IsHoused
<1>3. ASSUME stage' = "write", NEW i \in DOMAIN SortedFlows(pass)
      PROVE  Present(assets', SortedFlows(pass)[i][1]) /\ Present(assets', SortedFlows(pass)[i][2])
  <2>1. /\ Present(assets, SortedFlows(pass)[i][1]) /\ Present(assets, SortedFlows(pass)[i][2])
    BY <1>1, <1>3 DEF IsHoused
  <2>2. SortedFlows(pass)[i] \in DOMAIN pass.flows
    BY SortedFlowsAreKept DEF IInv, TInv
  <2>3. SortedFlows(pass)[i][1] # NoAddress /\ SortedFlows(pass)[i][2] # NoAddress
    BY <2>2 DEF HInv, IsPlacedPass, IsHome
  <2> QED
    BY <1>1, <2>1, <2>3, PresentStays
<1> QED
  BY <1>1, <1>2, <1>3 DEF IsHoused

LEMMA NewPassIsPlaced ==
  ASSUME NEW open
  PROVE  IsPlacedPass(NewPass, open)
  BY NoneIsList DEF IsPlacedPass, NewPass

LEMMA UnboundBindsHome == BindsHome(Unbound)
  BY NoneIsList DEF BindsHome, Unbound

LEMMA NoneIsHoused ==
  ASSUME NEW open
  PROVE  /\ Housed(<<>>, open)
         /\ \A known : AreEnded(<<>>, known) /\ AreJoined(known, <<>>)
  BY NoneIsList DEF Housed, AreEnded, AreJoined

LEMMA InitIsHoused == Init => HInv
<1> SUFFICES ASSUME Init PROVE HInv
  OBVIOUS
<1>1. commands \in Commands /\ 1 \in 1 .. Len(commands)
  <2>1. IsList(commands) /\ commands # <<>>
    BY InputsAssumption DEF Init
  <2> QED
    BY <2>1, TailIsList, ListHas DEF Init
<1>2. /\ ToSet(commands[1].hosts) \subseteq Hosts
      /\ UNION {RecordsOf(log) : log \in ToSet(commands[1].logs)} \subseteq Records
  BY DEF Init, Hosts, Records
<1>3. IsGiven(Scheduled(commands[1]), HeaderOf(commands[1].logs).kind, Hosts, Records)
  BY <1>1, <1>2, ScheduledIsGiven
<1>4. IsGiven(left, header.kind, Hosts, Records)
  BY <1>3 DEF Init
<1>5. IsPlacedPass(pass, SeenOpen)
  BY NewPassIsPlaced DEF Init
<1>6. IsHoused
  <2>1. Housed(assets, SeenOpen) /\ Housed(saved.assets, SeenOpen)
    BY NoneIsHoused DEF Init
  <2>2. AreEnded(flows, assets) /\ AreJoined(saved.assets, saved.flows)
    BY NoneIsHoused DEF Init
  <2>3. BindsHome(bindings) /\ stage # "write"
    BY UnboundBindsHome DEF Init
  <2> QED
    BY <2>1, <2>2, <2>3 DEF IsHoused
<1> QED
  BY <1>4, <1>5, <1>6 DEF HInv

LEMMA ScanBindingsHoused == IInv /\ TInv /\ HInv /\ ScanBindings => HInv'
<1> SUFFICES ASSUME IInv, TInv, HInv, ScanBindings PROVE HInv'
  OBVIOUS
<1> DEFINE capture == Head(left.captures)
<1>1. /\ SeenOpen' = SeenOpen /\ Hosts' = Hosts /\ Records' = Records /\ (Sound' <=> Sound)
  BY InputsStay DEF ScanBindings, ingesting
<1>2. IsPlacedPass(pass', SeenOpen)
  BY NewPassIsPlaced DEF ScanBindings
<1>3. BindsHome(bindings')
  <2>1. capture \in ReadSoFar
    BY CaptureIsTrue DEF ScanBindings
  <2>2. IsList(capture) /\ \A i \in DOMAIN capture : IsPlacedFrame(capture[i])
    BY <2>1, CapturePlaced
  <2>3. bindings' \in Bindings(Learned(capture))
    BY DEF ScanBindings
  <2> HIDE DEF capture
  <2> QED
    BY <2>2, <2>3, LearnedPlaced, PlacedBinds
<1>4. ASSUME Sound PROVE IsHoused'
  <2>1. SeenOpen' = SeenOpen
    BY <1>1
  <2>2. IsHoused
    BY <1>4 DEF HInv
  <2> QED
    BY <1>3, <2>1, <2>2 DEF IsHoused, ScanBindings, ingesting
<1> QED
  BY <1>1, <1>2, <1>4 DEF HInv, ScanBindings, ingesting

LEMMA HandleFrameHoused == IInv /\ TInv /\ HInv /\ HandleFrame => HInv'
<1> SUFFICES ASSUME IInv, TInv, HInv, HandleFrame PROVE HInv'
  OBVIOUS
<1> DEFINE before == [pass |-> pass, assets |-> assets]
           capture == Head(left.captures)
           frame == capture[at + 1]
           after == Handle(before, bindings, frame)
<1>1. /\ SeenOpen' = SeenOpen /\ Hosts' = Hosts /\ Records' = Records /\ (Sound' <=> Sound)
  BY InputsStay DEF HandleFrame, ingesting
<1>2. IsState(before) /\ before.pass = pass /\ before.assets = assets
  BY DEF IInv, IsState
<1>3. left.captures # <<>>
  BY DEF HandleFrame, IInv, Staged
<1>4. capture \in ReadSoFar /\ IsList(capture) /\ \A j \in DOMAIN capture : IsTrueFrame(capture[j])
  BY <1>3, CaptureIsTrue
<1>5. \A j \in DOMAIN capture : IsPlacedFrame(capture[j])
  BY <1>4, CapturePlaced
<1>6. /\ IsTrueFrame(frame) /\ IsPlacedFrame(frame) /\ frame \in ToSet(Frames(capture))
  <2>1. at \in Nat /\ at < Len(Frames(capture))
    BY DEF HandleFrame, TInv
  <2> HIDE DEF capture
  <2>2. IsList(Frames(capture)) /\ DOMAIN Frames(capture) = 1 .. Len(Frames(capture))
        /\ \A i \in DOMAIN Frames(capture) : i \in DOMAIN capture /\ Frames(capture)[i] = capture[i]
    BY <1>4, FramesAre
  <2>3. at + 1 \in DOMAIN Frames(capture)
    <3>1. Len(Frames(capture)) \in Nat
      BY <2>2, ListHas
    <3> QED
      BY <2>1, <2>2, <3>1
  <2> QED
    BY <1>4, <1>5, <2>2, <2>3, ListHas
<1>7. frame.kind = "ip" /\ Speaks(frame) => Sender(frame) \in SeenOpen
  BY <1>4, <1>6, FrameIsSeen
<1>8. pass' = after.pass /\ assets' = after.assets
  BY DEF HandleFrame
<1>9. Places(before, bindings, SeenOpen, after)
  <2>1. IsHeard(before.pass)
    BY <1>2 DEF TInv
  <2> HIDE DEF before, frame
  <2> QED
    BY <1>2, <1>6, <1>7, <2>1, HandlePlaces
<1> HIDE DEF before, after
<1>10. IsPlacedPass(pass', SeenOpen)
  BY <1>2, <1>8, <1>9 DEF Places, HInv
<1>11. stage' = "replay" /\ bindings' = bindings /\ saved' = saved /\ flows' = flows
       /\ left' = left /\ header' = header /\ stage = "replay"
  BY DEF HandleFrame, ingesting
<1>12. ASSUME Sound PROVE IsHoused'
  <2>1. Sits(assets, SeenOpen) /\ IsBound(bindings) /\ IsHoused
    BY <1>12, SitsNow
  <2>2. Settled(assets, assets', SeenOpen)
    BY <1>2, <1>8, <1>9, <2>1 DEF Places, IsHoused
  <2>3. Housed(assets', SeenOpen) /\ AreEnded(flows, assets')
    BY <2>1, <2>2, EndedStays DEF IsHoused, Settled
  <2> QED
    BY <1>1, <1>11, <2>1, <2>3 DEF IsHoused
<1> QED
  BY <1>1, <1>10, <1>11, <1>12 DEF HInv

LEMMA WriteEndsHoused == IInv /\ TInv /\ HInv /\ WriteEnds => HInv'
<1> SUFFICES ASSUME IInv, TInv, HInv, WriteEnds PROVE HInv'
  OBVIOUS
<1>1. /\ SeenOpen' = SeenOpen /\ Hosts' = Hosts /\ Records' = Records /\ (Sound' <=> Sound)
  BY InputsStay DEF WriteEnds, ingesting
<1>2. pass' = pass /\ bindings' = bindings /\ saved' = saved /\ flows' = flows
      /\ left' = left /\ header' = header /\ assets' = AddEnds(assets, bindings, pass)
  BY DEF WriteEnds, ingesting
<1>3. ASSUME Sound PROVE IsHoused'
  <2>1. Sits(assets, SeenOpen) /\ IsBound(bindings) /\ IsHoused
    BY <1>3, SitsNow
  <2>2. /\ Settled(assets, assets', SeenOpen)
        /\ \A i \in DOMAIN SortedFlows(pass) :
             Present(assets', SortedFlows(pass)[i][1]) /\ Present(assets', SortedFlows(pass)[i][2])
    BY <1>2, <2>1, AddEndsSettled DEF IInv, TInv, HInv, IsHoused
  <2>3. Housed(assets', SeenOpen) /\ AreEnded(flows, assets')
    BY <2>1, <2>2, EndedStays DEF IsHoused, Settled
  <2> QED
    BY <1>1, <1>2, <2>1, <2>2, <2>3 DEF IsHoused
<1> QED
  BY <1>1, <1>2, <1>3 DEF HInv

LEMMA WriteServiceHoused ==
  ASSUME IInv, TInv, HInv, NEW service \in pass.open, WriteService(service)
  PROVE  HInv'
<1>1. /\ SeenOpen' = SeenOpen /\ Hosts' = Hosts /\ Records' = Records /\ (Sound' <=> Sound)
  BY InputsStay DEF WriteService, ingesting
<1> DEFINE addr == BoundAddresses(bindings, service[1])
           seen == ServiceSeen(pass, service)
           opened == pass.open \ {service}
<1>2. assets' = [Device(assets, addr) EXCEPT
                   ![ByAddress(Device(assets, addr), addr)] = AddService(@, seen)]
  BY DEF WriteService, Update
<1>3. pass' = [pass EXCEPT !.open = opened] /\ opened \subseteq pass.open
  BY DEF WriteService
<1>4. bindings' = bindings /\ saved' = saved /\ flows' = flows /\ left' = left /\ header' = header
      /\ stage' = stage /\ stage = "write"
  BY DEF WriteService, ingesting
<1>5. pass'.open = opened /\ pass'.flows = pass.flows
  <2> HIDE DEF opened
  <2> QED
    BY <1>3 DEF IInv, IsPass
<1>6. SortedFlows(pass') = SortedFlows(pass)
  BY <1>5 DEF SortedFlows
<1>7. IsPlacedPass(pass', SeenOpen)
  <2> HIDE DEF opened
  <2> QED
    BY <1>3, <1>5 DEF HInv, IsPlacedPass
<1>8. ASSUME Sound PROVE IsHoused'
  <2>1. Sits(assets, SeenOpen) /\ IsBound(bindings) /\ IsHoused
    BY <1>8, SitsNow
  <2>2. service = <<service[1], service[2], service[3]>> /\ IsHome(service[1]) /\ service \in SeenOpen
    BY DEF HInv, IsPlacedPass
  <2>3. service[1] # NoAddress /\ Known(service[1])
    BY <2>2 DEF TInv, IsHeard, IsAt, IsHome
  <2>4. Names(addr, Owner[service[1]])
    BY <2>1, <2>3, BoundNames
  <2>5. Home(addr, Owner[service[1]]) /\ Shows(addr, Owner[service[1]])
    BY <2>1, <2>2, BoundHome DEF IsHoused
  <2>6. {"port", "transport"} \subseteq DOMAIN seen /\ seen.port = service[2] /\ seen.transport = service[3]
    BY DEF ServiceSeen
  <2> HIDE DEF addr, seen
  <2>7. <<service[1], seen.port, seen.transport>> \in SeenOpen
    BY <2>2, <2>6
  <2>8. Settled(assets, [Device(assets, addr) EXCEPT
                           ![ByAddress(Device(assets, addr), addr)] = AddService(@, seen)], SeenOpen)
    BY <2>1, <2>2, <2>3, <2>4, <2>5, <2>6, <2>7, ServiceSettled
  <2>9. Settled(assets, assets', SeenOpen)
    BY <1>2, <2>8
  <2> QED
    BY <1>1, <1>4, <1>6, <1>8, <2>1, <2>9, HousedAfter DEF IsHoused
<1> QED
  BY <1>1, <1>4, <1>7, <1>8 DEF HInv

LEMMA BothEnded ==
  ASSUME NEW known, NEW s, NEW t, AreEnded(s, known), AreEnded(t, known)
  PROVE  AreEnded(s \o t, known)
<1>1. /\ s \in Seq(ToSet(s)) /\ Len(s) \in Nat /\ DOMAIN s = 1 .. Len(s)
      /\ t \in Seq(ToSet(t)) /\ Len(t) \in Nat /\ DOMAIN t = 1 .. Len(t)
  BY ListHas DEF AreEnded
<1> DEFINE st == s \o t
           S == ToSet(s) \cup ToSet(t)
<1>2. s \in Seq(S) /\ t \in Seq(S)
  BY <1>1
<1> HIDE DEF S
<1>3. /\ st \in Seq(S) /\ Len(st) = Len(s) + Len(t)
      /\ \A i \in 1 .. Len(s) + Len(t) : st[i] = IF i <= Len(s) THEN s[i] ELSE t[i - Len(s)]
  BY <1>1, <1>2
<1> HIDE DEF st
<1>4. IsList(st) /\ DOMAIN st = 1 .. Len(s) + Len(t)
  BY <1>3, ListOf
<1>5. \A i \in DOMAIN st : IF i <= Len(s) THEN i \in DOMAIN s ELSE i - Len(s) \in DOMAIN t
  BY <1>1, <1>4
<1>6. \A i \in DOMAIN st : Ended(st[i], known)
  BY <1>1, <1>3, <1>4, <1>5 DEF AreEnded
<1>7. AreEnded(st, known)
  BY <1>4, <1>6 DEF AreEnded
<1> QED
  BY <1>7 DEF st

LEMMA WriteFlowsHoused == IInv /\ TInv /\ HInv /\ WriteFlows => HInv'
<1> SUFFICES ASSUME IInv, TInv, HInv, WriteFlows PROVE HInv'
  OBVIOUS
<1>1. /\ SeenOpen' = SeenOpen /\ Hosts' = Hosts /\ Records' = Records /\ (Sound' <=> Sound)
  BY InputsStay DEF WriteFlows, ingesting
<1> DEFINE captures == Tail(left.captures)
<1>2. left' = [left EXCEPT !.captures = captures]
  BY DEF WriteFlows
<1>3. left'.hosts = left.hosts /\ left'.logs = left.logs
  <2> HIDE DEF captures
  <2> QED
    BY <1>2 DEF IInv, IsLeft
<1> HIDE DEF captures
<1>5. IsGiven(left', header'.kind, Hosts, Records)
  BY <1>3 DEF HInv, IsGiven, WriteFlows, ingesting
<1>6. IsPlacedPass(pass', SeenOpen)
  BY NewPassIsPlaced DEF WriteFlows
<1>7. ASSUME Sound PROVE IsHoused'
  <2>1. IsHoused
    BY <1>7 DEF HInv
  <2> DEFINE heard == FlowsSeen(pass)
             sorted == SortedFlows(pass)
  <2>2. DOMAIN sorted = 1 .. Cardinality(DOMAIN pass.flows) /\ Cardinality(DOMAIN pass.flows) \in Nat
    <3>1. IsFiniteSet(DOMAIN pass.flows)
      BY DEF IInv, IsPass
    <3> QED
      BY <3>1, FS_CardinalityType DEF SortedFlows, InOrder
  <2>3. DOMAIN heard = DOMAIN sorted
    BY DEF FlowsSeen
  <2>4. \A i \in DOMAIN heard : Ended(heard[i], assets)
    <3> SUFFICES ASSUME NEW i \in DOMAIN heard PROVE Ended(heard[i], assets)
      OBVIOUS
    <3> DEFINE key == sorted[i]
    <3>1. heard[i] = Flow(key[1], key[2], key[3], key[4], ProtocolForPort(key[3]), pass.flows[key], "pcap")
      BY DEF FlowsSeen
    <3>2. key \in DOMAIN pass.flows
      BY <2>3, SortedFlowsAreKept DEF IInv, TInv
    <3>3. Present(assets, key[1]) /\ Present(assets, key[2])
      BY <2>1, <2>3 DEF IsHoused, WriteFlows
    <3>4. IsHome(key[1]) /\ IsHome(key[2])
      BY <3>2 DEF HInv, IsPlacedPass
    <3> HIDE DEF key, heard
    <3> QED
      BY <3>1, <3>3, <3>4, FlowIsFlow DEF Ended
  <2>5. IsList(heard)
    <3>1. heard = [i \in 1 .. Cardinality(DOMAIN pass.flows) |-> heard[i]]
      BY <2>2, <2>3 DEF FlowsSeen
    <3> HIDE DEF heard, sorted
    <3> QED
      BY <2>2, <3>1, ListFrom
  <2> HIDE DEF heard, sorted
  <2>6. AreEnded(heard, assets)
    BY <2>4, <2>5 DEF AreEnded
  <2>7. AreEnded(flows \o heard, assets)
    BY <2>1, <2>6, BothEnded DEF IsHoused
  <2>8. flows' = flows \o heard /\ assets' = assets /\ saved' = saved /\ stage' = "read" /\ bindings' = Unbound
    BY DEF WriteFlows, ingesting, heard
  <2> QED
    BY <1>1, <2>1, <2>7, <2>8, UnboundBindsHome DEF IsHoused
<1> QED
  BY <1>1, <1>5, <1>6, <1>7 DEF HInv

LEMMA ScanHostHoused == IInv /\ TInv /\ HInv /\ ScanHost => HInv'
<1> SUFFICES ASSUME IInv, TInv, HInv, ScanHost PROVE HInv'
  OBVIOUS
<1> DEFINE before == [assets |-> assets, flows |-> flows]
           hosts == Tail(left.hosts)
           host == Head(left.hosts)
           after == IngestNmapHost(before, host)
<1>1. /\ SeenOpen' = SeenOpen /\ Hosts' = Hosts /\ Records' = Records /\ (Sound' <=> Sound)
  BY InputsStay DEF ScanHost, reading
<1>2. IsScan(left.hosts) /\ left.hosts # <<>>
  BY DEF IInv, IsLeft, ScanHost
<1>3. /\ 1 \in DOMAIN left.hosts /\ host = left.hosts[1]
      /\ \A i \in DOMAIN hosts : i + 1 \in DOMAIN left.hosts /\ hosts[i] = left.hosts[i + 1]
  BY <1>2, TailIsList DEF IsScan
<1>4. IsHost(host) /\ IsTrueHost(host) /\ host \in Hosts
  BY <1>2, <1>3 DEF IsScan, TInv, IsTruthful, IsTrueLeft, HInv, IsGiven
<1>5. IsPlacedHost(host) /\ ShownByHost(host, SeenOpen)
  BY <1>4, HostsArePlaced, HostIsSeen
<1>6. before = [assets |-> before.assets, flows |-> before.flows] /\ before.assets = assets /\ before.flows = flows
  OBVIOUS
<1>7. assets' = after.assets /\ flows' = after.flows /\ left' = [left EXCEPT !.hosts = hosts]
  BY DEF ScanHost
<1>8. after.flows = flows
  <2> HIDE DEF before, host
  <2>1. after = before \/ \E known : after = [before EXCEPT !.assets = known]
    BY DEF IngestNmapHost
  <2> QED
    BY <1>6, <2>1
<1> HIDE DEF before, hosts, host, after
<1>9. IsGiven(left', header'.kind, Hosts, Records)
  <2>1. left'.hosts = hosts /\ left'.logs = left.logs
    BY <1>7 DEF IInv, IsLeft
  <2> QED
    BY <1>3, <2>1 DEF HInv, IsGiven, ScanHost
<1>10. stage' = stage /\ stage = "read" /\ bindings' = bindings /\ pass' = pass /\ saved' = saved
  BY DEF ScanHost, reading, Idle
<1>11. ASSUME Sound PROVE IsHoused'
  <2>1. Sits(assets, SeenOpen) /\ IsHoused
    BY <1>11, SitsNow
  <2>2. Settled(assets, assets', SeenOpen)
    BY <1>4, <1>5, <1>6, <1>7, <2>1, HostSettled DEF after
  <2> QED
    BY <1>1, <1>7, <1>8, <1>10, <1>11, <2>1, <2>2, HousedAfter DEF IsHoused
<1> QED
  BY <1>1, <1>9, <1>10, <1>11 DEF HInv

LEMMA ReadDirectiveHoused == IInv /\ TInv /\ HInv /\ ReadDirective => HInv'
<1> SUFFICES ASSUME IInv, TInv, HInv, ReadDirective PROVE HInv'
  OBVIOUS
<1>1. /\ SeenOpen' = SeenOpen /\ Hosts' = Hosts /\ Records' = Records /\ (Sound' <=> Sound)
  BY InputsStay DEF ReadDirective, reading
<1>2. \/ header'.kind = header.kind
      \/ Head(Lines).line = "path" /\ header'.kind = Head(Lines).kind
  <2>1. CASE Head(Lines).line = "fields"
    <3>1. header' = [header EXCEPT !.named = TRUE]
      BY <2>1 DEF ReadDirective
    <3> QED
      BY <3>1
  <2>2. CASE Head(Lines).line = "path"
    <3> DEFINE kind == Head(Lines).kind
    <3>1. header' = [header EXCEPT !.kind = kind] /\ "kind" \in DOMAIN header
      BY <2>2 DEF ReadDirective, TInv
    <3> HIDE DEF kind
    <3>2. header'.kind = kind
      BY <3>1
    <3> QED
      BY <2>2, <3>2 DEF kind
  <2> QED
    BY <2>1, <2>2 DEF ReadDirective
<1>3. IsGiven(left', header'.kind, Hosts, Records)
  BY <1>2, LineIsGiven DEF ReadDirective, HInv
<1>4. Sound => IsHoused'
  BY <1>1 DEF HInv, IsHoused, ReadDirective, reading
<1> QED
  BY <1>1, <1>3, <1>4 DEF HInv, ReadDirective, reading

LEMMA SkipLineHoused == IInv /\ TInv /\ HInv /\ SkipLine => HInv'
<1> SUFFICES ASSUME IInv, TInv, HInv, SkipLine PROVE HInv'
  OBVIOUS
<1>1. /\ SeenOpen' = SeenOpen /\ Hosts' = Hosts /\ Records' = Records /\ (Sound' <=> Sound)
  BY InputsStay DEF SkipLine, reading
<1>2. IsGiven(left', header'.kind, Hosts, Records)
  BY LineIsGiven DEF SkipLine, HInv
<1>3. Sound => IsHoused'
  BY <1>1 DEF HInv, IsHoused, SkipLine, reading
<1> QED
  BY <1>1, <1>2, <1>3 DEF HInv, SkipLine, reading

LEMMA LeaveLogHoused == IInv /\ TInv /\ HInv /\ LeaveLog => HInv'
<1> SUFFICES ASSUME IInv, TInv, HInv, LeaveLog PROVE HInv'
  OBVIOUS
<1> DEFINE logs == Tail(left.logs)
<1>1. /\ SeenOpen' = SeenOpen /\ Hosts' = Hosts /\ Records' = Records /\ (Sound' <=> Sound)
  BY InputsStay DEF LeaveLog, reading
<1>2. left' = [left EXCEPT !.logs = logs] /\ header' = HeaderOf(logs)
  BY DEF LeaveLog, NextLog
<1>3. IsList(left.logs) /\ left.logs # <<>>
  BY DEF IInv, IsLeft, AreLogs, LeaveLog, InLog
<1>4. IsList(logs) /\ \A k \in DOMAIN logs : RecordsOf(logs[k]) \subseteq Records
  BY <1>3, TailIsList DEF HInv, IsGiven
<1> HIDE DEF logs
<1>5. left'.hosts = left.hosts /\ left'.logs = logs
  BY <1>2 DEF IInv, IsLeft
<1>6. logs # <<>> => RecordsOf(ReadAs(HeaderOf(logs).kind, logs)) \subseteq Records
  BY <1>4, HeaderIsGiven
<1>7. IsGiven(left', header'.kind, Hosts, Records)
  BY <1>2, <1>4, <1>5, <1>6 DEF HInv, IsGiven
<1>8. Sound => IsHoused'
  BY <1>1 DEF HInv, IsHoused, LeaveLog, reading
<1> QED
  BY <1>1, <1>7, <1>8 DEF HInv, LeaveLog, reading

LEMMA ReadRecordHoused == IInv /\ TInv /\ HInv /\ ReadRecord => HInv'
<1> SUFFICES ASSUME IInv, TInv, HInv, ReadRecord PROVE HInv'
  OBVIOUS
<1> DEFINE before == [assets |-> assets, flows |-> flows]
           line == Head(Lines)
           record == [line.record EXCEPT !.kind = header.kind]
<1>0. /\ SeenOpen' = SeenOpen /\ Hosts' = Hosts /\ Records' = Records /\ (Sound' <=> Sound)
  BY InputsStay DEF ReadRecord, reading
<1>1. IsLine(line) /\ line.line \in {"json", "tsv"}
  BY LineIsRead DEF ReadRecord
<1>2. "answers" \in DOMAIN record => IsList(record.answers)
  <2>1. DOMAIN record = DOMAIN line.record
    OBVIOUS
  <2>2. "answers" \in DOMAIN line.record => record.answers = line.record.answers
    OBVIOUS
  <2> HIDE DEF line, record
  <2> QED
    BY <1>1, <2>1, <2>2 DEF IsLine
<1>3. IsReading(before) /\ before.assets = assets /\ before.flows = flows
  BY DEF IInv, IsReading
<1>4. PICK after \in ApplyRecord(before, record) : assets' = after.assets /\ flows' = after.flows
  BY DEF ReadRecord
<1> DEFINE log == ReadAs(header.kind, left.logs)
<1>5. log.kind = header.kind /\ log.lines = Lines /\ IsTrueLog(log) /\ RecordsOf(log) \subseteq Records
  BY DEF HInv, IsGiven, TInv, IsTruthful, ReadRecord, InLog, ReadAs, Lines
<1>6. 1 \in DOMAIN Lines /\ line = Lines[1]
  <2>1. AreLogs(left.logs) /\ left.logs # <<>>
    BY DEF IInv, IsLeft, ReadRecord, InLog
  <2>2. IsList(Lines) /\ Lines # <<>>
    BY <2>1, TailIsList DEF AreLogs, IsLog, Lines, ReadRecord
  <2> QED
    BY <2>2, TailIsList
<1> HIDE DEF log, line
<1>7. IsTrueRecord(record)
  <2>1. IsTrueRecord([log.lines[1].record EXCEPT !.kind = log.kind])
    <3>1. log.lines[1].line \in {"json", "tsv"} /\ 1 \in DOMAIN log.lines
      BY <1>1, <1>5, <1>6
    <3> QED
      BY <1>5, <3>1 DEF IsTrueLog
  <2> QED
    BY <1>5, <1>6, <2>1
<1>8. record \in Records
  <2>1. line \in ToSet(log.lines)
    BY <1>5, <1>6 DEF ToSet
  <2>2. [line.record EXCEPT !.kind = log.kind] \in RecordsOf(log)
    BY <1>1, <2>1 DEF RecordsOf
  <2> QED
    BY <1>5, <2>2
<1>9. IsPlacedRecord(record) /\ ShownByRecord(record, SeenOpen)
  <2> HIDE DEF record
  <2> QED
    BY <1>8, RecordsArePlaced, RecordIsSeen
<1>10. IsGiven(left', header'.kind, Hosts, Records)
  BY LineIsGiven DEF ReadRecord, HInv
<1>11. stage' = stage /\ stage = "read" /\ bindings' = bindings /\ pass' = pass /\ saved' = saved
  BY DEF ReadRecord, reading, InLog, Idle
<1> HIDE DEF before, record
<1>12. ASSUME Sound PROVE IsHoused'
  <2>1. Sits(assets, SeenOpen) /\ IsHoused
    BY <1>12, SitsNow
  <2>2. Leaves(before, SeenOpen, after)
    BY <1>2, <1>3, <1>4, <1>7, <1>9, <2>1, ApplyRecordLeaves
  <2>3. Settled(assets, assets', SeenOpen)
    BY <1>3, <1>4, <2>2 DEF Leaves
  <2>4. AreEnded(flows, assets') /\ Housed(assets', SeenOpen)
    BY <2>1, <2>3, EndedStays DEF Settled, IsHoused
  <2>5. AreEnded(flows', assets')
    BY <1>3, <1>4, <2>2, <2>4, EndedAdded DEF Leaves
  <2> QED
    BY <1>0, <1>11, <2>1, <2>4, <2>5 DEF IsHoused
<1> QED
  BY <1>0, <1>10, <1>11, <1>12 DEF HInv

LEMMA FinishHoused == IInv /\ TInv /\ HInv /\ Finish => HInv'
<1> SUFFICES ASSUME IInv, TInv, HInv, Finish PROVE HInv'
  OBVIOUS
<1>1. commands' = commands /\ command' \in {command, command + 1} /\ pass' = pass /\ bindings' = bindings
      /\ assets' = <<>> /\ flows' = <<>>
  BY DEF Finish
<1>2. SeenOpen \subseteq SeenOpen' /\ Hosts \subseteq Hosts' /\ Records \subseteq Records'
  BY <1>1, SeenStays
<1>3. IsPlacedPass(pass', SeenOpen')
  BY <1>1, <1>2 DEF HInv, IsPlacedPass
<1>4. IsGiven(left', header'.kind, Hosts', Records')
  <2>1. CASE command < Len(commands)
    <3>1. /\ command' = command + 1 /\ commands' = commands
          /\ left' = Scheduled(commands[command + 1]) /\ header' = HeaderOf(commands[command + 1].logs)
      BY <2>1 DEF Finish
    <3>2. commands \in Commands /\ command + 1 \in 1 .. Len(commands) /\ command + 1 \in 1 .. command + 1
      <4>1. Len(commands) \in Nat
        BY InputsAssumption, ListHas DEF IInv, Staged
      <4> QED
        BY <2>1, <4>1 DEF IInv, Staged
    <3>3. /\ ToSet(commands[command + 1].hosts) \subseteq Hosts'
          /\ UNION {RecordsOf(log) : log \in ToSet(commands[command + 1].logs)} \subseteq Records'
      BY <3>1, <3>2 DEF Hosts, Records
    <3>4. IsGiven(Scheduled(commands[command + 1]), HeaderOf(commands[command + 1].logs).kind, Hosts', Records')
      BY <3>2, <3>3, ScheduledIsGiven
    <3> QED
      BY <3>1, <3>4
  <2>2. CASE ~ command < Len(commands)
    BY <1>2, <2>2 DEF HInv, IsGiven, Finish
  <2> QED
    BY <2>1, <2>2
<1>5. ASSUME Sound' PROVE IsHoused'
  <2>1. Sound
    BY <1>1, <1>5, SoundBefore
  <2>2. Sits(assets, SeenOpen) /\ Sits(saved.assets, SeenOpen) /\ IsHoused
    BY <2>1, SitsNow
  <2>3. Sits(saved'.assets, SeenOpen) /\ AreJoined(saved'.assets, saved'.flows)
    BY <2>2, FinishJoined DEF IsHoused
  <2>4. Housed(saved'.assets, SeenOpen')
    BY <1>2, <2>3, HousedStays DEF Sits
  <2>5. Housed(<<>>, SeenOpen') /\ AreEnded(<<>>, <<>>)
    BY NoneIsHoused
  <2>6. stage' # "write"
    BY DEF Finish
  <2> QED
    BY <1>1, <2>2, <2>3, <2>4, <2>5, <2>6 DEF IsHoused
<1> QED
  BY <1>3, <1>4, <1>5 DEF HInv

LEMMA MakePlanHoused ==
  ASSUME IInv, TInv, HInv, NEW request, MakePlan(request)
  PROVE  HInv'
<1>1. /\ SeenOpen' = SeenOpen /\ Hosts' = Hosts /\ Records' = Records /\ (Sound' <=> Sound)
  BY InputsStay DEF MakePlan, planning
<1>2. Sound => IsHoused'
  BY <1>1 DEF HInv, IsHoused, MakePlan, planning
<1> QED
  BY <1>1, <1>2 DEF HInv, MakePlan, planning

LEMMA ProbeHoused == IInv /\ TInv /\ HInv /\ Probe => HInv'
<1> SUFFICES ASSUME IInv, TInv, HInv, Probe PROVE HInv'
  OBVIOUS
<1>1. /\ SeenOpen' = SeenOpen /\ Hosts' = Hosts /\ Records' = Records /\ (Sound' <=> Sound)
  BY InputsStay DEF Probe, planning
<1>2. Sound => IsHoused'
  BY <1>1 DEF HInv, IsHoused, Probe, planning
<1> QED
  BY <1>1, <1>2 DEF HInv, Probe, planning

LEMMA NextIsHoused == IInv /\ TInv /\ HInv /\ [Next]_vars => HInv'
<1> SUFFICES ASSUME IInv, TInv, HInv, [Next]_vars PROVE HInv'
  OBVIOUS
<1>1. CASE Next
  <2>1. ASSUME NEW service \in pass.open, WriteService(service) PROVE HInv'
    BY <2>1, WriteServiceHoused
  <2>2. ASSUME NEW request \in PlanRequests, MakePlan(request) PROVE HInv'
    BY <2>2, MakePlanHoused
  <2> QED
    BY <1>1, <2>1, <2>2, ScanBindingsHoused, HandleFrameHoused, WriteEndsHoused, WriteFlowsHoused,
       ScanHostHoused, ReadDirectiveHoused, ReadRecordHoused, SkipLineHoused, LeaveLogHoused,
       FinishHoused, ProbeHoused
       DEF Next
<1>2. CASE UNCHANGED vars
  <2>1. /\ SeenOpen' = SeenOpen /\ Hosts' = Hosts /\ Records' = Records /\ (Sound' <=> Sound)
    BY <1>2, InputsStay DEF vars
  <2> QED
    BY <1>2, <2>1 DEF vars, HInv, IsHoused
<1> QED
  BY <1>1, <1>2

(* What is served was seen, and what is heard is between assets, all along. *)
THEOREM ServedHolds == Spec => [](IInv /\ TInv /\ HInv)
  BY InitHolds, InitIsTrue, InitIsHoused, NextKeeps, NextIsTrue, NextIsHoused, PTL DEF Spec

-----------------------------------------------------------------------------
(* Crossings. *)

(* A level has its own place among the levels. *)
LEMMA RankIs ==
  ASSUME NEW n \in 1 .. 7
  PROVE  Rank(Levels[n]) = n
<1> DEFINE places == {i \in 1 .. Len(Levels) : Levels[i] = Levels[n]}
<1>1. Len(Levels) = 7
  BY DEF Levels
<1>2. \A i, j \in 1 .. 7 : Levels[i] = Levels[j] => i = j
  BY DEF Levels
<1>3. places = {n}
  BY <1>1, <1>2
<1>4. Rank(Levels[n]) = IF places # {} THEN Min(places) ELSE 0
  BY DEF Rank, SelectInSeq
<1> HIDE DEF places
<1>5. {n} \in SUBSET Nat /\ {n} # {}
  OBVIOUS
<1>6. Min({n}) \in {n}
  BY <1>5, MinIsLeast
<1> QED
  BY <1>3, <1>4, <1>6

LEMMA EnterpriseToControl ==
  ASSUME NEW src \in Enterprise, NEW dst \in Control, NEW port
  PROVE  GradeFlow(src, dst, port) = "critical" /\ src # "" /\ dst # ""
<1>1. src \in {Levels[6], Levels[7]} /\ dst \in {Levels[1], Levels[2]}
  BY DEF Enterprise, Control, Levels
<1>2. Rank(src) \in {6, 7} /\ Rank(dst) \in {1, 2}
  BY <1>1, RankIs
<1>3. Rank(src) > Rank(dst)
  BY <1>2
<1>4. src # dst /\ src # "L3" /\ dst # "L2" /\ dst # "L3" /\ src # "" /\ dst # ""
  BY DEF Enterprise, Control
<1> DEFINE lower == IF Rank(src) > Rank(dst) THEN dst ELSE src
           upper == IF Rank(src) > Rank(dst) THEN src ELSE dst
<1>5. lower = dst /\ upper = src
  BY <1>3
<1>6. GradeFlow(src, dst, port) =
        CASE src = dst -> ""
          [] upper \in Enterprise /\ lower \in Control -> "critical"
          [] upper \in Enterprise /\ lower = "L2" -> "high"
          [] upper = "L3" /\ lower \in Control /\ dst \in Control /\ ProtocolForPort(port) # "" -> "info"
          [] upper \in Enterprise /\ lower = "L3" -> "medium"
          [] OTHER -> ""
  BY DEF GradeFlow
<1> HIDE DEF lower, upper
<1>7. GradeFlow(src, dst, port) = "critical"
  BY <1>4, <1>5, <1>6
<1> QED
  BY <1>4, <1>7

(* The level of the asset that has the id. *)
LEMMA LevelIs ==
  ASSUME NEW known, IsInventory(known), NEW i \in DOMAIN known
  PROVE  LevelOf(known, known[i].id) = known[i].purdue
<1> DEFINE places == {j \in 1 .. Len(known) : known[j].id = known[i].id}
<1>1. DOMAIN known = 1 .. Len(known) /\ Len(known) \in Nat
  BY ListHas DEF IsInventory
<1>2. \A j \in DOMAIN known : known[j].id = known[i].id => j = i
  BY DEF IsInventory
<1>3. places = {i} /\ i \in Nat /\ i # 0
  BY <1>1, <1>2
<1>4. LevelOf(known, known[i].id)
        = IF (IF places # {} THEN Min(places) ELSE 0) = 0 THEN ""
          ELSE known[IF places # {} THEN Min(places) ELSE 0].purdue
  BY DEF LevelOf, SelectInSeq
<1> HIDE DEF places
<1>5. {i} \in SUBSET Nat /\ {i} # {}
  BY <1>3
<1>6. Min({i}) = i
  BY <1>5, MinIsLeast
<1> QED
  BY <1>3, <1>4, <1>6

(* Where the captures show no hardware address with an IP that is another's *)
(* alone, in the file both ends of a conversation between devices read with *)
(* one IP each are assets that have those addresses (finish,                *)
(* Inventory.Merge, Save), and one from the enterprise to the control level *)
(* is graded (AnalyzeSegmentation).                                         *)
THEOREM EveryCrossingIsGraded == Spec => []CrossingsAreGraded
<1>1. IInv /\ TInv /\ HInv => CrossingsAreGraded
  <2> SUFFICES ASSUME IInv, TInv, HInv, Sound, NEW flow \in ToSet(saved.flows),
                      {Owner[flow.src], Owner[flow.dst]} \subseteq OneIP
               PROVE  \E src, dst \in ToSet(saved.assets) :
                        /\ src.id = flow.srcAsset /\ flow.src \in AddressesOf(src)
                        /\ dst.id = flow.dstAsset /\ flow.dst \in AddressesOf(dst)
                        /\ src.purdue \in Enterprise /\ dst.purdue \in Control =>
                             flow \in AnalyzeSegmentation(saved.assets, saved.flows)
    BY DEF CrossingsAreGraded
  <2>1. AreJoined(saved.assets, saved.flows)
    BY DEF HInv, IsHoused
  <2>2. PICK k \in DOMAIN saved.flows : flow = saved.flows[k]
    BY DEF ToSet
  <2>3. Joined(saved.assets, flow)
    BY <2>1, <2>2 DEF AreJoined
  <2>4. PICK i \in DOMAIN saved.assets :
          saved.assets[i].id = flow.srcAsset /\ flow.src \in {saved.assets[i].addr.v4, saved.assets[i].addr.v6}
    BY <2>3 DEF Joined, Has
  <2>5. PICK j \in DOMAIN saved.assets :
          saved.assets[j].id = flow.dstAsset /\ flow.dst \in {saved.assets[j].addr.v4, saved.assets[j].addr.v6}
    BY <2>3 DEF Joined, Has
  <2> DEFINE src == saved.assets[i]
             dst == saved.assets[j]
  <2>6. flow.src \in AddressesOf(src) /\ flow.dst \in AddressesOf(dst)
    BY <2>3, <2>4, <2>5 DEF Joined, AddressesOf
  <2>7. src \in ToSet(saved.assets) /\ dst \in ToSet(saved.assets)
    BY DEF ToSet
  <2>8. LevelOf(saved.assets, flow.srcAsset) = src.purdue /\ LevelOf(saved.assets, flow.dstAsset) = dst.purdue
    BY <2>4, <2>5, LevelIs DEF IInv
  <2>9. ASSUME src.purdue \in Enterprise, dst.purdue \in Control
        PROVE  flow \in AnalyzeSegmentation(saved.assets, saved.flows)
    <3>1. GradeFlow(src.purdue, dst.purdue, flow.port) = "critical" /\ src.purdue # "" /\ dst.purdue # ""
      BY <2>9, EnterpriseToControl
    <3> QED
      BY <2>8, <3>1 DEF AnalyzeSegmentation
  <2> QED
    BY <2>4, <2>5, <2>6, <2>7, <2>9
<1> QED
  BY <1>1, ServedHolds, PTL

-----------------------------------------------------------------------------
(* What the answers of a scan are recorded as. *)

(* The protocol that the device at the address answers in on the port. *)
Spoken(h, port) == Messages[Replies[<<h, port>>]].protocol

SpeaksAt(s, h) == {"port", "transport", "protocol"} \subseteq DOMAIN s /\ s.protocol = Spoken(h, s.port)

(* An asset of one address, each service in the protocol it answers in.     *)
IsProbed(a, h) ==
  /\ h # NoAddress
  /\ IsAsset(a) /\ a.id = NewID(AddressesFor(h))
  /\ a.addr.v4 = AddressesFor(h).v4 /\ a.addr.v6 = AddressesFor(h).v6 /\ a.addr.mac = NoAddress
  /\ \A j \in DOMAIN a.services : SpeaksAt(a.services[j], h)

AreProbed(known) == IsInventory(known) /\ \A i \in DOMAIN known : \E h : IsProbed(known[i], h)

LEMMA AddressesForIs ==
  ASSUME NEW h
  PROVE  /\ AddressesFor(h).mac = NoAddress
         /\ \/ AddressesFor(h).v4 = h /\ AddressesFor(h).v6 = NoAddress
            \/ AddressesFor(h).v4 = NoAddress /\ AddressesFor(h).v6 = h
  BY DEF AddressesFor, Hardware, NoAddress

LEMMA ProbedStays ==
  ASSUME NEW a, NEW h, IsProbed(a, h), NEW b, IsAsset(b), b.id = a.id, b.services = a.services,
         b.addr.v4 = a.addr.v4, b.addr.v6 = a.addr.v6, b.addr.mac = a.addr.mac
  PROVE  IsProbed(b, h)
  BY DEF IsProbed

(* Where it had an entry for the port, that says the same already. *)
LEMMA AddServiceProbed ==
  ASSUME NEW a, NEW h, IsProbed(a, h), NEW service, SpeaksAt(service, h)
  PROVE  IsProbed(AddService(a, service), h)
<1> DEFINE old == a.services
           places == {i \in 1 .. Len(old) :
                        old[i].port = service.port /\ old[i].transport = service.transport}
           place == IF places # {} THEN Min(places) ELSE 0
           told == Filled(old[place], service)
           more == IF place = 0 THEN Append(old, service) ELSE [old EXCEPT ![place] = told]
           b == AddService(a, service)
<1>1. DOMAIN old = 1 .. Len(old) /\ Len(old) \in Nat /\ IsList(old)
  BY ListHas DEF IsAsset, IsProbed
<1>2. b = [a EXCEPT !.services = more]
  BY DEF AddService, SelectInSeq
<1>3. place # 0 => place \in DOMAIN old /\ old[place].port = service.port
  <2>1. places \in SUBSET Nat /\ \A i \in places : i \in DOMAIN old /\ old[i].port = service.port
    BY <1>1
  <2> HIDE DEF places
  <2> QED
    BY <2>1, MinIsLeast
<1>4. Same(a, b) /\ IsAsset(a)
  BY AddServiceKeeps DEF IsProbed
<1> HIDE DEF place
<1>5. \A j \in DOMAIN more : SpeaksAt(more[j], h)
  <2>1. CASE place = 0
    <3>1. /\ DOMAIN more = 1 .. Len(old) + 1
          /\ \A i \in DOMAIN old : more[i] = old[i]
          /\ more[Len(old) + 1] = service
      BY <1>1, <2>1, AppendIsList
    <3> HIDE DEF more
    <3>2. \A j \in DOMAIN more : j \in DOMAIN old \/ j = Len(old) + 1
      BY <1>1, <3>1
    <3> QED
      BY <3>1, <3>2 DEF IsProbed
  <2>2. CASE place # 0
    <3>1. /\ DOMAIN more = DOMAIN old
          /\ \A i \in DOMAIN old : more[i] = IF i = place THEN told ELSE old[i]
      BY <1>1, <2>2
    <3>2. SpeaksAt(old[place], h)
      BY <1>3, <2>2 DEF IsProbed
    <3> DEFINE entry == old[place]
    <3> HIDE DEF entry
    <3>3. /\ DOMAIN Filled(entry, service) = DOMAIN entry
          /\ Filled(entry, service).port = entry.port
          /\ Filled(entry, service).protocol \in {entry.protocol, service.protocol}
      BY <3>2 DEF Filled, SpeaksAt, entry
    <3>4. SpeaksAt(told, h)
      BY <1>3, <2>2, <3>2, <3>3 DEF SpeaksAt, entry
    <3> HIDE DEF more, told
    <3> QED
      BY <3>1, <3>4 DEF IsProbed
  <2> QED
    BY <2>1, <2>2
<1> HIDE DEF more, b
<1>6. b.services = more
  BY <1>2, <1>4 DEF IsAsset
<1> QED
  BY <1>4, <1>5, <1>6 DEF IsProbed, Same, b

(* The asset of the address is the one that was probed there. *)
LEMMA DeviceProbed ==
  ASSUME NEW known, AreProbed(known), NEW h, h # NoAddress
  PROVE  LET addr == AddressesFor(h)
             more == Device(known, addr)
             k == ByAddress(more, addr)
         IN  AreProbed(more) /\ k \in DOMAIN more /\ IsProbed(more[k], h)
<1> DEFINE addr == AddressesFor(h)
           more == Device(known, addr)
           k == ByAddress(known, addr)
           l == ByAddress(more, addr)
           exact == {i \in DOMAIN known : known[i].id = NewID(addr)}
           sharing == {i \in DOMAIN known : Shares(known[i], addr)}
<1>1. DOMAIN known = 1 .. Len(known) /\ Len(known) \in Nat /\ IsInventory(known) /\ IsList(known)
  BY ListHas DEF AreProbed, IsInventory
<1>2. IsInventory(more) /\ l \in DOMAIN more /\ l = IF k = 0 THEN Len(known) + 1 ELSE k
  BY <1>1, DeviceKeeps, ByAddressStays
<1>3. /\ exact # {} => k \in exact
      /\ exact = {} /\ sharing # {} => k \in sharing
      /\ exact = {} /\ sharing = {} => k = 0
  BY <1>1, FoundIs
<1>4. /\ addr.mac = NoAddress
      /\ \/ addr.v4 = h /\ addr.v6 = NoAddress
         \/ addr.v4 = NoAddress /\ addr.v6 = h
  BY AddressesForIs
<1>5. CASE k = 0
  <2> DEFINE a == NewAsset(addr)
  <2>1. IsAsset(a) /\ a.id = NewID(addr) /\ a.addr = addr /\ a.services = <<>>
    BY NewIsAsset DEF NewAsset
  <2>2. more = Append(known, a)
    BY <1>5 DEF Device
  <2> HIDE DEF a
  <2>3. IsProbed(a, h)
    BY <1>4, <2>1, NoneIsList DEF IsProbed
  <2>4. /\ DOMAIN more = 1 .. Len(known) + 1
        /\ \A i \in DOMAIN known : more[i] = known[i]
        /\ more[Len(known) + 1] = a
    BY <1>1, <2>2, AppendIsList
  <2> HIDE DEF more, l, k
  <2>5. \A i \in DOMAIN more : i \in DOMAIN known \/ i = Len(known) + 1
    BY <1>1, <2>4
  <2> QED
    BY <1>2, <1>5, <2>3, <2>4, <2>5 DEF AreProbed, more, l
<1>6. CASE k # 0
  <2>1. k \in exact \/ k \in sharing
    BY <1>3, <1>6
  <2>2. k \in DOMAIN known
    BY <2>1
  <2>3. PICK g : IsProbed(known[k], g)
    BY <2>2 DEF AreProbed
  <2>4. known[k].id = NewID(addr) \/ Shares(known[k], addr)
    BY <2>1
  <2> DEFINE a == known[k]
             filled == FillAddresses(a.addr, addr)
             b == [a EXCEPT !.addr = filled]
  <2>5. more = [known EXCEPT ![k] = b]
    BY <1>6 DEF Device
  <2> HIDE DEF a, k, l, more, addr
  <2>6. g = h
    <3>1. /\ a.addr.mac = NoAddress /\ g # NoAddress
          /\ \/ a.addr.v4 = g /\ a.addr.v6 = NoAddress
             \/ a.addr.v4 = NoAddress /\ a.addr.v6 = g
      BY <2>3, AddressesForIs DEF IsProbed, a
    <3>2. CASE a.id = NewID(addr)
      <4>1. NewID(AddressesFor(g)) = NewID(addr)
        BY <2>3, <3>2 DEF IsProbed, a
      <4>2. AddressesFor(g).v4 = addr.v4 /\ AddressesFor(g).v6 = addr.v6
        BY <4>1 DEF NewID
      <4> QED
        BY <1>4, <2>3, <3>1, <4>2, AddressesForIs DEF IsProbed
    <3>3. CASE Shares(a, addr)
      BY <1>4, <3>1, <3>3 DEF Shares
    <3> QED
      BY <2>4, <3>2, <3>3 DEF a
  <2>7. IsProbed(a, h)
    BY <2>3, <2>6 DEF a
  <2>8. filled.v4 = a.addr.v4 /\ filled.v6 = a.addr.v6 /\ filled.mac = a.addr.mac
    BY <1>4, <2>7 DEF FillAddresses, KeepAddress, IsProbed, addr
  <2> HIDE DEF filled
  <2>9. IsAsset(b) /\ b.id = a.id /\ b.services = a.services /\ b.addr = filled
    BY <2>7 DEF IsProbed, IsAsset
  <2> HIDE DEF b
  <2>10. IsProbed(b, h)
    BY <2>7, <2>8, <2>9, ProbedStays
  <2>11. DOMAIN more = DOMAIN known /\ \A i \in DOMAIN known : more[i] = IF i = k THEN b ELSE known[i]
    BY <2>5
  <2>12. AreProbed(more)
    BY <1>2, <2>10, <2>11 DEF AreProbed, more, addr
  <2> QED
    BY <1>2, <1>6, <2>2, <2>10, <2>11, <2>12 DEF more, l, k, addr
<1> QED
  BY <1>5, <1>6

(* What is recorded is in the protocol that was answered. *)
IsSpoken(observation) ==
  /\ observation.host # NoAddress
  /\ observation.reply.protocol \in {"", Spoken(observation.host, observation.template.port)}

LEMMA RecordedProbed ==
  ASSUME NEW known, AreProbed(known), NEW observation, IsSpoken(observation)
  PROVE  AreProbed(Recorded(known, observation))
<1> DEFINE h == observation.host
           reply == observation.reply
           service == [port |-> observation.template.port, transport |-> observation.template.transport,
                       protocol |-> reply.protocol, banner |-> Unsaid, source |-> "probe"]
           addr == AddressesFor(h)
           more == Device(known, addr)
           k == ByAddress(more, addr)
           a == more[k]
           identified == Identify(a, reply.identity)
           named == SetRole(identified, reply.role)
           served == IF reply.protocol = "" THEN named ELSE AddService(named, service)
           b == AddEvidence(served, Evidence("probe", reply.protocol,
                              <<h, service.port, service.transport>>, reply.fields))
           final == [more EXCEPT ![k] = b]
<1>1. Recorded(known, observation) = final
  BY DEF Recorded, Update
<1>2. AreProbed(more) /\ k \in DOMAIN more /\ IsProbed(a, h)
  <2>1. h # NoAddress
    BY DEF IsSpoken
  <2> HIDE DEF h
  <2> QED
    BY <2>1, DeviceProbed
<1>3. reply.protocol # "" => SpeaksAt(service, h)
  BY DEF IsSpoken, SpeaksAt
<1> HIDE DEF a, service
<1>4. IsProbed(identified, h)
  <2>1. IsAsset(a)
    BY <1>2 DEF IsProbed
  <2>2. IsAsset(identified) /\ identified.id = a.id /\ identified.services = a.services /\ identified.addr = a.addr
    BY <2>1 DEF IsAsset, Identify
  <2> HIDE DEF identified
  <2> QED
    BY <1>2, <2>2, ProbedStays
<1> HIDE DEF identified
<1>5. IsProbed(named, h)
  <2>1. IsAsset(identified)
    BY <1>4 DEF IsProbed
  <2>2. IsAsset(named) /\ named.id = identified.id /\ named.services = identified.services
        /\ named.addr = identified.addr
    BY <2>1 DEF IsAsset, SetRole
  <2> HIDE DEF named
  <2> QED
    BY <1>4, <2>2, ProbedStays
<1> HIDE DEF named
<1>6. IsProbed(served, h)
  BY <1>3, <1>5, AddServiceProbed
<1> HIDE DEF served
<1>7. IsProbed(b, h)
  <2>1. IsAsset(served)
    BY <1>6 DEF IsProbed
  <2>2. IsAsset(b) /\ b.id = served.id /\ b.addr = served.addr
    BY <2>1, AddEvidenceKeeps DEF Same
  <2>3. b.services = served.services
    BY <2>1 DEF IsAsset, AddEvidence
  <2> HIDE DEF b
  <2> QED
    BY <1>6, <2>2, <2>3, ProbedStays
<1> HIDE DEF b, k, more
<1>8. IsInventory(final)
  BY <1>2, <1>7, AssetReplaced DEF AreProbed, IsProbed, a
<1>9. DOMAIN final = DOMAIN more /\ \A i \in DOMAIN more : final[i] = IF i = k THEN b ELSE more[i]
  OBVIOUS
<1> HIDE DEF final, h
<1>10. AreProbed(final)
  BY <1>2, <1>7, <1>8, <1>9 DEF AreProbed
<1> QED
  BY <1>1, <1>10

ObservingProbed == INSTANCE Folding_proofs WITH
  Op <- LAMBDA ctx, known, observation : Recorded(known, observation),
  Good <- LAMBDA ctx, k, known : AreProbed(known)

LEMMA BuildInventoryProbed ==
  ASSUME NEW n \in Nat, NEW observations, DOMAIN observations = 1 .. n,
         \A i \in 1 .. n : IsSpoken(observations[i])
  PROVE  AreProbed(BuildInventory(observations))
<1> DEFINE known == FoldLeft(Recorded, <<>>, observations)
           classified == [i \in DOMAIN known |-> Classify(known[i])]
           final == BuildInventory(observations)
<1>1. known = ObservingProbed!Table(0, <<>>, observations)[DOMAIN observations]
  BY DEF FoldLeft, MapThenFoldSet, Max, ObservingProbed!Table, ObservingProbed!Row, ObservingProbed!Top
<1>2. AreProbed(<<>>)
  BY NoneIsList, EmptyInventory DEF AreProbed
<1>3. \A k \in 0 .. n - 1 : \A acc : AreProbed(acc) => AreProbed(Recorded(acc, observations[k + 1]))
  <2>1. \A k \in 0 .. n - 1 : k + 1 \in 1 .. n
    OBVIOUS
  <2> QED
    BY <2>1, RecordedProbed
<1>4. AreProbed(ObservingProbed!Table(0, <<>>, observations)[DOMAIN observations])
  BY <1>2, <1>3, ObservingProbed!FoldKeeps, InductionHolds
<1>5. final = Sorted(classified)
  BY DEF BuildInventory, Finalize
<1>6. AreProbed(known)
  BY <1>1, <1>4
<1> HIDE DEF known, final
<1>7. DOMAIN known = 1 .. Len(known) /\ Len(known) \in Nat
  BY <1>6, ListHas DEF AreProbed, IsInventory
<1>8. ASSUME NEW i \in DOMAIN known
      PROVE  /\ IsAsset(classified[i]) /\ classified[i].id = known[i].id
             /\ \E h : IsProbed(classified[i], h)
  <2> DEFINE a == known[i]
             b == Classify(a)
  <2>1. classified[i] = b
    OBVIOUS
  <2>2. PICK h : IsProbed(a, h)
    BY <1>6 DEF AreProbed
  <2> HIDE DEF classified, a
  <2>3. IsAsset(a)
    BY <2>2 DEF IsProbed
  <2>4. IsAsset(b) /\ b.id = a.id /\ b.addr = a.addr
    BY <2>3, ClassifyKeeps DEF Same
  <2>5. b.services = a.services
    BY <2>3 DEF IsAsset, Classify
  <2> HIDE DEF b
  <2>6. IsProbed(b, h)
    BY <2>2, <2>4, <2>5, ProbedStays
  <2> QED
    BY <2>1, <2>4, <2>6 DEF a
<1>9. DOMAIN classified = DOMAIN known /\ classified = [i \in 1 .. Len(known) |-> classified[i]]
  BY <1>7
<1> HIDE DEF classified
<1>10. IsList(classified) /\ Len(classified) = Len(known)
  BY <1>7, <1>9, ListFrom
<1>11. IsInventory(classified)
  BY <1>6, <1>8, <1>9, <1>10 DEF AreProbed, IsInventory
<1>12. IsInventory(final) /\ Among(classified, Len(classified), final)
  BY <1>5, <1>11, SortedKeeps
<1>13. AreProbed(final)
  BY <1>7, <1>8, <1>10, <1>12 DEF Among, AreProbed
<1> QED
  BY <1>13 DEF final

-----------------------------------------------------------------------------
(* What the device answers in. *)

(* Where no frame of the protocol starts the framing stops at the first byte. *)
LEMMA NotModbus ==
  ASSUME NEW bytes, IsList(bytes), bytes # <<>>, \A i \in DOMAIN bytes : ~ Starts(bytes, i, "modbus")
  PROVE  ModbusFraming(bytes) = "other"
<1> DEFINE Rule(g) == [i \in 1 .. Len(bytes) + 1 |->
                         IF i > Len(bytes) THEN "said"
                         ELSE IF ~ Starts(bytes, i, "modbus") THEN "other"
                         ELSE IF i + Declared(bytes, i) > Len(bytes) + 1 THEN "truncated"
                         ELSE g[i + Declared(bytes, i)]]
           f == [i \in 1 .. Len(bytes) + 1 |-> IF i > Len(bytes) THEN "said" ELSE "other"]
           g == CHOOSE g : g = Rule(g)
<1>1. DOMAIN bytes = 1 .. Len(bytes) /\ Len(bytes) \in Nat /\ 1 \in DOMAIN bytes
  BY ListHas, TailIsList
<1>2. ModbusFraming(bytes) = g[1]
  BY DEF ModbusFraming
<1>3. f = Rule(f)
  <2>1. \A i \in 1 .. Len(bytes) + 1 : ~ i > Len(bytes) => ~ Starts(bytes, i, "modbus")
    BY <1>1
  <2> QED
    BY <2>1
<1>4. g = Rule(g)
  <2> HIDE DEF f, Rule
  <2> QED
    BY <1>3
<1> HIDE DEF g
<1>5. 1 \in 1 .. Len(bytes) + 1 /\ ~ 1 > Len(bytes) /\ ~ Starts(bytes, 1, "modbus")
  BY <1>1
<1>6. g[1] = "other"
  BY <1>4, <1>5
<1> QED
  BY <1>2, <1>6

(* What is cut short is in the protocol it was taken for. *)
LEMMA CutShortStarts ==
  ASSUME NEW message, NEW n \in Nat \ {0}, NEW bytes, bytes = [i \in 1 .. n |-> bytes[i]],
         \A i \in 1 .. n : bytes[i].message = message,
         NEW protocol \in ToSet(AllDecoders), Decoder(protocol, bytes) = Truncated
  PROVE  Messages[message].protocol = protocol
<1>1. IsList(bytes) /\ Len(bytes) = n
  BY ListFrom
<1>2. bytes # <<>> /\ 1 \in 1 .. n /\ DOMAIN bytes = 1 .. n
  BY <1>1, NoneIsList
<1>3. Truncated # NotThis /\ Truncated # Said(bytes)
  <2>1. Truncated.verdict = "truncated" /\ NotThis.verdict = "other" /\ Said(bytes).verdict = "said"
    BY DEF Truncated, NotThis, Said
  <2> QED
    BY <2>1
<1>4. protocol \in {"modbus", "enip", "s7comm", "bacnet"}
  BY DEF AllDecoders, ToSet
<1>5. CASE protocol = "modbus"
  <2>1. ModbusFraming(bytes) # "other"
    BY <1>3, <1>5 DEF Decoder, DecodeModbus
  <2>2. PICK i \in DOMAIN bytes : Starts(bytes, i, "modbus")
    BY <1>1, <1>2, <2>1, NotModbus
  <2> QED
    BY <1>2, <1>5, <2>2 DEF Starts
<1>6. CASE protocol = "enip"
  <2>1. Starts(bytes, 1, "enip")
    BY <1>3, <1>6 DEF Decoder, DecodeENIP
  <2> QED
    BY <1>2, <1>6, <2>1 DEF Starts
<1>7. CASE protocol = "s7comm"
  <2>1. Starts(bytes, 1, "s7comm")
    BY <1>3, <1>7 DEF Decoder, DecodeS7, DecodeStarted
  <2> QED
    BY <1>2, <1>7, <2>1 DEF Starts
<1>8. CASE protocol = "bacnet"
  <2>1. Starts(bytes, 1, "bacnet")
    BY <1>3, <1>8 DEF Decoder, DecodeBACnet, DecodeStarted
  <2> QED
    BY <1>2, <1>8, <2>1 DEF Starts
<1> QED
  BY <1>4, <1>5, <1>6, <1>7, <1>8

LEMMA AnswerIsSpoken ==
  ASSUME NEW exchange, <<exchange.host, exchange.template.port>> \in DOMAIN Replies,
         exchange.template.protocol \in ToSet(AllDecoders), NEW pieces \in 1 .. MaxDecodeAttempt
  PROVE  IsSpoken(Answer(exchange, pieces))
<1> DEFINE message == Reply(exchange)
           bytes == Pieces(message, 1, pieces)
           template == exchange.template
           decoded == Decoder(template.protocol, bytes)
           reply == Interpret(template, bytes)
<1>1. exchange.host # NoAddress
  <2> DEFINE e == <<exchange.host, exchange.template.port>>
  <2>1. e \in DOMAIN Replies /\ e[1] = exchange.host
    OBVIOUS
  <2> HIDE DEF e
  <2> QED
    BY <2>1, PlantAssumption
<1>2. pieces \in Nat \ {0}
  BY LimitsAssumption
<1>3. /\ bytes = [i \in 1 .. pieces |-> bytes[i]]
      /\ \A i \in 1 .. pieces : bytes[i].message = message
  BY <1>2 DEF Pieces
<1>4. Messages[message].protocol = Spoken(exchange.host, template.port)
  BY DEF Reply, Spoken
<1>5. Answer(exchange, pieces) = [host |-> exchange.host, template |-> template, reply |-> reply]
  BY DEF Answer
<1>6. decoded \in {Said(bytes), Truncated, NotThis}
  BY DEF Decoder, DecodeModbus, DecodeENIP, DecodeS7, DecodeBACnet, DecodeStarted
<1> HIDE DEF message, bytes
<1>7. decoded = Truncated => Messages[message].protocol = template.protocol
  BY <1>2, <1>3, CutShortStarts
<1>8. Said(bytes).protocol = Messages[message].protocol /\ Said(bytes).verdict = "said"
  <2>1. bytes[1].message = message
    BY <1>2, <1>3
  <2> QED
    BY <2>1 DEF Said
<1>9. NotThis.verdict = "other" /\ Truncated.verdict = "truncated"
  BY DEF NotThis, Truncated
<1>10. \/ decoded = NotThis /\ reply.protocol = ""
       \/ decoded = Truncated /\ reply.protocol = template.protocol
       \/ decoded = Said(bytes) /\ reply = decoded
  BY <1>6, <1>8, <1>9 DEF Interpret
<1> HIDE DEF decoded, reply
<1>11. reply.protocol \in {"", Messages[message].protocol}
  BY <1>7, <1>8, <1>10
<1> DEFINE observation == Answer(exchange, pieces)
<1>12. /\ observation.host = exchange.host /\ observation.template = exchange.template
       /\ observation.reply = reply
  BY <1>5
<1> HIDE DEF observation
<1>13. IsSpoken(observation)
  BY <1>1, <1>4, <1>11, <1>12 DEF IsSpoken
<1> QED
  BY <1>13 DEF observation

-----------------------------------------------------------------------------
(* Where a plan goes. *)

(* The exchanges of a list are of a set. *)
AreOf(list, exchanges) == IsList(list) /\ \A i \in DOMAIN list : list[i] \in exchanges

SelectingOf == INSTANCE Folding_proofs WITH
  Op <- LAMBDA to, acc, template : AddExchange(acc, to.host, template, to.only, to.known),
  Good <- LAMBDA to, k, acc : AreOf(acc, to.exchanges)

TargetingOf == INSTANCE Folding_proofs WITH
  Op <- LAMBDA of, acc, host : AddTarget(acc, host, of.templates, of.only, of.known),
  Good <- LAMBDA of, k, acc : AreOf(acc, of.exchanges)

LEMMA AddExchangeOf ==
  ASSUME NEW acc, NEW exchanges, AreOf(acc, exchanges), NEW host, NEW template, NEW only, NEW known,
         (only => KnownOpen(known, host, template)) => [host |-> host, template |-> template] \in exchanges
  PROVE  AreOf(AddExchange(acc, host, template, only, known), exchanges)
<1> DEFINE exchange == [host |-> host, template |-> template]
           more == Append(acc, exchange)
<1>1. CASE only => KnownOpen(known, host, template)
  <2>1. exchange \in exchanges /\ AddExchange(acc, host, template, only, known) = more
    BY <1>1 DEF AddExchange
  <2> HIDE DEF exchange
  <2>2. /\ IsList(more) /\ DOMAIN more = 1 .. Len(acc) + 1
        /\ \A i \in DOMAIN acc : more[i] = acc[i]
        /\ more[Len(acc) + 1] = exchange
    BY AppendIsList DEF AreOf
  <2>3. DOMAIN acc = 1 .. Len(acc) /\ Len(acc) \in Nat
    BY ListHas DEF AreOf
  <2> HIDE DEF more
  <2>4. \A i \in DOMAIN more : i \in DOMAIN acc \/ i = Len(acc) + 1
    BY <2>2, <2>3
  <2> QED
    BY <2>1, <2>2, <2>4 DEF AreOf
<1>2. CASE ~ (only => KnownOpen(known, host, template))
  BY <1>2 DEF AddExchange
<1> QED
  BY <1>1, <1>2

LEMMA AddTargetOf ==
  ASSUME NEW acc, NEW exchanges, AreOf(acc, exchanges), NEW host, NEW templates, IsList(templates),
         NEW only, NEW known,
         \A i \in DOMAIN templates :
           (only => KnownOpen(known, host, templates[i]))
             => [host |-> host, template |-> templates[i]] \in exchanges
  PROVE  AreOf(AddTarget(acc, host, templates, only, known), exchanges)
<1> DEFINE to == [host |-> host, only |-> only, known |-> known, exchanges |-> exchanges]
<1>1. AddTarget(acc, host, templates, only, known) = SelectingOf!Table(to, acc, templates)[DOMAIN templates]
  BY DEF AddTarget, FoldLeft, MapThenFoldSet, Max, SelectingOf!Table, SelectingOf!Row, SelectingOf!Top
<1>2. to.host = host /\ to.only = only /\ to.known = known /\ to.exchanges = exchanges
  OBVIOUS
<1> HIDE DEF to
<1>3. DOMAIN templates = 1 .. Len(templates) /\ Len(templates) \in Nat
  BY ListHas
<1> DEFINE n == Len(templates)
<1>4. \A k \in 0 .. n - 1 : \A more :
        AreOf(more, to.exchanges)
          => AreOf(AddExchange(more, to.host, templates[k + 1], to.only, to.known), to.exchanges)
  <2>1. \A k \in 0 .. n - 1 : k + 1 \in DOMAIN templates
    BY <1>3
  <2> QED
    BY <1>2, <2>1, AddExchangeOf
<1>5. AreOf(acc, to.exchanges)
  BY <1>2
<1>6. AreOf(SelectingOf!Table(to, acc, templates)[DOMAIN templates], to.exchanges)
  BY <1>3, <1>4, <1>5, SelectingOf!FoldKeeps, InductionHolds
<1> QED
  BY <1>1, <1>2, <1>6

(* The templates as they are sent keep their protocol. *)
LEMMA AddressedAre ==
  ASSUME NEW port
  PROVE  LET templates == Addressed(Templates, port)
         IN  IsList(templates) /\ \A i \in DOMAIN templates : templates[i].protocol \in ToSet(AllDecoders)
<1> DEFINE templates == Addressed(Templates, port)
<1>1. DOMAIN Templates = 1 .. Len(Templates) /\ Len(Templates) \in Nat
  BY InputsAssumption, ListHas
<1>2. templates = [i \in 1 .. Len(Templates) |-> templates[i]]
  BY <1>1 DEF Addressed
<1>3. ASSUME NEW i \in DOMAIN templates PROVE templates[i].protocol \in ToSet(AllDecoders)
  <2> DEFINE t == Templates[i]
  <2>1. i \in DOMAIN Templates
    BY <1>1, <1>2
  <2>2. IsTemplate(t)
    BY <2>1, ProbingAssumption
  <2>3. templates[i] = IF port = 0 THEN t ELSE [t EXCEPT !.port = port]
    BY <2>1 DEF Addressed
  <2> HIDE DEF t, templates
  <2>4. [t EXCEPT !.port = port].protocol = t.protocol
    BY <2>2 DEF IsTemplate
  <2> QED
    BY <2>2, <2>3, <2>4 DEF IsTemplate
<1>4. IsList(templates)
  <2> HIDE DEF templates
  <2> QED
    BY <1>1, <1>2, ListFrom
<1> QED
  BY <1>3, <1>4

LEMMA PlanIsOf ==
  ASSUME NEW hosts, NEW n \in Nat, DOMAIN hosts = 1 .. n, NEW port, NEW only, NEW known, NEW exchanges,
         \A k \in 1 .. n : \A i \in DOMAIN Addressed(Templates, port) :
           (only => KnownOpen(known, hosts[k], Addressed(Templates, port)[i]))
             => [host |-> hosts[k], template |-> Addressed(Templates, port)[i]] \in exchanges
  PROVE  AreOf(BuildPlan(hosts, Templates, port, only, known), exchanges)
<1> DEFINE templates == Addressed(Templates, port)
           of == [templates |-> templates, only |-> only, known |-> known, exchanges |-> exchanges]
<1>1. IsList(templates)
  BY AddressedAre
<1>2. BuildPlan(hosts, Templates, port, only, known) = TargetingOf!Table(of, <<>>, hosts)[DOMAIN hosts]
  BY DEF BuildPlan, FoldLeft, MapThenFoldSet, Max, TargetingOf!Table, TargetingOf!Row, TargetingOf!Top
<1>3. \A k \in 1 .. n : \A i \in DOMAIN templates :
           (only => KnownOpen(known, hosts[k], templates[i]))
             => [host |-> hosts[k], template |-> templates[i]] \in exchanges
  OBVIOUS
<1> HIDE DEF templates
<1>4. of.templates = templates /\ of.only = only /\ of.known = known /\ of.exchanges = exchanges
  OBVIOUS
<1> HIDE DEF of
<1>5. \A k \in 0 .. n - 1 : \A acc :
        AreOf(acc, of.exchanges)
          => AreOf(AddTarget(acc, hosts[k + 1], of.templates, of.only, of.known), of.exchanges)
  <2>1. \A k \in 0 .. n - 1 : k + 1 \in 1 .. n
    OBVIOUS
  <2> QED
    BY <1>1, <1>3, <1>4, <2>1, AddTargetOf
<1>6. AreOf(<<>>, of.exchanges)
  BY NoneIsList DEF AreOf
<1>7. AreOf(TargetingOf!Table(of, <<>>, hosts)[DOMAIN hosts], of.exchanges)
  BY <1>5, <1>6, TargetingOf!FoldKeeps, InductionHolds
<1> QED
  BY <1>2, <1>4, <1>7

LEMMA TargetsAreFinite ==
  ASSUME NEW specs, IsList(specs), \A i \in DOMAIN specs : IsTarget(specs[i])
  PROVE  IsFiniteSet(UNION {ExpandOne(specs[i]).addresses : i \in DOMAIN specs})
<1> DEFINE addresses == [i \in DOMAIN specs |-> ExpandOne(specs[i]).addresses]
           F == {addresses[i] : i \in DOMAIN specs}
<1>1. \A S \in F : IsFiniteSet(S)
  BY TargetIsFinite
<1>2. IsFiniteSet(DOMAIN specs)
  <2>1. DOMAIN specs = 1 .. Len(specs) /\ Len(specs) \in Nat
    BY ListHas
  <2> QED
    BY <2>1, FS_Interval
<1>3. F = {ExpandOne(specs[i]).addresses : i \in DOMAIN specs}
  OBVIOUS
<1>4. IsFiniteSet(F)
  <2> HIDE DEF addresses
  <2> QED
    BY <1>2, ImageIsFinite
<1> HIDE DEF F
<1>5. IsFiniteSet(UNION F)
  BY <1>1, <1>4, FS_UNION
<1> QED
  BY <1>3, <1>5

LEMMA TargetIsPlaced ==
  ASSUME NEW spec, IsTarget(spec), spec.from \in Nat \ {0}, NEW address \in ExpandOne(spec).addresses
  PROVE  address \in Int /\ address # NoAddress
<1>1. spec.from \in Int /\ spec.from > 0 /\ spec.to \in Int
  BY DEF IsTarget
<1>2. ExpandOne(spec).addresses \in
        {{}, {spec.from}, ExpandRange(spec).addresses, ExpandPrefix(spec).addresses}
  BY DEF ExpandOne, Accepted, Refused
<1>3. ExpandRange(spec).addresses \in {{}, spec.from .. spec.to}
  BY DEF ExpandRange, Accepted, Refused
<1> DEFINE last == spec.from + 2 ^ spec.bits - 1
<1>4. ExpandPrefix(spec).addresses \in {{}, spec.from + 1 .. last - 1, spec.from .. last}
  BY DEF ExpandPrefix, Accepted, Refused
<1>5. last \in Int
  <2>1. 2 ^ spec.bits \in Int
    BY DEF IsTarget
  <2> QED
    BY <1>1, <2>1
<1> HIDE DEF last
<1>6. address \in Int /\ address >= spec.from
  <2>1. CASE address = spec.from
    BY <1>1, <2>1
  <2>2. CASE address \in spec.from .. spec.to
    BY <1>1, <2>2
  <2>3. CASE address \in spec.from + 1 .. last - 1
    BY <1>1, <1>5, <2>3
  <2>4. CASE address \in spec.from .. last
    BY <1>1, <1>5, <2>4
  <2> QED
    BY <1>2, <1>3, <1>4, <2>1, <2>2, <2>3, <2>4
<1> QED
  BY <1>1, <1>6 DEF NoAddress

(* Every target is an address. *)
LEMMA TargetsArePlaced ==
  ASSUME NEW specs, IsList(specs), \A i \in DOMAIN specs : IsTarget(specs[i]),
         \A i \in DOMAIN specs : specs[i].from \in Nat \ {0}
  PROVE  \E n \in Nat : /\ DOMAIN ExpandTargets(specs) = 1 .. n
                        /\ \A k \in 1 .. n : ExpandTargets(specs)[k] # NoAddress
<1> DEFINE expanded == [i \in DOMAIN specs |-> ExpandOne(specs[i])]
           all == UNION {expanded[i].addresses : i \in DOMAIN specs}
<1>1. IsFiniteSet(all)
  <2>1. all = UNION {ExpandOne(specs[i]).addresses : i \in DOMAIN specs}
    OBVIOUS
  <2> HIDE DEF all
  <2> QED
    BY <2>1, TargetsAreFinite
<1>2. \A address \in all : address \in Int /\ address # NoAddress
  BY TargetIsPlaced
<1>3. ExpandTargets(specs) \in {<<>>, InOrder(all, <)}
  BY DEF ExpandTargets
<1>4. DOMAIN InOrder(all, <) = 1 .. Cardinality(all)
  BY DEF InOrder
<1> HIDE DEF all
<1>5. Cardinality(all) \in Nat
  BY <1>1, FS_CardinalityType
<1>6. \A k \in 1 .. Cardinality(all) : InOrder(all, <)[k] # NoAddress
  BY <1>1, <1>2, InOrderAreThose
<1>7. CASE ExpandTargets(specs) = <<>>
  BY <1>7, NoneIsList
<1>8. CASE ExpandTargets(specs) = InOrder(all, <)
  BY <1>4, <1>5, <1>6, <1>8
<1> QED
  BY <1>3, <1>7, <1>8

LEMMA SeenIsSeen ==
  ASSUME NEW d, NEW port, NEW transport, SeenAt(d, port, transport, SeenOpen),
         NEW addresses, NEW a \in addresses, Owner[a] = d, d \in OneIP => a = IPOf[d]
  PROVE  WasSeen(port, transport, addresses)
<1>1. PICK ip : Owner[ip] = d /\ (d \in OneIP => ip = IPOf[d]) /\ <<ip, port, transport>> \in SeenOpen
  BY DEF SeenAt
<1> DEFINE seen == <<ip, port, transport>>
<1>2. seen \in SeenOpen /\ seen[1] = ip /\ seen[2] = port /\ seen[3] = transport
  BY <1>1
<1> HIDE DEF seen
<1> QED
  BY <1>1, <1>2 DEF WasSeen

(* What is known open was seen open at the host, or at another IP of it.    *)
LEMMA KnownIsSeen ==
  ASSUME NEW known, Sits(known, SeenOpen), NEW host, host # NoAddress, NEW template,
         KnownOpen(known, host, template)
  PROVE  WasSeen(template.port, template.transport, {host})
<1>1. PICK i \in DOMAIN known :
        /\ host \in {known[i].addr.v4, known[i].addr.v6}
        /\ \E s \in ToSet(known[i].services) : s.port = template.port /\ s.transport = template.transport
  BY DEF KnownOpen, ToSet
<1>2. PICK j \in DOMAIN known[i].services :
        known[i].services[j].port = template.port /\ known[i].services[j].transport = template.transport
  BY <1>1 DEF ToSet
<1>3. PICK d \in DOMAIN TruthOf : IsOf(known[i], d) /\ Lodged(known[i], d, SeenOpen)
  BY <1>1 DEF Sits, Owned, Housed
<1>4. Owner[host] = d
  BY <1>1, <1>3 DEF IsOf
<1>5. d \in OneIP => IPOf[d] = host
  BY <1>1, <1>3 DEF Lodged, Home
<1>6. SeenAt(d, template.port, template.transport, SeenOpen)
  BY <1>2, <1>3 DEF Lodged
<1> QED
  BY <1>4, <1>5, <1>6, SeenIsSeen

(* A plan speaks the protocols there are decoders for; one held to known    *)
(* ports goes where something was seen; and what a scan found speaks what   *)
(* the devices answer in.                                                   *)
IsPlan(list) ==
  \A i \in DOMAIN list : list[i].host # NoAddress /\ list[i].template.protocol \in ToSet(AllDecoders)

IsAimed(exchange) == WasSeen(exchange.template.port, exchange.template.transport, {exchange.host})

PInv ==
  /\ IsPlan(plan)
  /\ Sound /\ stage = "probe" /\ (\A request \in PlanRequests : request.onlyKnown) =>
       \A i \in DOMAIN plan : IsAimed(plan[i])
  /\ AreProbed(probed)

LEMMA MakePlanIsKnown ==
  ASSUME IInv, TInv, HInv, PInv, NEW request \in PlanRequests, MakePlan(request)
  PROVE  PInv'
<1> DEFINE hosts == ExpandTargets(request.targets)
           templates == Addressed(Templates, request.port)
           only == \A r \in PlanRequests : r.onlyKnown
           exchanges == {e \in [host : {hosts[k] : k \in DOMAIN hosts}, template : ToSet(templates)] :
                           /\ e.host # NoAddress /\ e.template.protocol \in ToSet(AllDecoders)
                           /\ Sound /\ only => IsAimed(e)}
<1>1. PICK n \in Nat : DOMAIN hosts = 1 .. n /\ \A k \in 1 .. n : hosts[k] # NoAddress
  <2>1. IsList(request.targets) /\ \A i \in DOMAIN request.targets : IsTarget(request.targets[i])
    BY InputsAssumption
  <2> QED
    BY <2>1, ProbingAssumption, TargetsArePlaced
<1>2. \A i \in DOMAIN templates : templates[i].protocol \in ToSet(AllDecoders)
  BY AddressedAre
<1>3. plan' = BuildPlan(hosts, Templates, request.port, request.onlyKnown, saved.assets)
  BY DEF MakePlan
<1>4. \A i \in DOMAIN templates : templates[i] \in ToSet(templates)
  BY DEF ToSet
<1> HIDE DEF hosts
<1>5. \A k \in 1 .. n : \A i \in DOMAIN templates :
        (request.onlyKnown => KnownOpen(saved.assets, hosts[k], templates[i]))
          => [host |-> hosts[k], template |-> templates[i]] \in exchanges
  <2> SUFFICES ASSUME NEW k \in 1 .. n, NEW i \in DOMAIN templates,
                      request.onlyKnown => KnownOpen(saved.assets, hosts[k], templates[i])
               PROVE  [host |-> hosts[k], template |-> templates[i]] \in exchanges
    OBVIOUS
  <2> DEFINE host == hosts[k]
             template == templates[i]
             e == [host |-> host, template |-> template]
  <2>1. host # NoAddress /\ template.protocol \in ToSet(AllDecoders) /\ template \in ToSet(templates)
    BY <1>1, <1>2, <1>4
  <2>2. host \in {hosts[m] : m \in DOMAIN hosts}
    BY <1>1
  <2> HIDE DEF templates, host, template
  <2>3. ASSUME Sound, only PROVE WasSeen(template.port, template.transport, {host})
    <3>1. KnownOpen(saved.assets, host, template)
      BY <2>3 DEF host, template
    <3>2. Sits(saved.assets, SeenOpen)
      BY <2>3, SitsNow
    <3> QED
      BY <2>1, <3>1, <3>2, KnownIsSeen
  <2>4. e.host = host /\ e.template = template
    OBVIOUS
  <2>5. e \in [host : {hosts[m] : m \in DOMAIN hosts}, template : ToSet(templates)]
    BY <2>1, <2>2
  <2> HIDE DEF e
  <2>6. e \in exchanges
    BY <2>1, <2>3, <2>4, <2>5 DEF IsAimed
  <2> QED
    BY <2>6 DEF e, host, template
<1> HIDE DEF exchanges
<1>6. AreOf(plan', exchanges)
  BY <1>1, <1>3, <1>5, PlanIsOf DEF templates
<1>7. /\ SeenOpen' = SeenOpen /\ (Sound' <=> Sound)
  BY InputsStay DEF MakePlan, planning
<1>8. \A i \in DOMAIN plan' : /\ plan'[i].host # NoAddress
                              /\ plan'[i].template.protocol \in ToSet(AllDecoders)
                              /\ Sound /\ only => IsAimed(plan'[i])
  BY <1>6 DEF AreOf, exchanges
<1>9. AreProbed(probed')
  BY DEF PInv, MakePlan
<1> QED
  BY <1>7, <1>8, <1>9 DEF PInv, IsPlan, IsAimed, WasSeen

LEMMA ProbeIsKnown == IInv /\ PInv /\ Probe => PInv'
<1> SUFFICES ASSUME IInv, PInv, Probe PROVE PInv'
  OBVIOUS
<1>0. PICK answering \in SUBSET {i \in DOMAIN plan :
                 <<plan[i].host, plan[i].template.port>> \in DOMAIN Replies} :
        \E read \in [answering -> 1 .. MaxDecodeAttempt] :
        LET order == InOrder(answering, <)
        IN  probed' = BuildInventory([i \in DOMAIN order |-> Answer(plan[order[i]], read[order[i]])])
  BY DEF Probe
<1>1. PICK read \in [answering -> 1 .. MaxDecodeAttempt] :
        LET order == InOrder(answering, <)
        IN  probed' = BuildInventory([i \in DOMAIN order |-> Answer(plan[order[i]], read[order[i]])])
  BY <1>0
<1> DEFINE order == InOrder(answering, <)
           observations == [i \in DOMAIN order |-> Answer(plan[order[i]], read[order[i]])]
           n == Cardinality(answering)
<1>2. IsFiniteSet(answering) /\ answering \subseteq Int
  <2>1. DOMAIN plan = 1 .. Len(plan) /\ Len(plan) \in Nat
    BY ListHas DEF IInv
  <2>2. answering \subseteq 1 .. Len(plan)
    BY <2>1
  <2>3. IsFiniteSet(1 .. Len(plan))
    BY <2>1, FS_Interval
  <2>4. IsFiniteSet(answering)
    BY <2>2, <2>3, FS_Subset
  <2> QED
    BY <2>1, <2>2, <2>4
<1>3. n \in Nat
  BY <1>2, FS_CardinalityType
<1>4. DOMAIN order = 1 .. n /\ DOMAIN observations = 1 .. n
  BY DEF InOrder
<1>5. \A i \in 1 .. n : order[i] \in answering
  BY <1>2, InOrderAreThose
<1>6. \A i \in 1 .. n : observations[i] = Answer(plan[order[i]], read[order[i]])
  BY <1>4
<1>7. probed' = BuildInventory(observations)
  BY <1>1
<1> HIDE DEF order, observations, n
<1>8. \A i \in 1 .. n : IsSpoken(observations[i])
  <2>1. \A k \in answering : /\ <<plan[k].host, plan[k].template.port>> \in DOMAIN Replies
                             /\ plan[k].template.protocol \in ToSet(AllDecoders)
                             /\ read[k] \in 1 .. MaxDecodeAttempt
    BY DEF PInv, IsPlan
  <2>2. \A k \in answering : IsSpoken(Answer(plan[k], read[k]))
    BY <2>1, AnswerIsSpoken
  <2> QED
    BY <1>5, <1>6, <2>2
<1>9. AreProbed(probed')
  BY <1>3, <1>4, <1>7, <1>8, BuildInventoryProbed
<1>10. plan' = plan /\ stage' # "probe"
  BY DEF Probe
<1> QED
  BY <1>9, <1>10 DEF PInv, IsPlan

LEMMA NextIsKnown == IInv /\ TInv /\ HInv /\ PInv /\ [Next]_vars => PInv'
<1> SUFFICES ASSUME IInv, TInv, HInv, PInv, [Next]_vars PROVE PInv'
  OBVIOUS
<1>1. ASSUME NEW request \in PlanRequests, MakePlan(request) PROVE PInv'
  BY <1>1, MakePlanIsKnown
<1>2. CASE Probe
  BY <1>2, ProbeIsKnown
<1>3. CASE UNCHANGED vars
  <2>1. SeenOpen' = SeenOpen /\ (Sound' <=> Sound)
    BY <1>3, InputsStay DEF vars
  <2> QED
    BY <1>3, <2>1 DEF vars, PInv, IsAimed, WasSeen
<1>4. ASSUME plan' = plan, probed' = probed, stage' # "probe" PROVE PInv'
  BY <1>4 DEF PInv
<1>5. CASE ScanBindings \/ HandleFrame \/ WriteEnds \/ WriteFlows
  BY <1>4, <1>5 DEF ScanBindings, HandleFrame, WriteEnds, WriteFlows, ingesting
<1>6. ASSUME NEW service \in pass.open, WriteService(service) PROVE PInv'
  BY <1>4, <1>6 DEF WriteService, ingesting
<1>7. CASE ScanHost \/ ReadDirective \/ ReadRecord \/ SkipLine \/ LeaveLog
  BY <1>4, <1>7 DEF ScanHost, ReadDirective, ReadRecord, SkipLine, LeaveLog, InLog, Idle, reading
<1>8. CASE Finish
  BY <1>4, <1>8 DEF Finish
<1> QED
  BY <1>1, <1>2, <1>3, <1>5, <1>6, <1>7, <1>8 DEF Next

LEMMA InitIsKnown == Init => PInv
<1> SUFFICES ASSUME Init PROVE PInv
  OBVIOUS
<1>1. AreProbed(<<>>) /\ IsPlan(<<>>)
  BY NoneIsList, EmptyInventory DEF AreProbed, IsPlan
<1> QED
  BY <1>1 DEF PInv, Init

(* A service is in the inventory only of the device that sent from the      *)
(* port, or of which a scan or a log names it (sink, markOpen, finish), and *)
(* with that very address if the device is read with no other; a scan held  *)
(* to known ports knocks nowhere else (knownOpen), and a service it finds   *)
(* is in the protocol the device answers in (BuildInventory).               *)
THEOREM OpenServicesAnswered == Spec => []OpenIsAnswered
<1>1. IInv /\ TInv /\ HInv /\ PInv => OpenIsAnswered
  <2> SUFFICES ASSUME IInv, TInv, HInv, PInv, Sound PROVE OpenIsAnswered
    BY DEF OpenIsAnswered
  <2>1. ASSUME NEW known, Sits(known, SeenOpen), NEW asset \in ToSet(known), NEW s \in ToSet(asset.services)
        PROVE  WasSeen(s.port, s.transport, AddressesOf(asset))
    <3>1. PICK i \in DOMAIN known : asset = known[i]
      BY DEF ToSet
    <3>2. PICK j \in DOMAIN asset.services : s = asset.services[j]
      BY DEF ToSet
    <3>3. PICK d \in DOMAIN TruthOf : IsOf(asset, d) /\ Lodged(asset, d, SeenOpen)
      BY <2>1, <3>1 DEF Sits, Owned, Housed
    <3>4. asset.services # <<>>
      BY <3>2, NoneIsList
    <3>5. PICK ip \in {asset.addr.v4, asset.addr.v6} \ {NoAddress} : d \in OneIP => ip = IPOf[d]
      BY <3>3, <3>4 DEF Lodged, Shows
    <3>6. ip \in AddressesOf(asset) /\ Owner[ip] = d
      BY <3>3, <3>5 DEF IsOf, AddressesOf
    <3>7. SeenAt(d, s.port, s.transport, SeenOpen)
      BY <3>2, <3>3 DEF Lodged
    <3> QED
      BY <3>5, <3>6, <3>7, SeenIsSeen
  <2>2. Sits(assets, SeenOpen) /\ Sits(saved.assets, SeenOpen)
    BY SitsNow
  <2>3. ASSUME NEW asset \in ToSet(probed), NEW s \in ToSet(asset.services)
        PROVE  \E ip \in AddressesOf(asset) : Messages[Replies[<<ip, s.port>>]].protocol = s.protocol
    <3>1. PICK i \in DOMAIN probed : asset = probed[i]
      BY DEF ToSet
    <3>2. PICK j \in DOMAIN asset.services : s = asset.services[j]
      BY DEF ToSet
    <3>3. PICK h : IsProbed(asset, h)
      BY <3>1 DEF PInv, AreProbed
    <3>4. h \in AddressesOf(asset)
      BY <3>3, AddressesForIs DEF IsProbed, AddressesOf
    <3>5. s.protocol = Messages[Replies[<<h, s.port>>]].protocol
      BY <3>2, <3>3 DEF IsProbed, SpeaksAt, Spoken
    <3> QED
      BY <3>4, <3>5
  <2>4. stage = "probe" /\ (\A request \in PlanRequests : request.onlyKnown) =>
          \A i \in DOMAIN plan :
            WasSeen(plan[i].template.port, plan[i].template.transport, {plan[i].host})
    BY DEF PInv, IsAimed
  <2>5. \A asset \in ToSet(assets) \cup ToSet(saved.assets) : \A s \in ToSet(asset.services) :
          WasSeen(s.port, s.transport, AddressesOf(asset))
    BY <2>1, <2>2
  <2>6. \A asset \in ToSet(probed) : \A s \in ToSet(asset.services) :
          \E ip \in AddressesOf(asset) : Messages[Replies[<<ip, s.port>>]].protocol = s.protocol
    BY <2>3
  <2> QED
    BY <2>4, <2>5, <2>6 DEF OpenIsAnswered
<1> QED
  BY <1>1, InitHolds, InitIsTrue, InitIsHoused, InitIsKnown, NextKeeps, NextIsTrue, NextIsHoused,
     NextIsKnown, PTL DEF Spec
=============================================================================

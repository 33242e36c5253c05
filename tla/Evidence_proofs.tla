-------------------------- MODULE Evidence_proofs ---------------------------
(***************************************************************************)
(* What a service says is written, once: for any captures, of any number   *)
(* of frames, devices and segments, the evidence of an inventory has each  *)
(* thing that a promptly answering service said, and no entry but that of  *)
(* the first identity says what another has said before.                   *)
(*                                                                         *)
(* The invariant EInv adds to those of Discovery_proofs what has been said *)
(* in the frames so far, and where it was written.                         *)
(***************************************************************************)
EXTENDS Discovery_proofs

-----------------------------------------------------------------------------
(* What is written of what a service says. *)

(* The entries about the service are the same, and say the same. *)
SameEntries(known, more, service) ==
  /\ EntriesOf(more, service) = EntriesOf(known, service)
  /\ \A p \in EntriesOf(known, service) : Entry(more, p).fields = Entry(known, p).fields

(* What is written of the service: what was said, and nothing twice. *)
IsWritten(known, service, fields) ==
  /\ FieldsOf(known, EntriesOf(known, service)) = fields
  /\ \A p, q \in EntriesOf(known, service) :
       Repeats(known, service, p) /\ Repeats(known, service, q) => p = q

LEMMA SameEntriesSay ==
  ASSUME NEW known, NEW more, NEW service, SameEntries(known, more, service)
  PROVE  /\ FieldsOf(more, EntriesOf(more, service)) = FieldsOf(known, EntriesOf(known, service))
         /\ \A p \in EntriesOf(known, service) : Repeats(more, service, p) <=> Repeats(known, service, p)
<1> DEFINE entries == EntriesOf(known, service)
<1>1. EntriesOf(more, service) = entries /\ \A p \in entries : Entry(more, p).fields = Entry(known, p).fields
  BY DEF SameEntries
<1> HIDE DEF entries
<1>2. ASSUME NEW some \in SUBSET entries PROVE FieldsOf(more, some) = FieldsOf(known, some)
  <2>1. {Entry(more, p).fields : p \in some} = {Entry(known, p).fields : p \in some}
    BY <1>1
  <2> QED
    BY <2>1, Zenon DEF FieldsOf
<1>3. ASSUME NEW p \in entries PROVE Repeats(more, service, p) <=> Repeats(known, service, p)
  <2> DEFINE earlier == {q \in entries : IsEarlier(q, p)}
  <2>1. FieldsOf(more, earlier) = FieldsOf(known, earlier)
    BY <1>2
  <2>2. Repeats(more, service, p) <=> Entry(more, p).fields \subseteq FieldsOf(more, earlier)
    BY <1>1 DEF Repeats
  <2>3. Repeats(known, service, p) <=> Entry(known, p).fields \subseteq FieldsOf(known, earlier)
    BY DEF Repeats, entries
  <2> QED
    BY <1>1, <2>1, <2>2, <2>3
<1> QED
  BY <1>1, <1>2, <1>3 DEF entries

LEMMA SameIsWritten ==
  ASSUME NEW known, NEW more, NEW service, SameEntries(known, more, service),
         NEW fields, IsWritten(known, service, fields)
  PROVE  IsWritten(more, service, fields)
<1>1. EntriesOf(more, service) = EntriesOf(known, service)
  BY DEF SameEntries
<1> QED
  BY <1>1, SameEntriesSay DEF IsWritten

(* Evidence is kept where it is, and a new asset has none. *)
Carries(known, more) ==
  /\ DOMAIN known \subseteq DOMAIN more
  /\ \A i \in DOMAIN known : more[i].evidence = known[i].evidence
  /\ \A i \in DOMAIN more \ DOMAIN known : more[i].evidence = <<>>

(* So the entries about every service stay what they are. *)
LEMMA PlacesAre ==
  ASSUME NEW known, NEW p
  PROVE  p \in EntryPlaces(known) <=>
           \E i \in DOMAIN known : \E j \in DOMAIN known[i].evidence : p = <<i, j>>
  BY DEF EntryPlaces

LEMMA CarriedSame ==
  ASSUME NEW known, NEW more, Carries(known, more), NEW service
  PROVE  SameEntries(known, more, service)
<1>1. ASSUME NEW p PROVE p \in EntryPlaces(more) <=> p \in EntryPlaces(known)
  <2>1. \A i \in DOMAIN more \ DOMAIN known : DOMAIN more[i].evidence = {}
    BY NoneIsList DEF Carries
  <2>2. (\E i \in DOMAIN more : \E j \in DOMAIN more[i].evidence : p = <<i, j>>) <=>
        (\E i \in DOMAIN known : \E j \in DOMAIN known[i].evidence : p = <<i, j>>)
    BY <2>1 DEF Carries
  <2> QED
    BY <2>2, PlacesAre
<1>2. ASSUME NEW p \in EntryPlaces(known) PROVE Entry(more, p) = Entry(known, p)
  <2>1. PICK i \in DOMAIN known : \E j \in DOMAIN known[i].evidence : p = <<i, j>>
    BY PlacesAre
  <2> QED
    BY <2>1 DEF Carries, Entry
<1>3. EntriesOf(more, service) = EntriesOf(known, service)
  BY <1>1, <1>2 DEF EntriesOf
<1> QED
  BY <1>2, <1>3 DEF SameEntries, EntriesOf

LEMMA CarriesBoth ==
  ASSUME NEW a, NEW b, NEW c, Carries(a, b), Carries(b, c)
  PROVE  Carries(a, c)
  BY DEF Carries

(* The asset of an address has no evidence when it is new. *)
LEMMA DeviceCarries ==
  ASSUME NEW known, IsInventory(known), NEW addr
  PROVE  Carries(known, Device(known, addr))
<1> DEFINE k == ByAddress(known, addr)
<1>1. CASE k = 0
  <2>1. Device(known, addr) = Append(known, NewAsset(addr))
    BY <1>1 DEF Device
  <2>2. NewAsset(addr).evidence = <<>>
    BY DEF NewAsset
  <2>3. IsList(known)
    BY DEF IsInventory
  <2> DEFINE a == NewAsset(addr)
  <2> HIDE DEF a
  <2>4. /\ DOMAIN Append(known, a) = 1 .. Len(known) + 1 /\ DOMAIN known = 1 .. Len(known) /\ Len(known) \in Nat
        /\ \A i \in DOMAIN known : Append(known, a)[i] = known[i]
        /\ Append(known, a)[Len(known) + 1] = a
    BY <2>3, AppendIsList, ListHas
  <2> DEFINE more == Append(known, a)
  <2>5. more = Device(known, addr) /\ a.evidence = <<>>
    BY <2>1, <2>2 DEF a
  <2> HIDE DEF more
  <2>6. \A i \in DOMAIN more \ DOMAIN known : i = Len(known) + 1
    BY <2>4 DEF more
  <2> QED
    BY <2>4, <2>5, <2>6 DEF Carries, more
<1>2. CASE k # 0
  <2> DEFINE filled == FillAddresses(known[k].addr, addr)
             a == [known[k] EXCEPT !.addr = filled]
             more == [known EXCEPT ![k] = a]
  <2>1. Device(known, addr) = more
    BY <1>2 DEF Device
  <2>2. k \in DOMAIN known => a.evidence = known[k].evidence
    <3> HIDE DEF filled, k
    <3> QED
      BY DEF IsInventory, IsAsset
  <2> HIDE DEF a, k
  <2>3. DOMAIN more = DOMAIN known /\ \A i \in DOMAIN known : more[i] = IF i = k THEN a ELSE known[i]
    OBVIOUS
  <2> HIDE DEF more
  <2> QED
    BY <2>1, <2>2, <2>3 DEF Carries
<1> QED
  BY <1>1, <1>2

(* One asset gets one entry more. *)
IsEntered(known, k, v, more) ==
  /\ IsInventory(known) /\ k \in DOMAIN known /\ DOMAIN more = DOMAIN known
  /\ more[k].evidence = Append(known[k].evidence, v)
  /\ \A i \in DOMAIN known : i # k => more[i].evidence = known[i].evidence

NextPlace(known, k) == <<k, Len(known[k].evidence) + 1>>

(* The entries about its service are one more, after all those of the asset. *)
LEMMA EntryAdded ==
  ASSUME NEW known, NEW k, NEW v, NEW more, IsEntered(known, k, v, more), NEW service
  PROVE  /\ v.endpoint # service => SameEntries(known, more, service)
         /\ v.source = "pcap" /\ v.endpoint = service =>
              EntriesOf(more, service) = EntriesOf(known, service) \cup {NextPlace(known, k)}
         /\ Entry(more, NextPlace(known, k)) = v /\ Len(known[k].evidence) \in Nat
         /\ \A p \in EntriesOf(known, service) :
              /\ Entry(more, p) = Entry(known, p) /\ p = <<p[1], p[2]>> /\ p # NextPlace(known, k)
              /\ p[1] = k => p[2] \in 1 .. Len(known[k].evidence)
<1> DEFINE old == known[k].evidence
           n == Len(old) + 1
<1>1. IsList(old)
  BY DEF IsEntered, IsInventory, IsAsset
<1>2. /\ DOMAIN more[k].evidence = 1 .. n /\ DOMAIN old = 1 .. Len(old) /\ Len(old) \in Nat
      /\ \A j \in DOMAIN old : more[k].evidence[j] = old[j]
      /\ more[k].evidence[n] = v
  BY <1>1, AppendIsList, ListHas DEF IsEntered
<1> DEFINE new == NextPlace(known, k)
<1>n. new = <<k, n>>
  BY DEF NextPlace
<1>k. /\ k \in DOMAIN known /\ DOMAIN more = DOMAIN known
      /\ \A i \in DOMAIN known : i # k => more[i].evidence = known[i].evidence
  BY DEF IsEntered
<1> HIDE DEF old, new
<1>3. DOMAIN more[k].evidence = DOMAIN old \cup {n} /\ n \notin DOMAIN old
  BY <1>2
<1>4. ASSUME NEW p PROVE p \in EntryPlaces(more) <=> p \in EntryPlaces(known) \/ p = new
  <2>1. (\E i \in DOMAIN more : \E j \in DOMAIN more[i].evidence : p = <<i, j>>) <=>
        \/ \E i \in DOMAIN known : \E j \in DOMAIN known[i].evidence : p = <<i, j>>
        \/ p = new
    <3>1. ASSUME NEW i \in DOMAIN more, NEW j \in DOMAIN more[i].evidence, p = <<i, j>>, p # new
          PROVE  j \in DOMAIN known[i].evidence
      BY <1>3, <1>n, <1>k, <3>1 DEF old
    <3>2. ASSUME NEW i \in DOMAIN known, NEW j \in DOMAIN known[i].evidence
          PROVE  j \in DOMAIN more[i].evidence
      BY <1>3, <1>k DEF old
    <3>3. n \in DOMAIN more[k].evidence
      BY <1>3
    <3> QED
      BY <1>n, <1>k, <3>1, <3>2, <3>3
  <2> QED
    BY <2>1, PlacesAre
<1>5. ASSUME NEW p \in EntryPlaces(known)
      PROVE  /\ Entry(more, p) = Entry(known, p) /\ p = <<p[1], p[2]>> /\ p # new
             /\ p[1] = k => p[2] \in DOMAIN old
  <2>3. PICK i \in DOMAIN known : \E j \in DOMAIN known[i].evidence : p = <<i, j>>
    BY PlacesAre
  <2>1. PICK j \in DOMAIN known[i].evidence : p = <<i, j>>
    BY <2>3
  <2>2. i = k => j \in DOMAIN old /\ j # n
    BY <1>3, <1>k, <2>1 DEF old
  <2> QED
    BY <1>2, <1>n, <1>k, <2>1, <2>2 DEF Entry, old
<1>6. Entry(more, new) = v
  BY <1>2, <1>n DEF Entry
<1> HIDE DEF n
<1>7. v.source = "pcap" /\ v.endpoint = service =>
        EntriesOf(more, service) = EntriesOf(known, service) \cup {new}
  BY <1>4, <1>5, <1>6 DEF EntriesOf
<1>8. v.endpoint # service => EntriesOf(more, service) = EntriesOf(known, service)
  BY <1>4, <1>5, <1>6 DEF EntriesOf
<1>9. EntriesOf(known, service) \subseteq EntryPlaces(known)
  BY DEF EntriesOf
<1> QED
  BY <1>2, <1>5, <1>6, <1>7, <1>8, <1>9 DEF SameEntries, n, old, new

(* What the first identity of a service is counted as. *)
IdentityFlag == "identity was recorded"

(* What a service has said is written of it, at one asset.  Of what was     *)
(* heard of it the first identity counts as one thing more.                 *)
IsRecordedAt(known, k, heard, service, fields) ==
  /\ IsWritten(known, service, fields)
  /\ IdentityFlag \notin fields
  /\ fields \subseteq heard /\ heard \subseteq fields \cup {IdentityFlag}
  /\ \A p \in EntriesOf(known, service) : p[1] = k
  /\ IdentityFlag \notin heard => \A p \in EntriesOf(known, service) : ~ Repeats(known, service, p)

(* A service says something that is new. *)
LEMMA SaidMore ==
  ASSUME NEW known, NEW k, NEW v, NEW more, IsEntered(known, k, v, more), v.source = "pcap",
         NEW heard, NEW fields, IsRecordedAt(known, k, heard, v.endpoint, fields),
         NEW news, news \ {IdentityFlag} = v.fields, news \ heard # {}
  PROVE  IsRecordedAt(more, k, heard \cup news, v.endpoint, fields \cup v.fields)
<1> DEFINE service == v.endpoint
           entries == EntriesOf(known, service)
           n == Len(known[k].evidence) + 1
           new == NextPlace(known, k)
<1>r. /\ IsWritten(known, service, fields) /\ IdentityFlag \notin fields
      /\ fields \subseteq heard /\ heard \subseteq fields \cup {IdentityFlag}
      /\ \A p \in EntriesOf(known, service) : p[1] = k
      /\ IdentityFlag \notin heard => \A p \in EntriesOf(known, service) : ~ Repeats(known, service, p)
  BY DEF IsRecordedAt
<1>e. v.endpoint = service /\ new = <<k, n>>
  BY DEF NextPlace
<1>1. /\ EntriesOf(more, service) = entries \cup {new} /\ Entry(more, new) = v /\ Len(known[k].evidence) \in Nat
      /\ \A p \in entries : Entry(more, p) = Entry(known, p) /\ p = <<p[1], p[2]>> /\ p # new
                            /\ (p[1] = k => p[2] \in 1 .. Len(known[k].evidence))
  BY EntryAdded
<1>2. k \in Nat
  BY ListHas DEF IsInventory, IsEntered
<1> HIDE DEF service, new, entries
<1>3. \A p \in entries : IsEarlier(p, new) /\ ~ IsEarlier(new, p)
  <2> SUFFICES ASSUME NEW p \in entries PROVE IsEarlier(p, new) /\ ~ IsEarlier(new, p)
    OBVIOUS
  <2>1. p[1] = k /\ p[2] \in 1 .. Len(known[k].evidence)
    BY <1>1, <1>r DEF entries
  <2>2. p[2] < n /\ ~ n < p[2] /\ ~ k < k
    BY <1>1, <1>2, <2>1
  <2>3. new[1] = k /\ new[2] = n
    BY <1>e
  <2> HIDE DEF n
  <2> QED
    BY <2>1, <2>2, <2>3 DEF IsEarlier
<1>4. ~ IsEarlier(new, new)
  BY <1>1, <1>2, <1>e DEF IsEarlier
<1> HIDE DEF n
<1>5. ASSUME NEW some \in SUBSET entries PROVE FieldsOf(more, some) = FieldsOf(known, some)
  <2>1. {Entry(more, p).fields : p \in some} = {Entry(known, p).fields : p \in some}
    BY <1>1
  <2> QED
    BY <2>1, Zenon DEF FieldsOf
<1>6. ASSUME NEW p \in entries PROVE Repeats(more, service, p) <=> Repeats(known, service, p)
  <2> DEFINE earlier == {q \in entries : IsEarlier(q, p)}
  <2>1. {q \in EntriesOf(more, service) : IsEarlier(q, p)} = earlier
    BY <1>1, <1>3
  <2>2. FieldsOf(more, earlier) = FieldsOf(known, earlier)
    BY <1>5
  <2>3. Repeats(more, service, p) <=> Entry(more, p).fields \subseteq FieldsOf(more, earlier)
    BY <2>1 DEF Repeats
  <2>4. Repeats(known, service, p) <=> Entry(known, p).fields \subseteq FieldsOf(known, earlier)
    BY DEF Repeats, entries
  <2> QED
    BY <1>1, <2>2, <2>3, <2>4
<1>7. FieldsOf(known, entries) = fields
  BY <1>r DEF IsWritten, entries
<1>8. Repeats(more, service, new) <=> v.fields \subseteq fields
  <2>1. {q \in EntriesOf(more, service) : IsEarlier(q, new)} = entries
    BY <1>1, <1>3, <1>4
  <2>2. FieldsOf(more, entries) = fields
    BY <1>5, <1>7
  <2> QED
    BY <1>1, <2>1, <2>2 DEF Repeats
<1>9. FieldsOf(more, EntriesOf(more, service)) = fields \cup v.fields
  <2>1. FieldsOf(more, entries \cup {new}) = FieldsOf(more, entries) \cup Entry(more, new).fields
    BY DEF FieldsOf
  <2> QED
    BY <1>1, <1>5, <1>7, <2>1
<1>10. \A p \in EntriesOf(more, service) : p[1] = k
  BY <1>1, <1>r, <1>e DEF entries
<1>11. CASE v.fields \subseteq fields
  <2>1. IdentityFlag \in news /\ IdentityFlag \notin heard
    BY <1>r, <1>11
  <2>2. \A p \in entries : ~ Repeats(more, service, p)
    BY <1>6, <1>r, <2>1 DEF entries
  <2> QED
    BY <1>1, <1>9, <1>10, <1>r, <2>1, <2>2 DEF IsWritten, IsRecordedAt, service
<1>12. CASE ~ v.fields \subseteq fields
  <2>1. ~ Repeats(more, service, new)
    BY <1>8, <1>12
  <2>2. \A p, q \in entries : Repeats(more, service, p) /\ Repeats(more, service, q) => p = q
    BY <1>6, <1>r DEF IsWritten, entries
  <2>3. IdentityFlag \notin heard => \A p \in entries : ~ Repeats(more, service, p)
    BY <1>6, <1>r DEF entries
  <2>4. \A p, q \in EntriesOf(more, service) : Repeats(more, service, p) /\ Repeats(more, service, q) => p = q
    BY <1>1, <2>1, <2>2
  <2>5. IsWritten(more, service, fields \cup v.fields)
    BY <1>9, <2>4 DEF IsWritten
  <2> QED
    BY <1>1, <1>10, <1>r, <2>1, <2>3, <2>5 DEF IsRecordedAt, service
<1> QED
  BY <1>11, <1>12

-----------------------------------------------------------------------------
(* The addresses of a capture. *)

(* A hardware address that has an IP in the table. *)
Tied(bound, mac, ip) == \E pair \in bound.macToIP : pair[1] = mac /\ pair[2] = ip

(* The two tables agree, and a hardware address has one IP. *)
IsTable(bound) ==
  /\ \A pair \in bound.macToIP :
       Usable(pair[1]) /\ Usable(pair[2]) /\ pair[2] \in DOMAIN bound.ipToMAC
  /\ \A p, q \in bound.macToIP : p[1] = q[1] => p[2] = q[2]
  /\ \A ip \in DOMAIN bound.ipToMAC : Tied(bound, bound.ipToMAC[ip], ip)

(* Addresses that go together with the tables, and assets that show such.   *)
AddrFits(bound, addr) ==
  /\ addr.mac # NoAddress /\ addr.v4 # NoAddress => Tied(bound, addr.mac, addr.v4)
  /\ addr.mac # NoAddress /\ addr.v4 = NoAddress =>
       \A pair \in bound.macToIP : pair[1] = addr.mac => pair[2] \in IPv6Addresses
  /\ addr.mac = NoAddress /\ addr.v4 # NoAddress => addr.v4 \notin DOMAIN bound.ipToMAC

AssetFits(bound, a) ==
  /\ AddrFits(bound, a.addr)
  /\ a.addr.v4 = NoAddress => a.id[1] = NoAddress
  /\ a.addr.mac = NoAddress => a.id[3] = NoAddress

AllFit(bound, known) == \A i \in DOMAIN known : AssetFits(bound, known[i])

(* An asset that is given the addresses of another sight of it. *)
LEMMA FilledFits ==
  ASSUME NEW bound, IsTable(bound), NEW a, AssetFits(bound, a), NEW addr, AddrFits(bound, addr),
         a.id = NewID(addr) \/ Shares(a, addr), NEW b, b.id = a.id, b.addr = FillAddresses(a.addr, addr)
  PROVE  /\ AssetFits(bound, b) /\ b.addr.mac = a.addr.mac
         /\ b.addr.v4 = a.addr.v4 \/ (a.addr.v4 = NoAddress /\ b.addr.v4 \in IPv6Addresses)
<1>1. b.addr.v4 = KeepAddress(a.addr.v4, addr.v4) /\ b.addr.mac = KeepAddress(a.addr.mac, addr.mac)
  BY DEF FillAddresses
<1>2. NewID(addr)[1] = addr.v4 /\ NewID(addr)[3] = addr.mac
  BY DEF NewID
<1>3. b.addr.mac = a.addr.mac
  <2> SUFFICES ASSUME a.addr.mac = NoAddress, addr.mac # NoAddress PROVE FALSE
    BY <1>1 DEF KeepAddress
  <2>1. a.id[3] # addr.mac
    BY DEF AssetFits
  <2>2. addr.v4 # NoAddress /\ a.addr.v4 = addr.v4
    BY <1>2, <2>1 DEF Shares
  <2>3. addr.v4 \notin DOMAIN bound.ipToMAC /\ Tied(bound, addr.mac, addr.v4)
    BY <2>2 DEF AssetFits, AddrFits
  <2> QED
    BY <2>3 DEF Tied, IsTable
<1>4. CASE a.addr.v4 # NoAddress \/ addr.v4 = NoAddress
  <2>1. b.addr.v4 = a.addr.v4
    BY <1>1, <1>4 DEF KeepAddress
  <2> QED
    BY <1>3, <2>1 DEF AssetFits, AddrFits
<1>5. CASE a.addr.v4 = NoAddress /\ addr.v4 # NoAddress
  <2>1. b.addr.v4 = addr.v4
    BY <1>1, <1>5 DEF KeepAddress
  <2>2. a.id[1] # addr.v4
    BY <1>5 DEF AssetFits
  <2>3. addr.mac # NoAddress /\ a.addr.mac = addr.mac
    BY <1>2, <1>5, <2>2 DEF Shares
  <2>4. Tied(bound, addr.mac, addr.v4)
    BY <1>5, <2>3 DEF AddrFits
  <2>5. addr.v4 \in IPv6Addresses
    BY <1>5, <2>3, <2>4 DEF AssetFits, AddrFits, Tied
  <2> QED
    BY <1>3, <1>5, <2>1, <2>3, <2>4, <2>5 DEF AssetFits, AddrFits
<1> QED
  BY <1>4, <1>5

(* A new asset, and the inventory with the asset of an address. *)
LEMMA NewFits ==
  ASSUME NEW bound, NEW addr, AddrFits(bound, addr)
  PROVE  AssetFits(bound, NewAsset(addr))
<1>1. NewAsset(addr).addr = addr /\ NewAsset(addr).id = <<addr.v4, addr.v6, addr.mac>>
  BY DEF NewAsset, NewID
<1> DEFINE a == NewAsset(addr)
<1>2. a.id[1] = addr.v4 /\ a.id[3] = addr.mac
  BY <1>1
<1> HIDE DEF a
<1> QED
  BY <1>1, <1>2 DEF AssetFits, a

LEMMA DeviceFits ==
  ASSUME NEW bound, IsTable(bound), NEW known, IsInventory(known), AllFit(bound, known),
         NEW addr, AddrFits(bound, addr)
  PROVE  AllFit(bound, Device(known, addr))
<1> DEFINE k == ByAddress(known, addr)
           more == Device(known, addr)
<1>1. IsList(known) /\ DOMAIN known = 1 .. Len(known) /\ Len(known) \in Nat
  BY ListHas DEF IsInventory
<1>2. CASE k = 0
  <2> DEFINE a == NewAsset(addr)
  <2>1. more = Append(known, a) /\ AssetFits(bound, a)
    BY <1>2, NewFits DEF Device
  <2> HIDE DEF a, more, k
  <2>2. /\ DOMAIN more = 1 .. Len(known) + 1 /\ \A i \in DOMAIN known : more[i] = known[i]
        /\ more[Len(known) + 1] = a
    BY <1>1, <2>1, AppendIsList
  <2>3. \A i \in DOMAIN more : i \in DOMAIN known \/ i = Len(known) + 1
    BY <1>1, <2>2
  <2> QED
    BY <2>1, <2>2, <2>3 DEF AllFit, more
<1>3. CASE k # 0
  <2> DEFINE filled == FillAddresses(known[k].addr, addr)
             a == [known[k] EXCEPT !.addr = filled]
  <2>1. more = [known EXCEPT ![k] = a]
    BY <1>3 DEF Device
  <2>2. k \in DOMAIN known /\ (known[k].id = NewID(addr) \/ Shares(known[k], addr))
    BY <1>1, <1>3, FoundIs
  <2>3. a.id = known[k].id /\ a.addr = filled
    <3> HIDE DEF k, filled
    <3> QED
      BY <2>2 DEF IsAsset, IsInventory
  <2> HIDE DEF a, k
  <2>4. AssetFits(bound, a)
    BY <2>2, <2>3, FilledFits DEF AllFit
  <2>5. DOMAIN more = DOMAIN known /\ \A i \in DOMAIN known : more[i] = IF i = k THEN a ELSE known[i]
    BY <2>1
  <2> HIDE DEF more
  <2> QED
    BY <2>4, <2>5 DEF AllFit, more
<1> QED
  BY <1>2, <1>3

(* Assets with the ids and the addresses of others are found as those are. *)
LEMMA FoundSame ==
  ASSUME NEW known, NEW more, IsList(known), IsList(more), DOMAIN more = DOMAIN known,
         \A i \in DOMAIN known : more[i].id = known[i].id /\ more[i].addr = known[i].addr, NEW addr
  PROVE  ByAddress(more, addr) = ByAddress(known, addr)
<1>1. /\ DOMAIN known = 1 .. Len(known) /\ Len(known) \in Nat
      /\ DOMAIN more = 1 .. Len(more) /\ Len(more) \in Nat
  BY ListHas
<1>2. 1 .. Len(known) = 1 .. Len(more)
  BY <1>1
<1> DEFINE exact == {i \in 1 .. Len(known) : known[i].id = NewID(addr)}
           sharing == {i \in 1 .. Len(known) : Shares(known[i], addr)}
           exactly == {i \in 1 .. Len(more) : more[i].id = NewID(addr)}
           shared == {i \in 1 .. Len(more) : Shares(more[i], addr)}
<1>3. exactly = exact /\ shared = sharing
  BY <1>1, <1>2 DEF Shares
<1>4. ByAddress(known, addr) =
        IF (IF exact # {} THEN Min(exact) ELSE 0) # 0 THEN (IF exact # {} THEN Min(exact) ELSE 0)
        ELSE IF sharing # {} THEN Min(sharing) ELSE 0
  BY DEF ByAddress, SelectInSeq
<1>5. ByAddress(more, addr) =
        IF (IF exactly # {} THEN Min(exactly) ELSE 0) # 0 THEN (IF exactly # {} THEN Min(exactly) ELSE 0)
        ELSE IF shared # {} THEN Min(shared) ELSE 0
  BY DEF ByAddress, SelectInSeq
<1> HIDE DEF exact, sharing, exactly, shared
<1> QED
  BY <1>3, <1>4, <1>5

(* The asset an IP stands for is the same whatever else is seen. *)
LEMMA FoundStays ==
  ASSUME NEW bound, IsTable(bound), NEW known, IsInventory(known), AllFit(bound, known),
         NEW addr, AddrFits(bound, addr),
         NEW x, x.v4 = NoAddress \/ x.v4 \notin IPv6Addresses, ByAddress(known, x) # 0
  PROVE  ByAddress(Device(known, addr), x) = ByAddress(known, x)
<1> DEFINE k == ByAddress(known, addr)
           more == Device(known, addr)
           i == ByAddress(known, x)
           j == ByAddress(more, x)
           exact == {y \in DOMAIN known : known[y].id = NewID(x)}
           sharing == {y \in DOMAIN known : Shares(known[y], x)}
           exactly == {y \in DOMAIN more : more[y].id = NewID(x)}
           shared == {y \in DOMAIN more : Shares(more[y], x)}
<1>1. DOMAIN known = 1 .. Len(known) /\ Len(known) \in Nat /\ IsList(known)
  BY ListHas DEF IsInventory
<1>2. /\ exact # {} => i \in exact /\ \A y \in exact : i <= y
      /\ exact = {} /\ sharing # {} => i \in sharing /\ \A y \in sharing : i <= y
      /\ exact = {} /\ sharing = {} => i = 0
      /\ i # 0 => i \in DOMAIN known
  BY <1>1, FoundIs
<1>3. /\ exactly # {} => j \in exactly /\ \A y \in exactly : j <= y
      /\ exactly = {} /\ shared # {} => j \in shared /\ \A y \in shared : j <= y
  <2>1. IsList(more)
    BY DeviceKeeps DEF IsInventory
  <2> HIDE DEF more
  <2> QED
    BY <2>1, FoundIs
(* What was found is found, and what is found now was or comes after all. *)
<1>4. /\ exact \subseteq exactly /\ (exact = {} => sharing \subseteq shared)
      /\ \A y \in exactly : y \in exact \/ (y = Len(known) + 1 /\ exact # {})
      /\ \A y \in shared : y \in sharing \/ y = Len(known) + 1
  <2>1. CASE k = 0
    <3> DEFINE a == NewAsset(addr)
    <3>1. more = Append(known, a) /\ a.id = NewID(addr)
      BY <2>1, NewIsAsset DEF Device
    <3> HIDE DEF a, more, k
    <3>2. /\ DOMAIN more = 1 .. Len(known) + 1 /\ \A y \in DOMAIN known : more[y] = known[y]
          /\ more[Len(known) + 1] = a
      BY <1>1, <3>1, AppendIsList
    <3>3. \A y \in DOMAIN more : y \in DOMAIN known \/ y = Len(known) + 1
      BY <1>1, <3>2
    <3>4. DOMAIN known \subseteq DOMAIN more
      BY <1>1, <3>2
    <3>5. exact = {} => NewID(addr) # NewID(x)
      <4> SUFFICES ASSUME exact = {}, NewID(addr) = NewID(x) PROVE FALSE
        OBVIOUS
      <4>1. i \in DOMAIN known /\ Shares(known[i], x)
        BY <1>2
      <4>2. NewID(addr)[1] = addr.v4 /\ NewID(x)[1] = x.v4 /\ NewID(addr)[3] = addr.mac /\ NewID(x)[3] = x.mac
        BY DEF NewID
      <4>3. Shares(known[i], addr)
        BY <4>1, <4>2 DEF Shares
      <4> QED
        BY <1>1, <2>1, <4>1, <4>3, FoundIs DEF k
    <3> QED
      BY <3>1, <3>2, <3>3, <3>4, <3>5
  <2>2. CASE k # 0
    <3> DEFINE filled == FillAddresses(known[k].addr, addr)
               a == [known[k] EXCEPT !.addr = filled]
    <3>1. more = [known EXCEPT ![k] = a]
      BY <2>2 DEF Device
    <3>2. k \in DOMAIN known /\ (known[k].id = NewID(addr) \/ Shares(known[k], addr))
      BY <1>1, <2>2, FoundIs
    <3>3. a.id = known[k].id /\ a.addr = filled
      <4> HIDE DEF k, filled
      <4> QED
        BY <3>2 DEF IsAsset, IsInventory
    <3> HIDE DEF a, k
    <3>4. a.addr.mac = known[k].addr.mac
          /\ (a.addr.v4 = known[k].addr.v4 \/ (known[k].addr.v4 = NoAddress /\ a.addr.v4 \in IPv6Addresses))
      BY <3>2, <3>3, FilledFits DEF AllFit
    <3>5. Shares(a, x) <=> Shares(known[k], x)
      BY <3>4 DEF Shares
    <3>6. DOMAIN more = DOMAIN known /\ \A y \in DOMAIN known : more[y] = IF y = k THEN a ELSE known[y]
      BY <3>1
    <3> HIDE DEF more
    <3> QED
      BY <3>3, <3>5, <3>6
  <2> QED
    BY <2>1, <2>2
<1>5. exact \subseteq DOMAIN known /\ sharing \subseteq DOMAIN known /\ i \in DOMAIN known
  BY <1>2
<1> HIDE DEF exact, sharing, exactly, shared, i, j, more, k
<1>6. CASE exact # {}
  <2>1. j \in exactly /\ i \in exact /\ j <= i /\ \A y \in exact : i <= y
    BY <1>2, <1>3, <1>4, <1>6
  <2>2. j \in exact \/ j = Len(known) + 1
    BY <1>4, <2>1
  <2>3. i <= j
    BY <1>1, <1>5, <2>1, <2>2
  <2>4. i \in Nat /\ j \in Nat
    BY <1>1, <1>5, <2>2
  <2> QED
    BY <2>1, <2>3, <2>4 DEF i, j, more
<1>7. CASE exact = {}
  <2>1. exactly = {} /\ i \in sharing /\ \A y \in sharing : i <= y
    BY <1>1, <1>2, <1>4, <1>5, <1>7
  <2>2. j \in shared /\ j <= i
    BY <1>3, <1>4, <1>7, <2>1
  <2>3. j \in sharing \/ j = Len(known) + 1
    BY <1>4, <2>2
  <2>4. i <= j
    BY <1>1, <1>5, <2>1, <2>3
  <2>5. i \in Nat /\ j \in Nat
    BY <1>1, <1>5, <2>3
  <2> QED
    BY <2>2, <2>4, <2>5 DEF i, j, more
<1> QED
  BY <1>6, <1>7

(* The addresses that a capture gives: of an IP, of an announcement, and of *)
(* a bridge.                                                                *)
LEMMA BoundFits ==
  ASSUME NEW bound, IsTable(bound), NEW ip
  PROVE  /\ AddrFits(bound, BoundAddresses(bound, ip))
         /\ BoundAddresses(bound, ip).v4 = NoAddress \/ BoundAddresses(bound, ip).v4 \notin IPv6Addresses
<1> DEFINE mac == MacFor(bound, ip)
           addr == BoundAddresses(bound, ip)
<1>1. /\ addr.mac = mac
      /\ (ip \notin IPv6Addresses /\ addr.v4 = ip) \/ (ip \in IPv6Addresses /\ addr.v4 = NoAddress)
  BY DEF BoundAddresses, AddressesFor, Hardware
<1>2. ip \in DOMAIN bound.ipToMAC => Tied(bound, mac, ip) /\ mac # NoAddress /\ ip # NoAddress
  BY DEF MacFor, IsTable, Tied, Usable
<1>3. ip \notin DOMAIN bound.ipToMAC => mac = NoAddress
  BY DEF MacFor
<1> HIDE DEF mac, addr
<1>4. CASE ip \in DOMAIN bound.ipToMAC
  <2>1. \A pair \in bound.macToIP : pair[1] = mac => pair[2] = ip
    BY <1>2, <1>4 DEF IsTable, Tied
  <2>2. AddrFits(bound, addr)
    BY <1>1, <1>2, <1>4, <2>1 DEF AddrFits
  <2> QED
    BY <1>1, <2>2 DEF addr
<1>5. CASE ip \notin DOMAIN bound.ipToMAC
  <2>1. AddrFits(bound, addr)
    BY <1>1, <1>3, <1>5 DEF AddrFits
  <2> QED
    BY <1>1, <2>1 DEF addr
<1> QED
  BY <1>4, <1>5

LEMMA AnnouncedFits ==
  ASSUME NEW bound, IsTable(bound), NEW mac, NEW ip, Usable(mac), Usable(ip), MacFor(bound, ip) = mac
  PROVE  AddrFits(bound, [Hardware(mac) EXCEPT !.v4 = ip])
<1> DEFINE addr == [Hardware(mac) EXCEPT !.v4 = ip]
<1>1. addr.mac = mac /\ addr.v4 = ip
  BY DEF Hardware
<1> HIDE DEF addr
<1>2. mac # NoAddress /\ ip # NoAddress
  BY DEF Usable
<1>3. Tied(bound, mac, ip)
  BY <1>2 DEF MacFor, IsTable
<1>4. AddrFits(bound, addr)
  BY <1>1, <1>2, <1>3 DEF AddrFits
<1> QED
  BY <1>4 DEF addr

LEMMA BridgeFits ==
  ASSUME NEW bound, IsTable(bound), NEW mac, Usable(mac), NEW name
  PROVE  AddrFits(bound, [Hardware(mac) EXCEPT !.v4 = IPFor(bound, mac), !.name = name])
<1> DEFINE ip == IPFor(bound, mac)
           addr == [Hardware(mac) EXCEPT !.v4 = ip, !.name = name]
           ips == IPsOf(bound.macToIP, mac)
<1>1. addr.v4 = ip /\ addr.v6 = NoAddress /\ addr.mac = mac /\ IsAddr(addr)
  <2> HIDE DEF ip
  <2> QED
    BY HardwareFilled
<1>2. \A x : x \in ips <=> Tied(bound, mac, x)
  BY DEF IPsOf, Tied
<1>3. ip = IF ips = {} THEN NoAddress ELSE CHOOSE x \in ips : TRUE
  BY DEF IPFor
<1> HIDE DEF addr, ips, ip
<1>4. mac # NoAddress
  BY DEF Usable
<1>5. CASE ips = {}
  BY <1>1, <1>2, <1>3, <1>4, <1>5 DEF AddrFits, Tied, addr, ip
<1>6. CASE ips # {}
  <2>1. ip \in ips
    BY <1>3, <1>6
  <2>2. Tied(bound, mac, ip) /\ ip # NoAddress
    BY <1>2, <2>1 DEF Tied, IsTable, Usable
  <2> QED
    BY <1>1, <1>4, <2>2 DEF AddrFits, addr, ip
<1> QED
  BY <1>5, <1>6

-----------------------------------------------------------------------------
(* What the capture teaches. *)

(* The tables of a capture are finite. *)
AreFinite(tables) ==
  /\ tables = [arp |-> tables.arp, observed |-> tables.observed]
  /\ IsFiniteSet(tables.arp) /\ IsFiniteSet(tables.observed)

LEMMA LearnFinite ==
  ASSUME NEW tables, AreFinite(tables), NEW frame
  PROVE  AreFinite(Learn(tables, frame))
<1>1. CASE frame.kind = "arp"
  <2> DEFINE arp == tables.arp \cup {<<frame.mac, frame.ip>>}
             more == [tables EXCEPT !.arp = arp]
  <2>1. Learn(tables, frame) = more
    BY <1>1 DEF Learn
  <2>2. IsFiniteSet(arp)
    BY FS_AddElement DEF AreFinite
  <2> HIDE DEF arp
  <2>3. more = [arp |-> arp, observed |-> tables.observed]
    BY DEF AreFinite
  <2> HIDE DEF more
  <2> QED
    BY <2>1, <2>2, <2>3 DEF AreFinite
<1>2. CASE frame.kind \in {"ip", "other"} /\ Usable(frame.mac)
  <2> DEFINE seen == tables.observed \cup {<<frame.mac, frame.src>>}
             more == [tables EXCEPT !.observed = seen]
  <2>1. Learn(tables, frame) = more
    BY <1>2 DEF Learn
  <2>2. IsFiniteSet(seen)
    BY FS_AddElement DEF AreFinite
  <2> HIDE DEF seen
  <2>3. more = [arp |-> tables.arp, observed |-> seen]
    BY DEF AreFinite
  <2> HIDE DEF more
  <2> QED
    BY <2>1, <2>2, <2>3 DEF AreFinite
<1>3. CASE ~ frame.kind = "arp" /\ ~ (frame.kind \in {"ip", "other"} /\ Usable(frame.mac))
  <2>1. Learn(tables, frame) = tables
    BY <1>3 DEF Learn
  <2> QED
    BY <2>1
<1> QED
  BY <1>1, <1>2, <1>3

LearningFinite == INSTANCE Folding_proofs WITH
  Op <- LAMBDA ctx, tables, frame : Learn(tables, frame),
  Good <- LAMBDA ctx, k, tables : AreFinite(tables)

LEMMA LearnedFinite ==
  ASSUME NEW capture, IsList(capture)
  PROVE  AreFinite(Learned(capture))
<1> DEFINE s == Frames(capture)
           none == [arp |-> {}, observed |-> {}]
<1>1. Learned(capture) = LearningFinite!Table(0, none, s)[DOMAIN s]
  BY DEF Learned, FoldLeft, MapThenFoldSet, Max, LearningFinite!Table, LearningFinite!Row, LearningFinite!Top
<1>2. DOMAIN s = 1 .. Len(s) /\ Len(s) \in Nat
  BY FramesAre, ListHas
<1>3. AreFinite(none)
  BY FS_EmptySet DEF AreFinite
<1> HIDE DEF s, none
<1>4. \A k \in 0 .. Len(s) - 1 : \A acc : AreFinite(acc) => AreFinite(Learn(acc, s[k + 1]))
  BY LearnFinite
<1>5. AreFinite(LearningFinite!Table(0, none, s)[DOMAIN s])
  BY <1>2, <1>3, <1>4, LearningFinite!FoldKeeps, InductionHolds
<1> QED
  BY <1>1, <1>5

(* A hardware address is announced with one IP, and so the tables agree. *)
LEMMA AnnouncedOnce ==
  ASSUME NEW table, IsFiniteSet(table), NEW p \in Announced(table), NEW q \in Announced(table), p[1] = q[1]
  PROVE  p[2] = q[2]
<1> DEFINE own == {r \in table : r[1] = p[1]}
           ips == IPsOf(table, p[1])
<1>1. p \in own /\ q \in own /\ Cardinality(ips) = 1
  BY DEF Announced, Sole
<1>2. ips = {r[2] : r \in own}
  BY DEF IPsOf
<1>3. IsFiniteSet(own)
  BY FS_Subset
<1>4. IsFiniteSet(ips)
  <2> DEFINE f == [r \in own |-> r[2]]
  <2>1. ips = {f[r] : r \in own}
    BY <1>2
  <2> HIDE DEF own, ips, f
  <2> QED
    BY <1>3, <2>1, ImageIsFinite
<1> HIDE DEF own, ips
<1>5. PICK ip : ips = {ip}
  BY <1>1, <1>4, FS_Singleton
<1>6. p[2] \in ips /\ q[2] \in ips
  BY <1>1, <1>2
<1> QED
  BY <1>5, <1>6

LEMMA BindsTable ==
  ASSUME NEW tables, AreFinite(tables), NEW bound \in Bindings(tables)
  PROVE  IsTable(bound)
<1> DEFINE macToIP == MacToIP(tables)
           said == Announced(tables.arp)
           Claimants(ip) == {p[1] : p \in {q \in macToIP : q[2] = ip}}
           ips == {p[2] : p \in macToIP}
<1>1. /\ macToIP = said \cup {p \in Announced(tables.observed) : p[1] \notin Macs(said)}
      /\ \A p \in macToIP : Usable(p[1]) /\ Usable(p[2])
  BY DEF MacToIP, Announced, Sole
<1>2. ASSUME NEW p \in macToIP, NEW q \in macToIP, p[1] = q[1] PROVE p[2] = q[2]
  <2>1. \A r \in said : r[1] \in Macs(said)
    BY DEF Macs
  <2>2. (p \in said /\ q \in said) \/ (p \in Announced(tables.observed) /\ q \in Announced(tables.observed))
    BY <1>1, <1>2, <2>1
  <2> QED
    BY <1>2, <2>2, AnnouncedOnce DEF AreFinite
<1>3. PICK chosen \in [ips -> Macs(macToIP)] :
        /\ bound = [macToIP |-> macToIP, ipToMAC |-> chosen]
        /\ \A ip \in ips : chosen[ip] \in Claimants(ip)
  BY DEF Bindings
<1>4. bound.macToIP = macToIP /\ bound.ipToMAC = chosen /\ DOMAIN chosen = ips
  BY <1>3
<1> HIDE DEF macToIP
<1>5. \A ip \in ips : Tied(bound, chosen[ip], ip)
  BY <1>3, <1>4 DEF Tied
<1>6. \A p \in macToIP : p[2] \in ips
  OBVIOUS
<1> HIDE DEF ips
<1> QED
  BY <1>1, <1>2, <1>4, <1>5, <1>6 DEF IsTable

-----------------------------------------------------------------------------
(* A message that comes in one segment is read for what it is. *)

(* A whole frame of Modbus is framed. *)
LEMMA WholeModbus ==
  ASSUME NEW bytes, IsList(bytes), bytes # <<>>, Starts(bytes, 1, "modbus"), Declared(bytes, 1) = Len(bytes),
         \A i \in DOMAIN bytes : Starts(bytes, i, "modbus") => i = 1
  PROVE  ModbusFraming(bytes) = "said"
<1> DEFINE Rule(g) == [i \in 1 .. Len(bytes) + 1 |->
                         IF i > Len(bytes) THEN "said"
                         ELSE IF ~ Starts(bytes, i, "modbus") THEN "other"
                         ELSE IF i + Declared(bytes, i) > Len(bytes) + 1 THEN "truncated"
                         ELSE g[i + Declared(bytes, i)]]
           f == [i \in 1 .. Len(bytes) + 1 |-> IF i > Len(bytes) \/ i = 1 THEN "said" ELSE "other"]
           g == CHOOSE g : g = Rule(g)
<1>1. DOMAIN bytes = 1 .. Len(bytes) /\ Len(bytes) \in Nat /\ 1 \in DOMAIN bytes
  BY ListHas, TailIsList
<1>2. ModbusFraming(bytes) = g[1]
  BY DEF ModbusFraming
<1>3. f = Rule(f)
  <2>1. \A i \in 1 .. Len(bytes) + 1 : ~ i > Len(bytes) /\ i # 1 => ~ Starts(bytes, i, "modbus")
    BY <1>1
  <2>2. ~ 1 + Declared(bytes, 1) > Len(bytes) + 1 /\ f[1 + Declared(bytes, 1)] = "said"
    BY <1>1
  <2>3. \A i \in 1 .. Len(bytes) + 1 : f[i] = Rule(f)[i]
    BY <2>1, <2>2
  <2> QED
    BY <2>3
<1>4. g = Rule(g)
  <2> HIDE DEF f, Rule
  <2> QED
    BY <1>3
<1> HIDE DEF g
<1>5. /\ 1 \in 1 .. Len(bytes) + 1 /\ ~ 1 > Len(bytes) /\ ~ 1 + Declared(bytes, 1) > Len(bytes) + 1
      /\ 1 + Declared(bytes, 1) \in 1 .. Len(bytes) + 1 /\ 1 + Declared(bytes, 1) > Len(bytes)
  BY <1>1
<1>6. g[1 + Declared(bytes, 1)] = "said"
  BY <1>4, <1>5
<1>7. g[1] = "said"
  BY <1>4, <1>5, <1>6
<1> QED
  BY <1>2, <1>7

(* One decoder says it, and the others that it is none of theirs. *)
LEMMA WholeIsDecoded ==
  ASSUME NEW m \in DOMAIN Messages, Messages[m].length \in Nat \ {0},
         NEW bytes, bytes = Pieces(m, 1, Messages[m].length),
         NEW protocol \in ToSet(AllDecoders)
  PROVE  /\ protocol = Messages[m].protocol => Decoder(protocol, bytes) = Said(bytes)
         /\ protocol # Messages[m].protocol => Decoder(protocol, bytes) = NotThis
<1> DEFINE n == Messages[m].length
<1>1. /\ bytes = [i \in 1 .. n |-> bytes[i]]
      /\ \A i \in 1 .. n : bytes[i].message = m /\ bytes[i].at = i
  BY DEF Pieces
<1>2. IsList(bytes) /\ Len(bytes) = n /\ DOMAIN bytes = 1 .. n /\ bytes # <<>> /\ 1 \in 1 .. n
  <2>1. IsList(bytes) /\ Len(bytes) = n
    BY <1>1, ListFrom
  <2> QED
    BY <1>1, <2>1, NoneIsList
<1>3. Declared(bytes, 1) = n /\ Messages[bytes[1].message].header <= n
  BY <1>1, <1>2, MessagesAssumption DEF Declared
<1>4. \A i \in 1 .. n : Starts(bytes, i, protocol) <=> i = 1 /\ protocol = Messages[m].protocol
  BY <1>1 DEF Starts
<1>5. Messages[bytes[1].message].header \in Nat
  BY <1>1, <1>2, MessagesAssumption
<1> HIDE DEF n
<1>6. ~ n < n /\ ~ n < Messages[bytes[1].message].header
  BY <1>3, <1>5 DEF n
<1>7. protocol \in {"modbus", "enip", "s7comm", "bacnet"}
  BY DEF AllDecoders, ToSet
<1>8. CASE protocol = "modbus"
  <2>1. protocol = Messages[m].protocol => ModbusFraming(bytes) = "said"
    BY <1>2, <1>3, <1>4, <1>8, WholeModbus
  <2>2. protocol # Messages[m].protocol => ModbusFraming(bytes) = "other"
    BY <1>2, <1>4, <1>8, NotModbus
  <2> QED
    BY <1>8, <2>1, <2>2 DEF Decoder, DecodeModbus
<1>9. CASE protocol = "enip"
  BY <1>2, <1>3, <1>4, <1>6, <1>9 DEF Decoder, DecodeENIP
<1>10. CASE protocol = "s7comm"
  BY <1>2, <1>3, <1>4, <1>6, <1>10 DEF Decoder, DecodeS7, DecodeStarted
<1>11. CASE protocol = "bacnet"
  BY <1>2, <1>3, <1>4, <1>6, <1>11 DEF Decoder, DecodeBACnet, DecodeStarted
<1> QED
  BY <1>7, <1>8, <1>9, <1>10, <1>11

(* What it says is what the message says. *)
LEMMA WholeSays ==
  ASSUME NEW m \in DOMAIN Messages, Messages[m].length \in Nat \ {0},
         NEW bytes, bytes = Pieces(m, 1, Messages[m].length)
  PROVE  /\ Said(bytes).verdict = "said" /\ Said(bytes).fields = Messages[m].fields
         /\ Said(bytes).identity = Messages[m].identity
<1> DEFINE n == Messages[m].length
<1>1. /\ bytes = [i \in 1 .. n |-> bytes[i]]
      /\ \A i \in 1 .. n : bytes[i].message = m
  BY DEF Pieces
<1>2. IsList(bytes) /\ Len(bytes) = n /\ bytes[1].message = m
  BY <1>1, ListFrom
<1>3. SubSeq(bytes, 1, n) = bytes
  <2>1. bytes \in Seq(ToSet(bytes))
    BY <1>2, ListHas
  <2> HIDE DEF n
  <2> QED
    BY <1>2, <2>1
<1> QED
  BY <1>2, <1>3 DEF Said

-----------------------------------------------------------------------------
(* What is recorded of a service. *)

(* It is written where the address of the service leads. *)
IsRecorded(known, bound, heard, service, fields) ==
  IsRecordedAt(known, ByAddress(known, BoundAddresses(bound, service[1])), heard, service, fields)

(* It stays so where the entries and the way to them stay. *)
LEMMA EntryIsSomewhere ==
  ASSUME NEW known, NEW service, NEW p \in EntriesOf(known, service)
  PROVE  p[1] \in DOMAIN known
<1>1. PICK i \in DOMAIN known : \E j \in DOMAIN known[i].evidence : p = <<i, j>>
  BY PlacesAre DEF EntriesOf
<1> QED
  BY <1>1

LEMMA SameRecorded ==
  ASSUME NEW known, NEW more, NEW bound, NEW heard, NEW service, NEW fields,
         IsRecorded(known, bound, heard, service, fields), SameEntries(known, more, service),
         LET x == BoundAddresses(bound, service[1])
         IN  ByAddress(known, x) \in DOMAIN known => ByAddress(more, x) = ByAddress(known, x)
  PROVE  IsRecorded(more, bound, heard, service, fields)
<1> DEFINE x == BoundAddresses(bound, service[1])
           entries == EntriesOf(known, service)
<1>1. EntriesOf(more, service) = entries /\ IsWritten(more, service, fields)
      /\ \A p \in entries : Repeats(more, service, p) <=> Repeats(known, service, p)
  BY SameIsWritten, SameEntriesSay DEF IsRecorded, IsRecordedAt, SameEntries
<1>2. ASSUME NEW p \in entries PROVE p[1] = ByAddress(more, x)
  <2>1. p[1] = ByAddress(known, x) /\ p[1] \in DOMAIN known
    BY EntryIsSomewhere DEF IsRecorded, IsRecordedAt
  <2> QED
    BY <2>1
<1> HIDE DEF entries, x
<1> QED
  BY <1>1, <1>2 DEF IsRecorded, IsRecordedAt, entries, x

LEMMA DeviceRecorded ==
  ASSUME NEW bound, IsTable(bound), NEW known, IsInventory(known), AllFit(bound, known),
         NEW addr, AddrFits(bound, addr), NEW heard, NEW service, NEW fields,
         IsRecorded(known, bound, heard, service, fields)
  PROVE  IsRecorded(Device(known, addr), bound, heard, service, fields)
<1> DEFINE x == BoundAddresses(bound, service[1])
           more == Device(known, addr)
<1>1. SameEntries(known, more, service)
  BY DeviceCarries, CarriedSame
<1>2. ASSUME ByAddress(known, x) \in DOMAIN known PROVE ByAddress(more, x) = ByAddress(known, x)
  <2>1. ByAddress(known, x) # 0
    BY <1>2, ListHas DEF IsInventory
  <2>2. x.v4 = NoAddress \/ x.v4 \notin IPv6Addresses
    BY BoundFits
  <2> HIDE DEF x
  <2> QED
    BY <2>1, <2>2, FoundStays
<1> HIDE DEF more
<1> QED
  BY <1>1, <1>2, SameRecorded DEF more

(* An asset with one entry more. *)
Enters(a, b, v) == b.id = a.id /\ b.addr = a.addr /\ b.evidence = Append(a.evidence, v)

(* The two ways a frame gives one. *)
LEMMA EvidenceEnters ==
  ASSUME NEW a, IsAsset(a), NEW v
  PROVE  Enters(a, AddEvidence(a, v), v)
  BY DEF Enters, AddEvidence, IsAsset

LEMMA IdentifiedEnters ==
  ASSUME NEW a, IsAsset(a), NEW identity, NEW role, NEW v
  PROVE  Enters(a, AddEvidence(SetRole(Identify(a, identity), role), v), v)
<1> DEFINE named == Identify(a, identity)
           b == SetRole(named, role)
<1>1. IsAsset(named) /\ named.id = a.id /\ named.addr = a.addr /\ named.evidence = a.evidence
  <2> DEFINE merged == MergeIdentity(a.identity, identity)
  <2>1. named = [a EXCEPT !.identity = merged]
    BY DEF Identify
  <2> HIDE DEF merged, named
  <2> QED
    BY <2>1 DEF IsAsset
<1> HIDE DEF named
<1>2. IsAsset(b) /\ b.id = a.id /\ b.addr = a.addr /\ b.evidence = a.evidence
  BY <1>1 DEF SetRole, IsAsset
<1> HIDE DEF b
<1>3. Enters(b, AddEvidence(b, v), v)
  BY <1>2, EvidenceEnters
<1> QED
  BY <1>2, <1>3 DEF Enters, b, named

(* One asset gets an entry: of another service, or with what is new of it. *)
LEMMA EntryRecorded ==
  ASSUME NEW d, NEW k, NEW v, NEW more, IsEntered(d, k, v, more), IsList(more),
         \A i \in DOMAIN d : more[i].id = d[i].id /\ more[i].addr = d[i].addr,
         NEW bound, NEW service, NEW heard, NEW fields, IsRecorded(d, bound, heard, service, fields)
  PROVE  /\ v.endpoint # service => IsRecorded(more, bound, heard, service, fields)
         /\ \A news :
              /\ v.endpoint = service /\ v.source = "pcap" /\ k = ByAddress(d, BoundAddresses(bound, service[1]))
              /\ news \ {IdentityFlag} = v.fields /\ news \ heard # {}
              => IsRecorded(more, bound, heard \cup news, service, fields \cup v.fields)
<1>1. \A x : ByAddress(more, x) = ByAddress(d, x)
  BY FoundSame DEF IsEntered, IsInventory
<1>2. ASSUME v.endpoint # service PROVE IsRecorded(more, bound, heard, service, fields)
  <2>1. SameEntries(d, more, service)
    BY <1>2, EntryAdded
  <2> QED
    BY <1>1, <2>1, SameRecorded
<1>3. ASSUME NEW news, v.endpoint = service, v.source = "pcap",
             k = ByAddress(d, BoundAddresses(bound, service[1])),
             news \ {IdentityFlag} = v.fields, news \ heard # {}
      PROVE  IsRecorded(more, bound, heard \cup news, service, fields \cup v.fields)
  <2>1. IsRecordedAt(d, k, heard, v.endpoint, fields)
    BY <1>3 DEF IsRecorded
  <2>2. IsRecordedAt(more, k, heard \cup news, v.endpoint, fields \cup v.fields)
    BY <1>3, <2>1, SaidMore
  <2> QED
    BY <1>1, <1>3, <2>2 DEF IsRecorded
<1> QED
  BY <1>2, <1>3

(* The asset of an address gets an entry. *)
LEMMA UpdateRecorded ==
  ASSUME NEW bound, IsTable(bound), NEW known, IsInventory(known), AllFit(bound, known),
         NEW addr, AddrFits(bound, addr), NEW v, NEW b,
         Enters(Device(known, addr)[ByAddress(Device(known, addr), addr)], b, v)
  PROVE  LET more == [Device(known, addr) EXCEPT ![ByAddress(Device(known, addr), addr)] = b]
         IN  /\ AllFit(bound, more)
             /\ \A service, heard, fields :
                  IsRecorded(known, bound, heard, service, fields) =>
                    /\ v.endpoint # service => IsRecorded(more, bound, heard, service, fields)
                    /\ \A news :
                         /\ v.endpoint = service /\ v.source = "pcap"
                         /\ addr = BoundAddresses(bound, service[1])
                         /\ news \ {IdentityFlag} = v.fields /\ news \ heard # {}
                         => IsRecorded(more, bound, heard \cup news, service, fields \cup v.fields)
<1> DEFINE d == Device(known, addr)
           k == ByAddress(d, addr)
           more == [d EXCEPT ![k] = b]
<1>1. IsInventory(d) /\ AllFit(bound, d) /\ k \in DOMAIN d /\ Enters(d[k], b, v)
  BY DeviceKeeps, DeviceFits, ByAddressStays
<1>2. \A service, heard, fields :
        IsRecorded(known, bound, heard, service, fields) => IsRecorded(d, bound, heard, service, fields)
  BY DeviceRecorded
<1>3. k = ByAddress(d, addr)
  OBVIOUS
<1> HIDE DEF d, k
<1>4. IsList(more) /\ DOMAIN more = DOMAIN d /\ \A i \in DOMAIN d : more[i] = IF i = k THEN b ELSE d[i]
  BY <1>1, ChangeIsList DEF IsInventory
<1> HIDE DEF more
<1>5. IsEntered(d, k, v, more) /\ \A i \in DOMAIN d : more[i].id = d[i].id /\ more[i].addr = d[i].addr
  BY <1>1, <1>4 DEF IsEntered, Enters
<1>6. AllFit(bound, more)
  BY <1>1, <1>4, <1>5 DEF AllFit, AssetFits
<1>7. ASSUME NEW service, NEW heard, NEW fields, IsRecorded(known, bound, heard, service, fields)
      PROVE  /\ v.endpoint # service => IsRecorded(more, bound, heard, service, fields)
             /\ \A news :
                  /\ v.endpoint = service /\ v.source = "pcap"
                  /\ addr = BoundAddresses(bound, service[1])
                  /\ news \ {IdentityFlag} = v.fields /\ news \ heard # {}
                  => IsRecorded(more, bound, heard \cup news, service, fields \cup v.fields)
  <2>1. IsRecorded(d, bound, heard, service, fields)
    BY <1>2, <1>7
  <2>2. /\ v.endpoint # service => IsRecorded(more, bound, heard, service, fields)
        /\ \A news :
             /\ v.endpoint = service /\ v.source = "pcap" /\ k = ByAddress(d, BoundAddresses(bound, service[1]))
             /\ news \ {IdentityFlag} = v.fields /\ news \ heard # {}
             => IsRecorded(more, bound, heard \cup news, service, fields \cup v.fields)
    BY <1>1, <1>4, <1>5, <2>1, EntryRecorded
  <2> QED
    BY <1>3, <2>2
<1> QED
  BY <1>6, <1>7 DEF more, k, d

-----------------------------------------------------------------------------
(* What one frame does to what the services have said. *)

(* What the service has said is written, and nothing of it is held back.    *)
HasSaid(s, bound, service, fields) ==
  /\ service \notin DOMAIN s.pass.buffers
  /\ IsRecorded(s.assets, bound, At(s.pass.identified, service, {}), service, fields)

(* What has been written of the service stays, with what is said now.       *)
KeepsSaid(s, bound, r, service, more) ==
  \A fields : HasSaid(s, bound, service, fields) => HasSaid(r, bound, service, fields \cup more)

(* Nothing is said, or it is said before or after. *)
LEMMA SaidSame ==
  ASSUME NEW s, NEW bound, NEW r, r.assets = s.assets,
         DOMAIN r.pass.buffers \subseteq DOMAIN s.pass.buffers, r.pass.identified = s.pass.identified,
         NEW service
  PROVE  KeepsSaid(s, bound, r, service, {})
<1>1. \A fields : fields \cup {} = fields
  OBVIOUS
<1> QED
  BY <1>1 DEF KeepsSaid, HasSaid

LEMMA SaidBoth ==
  ASSUME NEW s, NEW bound, NEW r, NEW t, NEW service, NEW more,
         KeepsSaid(s, bound, r, service, more), KeepsSaid(r, bound, t, service, {})
  PROVE  KeepsSaid(s, bound, t, service, more)
<1>1. \A fields : fields \cup {} = fields
  OBVIOUS
<1>2. ASSUME NEW fields, HasSaid(s, bound, service, fields) PROVE HasSaid(t, bound, service, fields \cup more)
  <2>1. HasSaid(r, bound, service, fields \cup more)
    BY <1>2 DEF KeepsSaid
  <2>2. HasSaid(t, bound, service, (fields \cup more) \cup {})
    BY <2>1 DEF KeepsSaid
  <2> QED
    BY <1>1, <2>2
<1> QED
  BY <1>2 DEF KeepsSaid

LEMMA SaidThen ==
  ASSUME NEW s, NEW bound, NEW r, NEW t, NEW service, NEW more,
         KeepsSaid(s, bound, r, service, {}), KeepsSaid(r, bound, t, service, more)
  PROVE  KeepsSaid(s, bound, t, service, more)
<1>1. \A fields : fields \cup {} = fields
  OBVIOUS
<1>2. ASSUME NEW fields, HasSaid(s, bound, service, fields) PROVE HasSaid(t, bound, service, fields \cup more)
  <2>1. HasSaid(r, bound, service, fields \cup {})
    BY <1>2 DEF KeepsSaid
  <2>2. HasSaid(r, bound, service, fields)
    BY <1>1, <2>1
  <2> QED
    BY <2>2 DEF KeepsSaid
<1> QED
  BY <1>2 DEF KeepsSaid

(* The asset of an address gets an entry that is about something else.      *)
LEMMA OtherKeepsSaid ==
  ASSUME NEW bound, IsTable(bound), NEW s, IsState(s), AllFit(bound, s.assets),
         NEW addr, AddrFits(bound, addr), NEW v, NEW b,
         Enters(Device(s.assets, addr)[ByAddress(Device(s.assets, addr), addr)], b, v),
         NEW r, r.pass = s.pass,
         r.assets = [Device(s.assets, addr) EXCEPT ![ByAddress(Device(s.assets, addr), addr)] = b]
  PROVE  /\ AllFit(bound, r.assets)
         /\ \A service : v.endpoint # service => KeepsSaid(s, bound, r, service, {})
<1> DEFINE more == [Device(s.assets, addr) EXCEPT ![ByAddress(Device(s.assets, addr), addr)] = b]
<1>1. /\ AllFit(bound, more)
      /\ \A service, heard, fields :
           IsRecorded(s.assets, bound, heard, service, fields) =>
             (v.endpoint # service => IsRecorded(more, bound, heard, service, fields))
  BY UpdateRecorded DEF IsState
<1>2. r.assets = more
  OBVIOUS
<1> HIDE DEF more
<1>3. ASSUME NEW service, v.endpoint # service PROVE KeepsSaid(s, bound, r, service, {})
  <2>1. \A fields : fields \cup {} = fields
    OBVIOUS
  <2>2. \A fields : HasSaid(s, bound, service, fields) => HasSaid(r, bound, service, fields)
    BY <1>1, <1>2, <1>3 DEF HasSaid
  <2> QED
    BY <2>1, <2>2 DEF KeepsSaid
<1> QED
  BY <1>1, <1>2, <1>3

(* A service says something new. *)
LEMMA RecordObservationKeepsSaid ==
  ASSUME NEW bound, IsTable(bound), NEW s, IsState(s), AllFit(bound, s.assets),
         NEW service, NEW decoded
  PROVE  LET r == RecordObservation(s, bound, service, decoded)
         IN  /\ AllFit(bound, r.assets)
             /\ \A other : other # service => KeepsSaid(s, bound, r, other, {})
             /\ IdentityFlag \notin decoded.fields /\ New(s.pass, service, decoded) # {} =>
                  KeepsSaid(s, bound, r, service, decoded.fields)
<1> DEFINE r == RecordObservation(s, bound, service, decoded)
           addr == BoundAddresses(bound, service[1])
           d == Device(s.assets, addr)
           a == d[ByAddress(d, addr)]
           v == Evidence("pcap", decoded.protocol, service, decoded.fields)
           b == AddEvidence(SetRole(Identify(a, decoded.identity), decoded.role), v)
           more == [d EXCEPT ![ByAddress(d, addr)] = b]
           heard == At(s.pass.identified, service, {})
           news == Contribution(decoded)
<1>1. r.assets = more
  BY DEF RecordObservation, Update
<1>2. /\ r.pass.buffers = Without(s.pass.buffers, service)
      /\ r.pass.identified = With(s.pass.identified, service, heard \cup news)
  BY DEF RecordObservation, IsState, IsPass
<1>3. /\ DOMAIN Without(s.pass.buffers, service) = DOMAIN s.pass.buffers \ {service}
      /\ \A x : At(With(s.pass.identified, service, heard \cup news), x, {})
                  = IF x = service THEN heard \cup news ELSE At(s.pass.identified, x, {})
  <2> HIDE DEF heard, news
  <2> QED
    BY DEF Without, With, At
<1>4. v.endpoint = service /\ v.source = "pcap" /\ v.fields = decoded.fields
  BY DEF Evidence
<1>5. AddrFits(bound, addr)
  BY BoundFits
<1>6. Enters(a, b, v)
  <2>1. IsInventory(d) /\ ByAddress(d, addr) \in DOMAIN d
    BY <1>5, DeviceKeeps, ByAddressStays DEF IsState
  <2>2. IsAsset(a)
    BY <2>1 DEF IsInventory
  <2> HIDE DEF a, v
  <2> QED
    BY <2>2, IdentifiedEnters
<1> HIDE DEF b, v
<1>7. /\ AllFit(bound, more)
      /\ \A x, said, fields :
           IsRecorded(s.assets, bound, said, x, fields) =>
             /\ v.endpoint # x => IsRecorded(more, bound, said, x, fields)
             /\ \A novel :
                  /\ v.endpoint = x /\ v.source = "pcap"
                  /\ addr = BoundAddresses(bound, x[1])
                  /\ novel \ {IdentityFlag} = v.fields /\ novel \ said # {}
                  => IsRecorded(more, bound, said \cup novel, x, fields \cup v.fields)
  <2> HIDE DEF addr
  <2> QED
    BY <1>5, <1>6, UpdateRecorded DEF IsState
<1>8. addr = BoundAddresses(bound, service[1])
  OBVIOUS
<1>9. IdentityFlag \notin decoded.fields => news \ {IdentityFlag} = decoded.fields
  BY DEF Contribution, IdentityFlag
<1>10. New(s.pass, service, decoded) = news \ heard
  BY DEF New
<1> HIDE DEF r, more, addr, heard, news
<1>11. ASSUME NEW other, other # service PROVE KeepsSaid(s, bound, r, other, {})
  <2>1. \A fields : fields \cup {} = fields
    OBVIOUS
  <2>2. \A fields : HasSaid(s, bound, other, fields) => HasSaid(r, bound, other, fields)
    BY <1>1, <1>2, <1>3, <1>4, <1>7, <1>11 DEF HasSaid
  <2> QED
    BY <2>1, <2>2 DEF KeepsSaid
<1>12. ASSUME IdentityFlag \notin decoded.fields, New(s.pass, service, decoded) # {}
       PROVE  KeepsSaid(s, bound, r, service, decoded.fields)
  <2>1. \A fields : IsRecorded(s.assets, bound, heard, service, fields) =>
          IsRecorded(more, bound, heard \cup news, service, fields \cup decoded.fields)
    BY <1>4, <1>7, <1>8, <1>9, <1>10, <1>12
  <2>2. service \notin DOMAIN r.pass.buffers /\ At(r.pass.identified, service, {}) = heard \cup news
    BY <1>2, <1>3
  <2> QED
    BY <1>1, <2>1, <2>2 DEF KeepsSaid, HasSaid, heard
<1> QED
  BY <1>1, <1>7, <1>11, <1>12 DEF r

(* A message that comes in one segment and that a decoder of the port reads. *)
IsAnswer(m, service) ==
  /\ m \in DOMAIN Messages /\ Messages[m].length \in Nat \ {0}
  /\ Messages[m].length <= MaxDecodeAttempt
  /\ Messages[m].protocol \in ToSet(DecodersFor(service[2]))

(* It is said by the decoder of its protocol and by no other. *)
LEMMA AnswerIsDecoded ==
  ASSUME NEW service, NEW m, IsAnswer(m, service),
         NEW bytes, bytes = Pieces(m, 1, Messages[m].length),
         NEW decoded, decoded = [d \in DOMAIN DecodersFor(service[2]) |-> Decoder(DecodersFor(service[2])[d], bytes)]
  PROVE  /\ Len(decoded) \in Nat /\ DOMAIN decoded = 1 .. Len(decoded)
         /\ \A d \in DOMAIN decoded : decoded[d] \in {Said(bytes), NotThis}
         /\ \E d \in DOMAIN decoded : decoded[d] = Said(bytes)
<1> DEFINE decoders == DecodersFor(service[2])
<1>1. /\ DOMAIN decoders = 1 .. 1 \/ DOMAIN decoders = 1 .. 4
      /\ ToSet(decoders) \subseteq ToSet(AllDecoders)
  BY DEF DecodersFor, AllDecoders, ToSet
<1>2. \A d \in DOMAIN decoders : decoders[d] \in ToSet(decoders)
  BY DEF ToSet
<1>3. \E d \in DOMAIN decoders : decoders[d] = Messages[m].protocol
  BY DEF IsAnswer, ToSet
<1>4. \A d \in DOMAIN decoders :
        /\ decoders[d] = Messages[m].protocol => Decoder(decoders[d], bytes) = Said(bytes)
        /\ decoders[d] # Messages[m].protocol => Decoder(decoders[d], bytes) = NotThis
  <2> HIDE DEF decoders
  <2>1. \A protocol \in ToSet(AllDecoders) :
          /\ protocol = Messages[m].protocol => Decoder(protocol, bytes) = Said(bytes)
          /\ protocol # Messages[m].protocol => Decoder(protocol, bytes) = NotThis
    BY WholeIsDecoded DEF IsAnswer
  <2> QED
    BY <1>1, <1>2, <2>1
<1>5. DOMAIN decoded = DOMAIN decoders /\ \A d \in DOMAIN decoders : decoded[d] = Decoder(decoders[d], bytes)
  OBVIOUS
<1>6. decoded = [d \in DOMAIN decoders |-> decoded[d]]
  OBVIOUS
<1> HIDE DEF decoders
<1>7. Len(decoded) \in Nat /\ DOMAIN decoded = 1 .. Len(decoded)
  <2>1. ASSUME NEW n \in Nat, DOMAIN decoders = 1 .. n PROVE Len(decoded) \in Nat /\ DOMAIN decoded = 1 .. Len(decoded)
    <3>1. Len(decoded) = n
      BY <1>6, <2>1, ListFrom
    <3> QED
      BY <1>5, <2>1, <3>1
  <2> QED
    BY <1>1, <2>1
<1>8. /\ \A d \in DOMAIN decoded : decoded[d] \in {Said(bytes), NotThis}
      /\ \E d \in DOMAIN decoded : decoded[d] = Said(bytes)
  BY <1>3, <1>4, <1>5
<1> QED
  BY <1>7, <1>8

(* Where nothing is held before it, it is read by itself. *)
LEMMA WholeIsRead ==
  ASSUME NEW service, NEW m, IsAnswer(m, service),
         NEW payload, payload = Pieces(m, 1, Messages[m].length)
  PROVE  <<>> \o payload = payload /\ SubSeq(payload, 1, Min({Len(payload), MaxDecodeAttempt})) = payload
<1> DEFINE n == Messages[m].length
<1>2. n \in Nat \ {0} /\ n <= MaxDecodeAttempt
  BY DEF IsAnswer
<1>1. payload = [i \in 1 .. n |-> payload[i]]
  BY <1>2 DEF Pieces
<1> HIDE DEF n
<1>4. IsList(payload) /\ Len(payload) = n
  BY <1>1, <1>2, ListFrom
<1>5. payload \in Seq(ToSet(payload))
  BY <1>4, ListHas
<1>6. <<>> \o payload = payload
  BY <1>5
<1>7. Min({n, MaxDecodeAttempt}) = n
  <2>1. {n, MaxDecodeAttempt} \in SUBSET Nat /\ {n, MaxDecodeAttempt} # {} /\ MaxDecodeAttempt \in Nat
    BY <1>2, LimitsAssumption
  <2>2. Min({n, MaxDecodeAttempt}) \in {n, MaxDecodeAttempt} /\ Min({n, MaxDecodeAttempt}) <= n
    BY <2>1, MinIsLeast
  <2> QED
    BY <1>2, <2>1, <2>2
<1>8. SubSeq(payload, 1, n) = payload
  BY <1>2, <1>4, <1>5
<1> QED
  BY <1>4, <1>6, <1>7, <1>8

(* What it says is written, unless all of it has been. *)
LEMMA TryDecodeKeepsSaid ==
  ASSUME NEW bound, IsTable(bound), NEW s, IsState(s), AllFit(bound, s.assets),
         NEW service, NEW payload
  PROVE  LET r == TryDecode(s, bound, service, payload)
         IN  /\ AllFit(bound, r.assets)
             /\ \A other : other # service => KeepsSaid(s, bound, r, other, {})
             /\ \A m : IsAnswer(m, service) /\ payload = Pieces(m, 1, Messages[m].length) =>
                  KeepsSaid(s, bound, r, service, Messages[m].fields)
<1> DEFINE all == At(s.pass.buffers, service, <<>>) \o payload
           bytes == SubSeq(all, 1, Min({Len(all), MaxDecodeAttempt}))
           decoders == DecodersFor(service[2])
           decoded == [d \in DOMAIN decoders |-> Decoder(decoders[d], bytes)]
           hit == SelectInSeq(decoded, IsObservation)
           recorded == RecordObservation(s, bound, service, decoded[hit])
           more == With(s.pass.buffers, service, bytes)
           less == Without(s.pass.buffers, service)
           early == \E d \in DOMAIN decoded : decoded[d] = Truncated
           r == TryDecode(s, bound, service, payload)
<1>1. r = IF hit # 0 /\ New(s.pass, service, decoded[hit]) # {} THEN recorded
          ELSE IF hit # 0 THEN s
          ELSE IF early /\ Len(bytes) < MaxFlowBuffer THEN [s EXCEPT !.pass.buffers = more]
          ELSE [s EXCEPT !.pass.buffers = less]
  BY DEF TryDecode
<1>2. /\ DOMAIN more = DOMAIN s.pass.buffers \cup {service}
      /\ DOMAIN less = DOMAIN s.pass.buffers \ {service}
  <2> HIDE DEF bytes
  <2> QED
    BY DEF With, Without
<1>3. hit = LET hits == {i \in 1 .. Len(decoded) : IsObservation(decoded[i])}
            IN  IF hits # {} THEN Min(hits) ELSE 0
  <2> HIDE DEF decoded
  <2> QED
    BY DEF SelectInSeq
<1>4. ASSUME NEW held
      PROVE  LET t == [s EXCEPT !.pass.buffers = held]
             IN  t.assets = s.assets /\ t.pass.buffers = held /\ t.pass.identified = s.pass.identified
  BY DEF IsState, IsPass
<1>5. /\ AllFit(bound, recorded.assets)
      /\ \A other : other # service => KeepsSaid(s, bound, recorded, other, {})
      /\ IdentityFlag \notin decoded[hit].fields /\ New(s.pass, service, decoded[hit]) # {} =>
           KeepsSaid(s, bound, recorded, service, decoded[hit].fields)
  <2> HIDE DEF decoded, hit
  <2> QED
    BY RecordObservationKeepsSaid
<1> HIDE DEF r, recorded, more, less
<1>6. AllFit(bound, r.assets)
  <2> HIDE DEF hit, decoded, bytes
  <2> QED
    BY <1>1, <1>4, <1>5
<1>7. ASSUME NEW other, other # service PROVE KeepsSaid(s, bound, r, other, {})
  <2> HIDE DEF hit, decoded, bytes
  <2>1. ASSUME NEW t, t.assets = s.assets, t.pass.identified = s.pass.identified,
               other \in DOMAIN t.pass.buffers => other \in DOMAIN s.pass.buffers
        PROVE  KeepsSaid(s, bound, t, other, {})
    <3>1. \A fields : fields \cup {} = fields
      OBVIOUS
    <3> QED
      BY <2>1, <3>1 DEF KeepsSaid, HasSaid
  <2>2. KeepsSaid(s, bound, s, other, {})
    BY <2>1
  <2>3. KeepsSaid(s, bound, [s EXCEPT !.pass.buffers = more], other, {})
    BY <1>2, <1>4, <1>7, <2>1
  <2>4. KeepsSaid(s, bound, [s EXCEPT !.pass.buffers = less], other, {})
    BY <1>2, <1>4, <1>7, <2>1
  <2>5. KeepsSaid(s, bound, recorded, other, {})
    BY <1>5, <1>7
  <2> QED
    BY <1>1, <2>2, <2>3, <2>4, <2>5
<1>8. ASSUME NEW m, IsAnswer(m, service), payload = Pieces(m, 1, Messages[m].length),
             NEW fields, HasSaid(s, bound, service, fields)
      PROVE  HasSaid(r, bound, service, fields \cup Messages[m].fields)
  <2> DEFINE said == Said(bytes)
  <2>1. bytes = payload
    <3>1. At(s.pass.buffers, service, <<>>) = <<>>
      BY <1>8 DEF HasSaid, At
    <3>2. <<>> \o payload = payload /\ SubSeq(payload, 1, Min({Len(payload), MaxDecodeAttempt})) = payload
      BY <1>8, WholeIsRead
    <3>3. all = payload
      BY <3>1, <3>2
    <3>4. bytes = SubSeq(all, 1, Min({Len(all), MaxDecodeAttempt}))
      OBVIOUS
    <3> HIDE DEF all, bytes
    <3> QED
      BY <3>2, <3>3, <3>4
  <2>2. bytes = Pieces(m, 1, Messages[m].length)
    BY <1>8, <2>1
  <2>d. decoded = [d \in DOMAIN DecodersFor(service[2]) |-> Decoder(DecodersFor(service[2])[d], bytes)]
    OBVIOUS
  <2> HIDE DEF bytes, decoded
  <2>3. /\ Len(decoded) \in Nat /\ DOMAIN decoded = 1 .. Len(decoded)
        /\ \A d \in DOMAIN decoded : decoded[d] \in {said, NotThis}
        /\ \E d \in DOMAIN decoded : decoded[d] = said
    BY <1>8, <2>2, <2>d, AnswerIsDecoded
  <2>4. said.verdict = "said" /\ said.fields = Messages[m].fields
    BY <1>8, <2>2, WholeSays DEF IsAnswer
  <2>5. IdentityFlag \notin said.fields
    BY <1>8, <2>4, MessagesAssumption DEF IsAnswer, IdentityFlag
  <2> HIDE DEF said
  <2>6. ~ IsObservation(NotThis) /\ ~ early
    BY <2>3, <2>4 DEF IsObservation, NotThis, Truncated
  <2> DEFINE hits == {i \in 1 .. Len(decoded) : IsObservation(decoded[i])}
  <2>7. hit # 0 => decoded[hit] = said
    <3>1. hits \in SUBSET Nat
      BY <2>3
    <3>2. hit = IF hits # {} THEN Min(hits) ELSE 0
      BY <1>3
    <3>3. hit # 0 => hit \in hits
      <4> HIDE DEF hit, hits
      <4> QED
        BY <3>1, <3>2, MinIsLeast
    <3> HIDE DEF hit
    <3> QED
      BY <2>3, <2>6, <3>3
  <2>8. hit = 0 => said.fields = {}
    <3>1. hits \in SUBSET Nat
      BY <2>3
    <3>2. hit = IF hits # {} THEN Min(hits) ELSE 0
      BY <1>3
    <3>3. hit = 0 => hits = {}
      <4>1. hits # {} => \E i \in hits : TRUE
        OBVIOUS
      <4>2. 0 \notin hits
        BY <2>3
      <4> HIDE DEF hit, hits
      <4> QED
        BY <3>1, <3>2, <4>2, MinIsLeast
    <3>4. hit = 0 => ~ IsObservation(said)
      BY <2>3, <3>3
    <3> HIDE DEF hit
    <3> QED
      BY <2>4, <3>4 DEF IsObservation
  <2> HIDE DEF hit
  <2>9. CASE hit # 0 /\ New(s.pass, service, decoded[hit]) # {}
    <3>1. KeepsSaid(s, bound, recorded, service, Messages[m].fields)
      BY <1>5, <2>4, <2>5, <2>7, <2>9
    <3> QED
      BY <1>1, <1>8, <2>9, <3>1 DEF KeepsSaid
  <2>10. CASE hit # 0 /\ New(s.pass, service, decoded[hit]) = {}
    <3> DEFINE heard == At(s.pass.identified, service, {})
    <3>1. Contribution(said) \subseteq heard
      BY <2>7, <2>10 DEF New
    <3>2. said.fields \subseteq heard /\ heard \subseteq fields \cup {IdentityFlag}
      BY <1>8, <3>1 DEF Contribution, HasSaid, IsRecorded, IsRecordedAt
    <3>3. fields \cup Messages[m].fields = fields
      BY <2>4, <2>5, <3>2
    <3> QED
      BY <1>1, <1>8, <2>10, <3>3
  <2>11. CASE hit = 0
    <3>1. r = [s EXCEPT !.pass.buffers = less]
      BY <1>1, <2>6, <2>11
    <3>2. fields \cup Messages[m].fields = fields
      BY <2>4, <2>8, <2>11
    <3>3. service \notin DOMAIN r.pass.buffers /\ r.assets = s.assets /\ r.pass.identified = s.pass.identified
      BY <1>2, <1>4, <3>1
    <3> QED
      BY <1>8, <3>2, <3>3 DEF HasSaid
  <2> QED
    BY <2>9, <2>10, <2>11
<1> QED
  BY <1>6, <1>7, <1>8 DEF r, KeepsSaid

(* What the frame says for the service. *)
IsFrom(frame, service) == FromListener(frame) /\ Responder(frame) = service

SaidBy(frame, service) == IF IsFrom(frame, service) THEN MessageOf(frame).fields ELSE {}

(* Conversations, open services and banners are nothing of it.              *)
SameHeld(p, q) == q.buffers = p.buffers /\ q.identified = p.identified

LEMMA SeenIsSame ==
  ASSUME NEW p, IsPass(p), NEW frame
  PROVE  SameHeld(p, MarkOpen(AddFlow(p, frame), frame))
<1> DEFINE q == AddFlow(p, frame)
           key == <<Client(frame)>> \o Server(frame)
<1>1. SameHeld(p, q)
  <2>1. \/ q = p
        \/ q = [p EXCEPT !.flows[key] = @ + 1]
        \/ q = [p EXCEPT !.flows = With(@, key, 1)]
    BY DEF AddFlow
  <2> HIDE DEF key, q
  <2> QED
    BY <2>1 DEF SameHeld, IsPass
<1>2. IsPass(q)
  BY AddFlowKeeps
<1> HIDE DEF q
<1> DEFINE opened == MarkOpen(q, frame).open
<1>3. MarkOpen(q, frame) = [q EXCEPT !.open = opened]
  BY <1>2 DEF MarkOpen, IsPass
<1> HIDE DEF opened
<1>4. SameHeld(q, MarkOpen(q, frame))
  BY <1>2, <1>3 DEF SameHeld, IsPass
<1> QED
  BY <1>1, <1>4 DEF SameHeld, q

LEMMA BannerIsSame ==
  ASSUME NEW s, IsState(s), NEW service, NEW server
  PROVE  LET r == TryHTTPBanner(s, service, server)
         IN  r.assets = s.assets /\ SameHeld(s.pass, r.pass)
  BY DEF TryHTTPBanner, IsState, IsPass, SameHeld

(* An answer in one segment is read by a decoder of its port. *)
LEMMA WholeIsAnswer ==
  ASSUME NEW frame, NEW service, IsFrom(frame, service), IsWhole(frame, service)
  PROVE  \E m : /\ IsAnswer(m, service) /\ frame.payload = Pieces(m, 1, Messages[m].length)
                /\ MessageOf(frame) = Messages[m]
<1>1. PICK m \in DOMAIN Messages :
        /\ frame.payload = Pieces(m, 1, Messages[m].length)
        /\ Messages[m].protocol \in ToSet(DecodersFor(service[2]))
        /\ Messages[m].length <= MaxDecodeAttempt
  BY DEF IsWhole
<1> DEFINE n == Messages[m].length
<1>2. n \in Nat
  BY MessagesAssumption
<1>3. frame.payload = [i \in 1 .. n |-> [message |-> m, at |-> i]]
  BY <1>1, <1>2 DEF Pieces
<1> HIDE DEF n
<1>4. n # 0
  <2>1. frame.payload # <<>>
    BY DEF IsFrom, FromListener
  <2>2. ASSUME n = 0 PROVE frame.payload = <<>>
    <3>1. frame.payload = [i \in 1 .. 0 |-> frame.payload[i]]
      BY <1>3, <2>2
    <3>2. IsList(frame.payload) /\ Len(frame.payload) = 0
      BY <3>1, ListFrom
    <3>3. frame.payload \in Seq(ToSet(frame.payload))
      BY <3>2, ListHas
    <3> QED
      BY <3>2, <3>3
  <2> QED
    BY <2>1, <2>2
<1>5. frame.payload[1].message = m
  BY <1>2, <1>3, <1>4
<1>6. MessageOf(frame) = Messages[m]
  BY <1>5 DEF MessageOf
<1>7. IsAnswer(m, service)
  BY <1>1, <1>2, <1>4 DEF IsAnswer, n
<1> QED
  BY <1>1, <1>6, <1>7

(* Each kind of frame. *)
LEMMA HandleIPKeepsSaid ==
  ASSUME NEW bound, IsTable(bound), NEW s, IsState(s), AllFit(bound, s.assets), NEW frame
  PROVE  LET r == HandleIP(s, bound, frame)
         IN  /\ AllFit(bound, r.assets)
             /\ \A service : (IsFrom(frame, service) => IsWhole(frame, service)) =>
                  KeepsSaid(s, bound, r, service, SaidBy(frame, service))
<1> DEFINE p == MarkOpen(AddFlow(s.pass, frame), frame)
           seen == [s EXCEPT !.pass = p]
           here == Responder(frame)
           decoded == TryDecode(seen, bound, here, frame.payload)
           answered == TryHTTPBanner(decoded, here, frame.server)
           r == HandleIP(s, bound, frame)
<1>1. r = IF ~ FromListener(frame) THEN seen ELSE answered
  BY DEF HandleIP
<1>2. IsPass(p) /\ SameHeld(s.pass, p)
  BY AddFlowKeeps, MarkOpenKeeps, SeenIsSame DEF IsState
<1> HIDE DEF p
<1>3. IsState(seen) /\ seen.pass = p /\ seen.assets = s.assets
  BY <1>2 DEF IsState
<1> HIDE DEF seen, here
<1>4. \A service : KeepsSaid(s, bound, seen, service, {})
  <2>1. DOMAIN seen.pass.buffers \subseteq DOMAIN s.pass.buffers /\ seen.pass.identified = s.pass.identified
    BY <1>2, <1>3 DEF SameHeld
  <2> QED
    BY <1>3, <2>1, SaidSame
<1>5. AllFit(bound, seen.assets)
  BY <1>3
<1>6. IsState(decoded)
  BY <1>3, TryDecodeKeeps
<1>7. /\ AllFit(bound, decoded.assets)
      /\ \A other : other # here => KeepsSaid(seen, bound, decoded, other, {})
      /\ \A m : IsAnswer(m, here) /\ frame.payload = Pieces(m, 1, Messages[m].length) =>
           KeepsSaid(seen, bound, decoded, here, Messages[m].fields)
  BY <1>3, <1>5, TryDecodeKeepsSaid
<1> HIDE DEF decoded
<1>8. answered.assets = decoded.assets /\ SameHeld(decoded.pass, answered.pass)
  BY <1>6, BannerIsSame
<1> HIDE DEF answered, r
<1>9. \A service : KeepsSaid(decoded, bound, answered, service, {})
  <2>1. DOMAIN answered.pass.buffers \subseteq DOMAIN decoded.pass.buffers
        /\ answered.pass.identified = decoded.pass.identified
    BY <1>8 DEF SameHeld
  <2> QED
    BY <1>8, <2>1, SaidSame
<1>10. AllFit(bound, r.assets)
  BY <1>1, <1>5, <1>7, <1>8
<1>11. ASSUME NEW service, IsFrom(frame, service) => IsWhole(frame, service)
       PROVE  KeepsSaid(s, bound, r, service, SaidBy(frame, service))
  <2>1. CASE ~ FromListener(frame)
    BY <1>1, <1>4, <2>1 DEF SaidBy, IsFrom
  <2>2. CASE FromListener(frame) /\ here # service
    <3>1. KeepsSaid(s, bound, decoded, service, {})
      BY <1>4, <1>7, <2>2, SaidBoth
    <3>2. KeepsSaid(s, bound, answered, service, {})
      BY <1>9, <3>1, SaidBoth
    <3> QED
      BY <1>1, <2>2, <3>2 DEF SaidBy, IsFrom, here
  <2>3. CASE FromListener(frame) /\ here = service
    <3>1. IsFrom(frame, service)
      BY <2>3 DEF IsFrom, here
    <3>2. PICK m : /\ IsAnswer(m, service) /\ frame.payload = Pieces(m, 1, Messages[m].length)
                   /\ MessageOf(frame) = Messages[m]
      BY <1>11, <3>1, WholeIsAnswer
    <3> DEFINE fields == Messages[m].fields
    <3>3. KeepsSaid(seen, bound, decoded, service, fields)
      BY <1>7, <2>3, <3>2
    <3> HIDE DEF fields
    <3>4. KeepsSaid(s, bound, decoded, service, fields)
      BY <1>4, <3>3, SaidThen
    <3>5. KeepsSaid(s, bound, answered, service, fields)
      BY <1>9, <3>4, SaidBoth
    <3>6. SaidBy(frame, service) = fields
      BY <3>1, <3>2 DEF SaidBy, fields
    <3> QED
      BY <1>1, <2>3, <3>5, <3>6
  <2> QED
    BY <2>1, <2>2, <2>3
<1> QED
  BY <1>10, <1>11 DEF r

LEMMA NothingSaid ==
  ASSUME NEW s, NEW bound, NEW service
  PROVE  KeepsSaid(s, bound, s, service, {})
  BY SaidSame

LEMMA HandleARPKeepsSaid ==
  ASSUME NEW bound, IsTable(bound), NEW s, IsState(s), AllFit(bound, s.assets), NEW frame
  PROVE  LET r == HandleARP(s, bound, frame)
         IN  /\ AllFit(bound, r.assets)
             /\ \A service : <<frame.ip>> # service => KeepsSaid(s, bound, r, service, {})
<1> DEFINE addr == [Hardware(frame.mac) EXCEPT !.v4 = frame.ip]
           d == Device(s.assets, addr)
           k == ByAddress(d, addr)
           v == Evidence("pcap", "arp", <<frame.ip>>, {"arp_announced_ip"})
           b == AddEvidence(d[k], v)
           known == [d EXCEPT ![k] = b]
           r == HandleARP(s, bound, frame)
           after == [s EXCEPT !.assets = known]
<1>1. CASE Usable(frame.mac) /\ Usable(frame.ip) /\ MacFor(bound, frame.ip) = frame.mac
  <2>1. AddrFits(bound, addr)
    BY <1>1, AnnouncedFits
  <2>2. r = after
    BY <1>1 DEF HandleARP, Update
  <2>3. after.pass = s.pass /\ after.assets = known
    BY DEF IsState
  <2>4. v.endpoint = <<frame.ip>>
    BY DEF Evidence
  <2> HIDE DEF v, after, r, addr
  <2>5. IsAsset(d[k])
    <3>1. IsInventory(d) /\ k \in DOMAIN d
      BY <2>1, DeviceKeeps, ByAddressStays DEF IsState
    <3> QED
      BY <3>1 DEF IsInventory
  <2>6. Enters(d[k], b, v)
    <3> HIDE DEF d, k
    <3> QED
      BY <2>5, EvidenceEnters
  <2> HIDE DEF b
  <2>7. /\ AllFit(bound, after.assets)
        /\ \A service : v.endpoint # service => KeepsSaid(s, bound, after, service, {})
    BY <2>1, <2>3, <2>6, OtherKeepsSaid
  <2> QED
    BY <2>2, <2>4, <2>7 DEF r
<1>2. CASE ~ (Usable(frame.mac) /\ Usable(frame.ip) /\ MacFor(bound, frame.ip) = frame.mac)
  <2>1. r = s
    BY <1>2 DEF HandleARP
  <2> HIDE DEF r
  <2>2. AllFit(bound, r.assets) /\ \A service : KeepsSaid(s, bound, r, service, {})
    BY <2>1, NothingSaid
  <2> QED
    BY <2>2 DEF r
<1> QED
  BY <1>1, <1>2

LEMMA HandleLLDPKeepsSaid ==
  ASSUME NEW bound, IsTable(bound), NEW s, IsState(s), AllFit(bound, s.assets), NEW frame
  PROVE  LET r == HandleLLDP(s, bound, frame)
         IN  /\ AllFit(bound, r.assets)
             /\ \A service : <<frame.mac>> # service => KeepsSaid(s, bound, r, service, {})
<1> DEFINE addr == [Hardware(frame.mac) EXCEPT !.v4 = IPFor(bound, frame.mac), !.name = frame.name]
           told == SniffText(frame.text)
           identity == [vendor |-> told.vendor, catalog |-> told.catalog]
           role == IF frame.bridge THEN "network-device" ELSE ""
           d == Device(s.assets, addr)
           k == ByAddress(d, addr)
           v == Evidence("pcap", "lldp", <<frame.mac>>,
                         (IF frame.name = Unsaid THEN {} ELSE {"lldp_system_name"})
                         \cup (IF frame.text = <<>> THEN {} ELSE {"lldp_system_description"}))
           b == AddEvidence(SetRole(Identify(d[k], identity), role), v)
           known == [d EXCEPT ![k] = b]
           r == HandleLLDP(s, bound, frame)
           after == [s EXCEPT !.assets = known]
<1>1. CASE Usable(frame.mac)
  <2>1. AddrFits(bound, addr)
    BY <1>1, BridgeFits
  <2>2. r = after
    BY <1>1 DEF HandleLLDP, Update
  <2>3. after.pass = s.pass /\ after.assets = known
    BY DEF IsState
  <2>4. v.endpoint = <<frame.mac>>
    BY DEF Evidence
  <2> HIDE DEF v, after, r, addr, identity, role
  <2>5. IsAsset(d[k])
    <3>1. IsInventory(d) /\ k \in DOMAIN d
      BY <2>1, DeviceKeeps, ByAddressStays DEF IsState
    <3> QED
      BY <3>1 DEF IsInventory
  <2>6. Enters(d[k], b, v)
    <3> HIDE DEF d, k
    <3> QED
      BY <2>5, IdentifiedEnters
  <2> HIDE DEF b
  <2>7. /\ AllFit(bound, after.assets)
        /\ \A service : v.endpoint # service => KeepsSaid(s, bound, after, service, {})
    BY <2>1, <2>3, <2>6, OtherKeepsSaid
  <2> QED
    BY <2>2, <2>4, <2>7 DEF r
<1>2. CASE ~ Usable(frame.mac)
  <2>1. r = s
    BY <1>2 DEF HandleLLDP
  <2> HIDE DEF r
  <2>2. AllFit(bound, r.assets) /\ \A service : KeepsSaid(s, bound, r, service, {})
    BY <2>1, NothingSaid
  <2> QED
    BY <2>2 DEF r
<1> QED
  BY <1>1, <1>2

(* A capture is heard service by service. *)
HeardIn(frame, service) == frame.kind = "ip" /\ IsFrom(frame, service)

FieldsSaid(frame, service) == IF HeardIn(frame, service) THEN MessageOf(frame).fields ELSE {}

LEMMA HandleKeepsSaid ==
  ASSUME NEW bound, IsTable(bound), NEW s, IsState(s), AllFit(bound, s.assets),
         NEW frame, frame.kind \in {"arp", "lldp", "ip", "other"}
  PROVE  LET r == Handle(s, bound, frame)
         IN  /\ AllFit(bound, r.assets)
             /\ \A address, port, transport :
                  (HeardIn(frame, <<address, port, transport>>) => IsWhole(frame, <<address, port, transport>>)) =>
                    KeepsSaid(s, bound, r, <<address, port, transport>>,
                              FieldsSaid(frame, <<address, port, transport>>))
<1> DEFINE r == Handle(s, bound, frame)
<1>1. ASSUME NEW x, NEW address, NEW port, NEW transport PROVE <<x>> # <<address, port, transport>>
  OBVIOUS
<1>2. CASE frame.kind = "arp"
  <2>1. r = HandleARP(s, bound, frame)
    BY <1>2 DEF Handle
  <2> HIDE DEF r
  <2>2. \A service : FieldsSaid(frame, service) = {}
    BY <1>2 DEF FieldsSaid, HeardIn
  <2>3. /\ AllFit(bound, r.assets)
        /\ \A service : <<frame.ip>> # service => KeepsSaid(s, bound, r, service, {})
    BY <2>1, HandleARPKeepsSaid
  <2> QED
    BY <1>1, <2>2, <2>3 DEF r
<1>3. CASE frame.kind = "lldp"
  <2>1. r = HandleLLDP(s, bound, frame)
    BY <1>3 DEF Handle
  <2> HIDE DEF r
  <2>2. \A service : FieldsSaid(frame, service) = {}
    BY <1>3 DEF FieldsSaid, HeardIn
  <2>3. /\ AllFit(bound, r.assets)
        /\ \A service : <<frame.mac>> # service => KeepsSaid(s, bound, r, service, {})
    BY <2>1, HandleLLDPKeepsSaid
  <2> QED
    BY <1>1, <2>2, <2>3 DEF r
<1>4. CASE frame.kind = "ip"
  <2>1. r = HandleIP(s, bound, frame)
    BY <1>4 DEF Handle
  <2> HIDE DEF r
  <2>2. \A service : FieldsSaid(frame, service) = SaidBy(frame, service)
                     /\ (HeardIn(frame, service) <=> IsFrom(frame, service))
    BY <1>4 DEF FieldsSaid, HeardIn, SaidBy
  <2>3. /\ AllFit(bound, r.assets)
        /\ \A service : (IsFrom(frame, service) => IsWhole(frame, service)) =>
             KeepsSaid(s, bound, r, service, SaidBy(frame, service))
    BY <2>1, HandleIPKeepsSaid
  <2> QED
    BY <2>2, <2>3 DEF r
<1>5. CASE frame.kind = "other"
  <2>1. r = s
    BY <1>5 DEF Handle
  <2> HIDE DEF r
  <2>2. \A service : FieldsSaid(frame, service) = {}
    BY <1>5 DEF FieldsSaid, HeardIn
  <2>3. \A service : KeepsSaid(s, bound, r, service, {})
    BY <2>1, SaidSame
  <2> QED
    BY <2>1, <2>2, <2>3 DEF r
<1> QED
  BY <1>2, <1>3, <1>4, <1>5

-----------------------------------------------------------------------------
(* What has been said is written, step after step. *)

(* The answers of a service among the first n frames. *)
AnswersIn(capture, n, service) ==
  {frame \in {Frames(capture)[i] : i \in 1 .. n} : HeardIn(frame, service)}

FieldsIn(frames) == UNION {MessageOf(frame).fields : frame \in frames}

(* The command that runs is the first, and none of its captures is read.    *)
IsFirst == command = 1 /\ left.captures = commands[1].captures

(* What every service that answers promptly has said so far is written.     *)
IsReplayed(capture) ==
  /\ IsTable(bindings) /\ AllFit(bindings, assets)
  /\ at <= Len(Frames(capture))
  /\ \A address, port, transport :
       Prompt(capture, <<address, port, transport>>) =>
         HasSaid([pass |-> pass, assets |-> assets], bindings, <<address, port, transport>>,
                 FieldsIn(AnswersIn(capture, at, <<address, port, transport>>)))

(* What they said in all the capture is.                                    *)
IsHeardOut(capture) ==
  \A address, port, transport :
    Prompt(capture, <<address, port, transport>>) =>
      IsWritten(assets, <<address, port, transport>>,
                FieldsIn(AnswersOf(capture, <<address, port, transport>>)))

(* The first capture of the first command starts from nothing; the rest of  *)
(* them are shorter by then.                                                *)
EInv ==
  /\ command = 1 => Len(left.captures) <= Len(commands[1].captures)
  /\ IsFirst /\ stage = "read" /\ left.captures # <<>> => assets = <<>>
  /\ IsFirst /\ stage = "replay" => IsReplayed(Head(left.captures))
  /\ IsFirst /\ stage = "write" => IsHeardOut(Head(left.captures))

(* Nothing is said before the first frame. *)
LEMMA NothingIsRecorded ==
  ASSUME NEW bound, NEW service
  PROVE  /\ HasSaid([pass |-> NewPass, assets |-> <<>>], bound, service, {})
         /\ AllFit(bound, <<>>)
<1>1. EntryPlaces(<<>>) = {}
  BY NoneIsList DEF EntryPlaces
<1>2. EntriesOf(<<>>, service) = {}
  BY <1>1 DEF EntriesOf
<1>3. FieldsOf(<<>>, {}) = {}
  BY DEF FieldsOf
<1>4. At(NewPass.identified, service, {}) = {} /\ service \notin DOMAIN NewPass.buffers
  BY NoneIsList DEF NewPass, At
<1>5. IsWritten(<<>>, service, {})
  BY <1>2, <1>3 DEF IsWritten
<1>6. IsRecorded(<<>>, bound, {}, service, {})
  BY <1>2, <1>5 DEF IsRecorded, IsRecordedAt
<1>7. AllFit(bound, <<>>)
  BY NoneIsList DEF AllFit
<1> QED
  BY <1>4, <1>6, <1>7 DEF HasSaid

(* A frame is an answer of the service or it is not, until the last. *)
LEMMA NextAnswer ==
  ASSUME NEW capture, NEW n \in Nat, NEW service, NEW frame, frame = Frames(capture)[n + 1]
  PROVE  FieldsIn(AnswersIn(capture, n + 1, service))
           = FieldsIn(AnswersIn(capture, n, service)) \cup FieldsSaid(frame, service)
<1> DEFINE before == AnswersIn(capture, n, service)
           after == AnswersIn(capture, n + 1, service)
<1>1. after = before \cup {f \in {frame} : HeardIn(f, service)}
  <2>1. \A i \in 1 .. n + 1 : i \in 1 .. n \/ i = n + 1
    OBVIOUS
  <2>2. n + 1 \in 1 .. n + 1 /\ \A i \in 1 .. n : i \in 1 .. n + 1
    OBVIOUS
  <2>3. {Frames(capture)[i] : i \in 1 .. n + 1} = {Frames(capture)[i] : i \in 1 .. n} \cup {frame}
    BY <2>1, <2>2
  <2> QED
    BY <2>3 DEF AnswersIn
<1> HIDE DEF before, after
<1>2. FieldsIn(after) = FieldsIn(before) \cup FieldsIn({f \in {frame} : HeardIn(f, service)})
  BY <1>1 DEF FieldsIn
<1>3. FieldsIn({f \in {frame} : HeardIn(f, service)}) = FieldsSaid(frame, service)
  BY DEF FieldsIn, FieldsSaid
<1> QED
  BY <1>2, <1>3 DEF before, after

LEMMA AllAnswers ==
  ASSUME NEW capture, IsList(capture), NEW service
  PROVE  /\ AnswersIn(capture, 0, service) = {}
         /\ AnswersIn(capture, Len(Frames(capture)), service) = AnswersOf(capture, service)
<1>1. DOMAIN Frames(capture) = 1 .. Len(Frames(capture))
  BY FramesAre
<1>2. ToSet(Frames(capture)) = {Frames(capture)[i] : i \in 1 .. Len(Frames(capture))}
  BY <1>1 DEF ToSet
<1>3. 1 .. 0 = {}
  OBVIOUS
<1>4. AnswersIn(capture, 0, service) = {}
  BY <1>3 DEF AnswersIn
<1> QED
  BY <1>2, <1>4 DEF AnswersIn, AnswersOf, HeardIn, IsFrom

(* Where a service answers promptly each of its answers is whole. *)
LEMMA AnswerIsOf ==
  ASSUME NEW capture, NEW service, NEW frame \in ToSet(Frames(capture)), HeardIn(frame, service),
         Prompt(capture, service)
  PROVE  IsWhole(frame, service)
  BY DEF Prompt, AnswersOf, HeardIn, IsFrom

(* Every step. *)
LEMMA InitIsWritten == Init => EInv
<1> SUFFICES ASSUME Init PROVE EInv
  OBVIOUS
<1>1. left.captures = commands[1].captures
  BY DEF Init, Scheduled
<1>2. Len(commands[1].captures) \in Nat
  <2>1. IsList(commands) /\ commands # <<>>
    BY InputsAssumption DEF Init
  <2>2. 1 \in DOMAIN commands
    BY <2>1, TailIsList
  <2>3. IsList(commands[1].captures)
    BY <2>2, InputsAssumption DEF Init
  <2> QED
    BY <2>3, ListHas
<1> QED
  BY <1>1, <1>2 DEF EInv, Init

LEMMA ScanBindingsIsWritten == IInv /\ TInv /\ EInv /\ ScanBindings => EInv'
<1> SUFFICES ASSUME IInv, TInv, EInv, ScanBindings PROVE EInv'
  OBVIOUS
<1> DEFINE capture == Head(left.captures)
<1>1. /\ command' = command /\ commands' = commands /\ left' = left /\ assets' = assets
      /\ stage = "read" /\ left.captures # <<>> /\ stage' = "replay" /\ at' = 0 /\ pass' = NewPass
      /\ bindings' \in Bindings(Learned(capture))
  BY DEF ScanBindings, ingesting
<1>2. IsList(capture)
  BY <1>1, CaptureIsTrue
<1>3. IsTable(bindings')
  <2> HIDE DEF capture
  <2> QED
    BY <1>1, <1>2, LearnedFinite, BindsTable
<1>4. ASSUME IsFirst PROVE IsReplayed(capture)'
  <2>1. assets' = <<>>
    BY <1>1, <1>4 DEF EInv
  <2>2. 0 <= Len(Frames(capture))
    <3> HIDE DEF capture
    <3> QED
      BY <1>2, FramesAre, ListHas
  <2>3. FieldsIn({}) = {}
    BY DEF FieldsIn
  <2>4. capture' = capture
    BY <1>1
  <2> HIDE DEF capture
  <2>5. \A address, port, transport :
          HasSaid([pass |-> NewPass, assets |-> <<>>], bindings', <<address, port, transport>>,
                  FieldsIn(AnswersIn(capture, 0, <<address, port, transport>>)))
    BY <1>2, <2>3, NothingIsRecorded, AllAnswers
  <2>6. AllFit(bindings', <<>>)
    BY NothingIsRecorded
  <2> QED
    BY <1>1, <1>3, <2>1, <2>2, <2>4, <2>5, <2>6 DEF IsReplayed
<1> QED
  BY <1>1, <1>4 DEF EInv, IsFirst

LEMMA HandleFrameIsWritten == IInv /\ TInv /\ EInv /\ HandleFrame => EInv'
<1> SUFFICES ASSUME IInv, TInv, EInv, HandleFrame PROVE EInv'
  OBVIOUS
<1> DEFINE before == [pass |-> pass, assets |-> assets]
           capture == Head(left.captures)
           frame == capture[at + 1]
           after == Handle(before, bindings, frame)
<1>1. /\ command' = command /\ commands' = commands /\ left' = left /\ bindings' = bindings
      /\ stage = "replay" /\ stage' = "replay" /\ at' = at + 1 /\ at < Len(Frames(capture))
      /\ pass' = after.pass /\ assets' = after.assets
  BY DEF HandleFrame, ingesting
<1>2. IsState(before) /\ before.assets = assets
  BY DEF IInv, IsState
<1>3. left.captures # <<>>
  BY <1>1 DEF IInv, Staged
<1>4. IsList(capture) /\ \A j \in DOMAIN capture : IsTrueFrame(capture[j])
  BY <1>3, CaptureIsTrue
<1>5. /\ IsTrueFrame(frame) /\ frame \in ToSet(Frames(capture)) /\ frame = Frames(capture)[at + 1]
      /\ at \in Nat /\ at + 1 <= Len(Frames(capture))
  <2>1. at \in Nat
    BY DEF TInv
  <2> HIDE DEF capture
  <2>2. IsList(Frames(capture)) /\ DOMAIN Frames(capture) = 1 .. Len(Frames(capture))
        /\ \A i \in DOMAIN Frames(capture) : i \in DOMAIN capture /\ Frames(capture)[i] = capture[i]
    BY <1>4, FramesAre
  <2>3. at + 1 \in DOMAIN Frames(capture) /\ at + 1 <= Len(Frames(capture))
    <3>1. Len(Frames(capture)) \in Nat
      BY <2>2, ListHas
    <3> QED
      BY <1>1, <2>1, <2>2, <3>1
  <2> QED
    BY <1>4, <2>1, <2>2, <2>3, ListHas
<1>6. frame.kind \in {"arp", "lldp", "ip", "other"}
  BY <1>5 DEF IsTrueFrame
<1>7. after = [pass |-> after.pass, assets |-> after.assets]
  <2> HIDE DEF before, frame
  <2>1. IsState(after)
    BY <1>2, HandleKeeps
  <2> HIDE DEF after
  <2> QED
    BY <2>1 DEF IsState
<1>8. ASSUME IsFirst PROVE IsReplayed(capture)'
  <2>1. IsReplayed(capture)
    BY <1>1, <1>8 DEF EInv
  <2>2. /\ AllFit(bindings, after.assets)
        /\ \A address, port, transport :
             (HeardIn(frame, <<address, port, transport>>) => IsWhole(frame, <<address, port, transport>>)) =>
               KeepsSaid(before, bindings, after, <<address, port, transport>>,
                         FieldsSaid(frame, <<address, port, transport>>))
    <3> HIDE DEF before, frame
    <3> QED
      BY <1>2, <1>6, <2>1, HandleKeepsSaid DEF IsReplayed
  <2>3. capture' = capture
    BY <1>1
  <2> HIDE DEF after, frame, capture
  <2>4. ASSUME NEW address, NEW port, NEW transport, Prompt(capture, <<address, port, transport>>)
        PROVE  HasSaid(after, bindings, <<address, port, transport>>,
                       FieldsIn(AnswersIn(capture, at + 1, <<address, port, transport>>)))
    <3> DEFINE service == <<address, port, transport>>
               fields == FieldsIn(AnswersIn(capture, at, service))
    <3>1. HasSaid(before, bindings, service, fields)
      BY <2>1, <2>4 DEF IsReplayed
    <3>2. HeardIn(frame, service) => IsWhole(frame, service)
      BY <1>5, <2>4, AnswerIsOf
    <3>3. KeepsSaid(before, bindings, after, service, FieldsSaid(frame, service))
      BY <2>2, <3>2
    <3>4. FieldsIn(AnswersIn(capture, at + 1, service)) = fields \cup FieldsSaid(frame, service)
      BY <1>5, NextAnswer
    <3> HIDE DEF service, fields, before
    <3>5. HasSaid(after, bindings, service, fields \cup FieldsSaid(frame, service))
      BY <3>1, <3>3 DEF KeepsSaid
    <3> QED
      BY <3>4, <3>5 DEF service
  <2>5. [pass |-> pass', assets |-> assets'] = after
    BY <1>1, <1>7
  <2> QED
    BY <1>1, <1>5, <2>1, <2>2, <2>3, <2>4, <2>5 DEF IsReplayed
<1> QED
  BY <1>1, <1>8 DEF EInv, IsFirst

CarryingEnds == INSTANCE Folding_proofs WITH
  Op <- LAMBDA ctx, known, key :
          Device(Device(known, BoundAddresses(ctx[1], key[1])), BoundAddresses(ctx[1], key[2])),
  Good <- LAMBDA ctx, k, known : IsInventory(known) /\ Carries(ctx[2], known)

(* The ends of the conversations have no evidence. *)
LEMMA AddEndsCarries ==
  ASSUME NEW known, IsInventory(known), NEW bound, NEW p, IsPass(p)
  PROVE  Carries(known, AddEnds(known, bound, p))
<1> DEFINE keys == SortedFlows(p)
           ctx == <<bound, known>>
<1>0. ctx[1] = bound /\ ctx[2] = known
  OBVIOUS
<1> HIDE DEF ctx
<1>1. AddEnds(known, bound, p) = CarryingEnds!Table(ctx, known, keys)[DOMAIN keys]
  BY <1>0 DEF AddEnds, FoldLeft, MapThenFoldSet, Max, CarryingEnds!Table, CarryingEnds!Row, CarryingEnds!Top
<1>2. PICK n \in Nat : DOMAIN keys = 1 .. n
  BY SortedFlowsAreListed
<1> HIDE DEF keys
<1>3. ASSUME NEW acc, NEW key, IsInventory(acc), Carries(known, acc)
      PROVE  LET more == Device(Device(acc, BoundAddresses(bound, key[1])), BoundAddresses(bound, key[2]))
             IN  IsInventory(more) /\ Carries(known, more)
  <2> DEFINE one == Device(acc, BoundAddresses(bound, key[1]))
             both == Device(one, BoundAddresses(bound, key[2]))
  <2>1. IsInventory(one) /\ Carries(known, one)
    BY <1>3, DeviceKeeps, DeviceCarries, CarriesBoth
  <2> HIDE DEF one
  <2>2. IsInventory(both) /\ Carries(known, both)
    BY <2>1, DeviceKeeps, DeviceCarries, CarriesBoth
  <2> QED
    BY <2>2 DEF both, one
<1>4. Carries(known, known)
  BY DEF Carries
<1>5. Carries(known, CarryingEnds!Table(ctx, known, keys)[DOMAIN keys])
  BY <1>0, <1>2, <1>3, <1>4, CarryingEnds!FoldKeeps, InductionHolds
<1> QED
  BY <1>1, <1>5

(* A service is no evidence. *)
LEMMA AddServiceCarries ==
  ASSUME NEW a, IsAsset(a), NEW service
  PROVE  AddService(a, service).evidence = a.evidence
<1> DEFINE place == SelectInSeq(a.services, LAMBDA s :
                   s.port = service.port /\ s.transport = service.transport)
           more == [a.services EXCEPT ![place] = Filled(a.services[place], service)]
<1>1. AddService(a, service) = IF place = 0 THEN [a EXCEPT !.services = Append(a.services, service)]
                               ELSE [a EXCEPT !.services = more]
  BY DEF AddService
<1> HIDE DEF place, more
<1> QED
  BY <1>1 DEF IsAsset

LEMMA UpdateServiceCarries ==
  ASSUME NEW known, IsInventory(known), NEW addr, NEW service
  PROVE  Carries(known, [Device(known, addr) EXCEPT
                           ![ByAddress(Device(known, addr), addr)] = AddService(@, service)])
<1> DEFINE d == Device(known, addr)
           k == ByAddress(d, addr)
           b == AddService(d[k], service)
           more == [d EXCEPT ![k] = b]
<1>1. Carries(known, d) /\ IsInventory(d)
  BY DeviceCarries, DeviceKeeps
<1> HIDE DEF d, k
<1>2. k \in DOMAIN d => b.evidence = d[k].evidence
  BY <1>1, AddServiceCarries DEF IsInventory
<1> HIDE DEF b
<1>3. DOMAIN more = DOMAIN d /\ \A i \in DOMAIN d : more[i].evidence = d[i].evidence
  BY <1>2
<1> HIDE DEF more
<1>4. Carries(known, more)
  BY <1>1, <1>3 DEF Carries
<1> QED
  BY <1>4 DEF more, b, k, d

LEMMA CarriedIsWritten ==
  ASSUME NEW known, NEW more, Carries(known, more), NEW service, NEW fields, IsWritten(known, service, fields)
  PROVE  IsWritten(more, service, fields)
  BY CarriedSame, SameIsWritten

LEMMA WriteEndsIsWritten == IInv /\ TInv /\ EInv /\ WriteEnds => EInv'
<1> SUFFICES ASSUME IInv, TInv, EInv, WriteEnds PROVE EInv'
  OBVIOUS
<1> DEFINE capture == Head(left.captures)
<1>1. /\ command' = command /\ commands' = commands /\ left' = left
      /\ stage = "replay" /\ stage' = "write" /\ at = Len(Frames(capture))
      /\ assets' = AddEnds(assets, bindings, pass)
  BY DEF WriteEnds, ingesting
<1>2. IsList(capture)
  BY <1>1, CaptureIsTrue DEF IInv, Staged
<1>3. ASSUME IsFirst PROVE IsHeardOut(capture)'
  <2>1. IsReplayed(capture)
    BY <1>1, <1>3 DEF EInv
  <2>2. capture' = capture
    BY <1>1
  <2>3. Carries(assets, assets')
    BY <1>1, AddEndsCarries DEF IInv
  <2>4. at = Len(Frames(capture))
    BY <1>1
  <2> HIDE DEF capture
  <2>5. ASSUME NEW address, NEW port, NEW transport, Prompt(capture, <<address, port, transport>>)
        PROVE  IsWritten(assets', <<address, port, transport>>,
                         FieldsIn(AnswersOf(capture, <<address, port, transport>>)))
    <3> DEFINE service == <<address, port, transport>>
               fields == FieldsIn(AnswersOf(capture, service))
    <3>1. AnswersIn(capture, at, service) = AnswersOf(capture, service)
      BY <1>2, <2>4, AllAnswers
    <3>2. HasSaid([pass |-> pass, assets |-> assets], bindings, service, FieldsIn(AnswersIn(capture, at, service)))
      BY <2>1, <2>5 DEF IsReplayed
    <3> HIDE DEF service
    <3>3. IsWritten(assets, service, fields)
      BY <3>1, <3>2 DEF HasSaid, IsRecorded, IsRecordedAt
    <3>4. IsWritten(assets', service, fields)
      BY <2>3, <3>3, CarriedIsWritten
    <3> QED
      BY <3>4 DEF service
  <2> QED
    BY <2>2, <2>5 DEF IsHeardOut
<1> QED
  BY <1>1, <1>3 DEF EInv, IsFirst

LEMMA WriteServiceIsWritten ==
  ASSUME IInv, EInv, NEW service \in pass.open, WriteService(service)
  PROVE  EInv'
<1> DEFINE capture == Head(left.captures)
           addr == BoundAddresses(bindings, service[1])
           seen == ServiceSeen(pass, service)
<1>1. /\ command' = command /\ commands' = commands /\ left' = left
      /\ stage = "write" /\ stage' = "write"
      /\ assets' = [Device(assets, addr) EXCEPT
                      ![ByAddress(Device(assets, addr), addr)] = AddService(@, seen)]
  BY DEF WriteService, ingesting, Update
<1> HIDE DEF addr, seen
<1>2. ASSUME IsFirst PROVE IsHeardOut(capture)'
  <2>1. IsHeardOut(capture)
    BY <1>1, <1>2 DEF EInv
  <2>2. capture' = capture
    BY <1>1
  <2>3. Carries(assets, assets')
    BY <1>1, UpdateServiceCarries DEF IInv
  <2> HIDE DEF capture
  <2> QED
    BY <2>1, <2>2, <2>3, CarriedIsWritten DEF IsHeardOut
<1> QED
  BY <1>1, <1>2 DEF EInv, IsFirst

LEMMA WriteFlowsIsWritten == IInv /\ TInv /\ EInv /\ WriteFlows => EInv'
<1> SUFFICES ASSUME IInv, TInv, EInv, WriteFlows PROVE EInv'
  OBVIOUS
<1> DEFINE captures == Tail(left.captures)
<1>1. /\ command' = command /\ commands' = commands /\ stage = "write" /\ stage' = "read"
      /\ left' = [left EXCEPT !.captures = captures]
  BY DEF WriteFlows, ingesting
<1>2. left.captures # <<>> /\ IsList(left.captures)
  BY <1>1 DEF IInv, Staged, TInv, IsTruthful, IsTrueLeft
<1>3. Len(captures) = Len(left.captures) - 1 /\ Len(left.captures) \in Nat
  <2>1. left.captures \in Seq(ToSet(left.captures))
    BY <1>2, ListHas
  <2> QED
    BY <1>2, <2>1
<1> HIDE DEF captures
<1>4. left'.captures = captures
  BY <1>1 DEF IInv, IsLeft
<1>5. command = 1 => Len(commands[1].captures) \in Nat
  <2>1. commands \in Commands /\ command \in 1 .. Len(commands)
    BY DEF IInv, Staged
  <2>2. IsList(commands) /\ command \in DOMAIN commands
    BY <2>1, InputsAssumption, ListHas
  <2>3. IsList(commands[command].captures)
    BY <2>1, <2>2, InputsAssumption
  <2> QED
    BY <2>3, ListHas
<1>6. command = 1 => Len(captures) < Len(commands[1].captures)
  BY <1>3, <1>5 DEF EInv
<1>7. ~ IsFirst'
  BY <1>1, <1>4, <1>5, <1>6 DEF IsFirst
<1> QED
  BY <1>1, <1>3, <1>4, <1>5, <1>6, <1>7 DEF EInv

(* Where the captures have been read. *)
LEMMA IdleIsWritten ==
  ASSUME EInv, Idle, command' = command, commands' = commands, stage' = "read",
         left'.captures = left.captures
  PROVE  EInv'
  BY DEF EInv, Idle, IsFirst

LEMMA FinishIsWritten == IInv /\ EInv /\ Finish => EInv'
<1> SUFFICES ASSUME IInv, EInv, Finish PROVE EInv'
  OBVIOUS
<1>1. commands' = commands
  BY DEF Finish
<1>2. CASE command < Len(commands)
  <2>1. command' = command + 1
    BY <1>2 DEF Finish
  <2>2. command \in 1 .. Len(commands) /\ Len(commands) \in Nat
    BY InputsAssumption, ListHas DEF IInv, Staged
  <2>3. command' # 1
    BY <2>1, <2>2
  <2> QED
    BY <2>3 DEF EInv, IsFirst
<1>3. CASE ~ command < Len(commands)
  <2>1. command' = command /\ left' = left /\ stage' = "plan"
    BY <1>3 DEF Finish
  <2> QED
    BY <1>1, <2>1 DEF EInv, IsFirst
<1> QED
  BY <1>2, <1>3

LEMMA NextIsWritten == IInv /\ TInv /\ EInv /\ [Next]_vars => EInv'
<1> SUFFICES ASSUME IInv, TInv, EInv, [Next]_vars PROVE EInv'
  OBVIOUS
<1>1. CASE ScanBindings \/ HandleFrame \/ WriteEnds \/ WriteFlows \/ Finish
  BY <1>1, ScanBindingsIsWritten, HandleFrameIsWritten, WriteEndsIsWritten, WriteFlowsIsWritten, FinishIsWritten
<1>2. ASSUME NEW service \in pass.open, WriteService(service) PROVE EInv'
  BY <1>2, WriteServiceIsWritten
<1>3. CASE ScanHost \/ ReadDirective \/ ReadRecord \/ SkipLine \/ LeaveLog
  <2>1. Idle /\ command' = command /\ commands' = commands /\ stage' = stage
    BY <1>3 DEF ScanHost, ReadDirective, ReadRecord, SkipLine, LeaveLog, InLog, reading
  <2>2. left'.captures = left.captures
    <3>1. left = [captures |-> left.captures, hosts |-> left.hosts, logs |-> left.logs]
      BY DEF IInv, IsLeft
    <3>2. (\E hosts : left' = [left EXCEPT !.hosts = hosts]) \/ (\E logs : left' = [left EXCEPT !.logs = logs])
      <4>1. CASE ScanHost
        BY <4>1 DEF ScanHost
      <4>2. CASE LeaveLog
        BY <4>2 DEF LeaveLog, NextLog
      <4>3. CASE ReadDirective \/ ReadRecord \/ SkipLine
        <5>1. left' = [left EXCEPT !.logs[1].lines = Tail(@)]
          BY <4>3 DEF ReadDirective, ReadRecord, SkipLine, NextLine
        <5>2. left' = [left EXCEPT !.logs = [left.logs EXCEPT ![1].lines = Tail(left.logs[1].lines)]]
          BY <5>1
        <5> QED
          BY <5>2
      <4> QED
        BY <1>3, <4>1, <4>2, <4>3
    <3> QED
      BY <3>1, <3>2
  <2> QED
    BY <2>1, <2>2, IdleIsWritten DEF Idle
<1>4. ASSUME NEW request \in PlanRequests, MakePlan(request) PROVE EInv'
  <2>1. command' = command /\ commands' = commands /\ left' = left /\ stage' \in {"done", "probe"}
    BY <1>4 DEF MakePlan, planning
  <2> QED
    BY <2>1 DEF EInv, IsFirst
<1>5. CASE Probe
  <2>1. command' = command /\ commands' = commands /\ left' = left /\ stage' = "done"
    BY <1>5 DEF Probe, planning
  <2> QED
    BY <2>1 DEF EInv, IsFirst
<1>6. CASE UNCHANGED vars
  BY <1>6 DEF vars, EInv, IsFirst, IsReplayed, IsHeardOut
<1> QED
  BY <1>1, <1>2, <1>3, <1>4, <1>5, <1>6 DEF Next

(* Once a capture has been replayed, each thing a service said is in its    *)
(* evidence, and an entry that adds no field stands only for the first      *)
(* identity (recordsSomethingNew, tryDecode, recordObservation).            *)
THEOREM WhatIsSaidIsWrittenOnce == Spec => []SaidOnceWrittenOnce
<1>1. HInv /\ EInv => SaidOnceWrittenOnce
  <2> SUFFICES ASSUME HInv, EInv, stage = "write", IsFirst,
                      NEW service \in pass.open, Prompt(Head(left.captures), service)
               PROVE  IsWritten(assets, service, FieldsIn(AnswersOf(Head(left.captures), service)))
    BY DEF SaidOnceWrittenOnce, IsFirst, IsWritten, FieldsIn
  <2>1. service = <<service[1], service[2], service[3]>>
    BY DEF HInv, IsPlacedPass
  <2>2. IsHeardOut(Head(left.captures))
    BY DEF EInv
  <2> QED
    BY <2>1, <2>2 DEF IsHeardOut
<1> QED
  BY <1>1, InitHolds, InitIsTrue, InitIsHoused, InitIsWritten, NextKeeps, NextIsTrue, NextIsHoused,
     NextIsWritten, PTL DEF Spec
=============================================================================

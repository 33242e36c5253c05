# Verification of OTScout

OTScout inventories an industrial network, passively from captures and logs or by a few careful
probes, keeps a corpus of security advisories, and matches one against the other. These TLA+
modules follow that path: the engine that decides what may be sent to a controller; the layers
that keep the advisory corpus on disk, and its scores over many syncs; discovery, from
captures, scans and logs to the inventory file and the scan planned from it; and the
assessment, from documents and an inventory to findings and a VEX document. TLC checks them on
small instances; TLAPS proves the safety properties of the engine, the cache, the corpus, the
scores, the assessment and, but for one, of discovery for every instance.

Contents: [the system](#the-system), [the modules](#the-modules),
[the runs](#the-runs), [what is proved](#what-is-proved),
[disagreements found](#disagreements-found), [what is not modelled](#what-is-not-modelled),
[plan](#plan).

## The system

| component | code | state | operations | what makes it correct |
|---|---|---|---|---|
| sending engine | `safety/engine.go`, `policy.go`, `risk.go` | exchange and step, identities learned, time of the last packet, counters, abort reason | `Run`: header, gates, pacing, dial, request, record, abort, summary | nothing forbidden leaves, packets are spaced, every packet is on file before the next, failures stop the run, the run ends |
| deny list | `safety/denylist.go` | rules | `Check` | no exchange with a device the rules name |
| audit file | `safety/audit.go` | buffered writer and encoder | one JSON line per packet or skip | a file with a summary is complete |
| probe connection | `probe/dial.go` | one socket | dial, exchange with deadlines | an answer, silence and a failure are told apart |
| probe planning | `probe/plan.go`, `target.go`, `template.go` | none | targets times templates, narrowed by an inventory | nothing is sent where nobody was seen listening |
| feed cache | `advisory/fetch.go` | two files per URL | conditional GET with retries | never a body that is not the publisher's |
| corpus and sync | `advisory/source.go`, `corpus.go` | a directory: a file per feed, enrichment, manifest | load, refresh, prune, save | a sync changes what it refreshed and nothing else |
| advisory sources | `advisory/source_*.go`, `discover.go` | none | list, download, parse | a failure of one is not a failure of all |
| asset inventory | `asset/*.go` | assets by id and address, flows | `Upsert`, `ByAddress`, `Merge`, `Finalize` | one device is one asset |
| passive ingest | `ingest/*.go` | per-flow buffers, the inventory | attribute what a log or packet says | no network access, no misattribution |
| protocol decoders | `protocol/*.go` | none | bytes to identities | reads only |
| normalizer | `normalize/*.go` | tables | vendor, product, version, constraint | an incomparable version is never decided |
| matcher | `match/*.go` | index by vendor | candidates, tiers | a tier says what is known and no more |
| findings, reports | `finding`, `report` | a sorted set | rendering, VEX | deterministic, no status the tier does not support |
| command line | `cli/*.go` | none | flags, signals, exit status | an interrupt stops the sending |

How they interact: `probe` builds a plan and runs it through the engine; the engine
calls the dialer, hands replies to the interpreter (a callback), merges what it
tells into the identities the next deny-list check reads, and writes to the audit
file synchronously. The operator's interrupt reaches it through a context, checked
only at some points. `sync` loads a corpus, lets every source fetch through one
fetcher and its cache, changes the corpus in memory and writes it back file by
file. `ingest` reads captures twice (first which hardware address has which IP, then
what they say), then scans and logs, and writes or merges the inventory file, which
`probe` plans from and `match` reads. `match` joins it with the corpus, and what it
finds is exported. Between commands the state is on disk only.

Hard behaviours: the engine is one goroutine, but it shares the world with devices
that answer or not, an interrupt that comes between any two steps, a disk that
fails, and the death of the process. The corpus has no concurrency either; its
difficulty is the sequence of runs, each of which may be partial, failed or killed
between two system calls and leaves files the next one must cope with. Ingest has no
concurrency but no order it can rely on either: segments, sources and commands come
as they come, buffers have limits, and Go's maps hand things out in any order.
The assessment is a long chain of guesses about names and versions, each of which
may silence an advisory or overstate one.
`PROJECT.json` lists the hazards at their lines, and the properties that cover them.

## The modules

* `DenyList`: identities, their merge and the rules. A field is unknown (`None`)
  or a value; case folding and substring search are equality of values.
* `AccountableRun`: the abstract promise of a scan. Packets leave one at a time,
  only those allowed from the start, never while an earlier one is not on file,
  never after the run has stopped.
* `SafetyEngine`: the loop of `engine.go`, one action per point at which something
  outside may intervene. `pc` is the place in `Run` and `runExchange`, `ex`/`step`
  the loop variables, `known`, `result`, `reason` the variables of the same name,
  `trail` and `disk` the audit file, `wire` everything that left. `since` is the time
  since `lastSend` (as the code measures it, from the answer) and `quiet` the time
  since anything left, both capped at the longest interval the engine compares them
  with; `deadline` is what is left of a dial or of the reading of a whole reply, and
  `heard` whether some of that reply has come. `Interrupt`, `Kill` and `Tick` may happen at
  any time. An interrupt does not end a pacing wait for certain: `pace` goes to sleep without
  looking at the context, and the `select` of `sleepContext` may take the timer (`Wake`);
  `raced` counts how often it does, `late` is what left after the interrupt.
  `MCSafetyEngine` holds the instances.
* `FeedCache`: one URL. `body` and `meta` are the two files, `server` the publisher's
  current version; the four writes of `writeCache` are separate actions, and a call
  may be killed between any two. `Tear` damages the body file while nobody looks.
* `CorpusSync`: the directory (`stored`, `marks`, `manifest`) and one run of `Sync` in
  memory (`held`, `kev`, `listed`). Sources are synced in any order, since the
  order is the caller's. `Listings` are what a source may find: the entries of a feed not
  older than `--since`, or the undated index it falls back to. Each file is replaced by `Remove`
  and `Rename`, the two system calls of `writeFileAtomic`. A digest is the contents it was taken
  of. `marks` stands for both enrichment files, which are treated alike. `MCCorpusSync` holds the
  instances.
* `ScoreEnrichment`: the scores over many runs of `Sync`. An entry is one vulnerability of
  one advisory: absent, unscored or scored by its publisher, and perhaps filled in by
  NVD. `SyncFeed` is `ReplaceSource`; `StartLookups`, `LookUp`, `LookUpFails` and `Apply`
  are the NVD source (`EnrichCorpus`, `Enrich`, `ApplyNVD`); `Interrupt` is a cancelled run
  with NVD last, which is saved without what was found; any other cancelled run
  is a `Kill`. Loading and saving succeed here: their failures are those of `CorpusSync`.
  `MCScoreEnrichment` holds the instances.

Discovery is one specification over a chain of modules of operators.

* `Inventory`: assets and what they accumulate: `ByAddress`, `Upsert`, evidence, the
  promotion of empty fields, roles and Purdue levels, `Merge`, `Finalize`, the graded
  flows. An address or a port is a number, a value a sequence of words. Times are
  left out.
* `Decoders`: bytes are pieces `<<message, at>>`. A decoder sees another protocol, a
  message that ends early, a refusal or an observation. A first piece declares the
  length, so a message with foreign pieces in it is read with values that nobody
  sent (`Garbled`).
* `Capture`: `Learn` and `Bindings` (the first pass), `Handle` (one frame of the second:
  flows, the buffers of `tryDecode`, LLDP, HTTP headers) and what is written when the
  capture ends. `ScanLogs`: one host of an Nmap file, one record of a Zeek log.
* `ProbePlan`: target expansion, `BuildPlan`, `Interpret`, `BuildInventory`.
* `Discovery`: the commands. `ScanBindings`, `HandleFrame`, `WriteEnds`,
  `WriteService`, `WriteFlows` are the two passes over a capture; `ScanHost`,
  `ReadDirective`, `ReadRecord`, `SkipLine`, `LeaveLog` the other sources; `Finish` the
  resolution of flows and the write or merge of the file; `MakePlan` and `Probe` the
  scan. Where the code goes through a map, the order is a choice of the model:
  `WriteService` takes the services in any order, `ScanBindings` and `ReadRecord` have
  several outcomes. Writing the file is one step, although `Save` creates it in place, so that
  a crash while writing, which loses the inventory replaced, is not modelled; and the
  normalization of identities before the write is left out: the inventory keeps the
  raw fields, and the assessment normalizes again. `NewID` is a hash and taken to be
  injective. `MCDiscovery` holds the plant.

The assessment likewise.

* `Versions` and `Ranges`: a version is the sequence of numeric and alphabetic runs
  that `tokenizeVersion` makes, a statement the pieces `ParseConstraint` looks for;
  `Evaluate` answers affected, not affected or indeterminate.
* `Catalog`, `Normalizer`: order codes, vendors, families, and `Identity`, which
  fills in what they imply.
* `Advisories`: a CSAF document into an advisory (tree, products, status, vulnerabilities).
* `Identification`, `Findings`: `CompareIdentity`, the rank of each field; tier, score,
  priority, the CVEs and fixes of a candidate, the order of the list, the summary.
* `VexExport`: the document, one statement per CVE or advisory.
* `Assessment`: `ReadDocument`, `BuildIndex`, then for each device `SkipUnidentified`,
  `SkipUnknownVendor` or `TakeAsset`, `CompareNode` for each node of its vendor,
  `BuildFinding` in any order (the code ranges over a map) and `FinishAsset`; then
  `Finalize` and `ExportVEX`. `MCAssessment` holds tables, devices and feeds.

The proofs are kept apart: `SafetyEngine_proofs`; `Feeds_proofs`, of `FeedCache` and
`CorpusSync`, whose names differ so that one module can extend both; `ScoreEnrichment_proofs`;
`Assessment_proofs`; `Discovery_proofs`, and `Evidence_proofs` which extends it;
`Counting_proofs` for what they share: ranks, least and greatest elements, images and
cardinalities of finite sets; and `Folding_proofs` for what a left fold over a list of any
length keeps. The last is instantiated for each fold, and everything it extends with it: so it
extends `Integers` only, and takes induction on the naturals as a premise, which
`InductionHolds` of `Counting_proofs` discharges.

Where the code tries one condition after another the models say `IF ... ELSE IF`: of a
`CASE` whose guards overlap TLA+ leaves open which branch is taken, and TLC takes the
first while the prover assumes none. `CASE` is kept where the guards exclude each other.

The tables of names in `MCAssessment` and `MCDiscovery` have a row for each case the
code tells apart, not the shipped contents.

## The runs

**engine.** Four inputs: a long plan for one host, a plan that mixes a safety controller and a
CPU with an empty inventory, the same with the safety controller known beforehand, and a dry
run. A device discloses nothing, its vendor, or its vendor and product in a reply, so
recognition may come late or never. The pacing delay is one tick and the rate gap two, so that
the controls differ; the abort threshold is one failure in five, from two packets on, and the
long plan has enough packets for a rate that is exactly the threshold. The timeouts of a
dial and of a reply are one tick: a device may stay silent, or stop halfway. Shown: at most one
packet is ever missing from the file (`AtMostOneUnfiled`); failures beyond the first two are
within the threshold but for the last (`FailuresBounded`); a device that the inventory or an
earlier exchange gave away is asked nothing forbidden (`RecognisedIsLeftAlone`); a file with a
summary is complete and agrees with its totals (`SummaryAgrees`), and accounts for every step
when nobody interrupted (`UninterruptedAccountedFor`); what leaves after an interrupt belongs
to one exchange, and after the first packet each took a pacing timer that outran the
interrupt (`InterruptStopsSending`; more than one may, and in these plans does); any two packets
are as far apart as both controls ask (`PacketsAreSpaced`); the engine implements
`AccountableRun` (`KeepsPromise`); every run ends (`Terminates`); and the inductive invariant
holds (`IInv`). Deadlock is not checked: a finished run stops.

**feed_cache.** Three versions of the resource, one retry, two kills. Three versions let the
cache be two behind; two kills let a second call die in what the first one left. Shown: an
online call that succeeds with a body returns one the server held during the call
(`ServedIsCurrent`); an offline call succeeds only with a whole, published body
(`OfflineIsGenuine`); a call ends (`CallEnds`). The type invariant is not checked here, since
it is proved with the inductive one, which is (`CacheInv`).

**corpus.** Two feeds with one advisory each, one of them revised, and the KEV
catalogue; any subset of the sources is chosen, any of them fails, a load fails, a
write fails, the process dies anywhere, any number of times. Shown: feeds a run did
not refresh are as they were, when the corpus could be loaded (`OthersUntouched`);
the manifest of a finished sync agrees with the files (`ManifestAgrees`); a run that
read everything repairs whatever was left before (`FullSyncHeals`); the enrichment
kept is the enrichment that can be reached, and lacks nothing
the catalogue has, whatever the order of the sources (`EnrichmentAgrees`); a reader
in the middle of a save sees each feed as before, as after, or empty while its file
or the manifest is away (`FilesAreWhole`); a sync ends (`SyncEnds`). Two advisories
per feed are used where a feed must be partly read (`corpus_incremental`).

**scores.** Two feeds of two entries; both name CVE 2, and CVE 1 is never scored and first in
order. NVD is asked for two at a time; a run syncs NVD, or one feed and NVD in either order,
with one failure or kill. What the publishers say is any, and grows. Shown: NVD fills in only
what the publisher left unscored, whichever came first (`OwnScoreWins`); an operator who syncs
NVD alone, over and over, ends with every score NVD has (`BacklogCleared`). This holds only
while the CVEs that NVD never scores are fewer than the window, since they stay in it; with 200
of them no other is reached.

**discovery.** A PLC, a workstation, two controllers behind a router, the router, two hosts
on IPv6, and a panel that has an IPv4 and an IPv6 address and is given another IPv4 address
from one capture to the next. Captures: all of at most two of 32 frames, all triples of 12 of
them, longer sequences of the segments of one service, and six stories of up to
seven frames, in pairs within one command and as two commands of which the second
merges; a PLC seen through the router and, apart from that, by its hardware address,
before or after the two are found to be one; the panel by each of its addresses, in two
captures of one command or in two commands, scanned or not; with them three scans and
four sets of logs. Frames are ARP, LLDP, TCP, UDP and, since they bind an address as well,
other IP packets such as ICMP (`other`). A table holds four flows, a
decode is tried on at most three segments, a buffer holds less than four pieces, so
each limit is reached. Then one of four scans is planned from the file, and any of
the planned hosts answer, with any beginning of their reply. Shown:

* an asset stands for one device, and says of it only what is true of it, or what
  the bytes of two answers in one buffer read as (`NothingMisattributed`). Buffers are kept by
  service and not by conversation, so the exception is the code's;
* a port is in the inventory, is knocked on by a plan held to known ports, and is in the
  inventory of the scan under a protocol, only where that device was seen to send from
  it, or answers in that protocol: at the very address the asset shows, if the device is read
  with one IP (`OneIP`), and else at some IP of the device (`OpenIsAnswered`);
* of two devices of one IP each, both ends of each conversation in the file are assets with
  those addresses, and a crossing from a known enterprise level to a known control level is
  graded (`CrossingsAreGraded`);
* once a capture is replayed each thing a service said is in the evidence, and is
  there once (`SaidOnceWrittenOnce`);
* no weaker source displaces what a stronger one said, in whatever order they are read,
  where the device is one asset (`StrongestSpeaks`).

The preconditions say what the code relies on. `Sound`: in each capture a hardware
address seen with one IP only has that IP; a router that forwards for a single host
does not. `Prompt`: each answer of the service came in one segment and not behind the
rest of another; the last two properties are about such services, since the code drops
what it cannot put together. The three others hold without it.

**assessment.** Ten devices, which disclose an order code, a family, a model with or
without firmware, nothing, or a vendor nobody knows, in all ordered pairs and three longer
inventories; four feeds made of seven documents, about a family, a model or an order
code, with ranges in the forms publishers use, one older than `Since`, one without a
name. `CouldBe` gives the models and releases each device may really be given what it
disclosed, `Covers` those each node of an advisory was published about: they are
the truth the names only hint at, and the code never sees them. Shown: a confirmed
finding is about a device that certainly is one of those (`ConfirmedIsCertain`); a
device that an advisory may be about has a finding (`NothingSilenced`); a CVE is
attached only to a device it could hit, or on account of a lead (`CVEsCouldHit`); the
output does not depend on the order of the map (`OutputIsDetermined`); the summary
counts each device and each matching node once (`EveryPairAccountedFor`);
known exploitation decides the order (`KnownExploitedFirst`); the document is valid
VEX (`VexIsValid`), and states as affected only the product of a device that certainly
is (`VexOverstatesNothing`).

Both specifications end where their commands end, so deadlock is not checked, and
they are safety specifications: every step shortens what is left to read.

Every run bounds data only: the number of exchanges, versions and revisions. The
behaviours themselves (runs of sync, calls, interrupts) are not bounded, except for
`MaxKills` in the cache.

Fairness. `WF` of the program's own steps: each is straight-line Go code, a wait on a
timer, or a network wait with a deadline (connect and read timeouts in the engine,
the client's timeout in the fetcher). In the engine such a wait is fair only in that it ends
once its deadline has passed (`TimesOut`), and without a deadline it may last for ever; `Tick`
is fair because time passes. Nothing is assumed of devices, servers, publishers, the operator or
the disk: failing for ever is one of their behaviours. The one exception is `ScoreEnrichment`,
whose question is what becomes of an operator who does run sync again (`Again`).

## What is proved

Every safety property of the engine, the feed cache, the corpus, the scores and the
assessment that a run checks is a theorem of its specification, for every value of the
constants; four of the assessment under conditions on single pairs, named below. Each
follows from an inductive invariant.

**Engine**, for every plan, inventory, rule list, device and disclosure, every
delay and every threshold of at most one fifth, from `NoneAssumption`, `InputAssumption` and
`PolicyAssumption` (the bounds of `Policy.Validate`).

* `TypeCorrect`: `Spec => []TypeOK`; `Invariance`: `Spec => [](TypeOK /\ IInv)`.
  `AtMostOneUnfiled` alone is not inductive: it must be known that the one unfiled packet
  is the current one and that the loop is between its sending and its record (`Filing`,
  `Recording`), that the loop sends only after the gates and before an abort (`Gates`),
  that the lines on file of the current exchange are about earlier steps (`Fresh`), that a
  merge never forgets what the inventory brought (`Remembers`), and that before every
  packet one more failure is affordable (`Budget`). The arithmetic of the last
  (`Allowance` and the `Count` lemmas) is that an allowance not exceeded before a failure
  is exceeded by at most that failure after it.
* `NothingElseUnfiled` and `FailuresStayBounded` follow; so does `EngineKeepsPromise`:
  `SafetyEngine` implements `AccountableRun` under the mapping of its last section. Every
  step is a send, a filing, a stop, or leaves the four mapped variables alone.
* `LateCostsARace`: what is late is of the current exchange, and where one more packet is about
  to leave, a timer has outrun the interrupt for each of them already (`LateInv`).
* `Spaced`: the engine's clock is never ahead of the wire's, and where a packet is about to
  leave the whole interval has passed on it (`Spacing`).
* `RecognisedDevicesLeftAlone`: what the loop believes of a host includes the inventory and
  every answer of the exchanges before, in their order (`Recognition`), and a refusal by a
  part of an identity is a refusal by the whole.
* `EveryStepAccountedFor`, `SummaryIsOfTheFile`: each counter is the cardinality of the set
  of lines it counts, lines are put once, and a file is closed for good by its summary.

**Feed cache**, for any number of versions, retries and kills, from `BoundsAssumption` and
`BodyAssumption`. `CacheInvariance`: what makes the two promises of a call inductive is that
the copy a call holds is the one its entry is about, that what it is about to write was
downloaded during the call, and that the entry file never speaks of a version nobody
published. `ServedStaysCurrent` and `OfflineStaysGenuine` follow.

**Corpus**, for any feeds, advisories and publishers, from `FeedAssumption` and
`MissingAssumption`. `SyncHolds` is the invariant of a sync with failures and kills at every
system call: which files are written in a save and which are still to be, and that those
written are what is held in memory. From it `CorpusIsTyped`, `RefreshTouchesOnlyItsOwn`,
`DigestsAreOfTheFiles`, `WholeReadHeals`, `MarksAgree` and `ReadersSeeWholeFiles`.

**Scores**, for any feeds, advisories, requests and limits, from `EnrichmentAssumption`.
`ScoresAreTyped`; `OwnScoreAlwaysWins`: the invariant says it of the corpus in memory as
well (`ScoresInv`), from which the one on disk is written.

**Assessment**, for any tables, feeds, inventories and options, from `TablesAssumption`,
`MaxBranchDepthAssumption`, `MaxReferencesAssumption` and `ReadableAssumption`. The last
says that identifiers and lists are what they are, and that base scores are at most 10 and
probabilities at most 1: CVSS and EPSS promise it, the code does not check it, and
`ExploitedComesFirst` needs it, since an advisory with a base score of a few hundred would
outweigh a known exploitation.

* `AssessmentHolds` is the invariant. The run goes device by device, node by node and in
  any order of the map; that is made inductive by saying of each state what the corpus and
  the devices dealt with so far determine: the candidates are those of the nodes compared
  (`Surviving`), the findings are, by a bijection, the pairs of a device and an
  advisory that were built and not too weak (`Listed`), the counters are cardinalities
  (`Counted`), the delivered list is in its order (`Delivered`).
* `AssessmentIsTyped`, `ExploitedComesFirst`, `OutputIsOne`, `ExportIsValid`,
  `EveryPairIsCounted` follow. That sorting permutes the list is itself proved
  (`SortedIsRearranged`): `Precedes` is an order, and each finding has its own place in it.
* `EverySurvivorIsNamed`: once a run has ended no node that survived the comparison with a
  device is missing from the findings.
* Four properties compare the findings with the truth of the plant (`CouldBe`, `Covers`).
  The code meets it only where one device is compared with one node, and whether that
  comparison is right depends on the tables. It is stated as three conditions on single pairs,
  `Cautious`, `Plausible` and `Certain`, all three of which are true of the tables, devices
  and documents of `MCAssessment`. From them, and for any number of devices, documents and
  nodes made of such pairs, `NothingIsSilenced`, `CVEsAreOfTheDevice`, `ConfirmedIsSure` and
  `ExportIsSure` prove that the index, the loops, the map, the choice of the best node, the
  threshold, the sorting and the export neither lose nor add anything.

**Discovery**, for any captures, scans, logs, commands, orders of a map, plans and answers,
from `LimitsAssumption` and `InputsAssumption`, and what each group of theorems adds.
`InputsAssumption` says that what the readers of files and arguments deliver are lists where
the code has slices, and that addresses to probe are numbers. `PlantAssumption`, from
`TruthHolds` on, says what the
plant is (`Owner`, `TruthOf`): hosts, records, announcements and answers say of a device what is
true of it, of addresses that are of a known device; a scan names no host without an address;
and a text made of a true value names no vendor or order code that is false. It is about the
world and not about the code, and without it there is no saying whether an inventory is right.
`AddressesAssumption`, from `ServedHolds` on, says that no IP is read as a hardware address
too. How many IPs a device has is not assumed: an asset keeps the first IPv4 and the first IPv6
address it is given, and an address bound to a frame or leased by DHCP is put down as the former
whatever it is; so a service of a device that has several, or is re-addressed between two
captures, may come to stand on an asset that does not show the address it was seen at, and the
end of a conversation may be left without an asset (`ingest.go:337`). Where a device is read with
one IP over all commands (`OneIP`) the theorems promise the very address and both ends; of any
other they promise that the service was seen at an IP of that device. The condition is needed:
without it TLC finds the panel's crossing ungraded, and its services at an address not shown.
`ProbingAssumption`, for `OpenServicesAnswered`, is
what reading templates and targets establishes: no address 0, a protocol that has a decoder
(`template.go:179`), replies of one piece at least. `MessagesAssumption`, for
`WhatIsSaidIsWrittenOnce`, says that a header is part of its message and that "no decoder emits
a name with a space in it" (`pcap.go:641`), on which the code relies where it counts the first
identity among the names a service has used. TLC evaluates all of them over what `MCDiscovery`
enumerates.

* `DiscoveryHolds` is the invariant, `EachAssetIsThereOnce` what follows: no inventory, the
  one being built, the one in the file and that of a scan, has two assets with one id, and the
  flows and bytes held of a capture are within their limits. That ids stay distinct
  is inductive only of inventories that are lists of assets with lists of services
  and evidence (`IsInventory`), a service being found by its place in such a list; and nearly
  every function of the sink, of `Inventory` and of a pass has a lemma that it keeps them.
  That sorting loses and doubles no asset is `SortedKeeps`.
* The code's loops over slices are left folds, and the community modules define a fold by a
  function on the sets of positions. `Folding_proofs` proves that such a function exists for
  a list of any length, and that what every step keeps the fold keeps (`FoldKeeps`); its
  step and its invariant are constants, and `Discovery_proofs` instantiates it for each loop.
* `NothingIsMisattributed` is the safety property of the ingest, by a second invariant
  (`TruthHolds`): what is left to read is true, also of the kind a log is taken for halfway
  (`IsTruthful`); what a pass holds was sent by the device of the service it is held for
  (`IsHeard`); and, from captures that are honest (`Sound`), the bindings join addresses of one
  device (`IsBound`) and every asset is of one device (`Owned`). The last is inductive
  only with the id: an asset is found by its id before its addresses, so the addresses it was first
  seen with must be of that device too, and there must be one (`IsOf`, `FoundIsOf`, `IdIsOf`).
  Each function of the sink, the passes, the scans, the logs and the probe then has a lemma
  (`DeviceOwned` to `BuildInventoryOwned`).

* `EveryCrossingIsGraded` and, of the inventories built from captures, scans and logs,
  `OpenServicesAnswered` rest on a third invariant (`ServedHolds`). What is left to read is of what
  was given (`IsGiven`); the flows and open services of a pass have addresses of devices, and
  the services are of those seen open (`IsPlacedPass`); and, where captures are honest, a service
  of an asset of a device was seen open at an IP of that device, which the asset shows if the
  device has no other (`Housed`), and of conversations between devices of one IP both ends heard
  are assets (`AreEnded`), and those in the file carry the ids they were resolved to
  (`AreJoined`). That nothing of it is lost is that every function only lets an inventory grow
  (`Grows`: an asset keeps its id and its IP addresses), sorting and merging included; that the
  address is shown is where `OneIP` is needed, since an asset is found by its hardware address
  too.
* `OpenServicesAnswered` adds a fourth (`PInv`): a plan held to known ports knocks at what some
  asset of the file serves (`PlanIsOf`), whose IP, if the device has one, is the one seen; and
  each asset of the scan is of one host of the plan, with services in the protocol of its
  template, which is that of the message that came, for a reply cut short starts in the protocol
  it is taken for (`AnswerIsSpoken`, `AreProbed`).
* `WhatIsSaidIsWrittenOnce` (`Evidence_proofs`) has an invariant of its own (`EInv`). While the
  first capture of the first command is replayed, the address tables agree (`IsTable`) and
  every asset shows addresses that go together with them (`AllFit`), so that the asset an IP
  leads to never changes once it is there; and of every service that answers promptly nothing
  is held back in a buffer, and the fields it has said in the frames so far are exactly those
  written (`IsWritten`), all at that one asset (`IsRecordedAt`). An entry that adds no field is
  inductive only with what the pass remembers: it is there if the first identity has been
  recorded (`IdentityFlag`). Each function from `recordEvidence` to a frame of `parsePacket`
  keeps what it does not add to (`KeepsSaid`), also what other frames, other ports and other
  devices do; and `IsHeardOut` is what is left of it when the replay is over. No capture need
  be honest for it (`Sound`): where the tables are wrong, what is said is written of the wrong
  asset, but once.

Model-checked only: the liveness properties `Terminates`, `CallEnds`, `SyncEnds` and
`BacklogCleared`, since fairness is beyond this prover; and one invariant of `Discovery`,
`StrongestSpeaks`. It compares an inventory with the history of all that was said, in its order,
and it holds where each field of an identity is said under a name of
its own, which is a fact about the decoders' tables, since an observation whose names are all
known is dropped (`recordsSomethingNew`) with the values it may have been first to say.

## Disagreements found

Each is the counterexample of a run, quoted in `PROJECT.json`.

* `engine_stale_inventory`: the inventory's identity wins over the device's replies,
  although the deny list claims to use what the run learned.
* `engine_family_rule`: the shipped S7-300 rule names a family, which no decoder
  fills in, so it takes effect only through an inventory that has one.
* `feed_not_modified`: an entry without its body turns a 304 into success with nothing.
* `corpus_incremental`: `sync --since N` drops everything older than N days.
* `corpus_unreadable`: any load error is taken for a first run, and the next save
  forgets the sources that were not synced.
* `assessment_vex`: a statement lists a product as known affected by a CVE because a
  confirmed finding carries the CVE, although the CVE was published about another of
  the nodes that matched, of which the device need not be.

Others were met while modelling; the models do what the code does, and no run is
about them.

* Audit: an interrupt between two steps leaves the rest of the exchange out of the file
  (`engine.go:332`), which SAFETY.md says is recorded; `UninterruptedAccountedFor` excepts it.
* NVD says "run sync again to continue" (`source_nvd.go:115`), but the same sync of a feed
  and NVD reads the feed again, which empties what NVD filled in, and asks for the same
  CVEs for ever; `BacklogCleared` is about NVD synced alone.
* Ranges: a version in several words loses "SP2" and "Update 3" after an operator or in
  prose; "up to but not including" is read as inclusive; 1.0-rc1 orders after 1.0.
* The matcher does not look at the status of a product (`advisory.go:73`).
* The same advisory read from two sources (`cisa-csaf` and `icsap` carry the same ICSA
  numbers; `source_csaf.go:134` drops duplicates within a source only) gives two findings that
  the order of `finding.go:271` cannot tell apart: they come out as the map gave them
  (`match.go:190`), though `finding.go:360` promises the same output for the same
  input. `OutputIsDetermined` excepts it (`OneOfEach`).
* `match.go:133` calls normalization idempotent; a second pass may add fields.
  `Advisory.Normalize` takes the vendor of the report, so that one inferred from the
  family is lost.
* A model that differs from the node's is kept as a lead, and its CVEs with it.
* A VEX statement carries the finding's CVSS, KEV mark and remediations for each of
  its CVEs. The links of a finding are sorted, though `vex.go` counts on the first
  being the advisory's.
* Capture: an observation that says nothing new leaves the buffer it came from, and a
  response above the buffer's size leaves the service unheard for the rest of the
  capture; a header split across segments is another protocol; refusals of S7 and
  EtherNet/IP are dropped, though `ErrDeviceError` is called a useful observation.
* Bindings: an ARP probe (sender 0.0.0.0) counts as a second IP and undoes the binding; which
  of several bindings wins depends on the order of a map, as does the value of an identity
  field that two fields of a Zeek record fill.
* Identity: `NewID` depends on which addresses are known so far, so `ingest --merge` may keep a
  device twice; `finish` then resolves a flow to the last asset with its address. It leaves the
  host name out, on which `Primary` falls back (`asset.go:175`): hosts known by name only share
  one id.
* A device first seen by its hardware address and by its IP apart is two assets, also once an
  ARP packet joins the two: `ByAddress` (`inventory.go:74`) takes the first that shares an address
  and nothing merges the other into it. What was said on the one is missing on the other, so
  `StrongestSpeaks` is about devices that are one asset.
* A device with two addresses of one family, at once or one after the other, is one asset that
  shows the first (`asset.go:305`): a flow at the other keeps no asset
  id, so that a crossing there is not graded, and its services cannot be probed at it.
* Probe: a dial refused because the run was already cancelled counts as a packet sent and failed
  (`engine.go:313`), in the file and in the summary alike.

## What is not modelled

Byte formats (protocol frames, log and pcap syntax, CSV, JSON, HTML, template and
target files) and the contents of the embedded tables are data: the models see what a
reply, a record or a document tells. Parsing of command lines, printing, the HTML and
CSV reports, the estimate of a dry run, the golden corpus and the build helpers are
left out: they keep no state. So is the discovery of feed addresses.

## Plan

In order of importance, and in place.

1. `SafetyEngine` with `DenyList` and `AccountableRun`, and its proofs.
2. `FeedCache`; 3. `CorpusSync`.
4. `Versions` to `Assessment`, the VEX export included.
5. `Inventory` to `Discovery`; 6. `ProbePlan`, composed with it.
7. `ScoreEnrichment`: does repeated syncing ever reach every vulnerability?
8. Proofs of the safety properties of all of these.

Left: a proof of `StrongestSpeaks`; the text of the NVD enricher's
paging, the golden corpus, and the reports that are not VEX.

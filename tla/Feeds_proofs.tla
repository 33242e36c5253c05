---------------------------- MODULE Feeds_proofs -----------------------------
(***************************************************************************)
(* What keeps the feeds on disk: the cached GET of one URL, for any number *)
(* of versions, retries and kills; and the directory that any sequence of  *)
(* syncs, failures and kills leaves, for any feeds, advisories, windows    *)
(* and catalogues.                                                         *)
(***************************************************************************)
EXTENDS FeedCache, CorpusSync, TLAPS

-----------------------------------------------------------------------------
(* The cache. *)

(* readCache returns an entry or none, and a body only with the entry of *)
(* its version.                                                          *)
LEMMA ReadingType ==
  ASSUME CacheTypeOK
  PROVE  /\ ReadEntry \in Entry \cup {None}
         /\ ReadBody \in Versions \cup {None}
         /\ ReadBody # None => ReadEntry # None /\ ReadEntry = meta /\ ReadBody = meta.of
  BY BodyAssumption DEF CacheTypeOK, Entry, ReadEntry, ReadBody

(* The first call finds an empty cache. *)
LEMMA EmptyCache == CacheInit => CacheTypeOK /\ CacheInv
<1> SUFFICES ASSUME CacheInit PROVE CacheTypeOK /\ CacheInv
  OBVIOUS
<1>1. 1 \in Versions /\ 0 \in 0 .. Retries /\ 0 \in 0 .. MaxKills
  BY BoundsAssumption DEF Versions
<1>2. CacheTypeOK
  BY <1>1 DEF CacheInit, CacheTypeOK, NoAnswer
<1>3. CacheInv
  BY DEF CacheInit, CacheInv, ServedIsCurrent, OfflineIsGenuine, NoAnswer
<1> QED
  BY <1>2, <1>3

(* The three counters stay within their bounds. *)
LEMMA CounterStep ==
  /\ 0 \in 0 .. Retries
  /\ \A n \in 0 .. Retries : NextAttempt /\ attempt = n => n + 1 \in 0 .. Retries
  /\ \A n \in 0 .. MaxKills : n < MaxKills => n + 1 \in 0 .. MaxKills
  /\ \A n \in Versions : n < MaxVersion => n + 1 \in Versions
  BY BoundsAssumption DEF NextAttempt, Versions

(* No step leaves the types. *)
LEMMA CacheTypeStep ==
  ASSUME CacheTypeOK, CacheInv, [CacheNext]_cacheVars
  PROVE  CacheTypeOK'
<1> USE DEF CacheTypeOK, files, call, answer, Return
<1>1. ASSUME NEW off \in BOOLEAN, BeginGet(off) PROVE CacheTypeOK'
  <2>1. during' \subseteq Versions
    BY <1>1 DEF BeginGet
  <2> HIDE DEF CacheTypeOK
  <2>2. /\ entry' \in Entry \cup {None}
        /\ cached' \in Versions \cup {None}
    BY <1>1, ReadingType DEF BeginGet
  <2>3. /\ served' \in [ok : BOOLEAN, body : Versions \cup {None}]
        /\ stage' \in {"idle", "ask"}
    <3>1. CASE off
      <4>1. stage' = "idle" /\ served' = [ok |-> ReadBody # None, body |-> ReadBody]
        BY <1>1, <3>1 DEF BeginGet
      <4>2. (ReadBody # None) \in BOOLEAN
        OBVIOUS
      <4> QED
        BY <4>1, <4>2, ReadingType
    <3>2. CASE ~ off
      BY <1>1, <3>2 DEF BeginGet, CacheTypeOK
    <3> QED
      BY <3>1, <3>2
  <2> QED
    BY <1>1, <2>1, <2>2, <2>3, CounterStep DEF BeginGet, CacheTypeOK
<1>2. CASE NotModified
  BY <1>2 DEF NotModified
<1>3. CASE Downloaded
  BY <1>3 DEF Downloaded
<1>4. CASE Failed
  <2>1. CASE NextAttempt
    BY <1>4, <2>1, CounterStep DEF Failed
  <2>2. CASE ~ NextAttempt
    <3>1. served' = [ok |-> FALSE, body |-> cached]
      BY <1>4, <2>2 DEF Failed, GiveUp
    <3>2. stage' = "idle" /\ attempt' = attempt
      BY <1>4, <2>2 DEF Failed, GiveUp
    <3> QED
      BY <1>4, <3>1, <3>2 DEF Failed
  <2> QED
    BY <2>1, <2>2
<1>5. CASE Refused
  BY <1>5 DEF Refused
<1>6. CASE RemoveBody
  BY <1>6 DEF RemoveBody
<1>7. CASE RenameBody
  BY <1>7 DEF RenameBody
<1>8. CASE RemoveEntry
  BY <1>8 DEF RemoveEntry
<1>9. CASE RenameEntry
  <2>1. fresh \in Versions
    BY <1>9 DEF RenameEntry, CacheInv
  <2>2. meta' \in Entry
    BY <1>9, <2>1 DEF RenameEntry, Entry
  <2> QED
    BY <1>9, <2>1, <2>2 DEF RenameEntry
<1>10. CASE CacheWriteFails
  BY <1>10 DEF CacheWriteFails
<1>11. CASE PublishVersion
  BY <1>11, CounterStep DEF PublishVersion
<1>12. CASE KillGet
  BY <1>12, CounterStep DEF KillGet, NoAnswer
<1>13. CASE Tear
  BY <1>13 DEF Tear
<1>14. CASE UNCHANGED cacheVars
  BY <1>14 DEF cacheVars
<1> QED
  BY <1>1, <1>2, <1>3, <1>4, <1>5, <1>6, <1>7, <1>8, <1>9, <1>10, <1>11, <1>12, <1>13, <1>14
  DEF CacheNext, CallStep

(* The versions are numbers, those a call saw included. *)
LEMMA Numbers ==
  ASSUME CacheTypeOK
  PROVE  /\ server \in Nat /\ server >= 1
         /\ \A v \in during : v \in Nat /\ v >= 1
         /\ meta # None => meta.of \in Nat /\ meta.of >= 1
<1>1. \A v \in Versions : v \in Nat /\ v >= 1
  BY BoundsAssumption DEF Versions
<1>2. server \in Versions /\ during \subseteq Versions
  BY DEF CacheTypeOK
<1>3. meta # None => meta.of \in Versions
  BY DEF CacheTypeOK, Entry
<1> QED
  BY <1>1, <1>2, <1>3

(* Every step keeps the invariant. *)
LEMMA CacheInvStep ==
  ASSUME CacheTypeOK, CacheInv, [CacheNext]_cacheVars
  PROVE  CacheInv'
<1> USE DEF CacheInv, files, call, answer, Return
<1>1. ASSUME NEW off \in BOOLEAN, BeginGet(off) PROVE CacheInv'
  <2>1. CASE off
    <3>1. /\ stage' = "idle" /\ offline' /\ during' = {server}
          /\ entry' = ReadEntry /\ cached' = ReadBody
          /\ served' = [ok |-> ReadBody # None, body |-> ReadBody]
          /\ meta' = meta /\ server' = server
      BY <1>1, <2>1 DEF BeginGet
    <3>2. ServedIsCurrent'
      BY <3>1 DEF ServedIsCurrent
    <3>3. OfflineIsGenuine'
      <4>1. SUFFICES ASSUME ReadBody # None
                     PROVE  ReadBody \in 1 .. server /\ meta # None /\ meta.of = ReadBody
        BY <3>1 DEF OfflineIsGenuine
      <4>2. meta # None /\ meta.of = ReadBody
        BY <4>1 DEF ReadBody
      <4> QED
        BY <4>2, Numbers
    <3> QED
      BY <3>1, <3>2, <3>3, ReadingType, Numbers
  <2>2. CASE ~ off
    BY <1>1, <2>2, ReadingType, Numbers DEF BeginGet, ServedIsCurrent, OfflineIsGenuine
  <2> QED
    BY <2>1, <2>2
<1>2. CASE NotModified
  BY <1>2 DEF NotModified, ServedIsCurrent, OfflineIsGenuine
<1>3. CASE Downloaded
  BY <1>3 DEF Downloaded, ServedIsCurrent, OfflineIsGenuine
<1>4. CASE Failed
  BY <1>4 DEF Failed, GiveUp, ServedIsCurrent, OfflineIsGenuine
<1>5. CASE Refused
  BY <1>5 DEF Refused, ServedIsCurrent, OfflineIsGenuine
<1>6. CASE RemoveBody
  BY <1>6 DEF RemoveBody, ServedIsCurrent, OfflineIsGenuine
<1>7. CASE RenameBody
  BY <1>7 DEF RenameBody, ServedIsCurrent, OfflineIsGenuine
<1>8. CASE RemoveEntry
  BY <1>8 DEF RemoveEntry, ServedIsCurrent, OfflineIsGenuine
<1>9. CASE RenameEntry
  BY <1>9 DEF RenameEntry, ServedIsCurrent, OfflineIsGenuine
<1>10. CASE CacheWriteFails
  BY <1>10 DEF CacheWriteFails, ServedIsCurrent, OfflineIsGenuine
<1>11. CASE PublishVersion
  <2>1. \A v \in Nat : v <= server => v <= server'
    BY <1>11, Numbers DEF PublishVersion
  <2>2. OfflineIsGenuine'
    <3>1. 1 .. server \subseteq 1 .. server'
      BY <1>11, Numbers DEF PublishVersion
    <3> QED
      BY <1>11, <3>1 DEF PublishVersion, OfflineIsGenuine
  <2>3. \A v \in during' : v <= server'
    BY <1>11, <2>1, Numbers DEF PublishVersion
  <2>4. meta' # None => meta'.of <= server'
    BY <1>11, <2>1, Numbers DEF PublishVersion
  <2> QED
    BY <1>11, <2>2, <2>3, <2>4 DEF PublishVersion, ServedIsCurrent
<1>12. CASE KillGet
  BY <1>12 DEF KillGet, NoAnswer, ServedIsCurrent, OfflineIsGenuine
<1>13. CASE Tear
  BY <1>13 DEF Tear, ServedIsCurrent, OfflineIsGenuine
<1>14. CASE UNCHANGED cacheVars
  BY <1>14 DEF cacheVars, ServedIsCurrent, OfflineIsGenuine
<1> QED
  BY <1>1, <1>2, <1>3, <1>4, <1>5, <1>6, <1>7, <1>8, <1>9, <1>10, <1>11, <1>12, <1>13, <1>14
  DEF CacheNext, CallStep

(* The types and the invariant of the cached GET hold throughout, whatever  *)
(* the server, the disk and the killer of the process do.                   *)
THEOREM CacheInvariance == CacheSpec => [](CacheTypeOK /\ CacheInv)
<1>1. CacheTypeOK /\ CacheInv /\ [CacheNext]_cacheVars => (CacheTypeOK /\ CacheInv)'
  BY CacheTypeStep, CacheInvStep
<1> QED
  BY EmptyCache, <1>1, PTL DEF CacheSpec

(* An online call that succeeds with a body returns what the server held at *)
(* some moment of the call: the comments of readCache and writeCache, for   *)
(* any number of retries, crashes and versions.                             *)
THEOREM ServedStaysCurrent == CacheSpec => []ServedIsCurrent
<1>1. CacheInv => ServedIsCurrent
  BY DEF CacheInv
<1> QED
  BY CacheInvariance, <1>1, PTL

(* An offline call succeeds only with a whole body that was published.      *)
THEOREM OfflineStaysGenuine == CacheSpec => []OfflineIsGenuine
<1>1. CacheInv => OfflineIsGenuine
  BY DEF CacheInv
<1> QED
  BY CacheInvariance, <1>1, PTL

-----------------------------------------------------------------------------
(* The directory. *)

(* The contents of all feeds, and what the directory holds of them.         *)
Corpus(c) == c = [f \in Feeds |-> c[f]] /\ \A f \in Feeds : c[f] \in Contents(f)

Shaped ==
  /\ Corpus(upstream) /\ Corpus(held) /\ Corpus(before)
  /\ stored = [f \in Feeds |-> stored[f]]
  /\ \A f \in Feeds : stored[f] \in Contents(f) \cup {Missing}

(* Between runs nothing of the last one is left in memory. *)
AtRest ==
  pc = "idle" => unsaved = {} /\ removed = Missing /\ refreshed = {} /\ whole = {}

(* A run changes only the feeds it refreshed, and lists every feed of which *)
(* it holds anything.                                                       *)
Kept ==
  /\ pc # "idle" /\ loaded => \A f \in Feeds \ refreshed : held[f] = before[f]
  /\ \A f \in Feeds \ listed : held[f] = Nothing[f]

(* A source is synced once, and of a feed that was read whole exactly the   *)
(* listed documents are held.                                               *)
Synced ==
  /\ refreshed \cap todo = {}
  /\ whole \subseteq Feeds
  /\ \A f \in whole : \E list \in Listings(f) :
       held[f] = [a \in Of(f) |-> IF a \in list THEN upstream[f][a] ELSE 0]

(* The catalogue, once merged, is lost only where nothing mentions it. *)
Marked ==
  /\ "kev" \in refreshed =>
       \A c \in catalogue : c \in kev \/ (pc # "syncing" /\ c \notin Mentioned(held))
  /\ pc \in {"saving", "saved"} /\ held # Nothing => kev \subseteq Mentioned(held)

(* What Save has finished is on the disk; the manifest is the last of it.   *)
Saved ==
  pc \in {"saving", "saved"} =>
    /\ todo = {}
    /\ unsaved \subseteq listed \cup {"kev", "manifest"}
    /\ pc = "saved" <=> unsaved = {}
    /\ \A f \in listed \ unsaved : stored[f] = held[f]
    /\ "kev" \notin unsaved => marks = kev
    /\ "manifest" \notin unsaved => unsaved = {} /\ manifest = Manifest

(* The one file that is away while it is replaced. *)
Away ==
  removed # Missing =>
    /\ pc = "saving" /\ removed \in unsaved
    /\ removed \in Feeds => stored[removed] = Missing
    /\ removed = "manifest" => unsaved = {"manifest"} /\ manifest = Missing

Lists(f) == manifest # Missing /\ f \in manifest.listed

(* Until the manifest is replaced, a reader sees the feeds that Save has    *)
(* not come to as they were.                                                *)
Seen ==
  pc # "idle" /\ (pc = "syncing" \/ "manifest" \in unsaved) /\ removed # "manifest" =>
    \A f \in Feeds :
      /\ ~ Lists(f) => before[f] = Nothing[f]
      /\ (pc = "syncing" \/ f \notin listed \/ f \in unsaved) /\ removed # f => Visible[f] = before[f]

SyncInv == Shaped /\ AtRest /\ Kept /\ Synced /\ Marked /\ Saved /\ Away /\ Seen
-----------------------------------------------------------------------------
(* A missing file is told from a file, and from the names of the files.     *)
LEMMA MissingIsNothing ==
  /\ Missing \notin Feeds /\ Missing # "kev" /\ Missing # "manifest"
  /\ \A f \in Feeds : Missing \notin Contents(f)
  /\ \A marked : marked \subseteq Cves => marked # Missing
  BY MissingAssumption DEF Files

(* Nothing is a corpus, and holds no advisory. *)
LEMMA NothingIsCorpus == Corpus(Nothing)
  BY DEF Corpus, Nothing, Contents

(* What a reader sees of the directory is a corpus. *)
LEMMA VisibleIsCorpus ==
  ASSUME Shaped
  PROVE  /\ Corpus(Visible)
         /\ \A f \in Feeds : Visible[f] = IF Lists(f) /\ stored[f] # Missing THEN stored[f]
                                          ELSE Nothing[f]
<1>1. \A f \in Feeds : Visible[f] = IF Lists(f) /\ stored[f] # Missing THEN stored[f]
                                    ELSE Nothing[f]
  BY DEF Visible, Readable, Lists
<1>2. \A f \in Feeds : Visible[f] \in Contents(f)
  BY <1>1, NothingIsCorpus DEF Shaped, Corpus
<1>3. Visible = [f \in Feeds |-> Visible[f]]
  BY DEF Visible
<1> QED
  BY <1>1, <1>2, <1>3 DEF Corpus

(* A manifest is written, not left out. *)
LEMMA ManifestIsThere ==
  ASSUME TypeOK, Shaped
  PROVE  Manifest # Missing
<1>1. \A f \in listed : f \in Feeds /\ held[f] \in Contents(f)
  BY DEF TypeOK
<1>2. [f \in listed |-> held[f]] \in [listed -> UNION {Contents(f) : f \in Feeds}]
  BY <1>1
<1>3. Manifest \in Manifests
  BY <1>2 DEF TypeOK, Manifest, Manifests
<1> QED
  BY <1>3, MissingAssumption

(* The documents of one feed take the place of those it held. *)
LEMMA ReplacedType ==
  ASSUME TypeOK, Shaped, NEW f \in Feeds, NEW read \in SUBSET Of(f)
  PROVE  /\ Corpus(ReplaceSource(f, read))
         /\ ReplaceSource(f, read)[f] = [a \in Of(f) |-> IF a \in read THEN upstream[f][a] ELSE 0]
         /\ \A g \in Feeds \ {f} : ReplaceSource(f, read)[g] = held[g]
<1> DEFINE now == [a \in Of(f) |-> IF a \in read THEN upstream[f][a] ELSE 0]
<1>1. now \in Contents(f)
  BY DEF TypeOK, Contents
<1>2. held = [g \in Feeds |-> held[g]]
  BY DEF Shaped, Corpus
<1> HIDE DEF now
<1>3. ReplaceSource(f, read) = [held EXCEPT ![f] = now]
  BY DEF ReplaceSource, now
<1>4. \A g \in Feeds : [held EXCEPT ![f] = now][g] = IF g = f THEN now ELSE held[g]
  BY <1>2
<1>5. [held EXCEPT ![f] = now] = [g \in Feeds |-> [held EXCEPT ![f] = now][g]]
  BY <1>2
<1>6. \A g \in Feeds : held[g] \in Contents(g)
  BY DEF TypeOK
<1> QED
  BY <1>1, <1>3, <1>4, <1>5, <1>6 DEF Corpus, now

(* The program starts between two runs, with an empty directory. *)
LEMMA SyncInit == Init => TypeOK /\ SyncInv
<1> SUFFICES ASSUME Init PROVE TypeOK /\ SyncInv
  OBVIOUS
<1>1. Shaped
  BY NothingIsCorpus DEF Init, Shaped, Corpus
<1>2. TypeOK
  BY NothingIsCorpus DEF Init, TypeOK, Corpus
<1>3. AtRest /\ Kept /\ Synced /\ Marked /\ Saved /\ Away /\ Seen
  BY DEF Init, AtRest, Kept, Synced, Marked, Saved, Away, Seen
<1> QED
  BY <1>1, <1>2, <1>3 DEF SyncInv

(* A run that ends takes its memory with it. *)
LEMMA EndsAtRest ==
  ASSUME TypeOK, SyncInv, End, UNCHANGED <<world, disk>>
  PROVE  TypeOK' /\ SyncInv'
<1>1. Shaped'
  BY NothingIsCorpus DEF SyncInv, Shaped, Corpus, End, world, disk
<1>2. TypeOK'
  BY NothingIsCorpus DEF TypeOK, Corpus, End, world, disk
<1>3. (AtRest /\ Kept /\ Synced /\ Marked /\ Saved /\ Away /\ Seen)'
  BY DEF End, AtRest, Kept, Synced, Marked, Saved, Away, Seen
<1> QED
  BY <1>1, <1>2, <1>3 DEF SyncInv

(* A run begins with what a reader sees, or with nothing.                   *)
LEMMA BeginStep ==
  ASSUME TypeOK, SyncInv, NEW S \in SUBSET Sources, NEW W \in Windows, NEW readable \in BOOLEAN,
         Begin(S, W, readable)
  PROVE  TypeOK' /\ SyncInv'
<1> USE DEF Begin, world, disk, saving
<1>1. Corpus(Visible) /\ Corpus(Nothing)
  BY VisibleIsCorpus, NothingIsCorpus DEF SyncInv
<1>2. held' = (IF loaded' THEN Visible ELSE Nothing) /\ before' = Visible
  OBVIOUS
<1>3. Corpus(held') /\ Corpus(before')
  BY <1>1, <1>2
<1>4. Shaped'
  BY <1>3 DEF SyncInv, Shaped, Corpus
<1>5. VisibleMarks \subseteq Cves
  BY DEF TypeOK, VisibleMarks
<1>6. loaded' => manifest # Missing /\ listed' = manifest.listed
  OBVIOUS
<1>7. kev' \subseteq Cves /\ listed' \subseteq Feeds
  BY <1>5, <1>6 DEF TypeOK
<1>8. W \subseteq Advisories /\ loaded' \in BOOLEAN
  BY FeedAssumption
<1>9. TypeOK'
  BY <1>3, <1>7, <1>8 DEF TypeOK, Corpus
<1>10. refreshed' = {} /\ whole' = {} /\ unsaved' = {} /\ removed' = Missing /\ pc' = "syncing"
  BY DEF SyncInv, AtRest
<1>11. \A f \in Feeds \ listed' : held'[f] = Nothing[f]
  <2>1. CASE loaded'
    BY <2>1, <1>2, <1>6, VisibleIsCorpus DEF SyncInv, Lists
  <2>2. CASE ~ loaded'
    BY <2>2, <1>2
  <2> QED
    BY <2>1, <2>2
<1>12. Kept'
  BY <1>2, <1>11 DEF Kept
<1>13. \A f \in Feeds : Visible'[f] = Visible[f] /\ (Lists(f)' <=> Lists(f))
  BY DEF Visible, Readable, Lists
<1>14. Seen'
  BY <1>2, <1>13, VisibleIsCorpus DEF SyncInv, Seen
<1>15. (AtRest /\ Synced /\ Marked /\ Saved /\ Away)'
  BY <1>10 DEF AtRest, Synced, Marked, Saved, Away
<1> QED
  BY <1>4, <1>9, <1>12, <1>14, <1>15 DEF SyncInv

(* What a reader sees depends on the advisory files and the manifest alone. *)
LEMMA SameSeen ==
  ASSUME UNCHANGED <<stored, manifest>>
  PROVE  Visible' = Visible /\ \A f \in Feeds : Lists(f)' <=> Lists(f)
  BY DEF Visible, Readable, Lists

(* A source that fails keeps what was held of it.                           *)
LEMMA SourceFailsStep ==
  ASSUME TypeOK, SyncInv, NEW s \in Sources, SourceFails(s)
  PROVE  TypeOK' /\ SyncInv'
<1> USE DEF SourceFails, world, disk, saving, history
<1>1. TypeOK' /\ Shaped'
  BY DEF SyncInv, Shaped, Corpus, TypeOK
<1>2. (AtRest /\ Kept /\ Marked /\ Saved /\ Away)'
  BY DEF SyncInv, AtRest, Kept, Marked, Saved, Away, Mentioned
<1>3. \A f \in Feeds : Listings(f)' = Listings(f)
  BY DEF Listings, Recent, Published
<1>4. Synced'
  BY <1>3 DEF SyncInv, Synced
<1>5. Seen'
  BY SameSeen DEF SyncInv, Seen
<1> QED
  BY <1>1, <1>2, <1>4, <1>5 DEF SyncInv

(* A feed that was read replaces what was held of it, and nothing else.     *)
LEMMA FeedSyncedStep ==
  ASSUME TypeOK, SyncInv, NEW f \in Feeds, NEW list \in Listings(f), NEW read \in SUBSET Of(f),
         FeedSynced(f, list, read)
  PROVE  TypeOK' /\ SyncInv'
<1> USE DEF FeedSynced, world, disk, saving
<1>1. /\ Corpus(held')
      /\ held'[f] = [a \in Of(f) |-> IF a \in read THEN upstream[f][a] ELSE 0]
      /\ \A g \in Feeds \ {f} : held'[g] = held[g]
  BY ReplacedType DEF SyncInv
<1>2. f # "kev" /\ f \notin refreshed /\ f \notin whole
  BY FeedAssumption DEF SyncInv, Synced, TypeOK
<1>3. Shaped'
  BY <1>1 DEF SyncInv, Shaped, Corpus
<1>4. TypeOK'
  BY <1>1 DEF TypeOK, Corpus, Sources
<1>5. Kept'
  BY <1>1 DEF SyncInv, Kept
<1>6. \A g \in Feeds : Listings(g)' = Listings(g)
  BY DEF Listings, Recent, Published
<1>7. Synced'
  <2>1. \A g \in whole' : g \in Feeds /\ (g = f => read = list) /\ (g # f => g \in whole)
    BY <1>2 DEF SyncInv, Synced
  <2>2. \A g \in whole' : \E l \in Listings(g) :
          held'[g] = [a \in Of(g) |-> IF a \in l THEN upstream[g][a] ELSE 0]
    BY <2>1, <1>1 DEF SyncInv, Synced
  <2>3. refreshed' \cap todo' = {}
    BY DEF SyncInv, Synced
  <2> QED
    BY <2>1, <2>2, <2>3, <1>6 DEF Synced
<1>8. Marked'
  BY <1>2 DEF SyncInv, Marked
<1>9. (AtRest /\ Saved /\ Away)'
  BY DEF SyncInv, AtRest, Saved, Away
<1>10. Seen'
  BY SameSeen DEF SyncInv, Seen
<1> QED
  BY <1>3, <1>4, <1>5, <1>7, <1>8, <1>9, <1>10 DEF SyncInv

(* The catalogue is merged into what is marked already.                     *)
LEMMA KevSyncedStep ==
  ASSUME TypeOK, SyncInv, KevSynced
  PROVE  TypeOK' /\ SyncInv'
<1> USE DEF KevSynced, world, disk, saving
<1>1. "kev" \notin Feeds
  BY FeedAssumption
<1>2. Shaped'
  BY DEF SyncInv, Shaped, Corpus
<1>3. TypeOK'
  BY DEF TypeOK, Merged, Sources
<1>4. \A f \in Feeds : Listings(f)' = Listings(f)
  BY DEF Listings, Recent, Published
<1>5. Synced'
  BY <1>4 DEF SyncInv, Synced
<1>6. Kept' /\ Marked'
  BY <1>1 DEF SyncInv, Kept, Marked, Merged
<1>7. (AtRest /\ Saved /\ Away)'
  BY DEF SyncInv, AtRest, Saved, Away
<1>8. Seen'
  BY SameSeen DEF SyncInv, Seen
<1> QED
  BY <1>2, <1>3, <1>5, <1>6, <1>7, <1>8 DEF SyncInv

(* Pruning drops the marks nothing can reach, and Save has all to write.    *)
LEMMA StartSaveStep ==
  ASSUME TypeOK, SyncInv, StartSave
  PROVE  TypeOK' /\ SyncInv'
<1> USE DEF StartSave, world, disk, history
<1>1. removed = Missing
  BY DEF SyncInv, Away
<1>2. Shaped'
  BY DEF SyncInv, Shaped, Corpus
<1>3. TypeOK'
  BY DEF TypeOK, Pruned, Files
<1>4. \A f \in Feeds : Listings(f)' = Listings(f)
  BY DEF Listings, Recent, Published
<1>5. Synced' /\ Kept'
  BY <1>4 DEF SyncInv, Synced, Kept
<1>6. Mentioned(held)' = Mentioned(held)
  BY DEF Mentioned
<1>7. Marked'
  BY <1>6 DEF SyncInv, Marked, Pruned
<1>8. (AtRest /\ Saved /\ Away)'
  BY <1>1 DEF SyncInv, AtRest, Saved, Away
<1>9. Seen'
  BY <1>1, SameSeen DEF SyncInv, Seen
<1> QED
  BY <1>2, <1>3, <1>5, <1>7, <1>8, <1>9 DEF SyncInv

(* The target of a file that Save is coming to is removed.                  *)
LEMMA RemoveStep ==
  ASSUME TypeOK, SyncInv, NEW file \in Files, Remove(file)
  PROVE  TypeOK' /\ SyncInv'
<1> USE DEF Remove, Gone, Put, MayWrite, world, memory, history
<1>1. file \in unsaved /\ "manifest" \in unsaved /\ file # Missing
  BY MissingAssumption DEF SyncInv, Saved
<1>2. \A f \in Feeds : stored'[f] = IF f = file THEN Missing ELSE stored[f]
  BY DEF SyncInv, Shaped
<1>3. Shaped'
  BY <1>2 DEF SyncInv, Shaped, Corpus
<1>4. TypeOK'
  BY <1>2 DEF TypeOK
<1>5. \A f \in Feeds : Listings(f)' = Listings(f)
  BY DEF Listings, Recent, Published
<1>6. (AtRest /\ Kept /\ Synced)'
  BY <1>5 DEF SyncInv, AtRest, Kept, Synced
<1>7. Marked'
  BY DEF SyncInv, Marked, Mentioned
<1>8. Saved'
  BY <1>1, <1>2 DEF SyncInv, Saved, TypeOK
<1>9. Away'
  BY <1>1, <1>2, FeedAssumption DEF Away
<1>10. Seen'
  <2> SUFFICES ASSUME file # "manifest"
               PROVE  \A f \in Feeds :
                        /\ ~ Lists(f)' => before[f] = Nothing[f]
                        /\ (f \notin listed \/ f \in unsaved) /\ file # f => Visible'[f] = before[f]
    BY DEF Seen
  <2>1. manifest' = manifest
    OBVIOUS
  <2>2. \A f \in Feeds : /\ Lists(f)' <=> Lists(f)
                         /\ f # file => Visible'[f] = Visible[f]
    BY <2>1, <1>2 DEF Lists, Visible, Readable
  <2> QED
    BY <1>1, <2>2, MissingIsNothing DEF SyncInv, Seen
<1> QED
  BY <1>3, <1>4, <1>6, <1>7, <1>8, <1>9, <1>10 DEF SyncInv

(* The file takes the place of its target: what the process holds is on the *)
(* disk, and once it is the manifest that was away, all of it is.           *)
LEMMA RenameStep ==
  ASSUME TypeOK, SyncInv, NEW file \in Files, Rename(file)
  PROVE  TypeOK' /\ SyncInv'
<1> USE DEF Rename, world, memory, history
<1>1. /\ file \in unsaved /\ file # Missing /\ "manifest" \in unsaved /\ todo = {}
      /\ file = "manifest" => unsaved = {"manifest"}
      /\ unsaved \subseteq listed \cup {"kev", "manifest"}
  BY MissingAssumption DEF SyncInv, Saved, Away
<1>2. \A f \in Feeds : stored'[f] = IF f = file THEN held[f] ELSE stored[f]
  BY DEF SyncInv, Shaped, Replaced, Put
<1>3. /\ marks' = IF file = "kev" THEN kev ELSE marks
      /\ manifest' = IF file = "manifest" THEN Manifest ELSE manifest
  BY DEF Replaced, Put
<1>4. Shaped'
  <2>1. stored' = [f \in Feeds |-> stored'[f]]
    BY DEF SyncInv, Shaped, Replaced, Put
  <2> QED
    BY <1>2, <2>1 DEF SyncInv, Shaped, Corpus
<1>5. TypeOK'
  <2>1. \A f \in Feeds : stored'[f] \in Contents(f) \cup {Missing}
    BY <1>2 DEF TypeOK
  <2>2. marks' \in (SUBSET Cves) \cup {Missing}
    BY <1>3 DEF TypeOK
  <2>3. manifest' # Missing => /\ manifest'.listed \subseteq Feeds
                               /\ \A f \in manifest'.listed : manifest'.digest[f] \in Contents(f)
    BY <1>3 DEF TypeOK, Manifest
  <2>4. pc' \in {"idle", "syncing", "saving", "saved"} /\ unsaved' \subseteq Files
        /\ removed' \in Files \cup {Missing}
    BY DEF TypeOK
  <2> QED
    BY <2>1, <2>2, <2>3, <2>4 DEF TypeOK
<1>6. \A f \in Feeds : Listings(f)' = Listings(f)
  BY DEF Listings, Recent, Published
<1>7. (AtRest /\ Kept /\ Synced)'
  BY <1>6 DEF SyncInv, AtRest, Kept, Synced
<1>8. Marked'
  BY DEF SyncInv, Marked, Mentioned
<1>9. Saved'
  <2>1. Manifest' = Manifest
    BY DEF Manifest
  <2>2. \A f \in listed \ unsaved' : stored'[f] = held[f]
    BY <1>1, <1>2 DEF SyncInv, Saved, TypeOK
  <2>3. "kev" \notin unsaved' => marks' = kev
    BY <1>3 DEF SyncInv, Saved
  <2>4. "manifest" \notin unsaved' => unsaved' = {} /\ manifest' = Manifest
    BY <1>1, <1>3
  <2>5. pc' = "saved" <=> unsaved' = {}
    OBVIOUS
  <2> QED
    BY <1>1, <2>1, <2>2, <2>3, <2>4, <2>5 DEF Saved
<1>10. Away'
  BY DEF Away
<1>11. Seen'
  <2> SUFFICES ASSUME "manifest" \in unsaved'
               PROVE  \A f \in Feeds :
                        /\ ~ Lists(f)' => before[f] = Nothing[f]
                        /\ f \notin listed \/ f \in unsaved' => Visible'[f] = before[f]
    BY DEF Seen
  <2>1. file # "manifest" /\ manifest' = manifest
    BY <1>3
  <2>2. \A f \in Feeds : /\ Lists(f)' <=> Lists(f)
                         /\ f # file => Visible'[f] = Visible[f]
    BY <2>1, <1>2 DEF Lists, Visible, Readable
  <2>3. file \in Feeds => file \in listed /\ file \notin unsaved'
    BY <1>1, FeedAssumption
  <2> QED
    BY <1>1, <2>1, <2>2, <2>3 DEF SyncInv, Seen
<1> QED
  BY <1>4, <1>5, <1>7, <1>8, <1>9, <1>10, <1>11 DEF SyncInv

(* The publishers act between runs.                                         *)
LEMMA PublisherStep ==
  ASSUME TypeOK, SyncInv,
         (\E a \in Advisories : Publish(a)) \/ (\E C \in Catalogues : Catalogue(C))
  PROVE  TypeOK' /\ SyncInv'
<1>1. /\ pc = "idle"
      /\ UNCHANGED <<stored, marks, manifest, pc, held, kev, listed, todo, window, unsaved,
                     removed, before, loaded, refreshed, whole>>
  BY DEF Publish, Catalogue, disk, memory, saving, history
<1>2. Corpus(upstream') /\ catalogue' \subseteq Cves
  <2>1. CASE \E C \in Catalogues : Catalogue(C)
    BY <2>1, FeedAssumption DEF Catalogue, SyncInv, Shaped
  <2>2. CASE \E a \in Advisories : Publish(a)
    <3> PICK a \in Advisories : Publish(a)
      BY <2>2
    <3> DEFINE f == FeedOf[a]
               now == [upstream[f] EXCEPT ![a] = @ + 1]
    <3>1. f \in Feeds /\ upstream[f] \in Contents(f) /\ upstream = [g \in Feeds |-> upstream[g]]
      BY FeedAssumption DEF TypeOK, SyncInv, Shaped, Corpus
    <3>2. now \in Contents(f)
      <4> DEFINE was  == upstream[f]
                 next == was[a] + 1
      <4>1. was \in [Of(f) -> Nat] /\ a \in Of(f)
        BY <3>1 DEF Contents, Of
      <4> HIDE DEF f, was
      <4>2. next \in Nat
        BY <4>1
      <4> HIDE DEF next
      <4>3. [was EXCEPT ![a] = next] \in [Of(f) -> Nat]
        BY <4>1, <4>2
      <4> QED
        BY <4>3 DEF Contents, was, next
    <3>3. upstream' = [upstream EXCEPT ![f] = now]
      BY DEF Publish
    <3> HIDE DEF f, now
    <3>4. \A g \in Feeds : upstream'[g] = IF g = f THEN now ELSE upstream[g]
      BY <3>1, <3>3
    <3>5. upstream' = [g \in Feeds |-> upstream'[g]]
      BY <3>1, <3>3
    <3>6. Corpus(upstream')
      BY <3>1, <3>2, <3>4, <3>5 DEF TypeOK, Corpus
    <3> QED
      BY <3>6 DEF Publish, TypeOK
  <2> QED
    BY <2>1, <2>2
<1>3. TypeOK' /\ Shaped'
  BY <1>1, <1>2 DEF TypeOK, SyncInv, Shaped, Corpus
<1>4. (AtRest /\ Kept /\ Synced /\ Marked /\ Saved /\ Away /\ Seen)'
  BY <1>1 DEF SyncInv, AtRest, Kept, Synced, Marked, Saved, Away, Seen
<1> QED
  BY <1>3, <1>4 DEF SyncInv

(* Whatever runs, fails or is killed, the invariant survives it.            *)
THEOREM SyncHolds == Spec => [](TypeOK /\ SyncInv)
<1>1. Init => TypeOK /\ SyncInv
  BY SyncInit
<1>2. TypeOK /\ SyncInv /\ [Next]_vars => TypeOK' /\ SyncInv'
  <2> SUFFICES ASSUME TypeOK, SyncInv, [Next]_vars
               PROVE  TypeOK' /\ SyncInv'
    OBVIOUS
  <2>1. ASSUME NEW S \in SUBSET Sources, NEW W \in Windows, NEW readable \in BOOLEAN,
               Begin(S, W, readable)
        PROVE  TypeOK' /\ SyncInv'
    BY <2>1, BeginStep
  <2>2. ASSUME NEW s \in Sources, SourceFails(s) PROVE TypeOK' /\ SyncInv'
    BY <2>2, SourceFailsStep
  <2>3. ASSUME NEW f \in Feeds, NEW list \in Listings(f), NEW read \in SUBSET Of(f),
               FeedSynced(f, list, read)
        PROVE  TypeOK' /\ SyncInv'
    BY <2>3, FeedSyncedStep
  <2>4. CASE KevSynced
    BY <2>4, KevSyncedStep
  <2>5. CASE StartSave
    BY <2>5, StartSaveStep
  <2>6. ASSUME NEW file \in Files, Remove(file) PROVE TypeOK' /\ SyncInv'
    BY <2>6, RemoveStep
  <2>7. ASSUME NEW file \in Files, Rename(file) PROVE TypeOK' /\ SyncInv'
    BY <2>7, RenameStep
  <2>8. CASE WriteFails \/ Exit \/ Kill
    BY <2>8, EndsAtRest DEF WriteFails, Exit, Kill
  <2>9. CASE (\E a \in Advisories : Publish(a)) \/ (\E C \in Catalogues : Catalogue(C))
    BY <2>9, PublisherStep
  <2>10. CASE UNCHANGED vars
    <3>1. TypeOK'
      BY <2>10 DEF TypeOK, vars
    <3>2. Shaped' /\ AtRest' /\ Kept' /\ Away'
      BY <2>10 DEF SyncInv, Shaped, Corpus, AtRest, Kept, Away, vars
    <3>3. Synced' /\ Marked'
      BY <2>10 DEF SyncInv, Synced, Listings, Recent, Published, Marked, Mentioned, vars
    <3>4. Saved' /\ Seen'
      BY <2>10 DEF SyncInv, Saved, Manifest, Seen, Lists, Visible, Readable, vars
    <3> QED
      BY <3>1, <3>2, <3>3, <3>4 DEF SyncInv
  <2> QED
    BY <2>1, <2>2, <2>3, <2>4, <2>5, <2>6, <2>7, <2>8, <2>9, <2>10 DEF Next, RunStep
<1> QED
  BY <1>1, <1>2, PTL DEF Spec

(* A manifest never lists a feed without a digest, and no file holds what   *)
(* is not an advisory of its own feed.                                      *)
THEOREM CorpusIsTyped == Spec => []TypeOK
  BY SyncHolds, PTL

(* Once a run has saved, a reader sees what it held in memory.              *)
LEMMA SavedIsHeld ==
  ASSUME TypeOK, SyncInv, pc = "saved"
  PROVE  /\ manifest = Manifest /\ manifest # Missing
         /\ \A f \in listed : stored[f] = held[f]
         /\ Visible = held
         /\ VisibleMarks = kev
<1>1. unsaved = {} /\ manifest = Manifest /\ marks = kev /\ \A f \in listed : stored[f] = held[f]
  BY DEF SyncInv, Saved
<1>2. manifest # Missing
  BY <1>1, ManifestIsThere DEF SyncInv
<1>3. marks # Missing
  BY <1>1, MissingIsNothing DEF TypeOK
<1>4. Corpus(Visible) /\ Corpus(held)
  BY VisibleIsCorpus DEF SyncInv, Shaped
<1>5. \A f \in Feeds : Visible[f] = held[f]
  <2> TAKE f \in Feeds
  <2>1. Lists(f) <=> f \in listed
    BY <1>1, <1>2 DEF Lists, Manifest
  <2>2. CASE f \in listed
    <3>1. stored[f] = held[f] /\ held[f] \in Contents(f)
      BY <2>2, <1>1 DEF TypeOK
    <3> QED
      BY <2>1, <2>2, <3>1, VisibleIsCorpus, MissingIsNothing DEF SyncInv
  <2>3. CASE f \notin listed
    BY <2>1, <2>3, VisibleIsCorpus DEF SyncInv, Kept
  <2> QED
    BY <2>2, <2>3
<1>6. Visible = held
  BY <1>4, <1>5 DEF Corpus
<1> QED
  BY <1>1, <1>2, <1>3, <1>6 DEF VisibleMarks

(* A run that could read the corpus leaves the feeds it did not refresh as  *)
(* a reader saw them before it: it may only have failed to replace them.    *)
THEOREM RefreshTouchesOnlyItsOwn == Spec => []OthersUntouched
<1>1. TypeOK /\ SyncInv => OthersUntouched
  BY SavedIsHeld DEF SyncInv, Kept, OthersUntouched, Untouched
<1> QED
  BY <1>1, SyncHolds, PTL

(* The manifest is written last, of the files that are on the disk by then. *)
THEOREM DigestsAreOfTheFiles == Spec => []ManifestAgrees
<1>1. TypeOK /\ SyncInv => ManifestAgrees
  <2> SUFFICES ASSUME TypeOK, SyncInv, pc = "saved" PROVE ManifestAgrees
    BY DEF ManifestAgrees
  <2>1. /\ manifest = Manifest /\ manifest # Missing
        /\ \A f \in listed : stored[f] = held[f]
    BY SavedIsHeld
  <2> QED
    BY <2>1 DEF ManifestAgrees, Manifest
<1> QED
  BY <1>1, SyncHolds, PTL

(* A run that read all of a feed leaves exactly what the feed publishes,    *)
(* whatever earlier runs left behind.                                       *)
THEOREM WholeReadHeals == Spec => []FullSyncHeals
<1>1. TypeOK /\ SyncInv => FullSyncHeals
  <2> SUFFICES ASSUME TypeOK, SyncInv, pc = "saved", Published \subseteq window,
                      NEW f \in Feeds \cap whole
               PROVE  Visible[f] = upstream[f]
    BY DEF FullSyncHeals
  <2>1. upstream[f] \in [Of(f) -> Nat]
    BY DEF TypeOK, Contents
  <2>2. \A list \in Listings(f) : \A a \in Of(f) : a \in list <=> upstream[f][a] # 0
    BY DEF Listings, Recent, Published, Of
  <2>3. PICK list \in Listings(f) :
          Visible[f] = [a \in Of(f) |-> IF a \in list THEN upstream[f][a] ELSE 0]
    BY SavedIsHeld DEF SyncInv, Synced
  <2>4. \A a \in Of(f) : (IF a \in list THEN upstream[f][a] ELSE 0) = upstream[f][a]
    BY <2>2
  <2> QED
    BY <2>1, <2>3, <2>4
<1> QED
  BY <1>1, SyncHolds, PTL

(* What pruning keeps and what merging adds agree once the run has saved,   *)
(* in whatever order the feeds and the catalogue were synced.               *)
THEOREM MarksAgree == Spec => []EnrichmentAgrees
<1>1. TypeOK /\ SyncInv => EnrichmentAgrees
  <2> SUFFICES ASSUME TypeOK, SyncInv, pc = "saved" PROVE EnrichmentAgrees
    BY DEF EnrichmentAgrees
  <2>1. Visible = held /\ VisibleMarks = kev
    BY SavedIsHeld
  <2> QED
    BY <2>1 DEF SyncInv, Marked, EnrichmentAgrees
<1> QED
  BY <1>1, SyncHolds, PTL

(* At every moment of a run a feed reads as before it, as the run holds it, *)
(* or, while its file or the manifest is replaced, as empty.                *)
THEOREM ReadersSeeWholeFiles == Spec => []FilesAreWhole
<1>1. TypeOK /\ SyncInv => FilesAreWhole
  <2> SUFFICES ASSUME TypeOK, SyncInv, NEW f \in Feeds, pc # "idle"
               PROVE  \/ Visible[f] \in {before[f], held[f]}
                      \/ Visible[f] = Nothing[f] /\ removed \in {f, "manifest"}
    BY DEF FilesAreWhole
  <2>1. CASE pc = "saved"
    BY <2>1, SavedIsHeld
  <2>2. CASE removed = "manifest"
    <3>1. manifest = Missing
      BY <2>2, MissingIsNothing DEF SyncInv, Away
    <3> QED
      BY <2>2, <3>1, VisibleIsCorpus DEF SyncInv, Lists
  <2>3. CASE removed = f
    <3>1. stored[f] = Missing
      BY <2>3, MissingIsNothing DEF SyncInv, Away
    <3> QED
      BY <2>3, <3>1, VisibleIsCorpus DEF SyncInv
  <2>4. CASE pc = "syncing" /\ removed # f /\ removed # "manifest"
    BY <2>4 DEF SyncInv, Seen
  <2>5. CASE pc = "saving" /\ removed # f /\ removed # "manifest"
    <3>1. "manifest" \in unsaved
      BY <2>5 DEF SyncInv, Saved
    <3>2. CASE f \notin listed \/ f \in unsaved
      BY <2>5, <3>1, <3>2 DEF SyncInv, Seen
    <3>3. CASE f \in listed /\ f \notin unsaved
      <4>1. stored[f] = held[f]
        BY <2>5, <3>3 DEF SyncInv, Saved
      <4>2. stored[f] # Missing
        BY <4>1, MissingIsNothing DEF TypeOK
      <4>3. ~ Lists(f) => before[f] = Nothing[f]
        BY <2>5, <3>1 DEF SyncInv, Seen
      <4> QED
        BY <4>1, <4>2, <4>3, VisibleIsCorpus DEF SyncInv
    <3> QED
      BY <3>2, <3>3
  <2> QED
    BY <2>1, <2>2, <2>3, <2>4, <2>5 DEF TypeOK
<1> QED
  BY <1>1, SyncHolds, PTL
=============================================================================

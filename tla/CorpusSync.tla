----------------------------- MODULE CorpusSync -----------------------------
(***************************************************************************)
(* One corpus directory, kept up to date by runs of Sync                   *)
(* (internal/advisory/source.go, corpus.go): the corpus is loaded, every   *)
(* chosen source refreshed in memory, and the files written back one by    *)
(* one, the manifest last.  A run may be killed between any two steps, and *)
(* any write may fail.                                                     *)
(*                                                                         *)
(* The contents of a feed are the revision of each of its advisories, 0    *)
(* for one that is not there.  A digest is the contents it was taken of.   *)
(***************************************************************************)
EXTENDS Naturals, FiniteSets

CONSTANTS
  Feeds,          \* the sources of kind advisories
  Advisories,
  FeedOf,         \* the feed an advisory belongs to
  Cves,
  CveOf,          \* the vulnerability an advisory names
  Incremental,    \* the feeds whose listing is cut by Env.Since
  Missing,        \* no file, no manifest
  Windows,        \* bound: what Env.Since leaves of the advisories
  Catalogues,     \* bound: what the catalogue may list
  LastRevision    \* bound: the revisions of each advisory

ASSUME FeedAssumption ==
  /\ FeedOf \in [Advisories -> Feeds]
  /\ CveOf \in [Advisories -> Cves]
  /\ Incremental \subseteq Feeds
  /\ "kev" \notin Feeds /\ "manifest" \notin Feeds
  /\ Windows \subseteq SUBSET Advisories
  /\ Catalogues \subseteq SUBSET Cves
  /\ LastRevision \in [Advisories -> Nat \ {0}]

Sources == Feeds \cup {"kev"}

Files == Feeds \cup {"kev", "manifest"}

Of(f) == {a \in Advisories : FeedOf[a] = f}

Contents(f) == [Of(f) -> Nat]

Nothing == [f \in Feeds |-> [a \in Of(f) |-> 0]]

(* What a manifest may hold: the feeds it lists, and a digest for each. *)
Manifests ==
  [listed : SUBSET Feeds,
   digest : UNION {[L -> UNION {Contents(f) : f \in Feeds}] : L \in SUBSET Feeds}]

(* A file that is not there is told from everything a file may hold. *)
ASSUME MissingAssumption ==
  /\ Missing \notin Files /\ Missing \notin Manifests
  /\ \A marked \in SUBSET Cves : Missing # marked
  /\ \A f \in Feeds : Missing \notin Contents(f)

VARIABLES
  upstream,       \* what each feed publishes: its contents
  catalogue,      \* the CVEs the exploited vulnerabilities catalogue lists
  stored,         \* the advisory files
  marks,          \* the enrichment file: kev.jsonl, and epss.jsonl like it
  manifest,       \* the manifest file: the feeds it lists, and their digests
  pc,
  held,           \* Corpus.Advisories, by feed
  kev,            \* Corpus.KEV
  listed,         \* Corpus.Manifest.Sources, the feeds among them
  todo,           \* the chosen sources still to be synced
  window,         \* the advisories not older than Env.Since
  unsaved,        \* the files Save has not finished
  removed,        \* the file whose target is removed and not yet replaced
  before,         \* what a reader of the directory saw when the run began
  loaded,         \* LoadCorpus succeeded
  refreshed,      \* the sources this run synced
  whole           \* those of them of which every listed document was read

vars == <<upstream, catalogue, stored, marks, manifest, pc, held, kev, listed, todo,
          window, unsaved, removed, before, loaded, refreshed, whole>>

world == <<upstream, catalogue>>
disk == <<stored, marks, manifest>>
memory == <<held, kev, listed>>
saving == <<unsaved, removed>>
history == <<before, loaded, refreshed, whole>>

Init ==
  /\ upstream = Nothing
  /\ catalogue = {}
  /\ stored = [f \in Feeds |-> Missing]
  /\ marks = Missing
  /\ manifest = Missing
  /\ pc = "idle"
  /\ held = Nothing
  /\ kev = {}
  /\ listed = {}
  /\ todo = {}
  /\ window = {}
  /\ unsaved = {}
  /\ removed = Missing
  /\ before = Nothing
  /\ loaded = FALSE
  /\ refreshed = {}
  /\ whole = {}
-----------------------------------------------------------------------------
(* LoadCorpus: the feeds the manifest lists, a file that is not there     *)
(* counting as an empty one.                                              *)
Readable(f) == manifest # Missing /\ f \in manifest.listed /\ stored[f] # Missing

Visible == [f \in Feeds |-> IF Readable(f) THEN stored[f] ELSE Nothing[f]]

VisibleMarks == IF manifest # Missing /\ marks # Missing THEN marks ELSE {}

Published == {a \in Advisories : upstream[FeedOf[a]][a] # 0}

(* Sync begins: any error of LoadCorpus, a missing manifest or one that    *)
(* cannot be read, starts an empty corpus.                                 *)
Begin(S, W, readable) ==
  /\ pc = "idle"
  /\ S # {}
  /\ pc' = "syncing"
  /\ todo' = S
  /\ window' = W
  /\ loaded' = (readable /\ manifest # Missing)
  /\ before' = Visible
  /\ IF loaded'
     THEN held' = Visible /\ kev' = VisibleMarks /\ listed' = manifest.listed
     ELSE held' = Nothing /\ kev' = {} /\ listed' = {}
  /\ UNCHANGED <<world, disk, saving, refreshed, whole>>

SourceFails_AnyKind(s) ==
  /\ pc = "syncing"
  /\ s \in todo
  /\ todo' = todo \ {s}
  /\ listed' = listed \cup {s}
  /\ UNCHANGED <<world, disk, pc, held, kev, window, saving, history>>

(* A source whose Sync returns an error keeps its previous state, and is   *)
(* put in the manifest if it never was.                                    *)
SourceFails(s) ==
  /\ pc = "syncing"
  /\ s \in todo
  /\ todo' = todo \ {s}
  /\ listed' = listed \cup ({s} \cap Feeds)
  /\ UNCHANGED <<world, disk, pc, held, kev, window, saving, history>>

(* readRolie: the entries that are not older than Env.Since. *)
Recent(f) ==
  {a \in Of(f) \cap Published : f \in Incremental => a \in window}

(* discover: a feed that cannot be read, or of which nothing is left, makes *)
(* the source fall back to the index, which has no dates.                   *)
Listings(f) == {Recent(f), Of(f) \cap Published}

ReplaceSource_Fill(f, read) ==
  [held EXCEPT ![f] = [a \in Of(f) |->
     IF held[f][a] = 0 /\ a \in read THEN upstream[f][a] ELSE held[f][a]]]

ReplaceSource_Others(f, read) ==
  [Nothing EXCEPT ![f] = [a \in Of(f) |-> IF a \in read THEN upstream[f][a] ELSE 0]]

(* ReplaceSource: what was read takes the place of all the feed held. *)
ReplaceSource(f, read) ==
  [held EXCEPT ![f] = [a \in Of(f) |-> IF a \in read THEN upstream[f][a] ELSE 0]]

(* Some of the listed documents were read; reading none is an error. *)
FeedSynced(f, list, read) ==
  /\ pc = "syncing"
  /\ f \in todo \cap Feeds
  /\ list \in Listings(f)
  /\ read # {}
  /\ read \subseteq list
  /\ todo' = todo \ {f}
  /\ held' = ReplaceSource(f, read)
  /\ listed' = listed \cup {f}
  /\ refreshed' = refreshed \cup {f}
  /\ whole' = IF read = list THEN whole \cup {f} ELSE whole
  /\ UNCHANGED <<world, disk, pc, kev, window, saving, before, loaded>>

Mentioned(contents) ==
  {CveOf[a] : a \in {b \in Advisories : contents[FeedOf[b]][b] # 0}}

Merged_Mentioned == kev \cup (catalogue \cap Mentioned(held))

(* runSource: the catalogue's entries are merged into those held. *)
Merged == kev \cup catalogue

(* An empty catalogue is an error. *)
KevSynced ==
  /\ pc = "syncing"
  /\ "kev" \in todo
  /\ catalogue # {}
  /\ todo' = todo \ {"kev"}
  /\ kev' = Merged
  /\ refreshed' = refreshed \cup {"kev"}
  /\ UNCHANGED <<world, disk, pc, held, listed, window, saving, before, loaded, whole>>

(* PruneEnrichment: a corpus without advisories is left alone. *)
Pruned == IF held = Nothing THEN kev ELSE kev \cap Mentioned(held)

StartSave ==
  /\ pc = "syncing"
  /\ todo = {}
  /\ pc' = "saving"
  /\ kev' = Pruned
  /\ unsaved' = listed \cup {"kev", "manifest"}
  /\ UNCHANGED <<world, disk, held, listed, todo, window, removed, history>>

MayWrite_ManifestFirst(file) ==
  /\ file \in unsaved
  /\ "manifest" \in unsaved => file = "manifest"

(* The advisory files first, then the enrichment, the manifest last. *)
MayWrite(file) ==
  /\ file \in unsaved
  /\ file = "kev" => unsaved \cap Feeds = {}
  /\ file = "manifest" => unsaved = {"manifest"}

Manifest == [listed |-> listed, digest |-> [f \in listed |-> held[f]]]

Put(file, contents, list, enrichment) ==
  /\ stored' = IF file \in Feeds THEN [stored EXCEPT ![file] = contents] ELSE stored
  /\ marks' = IF file = "kev" THEN enrichment ELSE marks
  /\ manifest' = IF file = "manifest" THEN list ELSE manifest

(* The file as the process holds it. *)
Replaced(file) == Put(file, IF file \in Feeds THEN held[file] ELSE Missing, Manifest, kev)

Gone(file) == Put(file, Missing, Missing, Missing)

(* writeFileAtomic: the new file is ready, and the target is removed. *)
Remove(file) ==
  /\ pc = "saving"
  /\ removed = Missing
  /\ MayWrite(file)
  /\ removed' = file
  /\ Gone(file)
  /\ UNCHANGED <<world, pc, memory, todo, window, unsaved, history>>

(* And replaced. *)
Rename(file) ==
  /\ pc = "saving"
  /\ removed = file
  /\ removed' = Missing
  /\ unsaved' = unsaved \ {file}
  /\ pc' = IF unsaved' = {} THEN "saved" ELSE "saving"
  /\ Replaced(file)
  /\ UNCHANGED <<world, memory, todo, window, history>>

WriteFails_Ignored ==
  /\ pc = "saving"
  /\ \E file \in Files : /\ MayWrite(file)
                         /\ unsaved' = unsaved \ {file}
  /\ removed' = Missing
  /\ pc' = IF unsaved' = {} THEN "saved" ELSE "saving"
  /\ UNCHANGED <<world, disk, memory, todo, window, history>>

WriteFails_Restart ==
  /\ pc = "saving"
  /\ unsaved' = listed \cup {"kev", "manifest"}
  /\ removed' = Missing
  /\ UNCHANGED <<world, disk, memory, pc, todo, window, history>>

(* The process is gone, and what it held in memory. *)
End ==
  /\ pc' = "idle"
  /\ held' = Nothing
  /\ kev' = {}
  /\ listed' = {}
  /\ todo' = {}
  /\ window' = {}
  /\ unsaved' = {}
  /\ removed' = Missing
  /\ before' = Nothing
  /\ loaded' = FALSE
  /\ refreshed' = {}
  /\ whole' = {}

(* A write fails before the removal or after it, and Save with it. *)
WriteFails ==
  /\ pc = "saving"
  /\ End
  /\ UNCHANGED <<world, disk>>

(* Sync has returned, and the process ends. *)
Exit ==
  /\ pc = "saved"
  /\ End
  /\ UNCHANGED <<world, disk>>

(* The process is killed, or interrupted before it saves. *)
Kill ==
  /\ pc \in {"syncing", "saving"}
  /\ End
  /\ UNCHANGED <<world, disk>>

-----------------------------------------------------------------------------
(* The publishers.  A run reads a feed once, so that a change it misses may *)
(* as well come after the run, and one it sees before it.                   *)
Publish(a) ==
  /\ pc = "idle"
  /\ upstream[FeedOf[a]][a] < LastRevision[a]
  /\ upstream' = [upstream EXCEPT ![FeedOf[a]][a] = @ + 1]
  /\ UNCHANGED <<catalogue, disk, pc, memory, todo, window, saving, history>>

Catalogue(C) ==
  /\ pc = "idle"
  /\ catalogue' = C
  /\ UNCHANGED <<upstream, disk, pc, memory, todo, window, saving, history>>

RunStep ==
  \/ \E s \in Sources : SourceFails(s)
  \/ \E f \in Feeds : \E list \in Listings(f), read \in SUBSET Of(f) : FeedSynced(f, list, read)
  \/ KevSynced
  \/ StartSave
  \/ \E file \in Files : Remove(file) \/ Rename(file)
  \/ WriteFails
  \/ Exit

Next ==
  \/ \E S \in SUBSET Sources, W \in Windows, readable \in BOOLEAN :
       Begin(S, W, readable)
  \/ RunStep
  \/ Kill
  \/ \E a \in Advisories : Publish(a)
  \/ \E C \in Catalogues : Catalogue(C)

Spec == Init /\ [][Next]_vars

(* Sync is one goroutine, and the fetcher's timeouts bound what it waits for. *)
FairSpec == Spec /\ WF_vars(RunStep)
-----------------------------------------------------------------------------
(* The files and the corpus in memory hold revisions of a feed's own        *)
(* advisories, and the manifest has a digest for every feed it lists.       *)
TypeOK ==
  /\ \A f \in Feeds : /\ upstream[f] \in Contents(f)
                      /\ stored[f] \in Contents(f) \cup {Missing}
                      /\ held[f] \in Contents(f)
                      /\ before[f] \in Contents(f)
  /\ catalogue \subseteq Cves
  /\ marks \in (SUBSET Cves) \cup {Missing}
  /\ manifest # Missing =>
       /\ manifest.listed \subseteq Feeds
       /\ \A f \in manifest.listed : manifest.digest[f] \in Contents(f)
  /\ pc \in {"idle", "syncing", "saving", "saved"}
  /\ kev \subseteq Cves
  /\ listed \subseteq Feeds
  /\ todo \subseteq Sources
  /\ window \subseteq Advisories
  /\ unsaved \subseteq Files
  /\ removed \in Files \cup {Missing}
  /\ loaded \in BOOLEAN
  /\ refreshed \subseteq Sources
  /\ whole \subseteq refreshed

Untouched(f) == Visible[f] = before[f]

(* A sync that refreshes only KEV must not drop the CISA corpus             *)
(* (ReplaceSource), and a failed refresh must not make the corpus look as   *)
(* though it never held the source (runSource): once a corpus that could be *)
(* read is saved, the feeds this run did not refresh are as they were.      *)
OthersUntouched == pc = "saved" /\ loaded => \A f \in Feeds \ refreshed : Untouched(f)

(* The same whatever was found on the disk.                                 *)
NothingDropped == pc = "saved" => \A f \in Feeds \ refreshed : Untouched(f)

(* The manifest of a finished sync has the digests of the files beside it.  *)
ManifestAgrees ==
  pc = "saved" => /\ manifest # Missing
                  /\ \A f \in manifest.listed : stored[f] = manifest.digest[f]

(* A run that read everything brings the feeds it refreshed up to date,     *)
(* whatever crashes, failed writes and partial runs before it left behind.  *)
FullSyncHeals ==
  pc = "saved" /\ Published \subseteq window => \A f \in Feeds \cap whole : Visible[f] = upstream[f]

(* A corpus is rebuilt incrementally (corpus.go), an unchanged document     *)
(* being left out of the download (readRolie): a run whose window covers    *)
(* all that changed since the corpus was built brings it up to date.        *)
IncrementalKeepsUp ==
  /\ pc = "saved"
  /\ \A a \in Published \ window : before[FeedOf[a]][a] = upstream[FeedOf[a]][a]
  => \A f \in Feeds \cap whole : Visible[f] = upstream[f]

(* A finished sync stores no enrichment that nothing can reach, once there  *)
(* are advisories (PruneEnrichment); and after one that refreshed the       *)
(* catalogue, every vulnerability it lists is marked in every advisory, in  *)
(* whatever order the sources were synced.                                  *)
EnrichmentAgrees ==
  pc = "saved" =>
    /\ Visible # Nothing => VisibleMarks \subseteq Mentioned(Visible)
    /\ "kev" \in refreshed => catalogue \cap Mentioned(Visible) \subseteq VisibleMarks

(* A reader never sees a half written corpus (writeFileAtomic): while files *)
(* are replaced a feed reads as before, as it is being written, or, its     *)
(* file or the manifest being away, as empty.                               *)
FilesAreWhole ==
  \A f \in Feeds :
    pc # "idle" => \/ Visible[f] \in {before[f], held[f]}
                   \/ Visible[f] = Nothing[f] /\ removed \in {f, "manifest"}

(* A sync ends, and the next one can start.                                 *)
SyncEnds == pc = "syncing" ~> pc = "idle"
=============================================================================

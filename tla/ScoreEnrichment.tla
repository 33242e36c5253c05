-------------------------- MODULE ScoreEnrichment --------------------------
(***************************************************************************)
(* The scores of a corpus over many syncs (internal/advisory/source_nvd.go,*)
(* source.go): a feed replaces what it had published before, and NVD is    *)
(* asked, a window at a time, for the CVEs that nobody scored.             *)
(*                                                                         *)
(* An entry is one vulnerability of one advisory; CVEs are numbers in the  *)
(* order of their names, 0 for an entry without one.  Loading and saving   *)
(* succeed or the run is lost: their failures are those of CorpusSync.     *)
(***************************************************************************)
EXTENDS Integers, FiniteSetsExt, SequencesExt

CONSTANTS
  Entries,
  FeedOf,
  CveOf,
  WellFormed,   \* the identifiers that look like a CVE
  Scorable,     \* the CVEs that NVD scores sooner or later
  MaxLookups,   \* 200: how many NVD is asked for in one run
  Requests,     \* bound: the sequences of sources an operator asks for
  MaxFaults     \* bound: failures and kills

Feeds == {FeedOf[e] : e \in Entries}

ASSUME EnrichmentAssumption ==
  /\ CveOf \in [Entries -> Nat]
  /\ IsFiniteSet(Entries)
  /\ Scorable \subseteq WellFormed /\ WellFormed \subseteq Nat \ {0}
  /\ MaxLookups \in Nat \ {0}
  /\ MaxFaults \in Nat
  /\ "nvd" \notin Feeds
  /\ Requests \subseteq Seq(Feeds \cup {"nvd"})

VARIABLES
  upstream,  \* what the publisher says of each entry
  nvd,       \* the CVEs that NVD has scored
  stored,    \* the corpus on disk: what was said of each entry, and whether NVD filled it in
  held,      \* the corpus in memory
  pc,
  asked,     \* the sources of this run, or of the last one
  todo,      \* those still to be synced
  queue,     \* the CVEs still to be looked up
  found,     \* the CVEs NVD gave a score for
  faults

vars == <<upstream, nvd, stored, held, pc, asked, todo, queue, found, faults>>

world == <<upstream, nvd>>

Said == {"absent", "unscored", "scored"}

Unread == [e \in Entries |-> [said |-> "absent", filled |-> FALSE]]

Init ==
  /\ upstream \in [Entries -> Said]
  /\ nvd = {}
  /\ stored = Unread
  /\ held = Unread
  /\ pc = "idle"
  /\ asked = <<>>
  /\ todo = <<>>
  /\ queue = <<>>
  /\ found = {}
  /\ faults = 0

Begin(request) ==
  /\ pc = "idle"
  /\ pc' = "syncing"
  /\ asked' = request
  /\ todo' = request
  /\ held' = stored
  /\ UNCHANGED <<world, stored, queue, found, faults>>

(* ReplaceSource: an advisory read again has the scores of its publisher.   *)
SyncFeed ==
  /\ pc = "syncing" /\ todo # <<>> /\ Head(todo) # "nvd"
  /\ held' = [e \in Entries |-> IF FeedOf[e] = Head(todo)
                                THEN [said |-> upstream[e], filled |-> FALSE] ELSE held[e]]
  /\ todo' = Tail(todo)
  /\ UNCHANGED <<world, stored, pc, asked, queue, found, faults>>

Unscored(e) == held[e].said = "unscored" /\ ~ held[e].filled

UnscoredCVEs_Scored == {CveOf[e] : e \in {x \in Entries : held[x].said = "unscored"}} \ {0}

UnscoredCVEs == {CveOf[e] : e \in {x \in Entries : Unscored(x)}} \ {0}

Window_All(cves) ==
  [i \in 1 .. Cardinality(cves) |-> CHOOSE c \in cves : Cardinality({d \in cves : d < c}) = i - 1]

(* The first of them, in order. *)
Window(cves) ==
  [i \in 1 .. Min({Cardinality(cves), MaxLookups}) |->
     CHOOSE c \in cves : Cardinality({d \in cves : d < c}) = i - 1]

StartLookups ==
  /\ pc = "syncing" /\ todo # <<>> /\ Head(todo) = "nvd"
  /\ pc' = "looking"
  /\ queue' = Window(UnscoredCVEs)
  /\ found' = {}
  /\ UNCHANGED <<world, stored, held, asked, todo, faults>>

(* An identifier that is no CVE is passed over, one NVD has no score for    *)
(* leaves nothing behind.                                                   *)
LookUp ==
  /\ pc = "looking" /\ queue # <<>>
  /\ found' = found \cup ({Head(queue)} \cap WellFormed \cap nvd)
  /\ queue' = Tail(queue)
  /\ UNCHANGED <<world, stored, held, pc, asked, todo, faults>>

LookUpFails ==
  /\ pc = "looking" /\ queue # <<>> /\ Head(queue) \in WellFormed /\ faults < MaxFaults
  /\ queue' = Tail(queue)
  /\ faults' = faults + 1
  /\ UNCHANGED <<world, stored, held, pc, asked, todo, found>>

MayFill_Any(e) == held[e].said # "absent"

MayFill(e) == Unscored(e)

(* ApplyNVD: every entry that names the CVE and has no score. *)
Apply ==
  /\ pc = "looking" /\ queue = <<>>
  /\ held' = [e \in Entries |-> IF CveOf[e] \in found /\ MayFill(e)
                                THEN [held[e] EXCEPT !.filled = TRUE] ELSE held[e]]
  /\ pc' = "syncing"
  /\ todo' = Tail(todo)
  /\ found' = {}
  /\ UNCHANGED <<world, stored, asked, queue, faults>>

(* A feed that cannot be synced stays as it is. *)
SourceFails ==
  /\ pc = "syncing" /\ todo # <<>> /\ Head(todo) # "nvd" /\ faults < MaxFaults
  /\ todo' = Tail(todo)
  /\ faults' = faults + 1
  /\ UNCHANGED <<world, stored, held, pc, asked, queue, found>>

(* Interrupted between two lookups Enrich fails, and what it found is lost; *)
(* where another source is to follow the run is, see Kill.                  *)
Interrupt ==
  /\ pc = "looking" /\ queue # <<>> /\ Len(todo) = 1 /\ faults < MaxFaults
  /\ pc' = "syncing"
  /\ todo' = <<>>
  /\ queue' = <<>>
  /\ found' = {}
  /\ faults' = faults + 1
  /\ UNCHANGED <<world, stored, held, asked>>

Forget == pc' = "idle" /\ held' = Unread /\ todo' = <<>> /\ queue' = <<>> /\ found' = {}

Save ==
  /\ pc = "syncing" /\ todo = <<>>
  /\ stored' = held
  /\ Forget
  /\ UNCHANGED <<world, asked, faults>>

(* The process dies, or is interrupted, before it saves. *)
Kill ==
  /\ pc # "idle" /\ faults < MaxFaults
  /\ faults' = faults + 1
  /\ Forget
  /\ UNCHANGED <<world, stored, asked>>

(* A publisher adds an entry, or its score; NVD scores a CVE. *)
Publish(e) ==
  /\ pc = "idle"
  /\ \E said \in Said \ {"absent", upstream[e]} :
       /\ upstream[e] # "scored"
       /\ upstream' = [upstream EXCEPT ![e] = said]
  /\ UNCHANGED <<nvd, stored, held, pc, asked, todo, queue, found, faults>>

Analyse(c) ==
  /\ pc = "idle" /\ c \notin nvd
  /\ nvd' = nvd \cup {c}
  /\ UNCHANGED <<upstream, stored, held, pc, asked, todo, queue, found, faults>>

RunStep == SyncFeed \/ StartLookups \/ LookUp \/ LookUpFails \/ Apply \/ SourceFails \/ Save

Again == \E request \in Requests : Begin(request)

Next ==
  \/ Again
  \/ RunStep
  \/ Interrupt
  \/ Kill
  \/ \E e \in Entries : Publish(e)
  \/ \E c \in Scorable : Analyse(c)

Spec == Init /\ [][Next]_vars

(* A run goes on, since every request has a timeout, and the operator runs  *)
(* sync again, as the warning of Enrich says to.                            *)
FairSpec == Spec /\ WF_vars(RunStep) /\ WF_vars(Again)
-----------------------------------------------------------------------------
(* What is said of each entry is one of the three, and no more CVEs wait to *)
(* be looked up than a run may ask for.                                     *)
TypeOK ==
  /\ upstream \in [Entries -> Said]
  /\ nvd \subseteq Scorable
  /\ stored \in [Entries -> [said : Said, filled : BOOLEAN]]
  /\ held \in [Entries -> [said : Said, filled : BOOLEAN]]
  /\ pc \in {"idle", "syncing", "looking"}
  /\ asked \in Requests \cup {<<>>}
  /\ todo \in Seq(Feeds \cup {"nvd"})
  /\ queue \in Seq(Nat) /\ Len(queue) <= MaxLookups
  /\ found \subseteq nvd
  /\ faults \in 0 .. MaxFaults

(* "An advisory's own score always wins" (ApplyNVD): though a lookup is by  *)
(* CVE, and another advisory may name that CVE without scoring it, NVD      *)
(* never fills in an entry that its publisher has scored.                   *)
OwnScoreWins == \A e \in Entries : stored[e].filled => stored[e].said = "unscored"

Cleared == \A e \in Entries : CveOf[e] \in nvd => ~ (stored[e].said = "unscored" /\ ~ stored[e].filled)

(* The CVEs that stay in the window for ever. *)
Stuck == {CveOf[e] : e \in Entries} \ (Scorable \cup {0})

(* An operator who syncs NVD alone, again and again, ends with every score  *)
(* NVD has, once it has those it will ever have, and if the CVEs it never   *)
(* scores do not fill the window (Enrich: "run sync again to continue").    *)
(* A sync of a feed as well would empty what was filled in from it.         *)
BacklogCleared ==
  Cardinality(Stuck) < MaxLookups =>
    (<>[](asked = <<"nvd">> /\ nvd = Scorable) => <>[]Cleared)
=============================================================================

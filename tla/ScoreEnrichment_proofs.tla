----------------------- MODULE ScoreEnrichment_proofs -----------------------
(***************************************************************************)
(* NVD never displaces the score of a publisher, and no run asks it for    *)
(* more than it may, for any number of feeds, advisories, lookups,         *)
(* requests and faults.                                                    *)
(***************************************************************************)
EXTENDS ScoreEnrichment, Counting_proofs

Corpora == [Entries -> [said : Said, filled : BOOLEAN]]

(* A corpus in which only what the publisher left unscored is filled in.    *)
OwnWins(corpus) == \A e \in Entries : corpus[e].filled => corpus[e].said = "unscored"

(* What is on disk was in memory, so that both must be well made; and a     *)
(* feed read again must say something of each entry.                        *)
ScoresInv ==
  /\ upstream \in [Entries -> Said]
  /\ stored \in Corpora /\ held \in Corpora
  /\ OwnWins(stored) /\ OwnWins(held)

(* A corpus into which nothing was read. *)
LEMMA UnreadIsClean == Unread \in Corpora /\ OwnWins(Unread)
  BY DEF Unread, Corpora, OwnWins, Said

(* Reading a feed again leaves nothing filled in for it (ReplaceSource). *)
LEMMA FeedIsClean ==
  ASSUME ScoresInv, SyncFeed
  PROVE  held' \in Corpora /\ OwnWins(held')
<1>1. held' = [e \in Entries |-> IF FeedOf[e] = Head(todo)
                                 THEN [said |-> upstream[e], filled |-> FALSE] ELSE held[e]]
  BY DEF SyncFeed
<1>2. \A e \in Entries : upstream[e] \in Said /\ held[e] \in [said : Said, filled : BOOLEAN]
  BY DEF ScoresInv, Corpora
<1>3. held' \in Corpora
  BY <1>1, <1>2, Zenon DEF Corpora
<1>4. OwnWins(held')
  BY <1>1 DEF ScoresInv, OwnWins
<1> QED
  BY <1>3, <1>4

(* A lookup fills in only an entry without a score (ApplyNVD). *)
LEMMA ApplyIsClean ==
  ASSUME ScoresInv, Apply
  PROVE  held' \in Corpora /\ OwnWins(held')
<1>1. held' = [e \in Entries |-> IF CveOf[e] \in found /\ MayFill(e)
                                 THEN [held[e] EXCEPT !.filled = TRUE] ELSE held[e]]
  BY DEF Apply
<1>2. \A e \in Entries : held[e] \in [said : Said, filled : BOOLEAN]
  BY DEF ScoresInv, Corpora
<1>3. \A e \in Entries : [held[e] EXCEPT !.filled = TRUE] \in [said : Said, filled : BOOLEAN]
  BY <1>2
<1>4. held' \in Corpora
  BY <1>1, <1>2, <1>3, Zenon DEF Corpora
<1>5. ASSUME NEW e \in Entries, held'[e].filled
      PROVE  held'[e].said = "unscored"
  <2>1. CASE CveOf[e] \in found /\ MayFill(e)
    BY <1>1, <1>2, <2>1 DEF MayFill, Unscored
  <2>2. CASE ~ (CveOf[e] \in found /\ MayFill(e))
    BY <1>1, <1>5, <2>2 DEF ScoresInv, OwnWins
  <2> QED
    BY <2>1, <2>2
<1> QED
  BY <1>4, <1>5 DEF OwnWins

(* What the publishers do keeps upstream within what can be said. *)
LEMMA PublishIsTyped ==
  ASSUME ScoresInv, NEW e \in Entries, Publish(e)
  PROVE  upstream' \in [Entries -> Said]
  BY DEF ScoresInv, Publish

(* Every step keeps both corpora clean. *)
LEMMA ScoresStep == ScoresInv /\ [Next]_vars => ScoresInv'
<1> SUFFICES ASSUME ScoresInv, [Next]_vars PROVE ScoresInv'
  OBVIOUS
<1> USE DEF ScoresInv
<1>1. CASE Again
  BY <1>1 DEF Again, Begin, world, OwnWins
<1>2. CASE SyncFeed
  BY <1>2, FeedIsClean DEF SyncFeed, world, OwnWins
<1>3. CASE StartLookups \/ LookUp \/ LookUpFails
  BY <1>3 DEF StartLookups, LookUp, LookUpFails, world, OwnWins
<1>4. CASE Apply
  BY <1>4, ApplyIsClean DEF Apply, world, OwnWins
<1>5. CASE SourceFails \/ Interrupt
  BY <1>5 DEF SourceFails, Interrupt, world, OwnWins
<1>6. CASE Save
  BY <1>6, UnreadIsClean DEF Save, Forget, world, OwnWins
<1>7. CASE Kill
  BY <1>7, UnreadIsClean DEF Kill, Forget, world, OwnWins
<1>8. ASSUME NEW e \in Entries, Publish(e) PROVE ScoresInv'
  BY <1>8, PublishIsTyped DEF Publish, OwnWins
<1>9. ASSUME NEW c \in Scorable, Analyse(c) PROVE ScoresInv'
  BY <1>9 DEF Analyse, OwnWins
<1>10. CASE UNCHANGED vars
  BY <1>10 DEF vars, OwnWins
<1> QED
  BY <1>1, <1>2, <1>3, <1>4, <1>5, <1>6, <1>7, <1>8, <1>9, <1>10 DEF Next, RunStep

(* "An advisory's own score always wins" (ApplyNVD), in every corpus that   *)
(* any sequence of syncs, failures and kills leaves on the disk.            *)
THEOREM OwnScoreAlwaysWins == Spec => []OwnScoreWins
<1>1. Init => ScoresInv
  BY UnreadIsClean DEF Init, ScoresInv
<1>2. ScoresInv => OwnScoreWins
  BY DEF ScoresInv, OwnWins, OwnScoreWins
<1> QED
  BY <1>1, <1>2, ScoresStep, PTL DEF Spec

-----------------------------------------------------------------------------
(* Types.  A run that looks CVEs up has NVD at the head of what it still    *)
(* has to sync, which is then taken off.                                    *)
Names == Feeds \cup {"nvd"}

RunsInv ==
  /\ nvd \subseteq Scorable
  /\ pc \in {"idle", "syncing", "looking"}
  /\ asked \in Requests \cup {<<>>}
  /\ todo \in Seq(Names)
  /\ pc = "looking" => todo # <<>>
  /\ queue \in Seq(Nat) /\ Len(queue) <= MaxLookups
  /\ found \subseteq nvd
  /\ faults \in 0 .. MaxFaults

LEMMA UnscoredIsFinite == UnscoredCVEs \in SUBSET Nat /\ IsFiniteSet(UnscoredCVEs)
<1> DEFINE U == {x \in Entries : Unscored(x)}
           named == {CveOf[e] : e \in U}
<1>1. IsFiniteSet(U)
  BY EnrichmentAssumption, FS_Subset
<1>2. IsFiniteSet(named)
  BY <1>1, ImageIsFinite
<1>3. named \in SUBSET Nat
  BY EnrichmentAssumption
<1>4. UnscoredCVEs = named \ {0}
  BY DEF UnscoredCVEs
<1> QED
  BY <1>2, <1>3, <1>4, FS_RemoveElement

(* The window is a sequence of CVEs no longer than a run may ask for.       *)
LEMMA WindowIsBounded ==
  ASSUME NEW cves \in SUBSET Nat, IsFiniteSet(cves)
  PROVE  Window(cves) \in Seq(Nat) /\ Len(Window(cves)) <= MaxLookups
<1> DEFINE n == Cardinality(cves)
           m == Min({n, MaxLookups})
           Pick(i) == CHOOSE c \in cves : Cardinality({d \in cves : d < c}) = i - 1
<1>1. n \in Nat
  BY FS_CardinalityType
<1>2. {n, MaxLookups} \in SUBSET Nat
  BY <1>1, EnrichmentAssumption
<1>3. m \in Nat /\ m <= n /\ m <= MaxLookups
  BY <1>2, MinIsLeast
<1>4. \A i \in 1 .. m : i \in 1 .. n
  BY <1>1, <1>3
<1>5. ASSUME NEW i \in 1 .. m
      PROVE  \E c \in cves : Cardinality({d \in cves : d < c}) = i - 1
  <2> DEFINE f == [c \in cves |-> c]
  <2>1. f \in [cves -> Int] /\ \A c, d \in cves : f[c] = f[d] => c = d
    OBVIOUS
  <2>2. i \in 1 .. Cardinality(cves)
    BY <1>4
  <2>3. \A c \in cves : Lower(f, cves, c) = {d \in cves : d < c}
    BY DEF Lower
  <2> HIDE DEF f
  <2>4. PICK c \in cves : Cardinality(Lower(f, cves, c)) = i - 1
    BY <2>1, <2>2, EachHasItsPlace
  <2> QED
    BY <2>3, <2>4
<1>6. \A i \in 1 .. m : Pick(i) \in cves
  BY <1>5
<1>7. Window(cves) = [i \in 1 .. m |-> Pick(i)]
  BY DEF Window
<1> HIDE DEF m, Pick
<1>8. Window(cves) \in [1 .. m -> Nat]
  BY <1>6, <1>7
<1>9. Window(cves) \in Seq(Nat) /\ Len(Window(cves)) = m
  BY <1>3, <1>8
<1> QED
  BY <1>3, <1>9

LEMMA RunsStep == RunsInv /\ [Next]_vars => RunsInv'
<1> SUFFICES ASSUME RunsInv, [Next]_vars PROVE RunsInv'
  OBVIOUS
<1> USE EnrichmentAssumption DEF RunsInv, world
<1>1. CASE Again
  BY <1>1 DEF Again, Begin, Names
<1>2. CASE SyncFeed
  BY <1>2 DEF SyncFeed
<1>3. CASE StartLookups
  BY <1>3, UnscoredIsFinite, WindowIsBounded DEF StartLookups
<1>4. CASE LookUp
  <2>1. Tail(queue) \in Seq(Nat) /\ Len(Tail(queue)) <= MaxLookups
    BY <1>4 DEF LookUp
  <2>2. found' \subseteq nvd
    BY <1>4 DEF LookUp
  <2> QED
    BY <1>4, <2>1, <2>2 DEF LookUp
<1>5. CASE LookUpFails
  BY <1>5 DEF LookUpFails
<1>6. CASE Apply
  BY <1>6 DEF Apply
<1>7. CASE SourceFails
  BY <1>7 DEF SourceFails
<1>8. CASE Interrupt
  BY <1>8 DEF Interrupt
<1>9. CASE Save
  BY <1>9 DEF Save, Forget
<1>10. CASE Kill
  BY <1>10 DEF Kill, Forget
<1>11. ASSUME NEW e \in Entries, Publish(e) PROVE RunsInv'
  BY <1>11 DEF Publish
<1>12. ASSUME NEW c \in Scorable, Analyse(c) PROVE RunsInv'
  BY <1>12 DEF Analyse
<1>13. CASE UNCHANGED vars
  BY <1>13 DEF vars
<1> QED
  BY <1>1, <1>2, <1>3, <1>4, <1>5, <1>6, <1>7, <1>8, <1>9, <1>10, <1>11, <1>12, <1>13
  DEF Next, RunStep

(* The corpora are well made at every instant, and a run looks up no more   *)
(* CVEs than it may, whatever the corpus holds (Enrich).                    *)
THEOREM ScoresAreTyped == Spec => []TypeOK
<1>1. Init => ScoresInv /\ RunsInv
  <2>1. Init => ScoresInv
    BY UnreadIsClean DEF Init, ScoresInv
  <2>2. Init => RunsInv
    BY EnrichmentAssumption DEF Init, RunsInv
  <2> QED
    BY <2>1, <2>2
<1>2. ScoresInv /\ RunsInv => TypeOK
  BY DEF ScoresInv, RunsInv, TypeOK, Corpora, Names
<1> QED
  BY <1>1, <1>2, ScoresStep, RunsStep, PTL DEF Spec
=============================================================================

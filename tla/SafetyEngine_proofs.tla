------------------------ MODULE SafetyEngine_proofs -------------------------
(***************************************************************************)
(* What holds of the sending loop for every plan, policy, deny list and    *)
(* inventory.  First the types; the inductive invariant, one lemma per     *)
(* part of it; the two promises that follow, that at most one packet is    *)
(* missing from the audit file and that failures stay within the budget;   *)
(* and that the loop implements AccountableRun.  Then how the loop behaves *)
(* towards the operator, the segment and the reader of the audit file:     *)
(* what still leaves after an interrupt, how far packets are apart, which  *)
(* devices are left alone, and what a file that ends in a summary shows,   *)
(* one invariant for each on top of the inductive one.                     *)
(***************************************************************************)
EXTENDS SafetyEngine, TLAPS, FiniteSetTheorems

(* The interval is at least as long as either control asks for. *)
LEMMA IntervalType == Interval \in Nat \ {0} /\ Interval >= Delay /\ Interval >= RateGap
  BY PolicyAssumption DEF Interval

(* Merging two identities gives an identity. *)
LEMMA MergeType ==
  ASSUME NEW a \in Identity, NEW b \in Identity
  PROVE  Merge(a, b) \in Identity
  BY DEF Merge, Identity

(* What a reply tells of a device is an identity. *)
LEMMA ToldType ==
  ASSUME NEW d \in Identity, NEW F \in SUBSET Fields
  PROVE  Told(d, F) \in Identity
  BY DEF Told, Identity, Texts

(* The program starts with every variable of its type. *)
LEMMA InitType == Init => TypeOK
<1> SUFFICES ASSUME Init PROVE TypeOK
  OBVIOUS
<1>1. PICK given \in Inputs : /\ plan = given.exchanges
                              /\ prior = given.known
                              /\ known = given.known
                              /\ dryRun = given.dryRun
  BY DEF Init
<1>2. given \in Input
  BY InputAssumption
<1>3. /\ plan \in Seq(Exchange)
      /\ prior \in [Hosts -> Identity]
      /\ known \in [Hosts -> Identity]
      /\ dryRun \in BOOLEAN
  BY <1>1, <1>2 DEF Input
<1>4. since \in 0 .. Interval /\ quiet \in 0 .. Interval
  BY IntervalType DEF Init
<1>5. late \subseteq wire /\ raced \in Nat /\ deadline \in Int
  BY DEF Init, NoDeadline
<1>9. heard \in BOOLEAN
  BY DEF Init
<1>6. result \in Counts
  BY DEF Init, NoCounts, Counts
<1>7. /\ pc \in PCs
      /\ ex \in Nat
      /\ step \in Nat
      /\ ex # 0 => ex \in handled /\ step <= plan[ex].steps
      /\ pc \in Running => ex # 0
      /\ handled \subseteq DOMAIN plan
  BY DEF Init, PCs, Running, Terminal
<1>8. /\ reason \in Reasons
      /\ replies \subseteq [ex : Nat, step : Nat, told : Identity]
      /\ outcome \in Outcomes
      /\ cancelled \in BOOLEAN
      /\ trail \subseteq Lines
      /\ disk \in {"ok", "broken"}
      /\ wire \subseteq Nat \X Nat
  BY DEF Init, Reasons, Outcomes
<1> QED
  BY <1>3, <1>4, <1>5, <1>6, <1>7, <1>8, <1>9 DEF TypeOK

(* A write of a line leaves the file made of lines. *)
LEMMA WriteType ==
  ASSUME TypeOK, NEW line \in Lines,
         \/ \E err \in BOOLEAN : Write(line, err)
         \/ \E then \in PCs : WriteOrFail(line, then)
  PROVE  trail' \subseteq Lines /\ disk' \in {"ok", "broken"}
  BY DEF TypeOK, WriteOrFail, Write

(* A line about an exchange, a step and an outcome is a line. *)
LEMMA LineType ==
  ASSUME NEW i \in Nat, NEW k \in Nat, NEW o \in Outcomes
  PROVE  Line(i, k, o) \in Lines
  BY DEF Line, Lines

(* The five ways the loop counts keep the counters natural numbers. *)
LEMMA CountType ==
  ASSUME NEW r \in Counts
  PROVE  /\ [r EXCEPT !.attempted = @ + 1] \in Counts
         /\ [r EXCEPT !.attempted = @ + 1, !.skipped = @ + 1] \in Counts
         /\ [r EXCEPT !.skipped = @ + 1] \in Counts
         /\ [r EXCEPT !.sent = @ + 1, !.failed = @ + 1] \in Counts
         /\ [r EXCEPT !.sent = @ + 1, !.answered = @ + 1] \in Counts
<1>1. /\ r.attempted + 1 \in Nat
      /\ r.sent + 1 \in Nat
      /\ r.answered + 1 \in Nat
      /\ r.failed + 1 \in Nat
      /\ r.skipped + 1 \in Nat
  BY DEF Counts
<1>2. \A a, b \in Nat : /\ [r EXCEPT !.attempted = a] \in Counts
                       /\ [r EXCEPT !.attempted = a, !.skipped = b] \in Counts
                       /\ [r EXCEPT !.skipped = a] \in Counts
                       /\ [r EXCEPT !.sent = a, !.failed = b] \in Counts
                       /\ [r EXCEPT !.sent = a, !.answered = b] \in Counts
  BY DEF Counts
<1> QED
  BY <1>1, <1>2

(* The exchanges of a plan are numbered from one, and ex is one of them. *)
LEMMA DomainType ==
  ASSUME TypeOK
  PROVE  /\ DOMAIN plan = 1 .. Len(plan)
         /\ DOMAIN plan \subseteq Nat \ {0}
         /\ \A i \in DOMAIN plan : plan[i] \in Exchange /\ plan[i].steps \in Nat \ {0}
         /\ \A i \in DOMAIN plan : plan[i].host \in Hosts
         /\ ex # 0 => ex \in DOMAIN plan
<1>1. plan \in Seq(Exchange) /\ handled \subseteq DOMAIN plan /\ (ex # 0 => ex \in handled)
  BY DEF TypeOK
<1>2. /\ DOMAIN plan = 1 .. Len(plan)
      /\ Len(plan) \in Nat
      /\ \A i \in DOMAIN plan : plan[i] \in Exchange
  BY <1>1
<1>3. \A e \in Exchange : e.steps \in Nat \ {0} /\ e.host \in Hosts
  BY DEF Exchange
<1> QED
  BY <1>1, <1>2, <1>3

(* Every step of the engine, the operator, the clock and a kill keeps the *)
(* types.                                                                *)
LEMMA StepType == TypeOK /\ [Next]_vars => TypeOK'
<1> SUFFICES ASSUME TypeOK, [Next]_vars PROVE TypeOK'
  OBVIOUS
<1>a. PICK n \in Nat \ {0} : n = Interval
  BY IntervalType
<1> USE DEF TypeOK, PCs, Terminal, Running, input, network, file, timers
<1>b. /\ ConnectTimeout \in Int /\ ReadTimeout \in Int /\ NoDeadline \in Int
      /\ deadline \in Int => deadline - 1 \in Int
  BY PolicyAssumption DEF NoDeadline
<1>1. CASE WriteHeader
  <2>1. Line(0, 0, "run") \in Lines
    BY <1>1, LineType DEF Outcomes, TypeOK
  <2>2. trail' \subseteq Lines /\ disk' \in {"ok", "broken"}
    BY <1>1, <2>1, WriteType DEF WriteHeader
  <2> QED
    BY <1>1, <2>2 DEF WriteHeader, WriteOrFail
<1>2. ASSUME NEW j \in DOMAIN plan, StartExchange(j) PROVE TypeOK'
  <2>1. 1 <= plan[j].steps
    BY DomainType
  <2>2. result' \in Counts
    BY <1>2, CountType DEF StartExchange
  <2> QED
    BY <1>2, <2>1, <2>2, DomainType DEF StartExchange
<1>3. ASSUME NEW j \in DOMAIN plan, SkipExchange(j) PROVE TypeOK'
  <2>1. Line(j, 0, Refusal(j)) \in Lines
    BY <1>3, LineType, DomainType DEF Refusal, Outcomes, SkipOutcomes, SkipExchange
  <2>2. trail' \subseteq Lines /\ disk' \in {"ok", "broken"}
    BY <1>3, <2>1, WriteType DEF SkipExchange, WriteOrDrop
  <2>3. result' \in Counts
    BY <1>3, CountType DEF SkipExchange
  <2>4. reason' \in Reasons
    BY <1>3 DEF SkipExchange, Reasons
  <2>5. ex' \in Nat /\ step' = 0 /\ handled' \subseteq DOMAIN plan /\ ex' \in handled'
        /\ 0 <= plan[j].steps /\ ex' = j
    BY <1>3, DomainType DEF SkipExchange
  <2> QED
    BY <1>3, <2>2, <2>3, <2>4, <2>5 DEF SkipExchange
<1>4. CASE RecordDryRun
  <2>0. ex \in Nat /\ step \in Nat
    OBVIOUS
  <2>1. Line(ex, step, "dry-run") \in Lines
    BY <1>4, LineType, <2>0 DEF Outcomes, TypeOK
  <2>2. trail' \subseteq Lines /\ disk' \in {"ok", "broken"}
    BY <1>4, <2>1, WriteType DEF RecordDryRun
  <2>3. pc' \in PCs /\ step' \in Nat /\ (ex # 0 => step' <= plan[ex].steps)
    <3>1. plan[ex].steps \in Nat /\ step <= plan[ex].steps
      BY <1>4, DomainType DEF RecordDryRun
    <3>2. step' = IF step = plan[ex].steps THEN step ELSE step + 1
      BY <1>4 DEF RecordDryRun, LastStep
    <3>3. step' \in Nat /\ step' <= plan[ex].steps
      BY <2>0, <3>1, <3>2
    <3>4. pc' \in PCs
      BY <1>4 DEF RecordDryRun, WriteOrFail
    <3> QED
      BY <3>3, <3>4
  <2>4. result' \in Counts
    BY <1>4, CountType DEF RecordDryRun
  <2> QED
    BY <1>4, <2>2, <2>3, <2>4 DEF RecordDryRun
<1>5. CASE WriteSummary
  <2>1. Line(0, 0, "summary") \in Lines
    BY <1>5, LineType DEF Outcomes, TypeOK
  <2>2. trail' \subseteq Lines /\ disk' \in {"ok", "broken"}
    BY <1>5, <2>1, WriteType DEF WriteSummary
  <2> QED
    BY <1>5, <2>2 DEF WriteSummary, WriteOrFail
<1>6. CASE PaceAtOnce
  BY <1>6 DEF PaceAtOnce, AfterPace
<1>7. CASE Wake
  BY <1>7 DEF Wake, AfterPace
<1>8. CASE PaceCancelled
  <2>1. result' \in Counts
    BY <1>8, CountType DEF PaceCancelled
  <2>2. Line(ex, 0, "skipped-aborted") \in Lines
    BY LineType DEF Outcomes, SkipOutcomes
  <2>3. trail' \subseteq Lines /\ disk' \in {"ok", "broken"}
    BY <1>8, <2>2, WriteType DEF PaceCancelled, WriteOrDrop
  <2> QED
    BY <1>8, <2>1, <2>3 DEF PaceCancelled, Reasons
<1>9. CASE DialBegins
  <2>1. <<ex, 1>> \in Nat \X Nat
    OBVIOUS
  <2>2. wire' \subseteq Nat \X Nat /\ quiet' \in 0 .. Interval /\ late' \subseteq wire'
    BY <1>9, <2>1, <1>a DEF DialBegins, Leaves
  <2> QED
    BY <1>9, <1>b, <2>2 DEF DialBegins
<1>10. CASE DialSucceeds
  BY <1>10, <1>b DEF DialSucceeds
<1>11. CASE DialFails
  <2>1. result' \in Counts
    BY <1>11, CountType DEF DialFails
  <2>2. 0 \in 0 .. Interval
    BY <1>a
  <2> QED
    BY <1>11, <1>b, <2>1, <2>2, DomainType DEF DialFails, Outcomes, SentOutcomes
<1>12. CASE SendRequest
  <2>1. <<ex, step>> \in Nat \X Nat
    OBVIOUS
  <2>2. wire' \subseteq Nat \X Nat /\ quiet' \in 0 .. Interval /\ late' \subseteq wire'
    BY <1>12, <2>1, <1>a DEF SendRequest, Leaves
  <2> QED
    BY <1>12, <1>b, <2>2 DEF SendRequest
<1>13. CASE Answered
  <2>1. result' \in Counts
    BY <1>13, CountType DEF Answered
  <2>2. 0 \in 0 .. Interval
    BY <1>a
  <2>3. PICK F \in Disclosures :
          LET host == plan[ex].host
              told == Told(Device[host], F)
          IN /\ replies' = replies \cup {[ex |-> ex, step |-> step, told |-> told]}
             /\ known' = [known EXCEPT ![host] = Merge(@, told)]
    BY <1>13 DEF Answered
  <2>4. known' \in [Hosts -> Identity] /\ replies' \subseteq [ex : Nat, step : Nat, told : Identity]
    <3>1. ex # 0
      BY <1>13 DEF Answered
    <3>2. known' \in [Hosts -> Identity] /\ replies' \subseteq [ex : Nat, step : Nat, told : Identity]
      <4>1. plan[ex].host \in Hosts
        BY <3>1, DomainType
      <4>2. Told(Device[plan[ex].host], F) \in Identity
        BY <4>1, ToldType, InputAssumption
      <4>3. Merge(known[plan[ex].host], Told(Device[plan[ex].host], F)) \in Identity
        BY <4>1, <4>2, MergeType
      <4> QED
        BY <2>3, <4>1, <4>2, <4>3
    <3> QED
      BY <3>2
  <2> QED
    BY <1>13, <1>b, <2>1, <2>2, <2>4 DEF Answered, ReadEnds, Outcomes, SentOutcomes
<1>14. CASE Unanswered
  <2>1. result' \in Counts
    BY <1>14, CountType DEF Unanswered
  <2>2. 0 \in 0 .. Interval
    BY <1>a
  <2> QED
    BY <1>14, <1>b, <2>1, <2>2 DEF Unanswered, ReadEnds, Outcomes, SentOutcomes
<1>15. CASE RecordPacket
  <2>0. ex \in Nat /\ step \in Nat
    OBVIOUS
  <2>1. Line(ex, step, outcome) \in Lines
    BY <1>15, LineType, <2>0
  <2>2. trail' \subseteq Lines /\ disk' \in {"ok", "broken"}
    <3>1. AfterRecord \in PCs
      BY DEF AfterRecord
    <3> QED
      BY <1>15, <2>1, <3>1, WriteType DEF RecordPacket
  <2>3. pc' \in PCs /\ step' \in Nat /\ (ex # 0 => step' <= plan[ex].steps)
    <3>1. plan[ex].steps \in Nat /\ step <= plan[ex].steps
      BY <1>15, DomainType DEF RecordPacket
    <3>2. \/ step' = step
          \/ step' = step + 1 /\ step # plan[ex].steps
      BY <1>15 DEF RecordPacket, WriteOrFail, AfterRecord, LastStep
    <3>3. step' \in Nat /\ step' <= plan[ex].steps
      BY <2>0, <3>1, <3>2
    <3>4. pc' \in PCs
      BY <1>15 DEF RecordPacket, WriteOrFail, AfterRecord
    <3> QED
      BY <3>3, <3>4
  <2> QED
    BY <1>15, <2>2, <2>3 DEF RecordPacket
<1>16. CASE RecordAbandoned
  <2>0. ex \in Nat /\ step \in Nat
    OBVIOUS
  <2>1. Line(ex, step, "skipped-aborted") \in Lines
    BY <1>16, LineType, <2>0 DEF Outcomes, SkipOutcomes, TypeOK
  <2>2. trail' \subseteq Lines /\ disk' \in {"ok", "broken"}
    BY <1>16, <2>1, WriteType DEF RecordAbandoned
  <2>3. pc' \in PCs /\ step' \in Nat /\ (ex # 0 => step' <= plan[ex].steps)
    <3>1. plan[ex].steps \in Nat /\ step <= plan[ex].steps
      BY <1>16, DomainType DEF RecordAbandoned
    <3>2. step' = IF step = plan[ex].steps THEN step ELSE step + 1
      BY <1>16 DEF RecordAbandoned, LastStep
    <3>3. step' \in Nat /\ step' <= plan[ex].steps
      BY <2>0, <3>1, <3>2
    <3>4. pc' \in PCs
      BY <1>16 DEF RecordAbandoned, WriteOrFail
    <3> QED
      BY <3>3, <3>4
  <2> QED
    BY <1>16, <2>2, <2>3 DEF RecordAbandoned
<1>17. CASE Judge
  BY <1>17 DEF Judge, Reasons
<1>18. CASE Interrupt
  BY <1>18 DEF Interrupt
<1>19. CASE Kill
  BY <1>19 DEF Kill
<1>20. CASE Tick
  <2>1. since' \in 0 .. Interval /\ quiet' \in 0 .. Interval
    BY <1>20, <1>a DEF Tick, Capped
  <2> QED
    BY <1>20, <1>b, <2>1 DEF Tick
<1>21. CASE UNCHANGED vars
  BY <1>21 DEF vars
<1>22. CASE ReplyBegins
  BY <1>22 DEF ReplyBegins
<1> QED
  BY <1>1, <1>2, <1>3, <1>4, <1>5, <1>6, <1>7, <1>8, <1>9, <1>10, <1>11, <1>12, <1>13, <1>14, <1>15, <1>16, <1>17, <1>18, <1>19, <1>20, <1>21, <1>22
  DEF Next, EngineStep

(* Every variable keeps its type. *)
THEOREM TypeCorrect == Spec => []TypeOK
<1>1. Init => TypeOK
  BY InitType
<1>2. TypeOK /\ [Next]_vars => TypeOK'
  BY StepType
<1> QED
  BY <1>1, <1>2, PTL DEF Spec

-----------------------------------------------------------------------------
(* The invariant. *)

(* A file that only grows keeps every packet it shows. *)
LEMMA FiledStable ==
  ASSUME trail \subseteq trail'
  PROVE  \A p : Filed(p) => Filed(p)'
  BY DEF Filed

(* Every step but UNCHANGED keeps the lines of the file. *)
LEMMA TrailGrows == [Next]_vars => trail \subseteq trail'
<1> SUFFICES ASSUME [Next]_vars PROVE trail \subseteq trail'
  OBVIOUS
<1> USE DEF input, network, file
<1>1. ASSUME NEW line, NEW err, Write(line, err) PROVE trail \subseteq trail'
  BY <1>1 DEF Write
<1>2. ASSUME NEW line, NEW then, WriteOrFail(line, then) PROVE trail \subseteq trail'
  BY <1>1, <1>2 DEF WriteOrFail
<1>3. ASSUME NEW line, WriteOrDrop(line) PROVE trail \subseteq trail'
  BY <1>1, <1>3 DEF WriteOrDrop
<1>4. CASE WriteHeader \/ RecordDryRun \/ WriteSummary \/ RecordPacket \/ RecordAbandoned
  BY <1>2, <1>4 DEF WriteHeader, RecordDryRun, WriteSummary, RecordPacket, RecordAbandoned
<1>5. CASE (\E j \in DOMAIN plan : SkipExchange(j)) \/ PaceCancelled
  BY <1>3, <1>5 DEF SkipExchange, PaceCancelled
<1>6. CASE \/ \E j \in DOMAIN plan : StartExchange(j)
           \/ PaceAtOnce \/ Wake \/ DialBegins \/ DialSucceeds \/ DialFails
  BY <1>6 DEF StartExchange, PaceAtOnce, Wake, DialBegins, DialSucceeds, DialFails
<1>7. CASE SendRequest \/ Answered \/ Unanswered \/ Judge
  BY <1>7 DEF SendRequest, Answered, Unanswered, Judge
<1>8. CASE ReplyBegins \/ Interrupt \/ Kill \/ Tick \/ UNCHANGED vars
  BY <1>8 DEF ReplyBegins, Interrupt, Kill, Tick, vars
<1> QED
  BY <1>4, <1>5, <1>6, <1>7, <1>8 DEF Next, EngineStep

(* A run that gave up does not take it back, and one that ended stays so. *)
LEMMA GivenUpForGood ==
  ASSUME [Next]_vars
  PROVE  /\ Aborted => Aborted'
         /\ pc \in Terminal => pc' = pc
<1> USE DEF Aborted, Terminal
<1>1. CASE WriteHeader \/ RecordDryRun \/ WriteSummary \/ RecordPacket \/ RecordAbandoned
  BY <1>1 DEF WriteHeader, RecordDryRun, WriteSummary, RecordPacket, RecordAbandoned
<1>2. CASE (\E j \in DOMAIN plan : SkipExchange(j)) \/ PaceCancelled \/ Judge
  BY <1>2 DEF SkipExchange, PaceCancelled, Judge
<1>3. CASE \/ \E j \in DOMAIN plan : StartExchange(j)
           \/ PaceAtOnce \/ Wake \/ DialBegins \/ DialSucceeds \/ DialFails
  BY <1>3 DEF StartExchange, PaceAtOnce, Wake, DialBegins, DialSucceeds, DialFails
<1>4. CASE SendRequest \/ Answered \/ Unanswered
  BY <1>4 DEF SendRequest, Answered, Unanswered
<1>5. CASE ReplyBegins \/ Interrupt \/ Kill \/ Tick \/ UNCHANGED vars
  BY <1>5 DEF ReplyBegins, Interrupt, Kill, Tick, vars
<1> QED
  BY <1>1, <1>2, <1>3, <1>4, <1>5 DEF Next, EngineStep

(* What a run was given never changes. *)
LEMMA InputFixed ==
  ASSUME [Next]_vars
  PROVE  UNCHANGED <<plan, prior, dryRun>>
<1> USE DEF input
<1>1. CASE WriteHeader \/ RecordDryRun \/ WriteSummary \/ RecordPacket \/ RecordAbandoned
  BY <1>1 DEF WriteHeader, RecordDryRun, WriteSummary, RecordPacket, RecordAbandoned
<1>2. CASE (\E j \in DOMAIN plan : SkipExchange(j)) \/ PaceCancelled \/ Judge
  BY <1>2 DEF SkipExchange, PaceCancelled, Judge
<1>3. CASE \/ \E j \in DOMAIN plan : StartExchange(j)
           \/ PaceAtOnce \/ Wake \/ DialBegins \/ DialSucceeds \/ DialFails
  BY <1>3 DEF StartExchange, PaceAtOnce, Wake, DialBegins, DialSucceeds, DialFails
<1>4. CASE SendRequest \/ Answered \/ Unanswered
  BY <1>4 DEF SendRequest, Answered, Unanswered
<1>5. CASE ReplyBegins \/ Interrupt \/ Kill \/ Tick \/ UNCHANGED vars
  BY <1>5 DEF ReplyBegins, Interrupt, Kill, Tick, vars
<1> QED
  BY <1>1, <1>2, <1>3, <1>4, <1>5 DEF Next, EngineStep

-----------------------------------------------------------------------------
(* The initial state has nothing on the wire and nothing counted. *)
LEMMA InvariantInit == Init => IInv
<1> SUFFICES ASSUME Init PROVE IInv
  OBVIOUS
<1>1. Filing /\ Recording /\ Gates /\ Fresh
  BY DEF Init, Filing, Recording, Gates, Fresh, Sending
<1>2. Remembers
  BY DEF Init, Remembers
<1>3. result.failed = 0 /\ result.sent = 0 /\ result.answered = 0
  BY DEF Init, NoCounts
<1>4. Budget
  BY <1>3, PolicyAssumption DEF Init, Budget, FailuresBounded, Slack, Sending, Aborted
<1> QED
  BY <1>1, <1>2, <1>4 DEF IInv

(* A packet leaves only when every packet before it is on file, and what is *)
(* not yet on file is the packet the loop is at.                            *)
LEMMA FilingStep ==
  ASSUME TypeOK, IInv, [Next]_vars
  PROVE  Filing'
<1>a. \A p : Filed(p) => Filed(p)'
  BY TrailGrows, FiledStable
<1>b. Filing /\ Recording /\ Gates
  BY DEF IInv
<1> DEFINE Quiet == pc \notin {"dialing", "request", "awaiting", "record", "failed", "killed"}
<1>c. ASSUME Quiet, wire' = wire PROVE Filing'
  BY <1>a, <1>b, <1>c DEF Filing
<1>d. ASSUME wire' = wire, Current' = Current,
             pc' \in {"dialing", "request", "awaiting", "record", "failed", "killed"}
      PROVE  Filing'
  BY <1>a, <1>b, <1>d DEF Filing
<1> USE DEF network, file
<1>1. CASE WriteHeader \/ RecordDryRun \/ WriteSummary \/ RecordAbandoned
  BY <1>1, <1>c DEF WriteHeader, RecordDryRun, WriteSummary, RecordAbandoned
<1>2. CASE \E j \in DOMAIN plan : StartExchange(j) \/ SkipExchange(j)
  BY <1>2, <1>c DEF StartExchange, SkipExchange
<1>3. CASE PaceAtOnce \/ Wake \/ PaceCancelled \/ Judge
  BY <1>3, <1>c DEF PaceAtOnce, Wake, PaceCancelled, Judge
<1>4. CASE DialBegins
  <2>1. step = 1 /\ Current' = <<ex, 1>> /\ pc' = "dialing"
    BY <1>4, <1>b DEF DialBegins, Gates, Current
  <2>2. \A p \in wire : Filed(p)
    BY <1>4, <1>b DEF DialBegins, Filing
  <2>3. wire' \subseteq wire \cup {<<ex, 1>>}
    BY <1>4 DEF DialBegins, Leaves
  <2> QED
    BY <2>1, <2>2, <2>3, <1>a DEF Filing
<1>5. CASE DialSucceeds
  BY <1>5, <1>d DEF DialSucceeds, Current
<1>6. CASE DialFails
  <2>1. step = 1
    BY <1>6, <1>b DEF DialFails, Gates
  <2>2. Current' = Current /\ wire' = wire /\ pc' = "record"
    BY <1>6, <2>1 DEF DialFails, Current
  <2> QED
    BY <2>2, <1>d
<1>7. CASE SendRequest
  <2>1. step # 0 /\ Current = <<ex, step>>
    BY <1>7, <1>b DEF SendRequest, Gates, Sending, Current
  <2>2. Current' = Current /\ pc' = "awaiting" /\ wire' = wire \cup {Current}
    BY <1>7, <2>1 DEF SendRequest, Leaves, Current
  <2>3. \A p \in wire : Filed(p) \/ p = Current
    BY <1>b DEF Filing
  <2> QED
    BY <2>2, <2>3, <1>a DEF Filing
<1>8. CASE Answered
  BY <1>8, <1>d DEF Answered, Current
<1>9. CASE Unanswered
  BY <1>9, <1>d DEF Unanswered, Current
<1>10. CASE RecordPacket
  <2>1. CASE Write(Line(ex, step, outcome), FALSE)
    <3>1. Line(ex, step, outcome) \in trail'
      BY <2>1 DEF Write
    <3>2. outcome \in SentOutcomes /\ (step = 0 => outcome = "unreachable")
      BY <1>10, <1>b DEF RecordPacket, Recording
    <3>3. \A p \in wire : Filed(p)'
      <4> SUFFICES ASSUME NEW p \in wire PROVE Filed(p)'
        OBVIOUS
      <4>1. Filed(p) \/ p = Current
        BY <1>b DEF Filing
      <4>2. \/ \E o \in SentOutcomes : Line(Current[1], Current[2], o) \in trail'
            \/ Current[2] = 1 /\ Line(Current[1], 0, "unreachable") \in trail'
        BY <3>1, <3>2 DEF Current
      <4>3. CASE p = Current
        BY <4>2, <4>3 DEF Filed
      <4> QED
        BY <4>1, <4>3, <1>a
    <3>4. wire' = wire
      BY <1>10 DEF RecordPacket
    <3> QED
      BY <3>3, <3>4 DEF Filing
  <2>2. CASE pc' = "failed"
    <3>1. Current' = Current /\ wire' = wire
      BY <1>10, <2>2 DEF RecordPacket, Current
    <3> QED
      BY <2>2, <3>1, <1>d
  <2> QED
    BY <1>10, <2>1, <2>2 DEF RecordPacket, WriteOrFail
<1>11. CASE ReplyBegins \/ Interrupt \/ Tick
  <2>1. wire' = wire /\ Current' = Current /\ pc' = pc
    BY <1>11 DEF ReplyBegins, Interrupt, Tick, Current
  <2> QED
    BY <2>1, <1>c, <1>d
<1>12. CASE Kill
  BY <1>12, <1>d DEF Kill, Current
<1>13. CASE UNCHANGED vars
  <2>1. wire' = wire /\ Current' = Current /\ pc' = pc
    BY <1>13 DEF vars, Current
  <2> QED
    BY <2>1, <1>c, <1>d
<1> QED
  BY <1>1, <1>2, <1>3, <1>4, <1>5, <1>6, <1>7, <1>8, <1>9, <1>10, <1>11, <1>12, <1>13
  DEF Next, EngineStep
(* Only packets are recorded, and only a failed dial has no step. *)
LEMMA RecordingStep ==
  ASSUME TypeOK, IInv, [Next]_vars
  PROVE  Recording'
<1>a. Recording /\ Gates
  BY DEF IInv
<1> USE DEF Recording, SentOutcomes
<1>1. CASE WriteHeader \/ RecordDryRun \/ WriteSummary \/ RecordAbandoned
  BY <1>1 DEF WriteHeader, RecordDryRun, WriteSummary, RecordAbandoned, WriteOrFail
<1>2. CASE \E j \in DOMAIN plan : StartExchange(j) \/ SkipExchange(j)
  BY <1>2 DEF StartExchange, SkipExchange
<1>3. CASE PaceAtOnce \/ Wake \/ PaceCancelled \/ Judge
  BY <1>3 DEF PaceAtOnce, Wake, PaceCancelled, Judge, AfterPace
<1>4. CASE DialBegins \/ DialSucceeds \/ DialFails \/ SendRequest
  BY <1>4 DEF DialBegins, DialSucceeds, DialFails, SendRequest
<1>5. CASE Answered \/ Unanswered
  BY <1>5, <1>a DEF Answered, Unanswered, Gates, Sending
<1>6. CASE RecordPacket
  BY <1>6 DEF RecordPacket, WriteOrFail, AfterRecord
<1>7. CASE ReplyBegins \/ Interrupt \/ Kill \/ Tick \/ UNCHANGED vars
  BY <1>7, <1>a DEF ReplyBegins, Interrupt, Kill, Tick, vars
<1> QED
  BY <1>1, <1>2, <1>3, <1>4, <1>5, <1>6, <1>7 DEF Next, EngineStep

(* A deny rule that applies to what the inventory says applies to what is  *)
(* known, which only adds to it.                                           *)
LEMMA DeniedByInventory ==
  ASSUME NEW before \in Identity, NEW now \in Identity, NEW e,
         \A f \in Fields : before[f] # None => now[f] = before[f],
         Denied(Rules, before, e)
  PROVE  Denied(Rules, now, e)
<1>1. PICK rule \in Rules : Matches(rule, before, e)
  BY DEF Denied
<1>2. ~ Empty(now)
  BY <1>1 DEF Matches, Empty
<1>3. \A f \in Fields : rule.want[f] # None => now[f] = rule.want[f]
  BY <1>1 DEF Matches
<1>4. Matches(rule, now, e)
  BY <1>1, <1>2, <1>3 DEF Matches
<1> QED
  BY <1>4 DEF Denied

(* MayBeAsked reads nothing but what the run was given. *)
LEMMA AskedFixed ==
  ASSUME UNCHANGED <<plan, prior, dryRun>>
  PROVE  \A i : MayBeAsked(i)' <=> MayBeAsked(i)
  BY DEF MayBeAsked

(* Between two packets the run has not given up, and what is on its way was *)
(* permitted from the start.                                                *)
LEMMA GatesStep ==
  ASSUME TypeOK, IInv, [Next]_vars
  PROVE  Gates'
<1>a. Gates /\ Recording /\ Remembers
  BY DEF IInv
<1>b. \A i : MayBeAsked(i)' <=> MayBeAsked(i)
  BY InputFixed, AskedFixed
<1>c. ASSUME pc' \notin Sending \cup {"record"} PROVE Gates'
  BY <1>c DEF Gates, Sending
<1> DEFINE Open == ~ Aborted /\ MayBeAsked(ex) /\ step # 0
<1>d. ASSUME Open, UNCHANGED <<ex, step, reason>>, pc' \in {"dial", "dialing"} => step = 1
      PROVE  Gates'
  BY <1>d, <1>b DEF Gates, Aborted
<1>1. CASE WriteHeader \/ RecordDryRun \/ WriteSummary \/ RecordAbandoned
  BY <1>1, <1>c
  DEF WriteHeader, RecordDryRun, WriteSummary, RecordAbandoned, WriteOrFail, Sending
<1>2. ASSUME NEW j \in DOMAIN plan, StartExchange(j) PROVE Gates'
  <2>1. Refusal(j) = "none" /\ ex' = j /\ step' = 1 /\ reason' = reason
    BY <1>2 DEF StartExchange
  <2>2. /\ ~ Aborted
        /\ AtMost(plan[j].risk, AllowedRisk)
        /\ ~ Denied(Rules, known[plan[j].host], plan[j])
    BY <2>1 DEF Refusal
  <2>3. ~ Denied(Rules, prior[plan[j].host], plan[j])
    <3>1. plan[j].host \in Hosts
      BY DomainType
    <3>2. prior[plan[j].host] \in Identity /\ known[plan[j].host] \in Identity
      BY <3>1 DEF TypeOK
    <3> QED
      BY <1>a, <2>2, <3>1, <3>2, DeniedByInventory DEF Remembers
  <2>4. CASE dryRun
    BY <1>2, <2>4, <1>c DEF StartExchange, Sending
  <2>5. CASE ~ dryRun
    <3>1. MayBeAsked(j)'
      BY <2>2, <2>3, <2>5, <1>b DEF MayBeAsked
    <3>2. pc' = "pace"
      BY <1>2, <2>5 DEF StartExchange
    <3> QED
      BY <2>1, <2>2, <3>1, <3>2 DEF Gates, Aborted
  <2> QED
    BY <2>4, <2>5
<1>3. CASE \E j \in DOMAIN plan : SkipExchange(j)
  BY <1>3, <1>c DEF SkipExchange, Sending
<1>4. CASE PaceAtOnce
  BY <1>4, <1>a, <1>d DEF PaceAtOnce, AfterPace, Gates, Sending
<1>5. CASE Wake
  BY <1>5, <1>a, <1>d DEF Wake, AfterPace, Gates, Sending
<1>6. CASE PaceCancelled \/ Judge
  BY <1>6, <1>c DEF PaceCancelled, Judge, Sending
<1>7. CASE DialBegins
  BY <1>7, <1>a, <1>d DEF DialBegins, Gates, Sending
<1>8. CASE DialSucceeds
  BY <1>8, <1>a, <1>d DEF DialSucceeds, Gates, Sending
<1>9. CASE DialFails \/ Unanswered
  BY <1>9 DEF DialFails, Unanswered, Gates, Sending
<1>10. CASE SendRequest
  BY <1>10, <1>a, <1>d DEF SendRequest, Gates, Sending
<1>11. CASE Answered
  BY <1>11, <1>a, <1>d DEF Answered, Gates, Sending
<1>12. CASE RecordPacket
  <2>1. UNCHANGED <<ex, reason>>
    BY <1>12 DEF RecordPacket
  <2>2. CASE pc' = "pace"
    <3>1. outcome = "answered" /\ step' = step + 1
      BY <1>12, <2>2, <1>a
      DEF RecordPacket, WriteOrFail, AfterRecord, Failed, Recording, SentOutcomes
    <3>2. ~ Aborted /\ MayBeAsked(ex) /\ step' # 0
      BY <1>12, <3>1, <1>a DEF RecordPacket, Gates, TypeOK
    <3> QED
      BY <2>1, <2>2, <3>2, <1>b DEF Gates, Aborted
  <2>3. CASE pc' # "pace"
    <3>1. pc' \in {"judge", "abandon", "failed"}
      BY <1>12, <2>3 DEF RecordPacket, WriteOrFail, AfterRecord
    <3> QED
      BY <3>1, <1>c DEF Sending
  <2> QED
    BY <2>2, <2>3
<1>13. CASE ReplyBegins \/ Interrupt \/ Tick \/ UNCHANGED vars
  <2>1. UNCHANGED <<pc, ex, step, reason, outcome>>
    BY <1>13 DEF ReplyBegins, Interrupt, Tick, vars
  <2> QED
    BY <2>1, <1>a, <1>b DEF Gates, Aborted
<1>14. CASE Kill
  BY <1>14, <1>c DEF Kill, Sending
<1> QED
  BY <1>1, <1>2, <1>3, <1>4, <1>5, <1>6, <1>7, <1>8, <1>9, <1>10, <1>11, <1>12, <1>13, <1>14
  DEF Next, EngineStep
(* A line says what it was made of. *)
LEMMA LineParts ==
  ASSUME NEW i, NEW k, NEW o
  PROVE  Line(i, k, o).ex = i /\ Line(i, k, o).step = k /\ Line(i, k, o).outcome = o
  BY DEF Line

(* The lines of packets of any exchange lie before the packet to be sent. *)
LEMMA FreshStep ==
  ASSUME TypeOK, IInv, [Next]_vars
  PROVE  Fresh'
<1>a. Fresh /\ Gates /\ Recording
  BY DEF IInv
<1>b. ex # 0 => ex \in handled
  BY DEF TypeOK
<1> DEFINE Held == pc' \notin Sending \cup {"record"}
<1>c. ASSUME \A l \in trail' \ trail : l.outcome \notin SentOutcomes,
             handled \subseteq handled', Held
      PROVE  Fresh'
  BY <1>a, <1>c DEF Fresh
<1>d. ASSUME trail' = trail, UNCHANGED <<ex, step, handled>>,
             pc \in Sending \/ (pc = "record" /\ outcome = "answered")
      PROVE  Fresh'
  BY <1>a, <1>d DEF Fresh
<1>e. ASSUME NEW i, NEW k, NEW o, o \notin SentOutcomes, NEW err, Write(Line(i, k, o), err)
      PROVE  \A l \in trail' \ trail : l.outcome \notin SentOutcomes
  BY <1>e, LineParts DEF Write
<1>f. ASSUME NEW i, NEW k, NEW o, o \notin SentOutcomes,
             NEW then, WriteOrFail(Line(i, k, o), then)
      PROVE  \A l \in trail' \ trail : l.outcome \notin SentOutcomes
  BY <1>e, <1>f DEF WriteOrFail
<1>g. ASSUME NEW i, NEW k, NEW o, o \notin SentOutcomes, WriteOrDrop(Line(i, k, o))
      PROVE  \A l \in trail' \ trail : l.outcome \notin SentOutcomes
  BY <1>e, <1>g DEF WriteOrDrop
<1>h. /\ "run" \notin SentOutcomes
      /\ "summary" \notin SentOutcomes
      /\ "dry-run" \notin SentOutcomes
      /\ "skipped-aborted" \notin SentOutcomes
      /\ "skipped-risk" \notin SentOutcomes
      /\ "skipped-denied" \notin SentOutcomes
  BY DEF SentOutcomes
<1> USE DEF file
<1>1. CASE WriteHeader
  BY <1>1, <1>c, <1>f, <1>h DEF WriteHeader, WriteOrFail, Sending
<1>2. ASSUME NEW j \in DOMAIN plan, StartExchange(j) PROVE Fresh'
  <2>1. ex' = j /\ handled' = handled \cup {j} /\ trail' = trail /\ j \notin handled
    BY <1>2 DEF StartExchange, IsNext, Pending
  <2>2. \A l \in trail' : l.outcome \in SentOutcomes => l.ex \in handled
    BY <2>1, <1>a DEF Fresh
  <2> QED
    BY <2>1, <2>2 DEF Fresh
<1>3. ASSUME NEW j \in DOMAIN plan, SkipExchange(j) PROVE Fresh'
  <2>1. Refusal(j) \notin SentOutcomes
    BY <1>3 DEF SkipExchange, Refusal, SentOutcomes
  <2>2. \A l \in trail' \ trail : l.outcome \notin SentOutcomes
    BY <1>3, <2>1, <1>g DEF SkipExchange
  <2>3. handled \subseteq handled' /\ Held
    BY <1>3 DEF SkipExchange, Sending
  <2> QED
    BY <2>2, <2>3, <1>c
<1>4. CASE RecordDryRun
  BY <1>4, <1>c, <1>f, <1>h DEF RecordDryRun, WriteOrFail, Sending
<1>5. CASE WriteSummary
  BY <1>5, <1>c, <1>f, <1>h DEF WriteSummary, WriteOrFail, Sending
<1>6. CASE RecordAbandoned
  BY <1>6, <1>c, <1>f, <1>h DEF RecordAbandoned, WriteOrFail, Sending
<1>7. CASE PaceAtOnce
  BY <1>7, <1>d DEF PaceAtOnce, Sending
<1>8. CASE Wake
  BY <1>8, <1>d DEF Wake, Sending
<1>9. CASE PaceCancelled
  <2>1. \A l \in trail' \ trail : l.outcome \notin SentOutcomes
    BY <1>9, <1>g, <1>h DEF PaceCancelled
  <2> QED
    BY <1>9, <2>1, <1>c DEF PaceCancelled, Sending
<1>10. CASE DialBegins
  BY <1>10, <1>d DEF DialBegins, Sending
<1>11. CASE DialSucceeds
  BY <1>11, <1>d DEF DialSucceeds, Sending
<1>12. CASE DialFails \/ Unanswered
  <2>1. trail' = trail /\ handled' = handled /\ pc' = "record" /\ outcome' # "answered"
    BY <1>12 DEF DialFails, Unanswered
  <2> QED
    BY <2>1, <1>a DEF Fresh, Sending
<1>13. CASE SendRequest
  BY <1>13, <1>d DEF SendRequest, Sending
<1>14. CASE Answered
  BY <1>14, <1>d DEF Answered, Sending
<1>15. CASE RecordPacket
  <2>1. trail' \subseteq trail \cup {Line(ex, step, outcome)}
    BY <1>15 DEF RecordPacket, WriteOrFail, Write
  <2>2. ex \in handled /\ UNCHANGED <<ex, handled>>
    BY <1>15, <1>b DEF RecordPacket, TypeOK, Running, Terminal
  <2>3. \A l \in trail' : l.outcome \in SentOutcomes => l.ex \in handled
    BY <2>1, <2>2, <1>a, LineParts DEF Fresh
  <2>4. CASE pc' = "pace"
    <3>1. outcome = "answered" /\ step' = step + 1
      BY <1>15, <2>4, <1>a
      DEF RecordPacket, WriteOrFail, AfterRecord, Failed, Recording, SentOutcomes
    <3>2. step \in Nat /\ step # 0 /\ trail \subseteq Lines
      BY <1>15, <3>1, <1>a DEF RecordPacket, Gates, TypeOK
    <3>3. \A l \in trail : l.outcome \in SentOutcomes /\ l.ex = ex => 0 < l.step /\ l.step < step
      BY <1>15, <3>1, <1>a DEF RecordPacket, Fresh
    <3>4. \A l \in trail : l.step \in Nat
      BY <3>2 DEF Lines
    <3>5. \A l \in trail' : l.outcome \in SentOutcomes /\ l.ex = ex =>
                              0 < l.step /\ l.step < step + 1
      <4> SUFFICES ASSUME NEW l \in trail', l.outcome \in SentOutcomes, l.ex = ex
                   PROVE  0 < l.step /\ l.step < step + 1
        OBVIOUS
      <4>1. CASE l \in trail
        BY <4>1, <3>2, <3>3, <3>4
      <4>2. CASE l = Line(ex, step, outcome)
        <5>1. l.step = step
          BY <4>2, LineParts
        <5> QED
          BY <5>1, <3>2
      <4> QED
        BY <4>1, <4>2, <2>1
    <3> QED
      BY <2>2, <2>3, <3>1, <3>5 DEF Fresh
  <2>5. CASE pc' # "pace"
    <3>1. pc' \in {"judge", "abandon", "failed"}
      BY <1>15, <2>5 DEF RecordPacket, WriteOrFail, AfterRecord
    <3> QED
      BY <2>2, <2>3, <3>1 DEF Fresh, Sending
  <2> QED
    BY <2>4, <2>5
<1>16. CASE Judge
  BY <1>16, <1>c DEF Judge, Sending
<1>17. CASE ReplyBegins \/ Interrupt \/ Tick \/ UNCHANGED vars
  <2>1. UNCHANGED <<trail, handled, pc, ex, step, outcome>>
    BY <1>17 DEF ReplyBegins, Interrupt, Tick, vars
  <2> QED
    BY <2>1, <1>a DEF Fresh
<1>18. CASE Kill
  BY <1>18, <1>c DEF Kill, Sending
<1> QED
  BY <1>1, <1>2, <1>3, <1>4, <1>5, <1>6, <1>7, <1>8, <1>9, <1>10, <1>11, <1>12, <1>13, <1>14,
     <1>15, <1>16, <1>17, <1>18
  DEF Next, EngineStep

(* A reply never replaces what the inventory brought. *)
LEMMA RemembersStep ==
  ASSUME TypeOK, IInv, [Next]_vars
  PROVE  Remembers'
<1>a. Remembers
  BY DEF IInv
<1>b. prior' = prior
  BY InputFixed
<1>1. CASE Answered
  <2>1. PICK F \in Disclosures :
          known' = [known EXCEPT ![plan[ex].host] =
                      Merge(known[plan[ex].host], Told(Device[plan[ex].host], F))]
    BY <1>1 DEF Answered
  <2> SUFFICES ASSUME NEW h \in Hosts, NEW f \in Fields, prior[h][f] # None
               PROVE  known'[h][f] = prior[h][f]
    BY <1>b DEF Remembers
  <2>2. known[h][f] = prior[h][f]
    BY <1>a DEF Remembers
  <2>3. known \in [Hosts -> Identity]
    BY DEF TypeOK
  <2>4. CASE h = plan[ex].host
    BY <2>1, <2>2, <2>3, <2>4 DEF Merge
  <2>5. CASE h # plan[ex].host
    BY <2>1, <2>2, <2>3, <2>5
  <2> QED
    BY <2>4, <2>5
<1>2. CASE known' = known
  BY <1>2, <1>a, <1>b DEF Remembers
<1>3. CASE WriteHeader \/ RecordDryRun \/ WriteSummary \/ RecordPacket \/ RecordAbandoned
  BY <1>2, <1>3 DEF WriteHeader, RecordDryRun, WriteSummary, RecordPacket, RecordAbandoned
<1>4. CASE \E j \in DOMAIN plan : StartExchange(j) \/ SkipExchange(j)
  BY <1>2, <1>4 DEF StartExchange, SkipExchange
<1>5. CASE \/ PaceAtOnce \/ Wake \/ PaceCancelled \/ DialBegins \/ DialSucceeds
           \/ DialFails \/ SendRequest \/ Unanswered \/ Judge
  BY <1>2, <1>5 DEF PaceAtOnce, Wake, PaceCancelled, DialBegins, DialSucceeds, DialFails,
                    SendRequest, Unanswered, Judge
<1>6. CASE ReplyBegins \/ Interrupt \/ Kill \/ Tick \/ UNCHANGED vars
  BY <1>2, <1>6 DEF ReplyBegins, Interrupt, Kill, Tick, vars
<1> QED
  BY <1>1, <1>3, <1>4, <1>5, <1>6 DEF Next, EngineStep
-----------------------------------------------------------------------------
(* One more packet raises the number of failures the threshold allows. *)
LEMMA Allowance ==
  ASSUME NEW s \in Int
  PROVE  RateNum * s <= RateNum * (s + 1)
<1>1. RateNum \in Nat
  BY PolicyAssumption
<1>2. RateNum * (s + 1) = RateNum * s + RateNum
  BY <1>1
<1>3. RateNum * s \in Int
  BY <1>1
<1> QED
  BY <1>1, <1>2, <1>3

(* A failure counts once as sent and once as failed. *)
LEMMA CountFailure ==
  ASSUME TypeOK, result' = [result EXCEPT !.sent = @ + 1, !.failed = @ + 1]
  PROVE  /\ result'.sent = result.sent + 1
         /\ result'.failed = result.failed + 1
         /\ result'.answered = result.answered
  BY DEF TypeOK, Counts

(* An answer counts once as sent and once as answered. *)
LEMMA CountAnswer ==
  ASSUME TypeOK, result' = [result EXCEPT !.sent = @ + 1, !.answered = @ + 1]
  PROVE  /\ result'.sent = result.sent + 1
         /\ result'.failed = result.failed
         /\ result'.answered = result.answered + 1
  BY DEF TypeOK, Counts

(* The other counters do not touch these three. *)
LEMMA CountOther ==
  ASSUME TypeOK,
         \/ result' = result
         \/ result' = [result EXCEPT !.attempted = @ + 1]
         \/ result' = [result EXCEPT !.skipped = @ + 1]
         \/ result' = [result EXCEPT !.attempted = @ + 1, !.skipped = @ + 1]
  PROVE  /\ result'.sent = result.sent
         /\ result'.failed = result.failed
         /\ result'.answered = result.answered
  BY DEF TypeOK, Counts

(* Whenever a packet may leave, one more failure is affordable; so the last *)
(* failure is the only one that can exceed the budget.                      *)
LEMMA BudgetStep ==
  ASSUME TypeOK, IInv, [Next]_vars
  PROVE  Budget'
<1>a. Budget /\ Gates /\ Recording
  BY DEF IInv
<1>b. /\ result.sent \in Nat /\ result.failed \in Nat /\ result.answered \in Nat
      /\ MinAttempts \in Nat /\ RateNum \in Nat /\ RateDen \in Nat /\ MinAttempts # 0
      /\ 5 * RateNum <= RateDen
  BY PolicyAssumption DEF TypeOK, Counts
<1> DEFINE SameCounts == /\ result'.sent = result.sent
                         /\ result'.failed = result.failed
                         /\ result'.answered = result.answered
           Loose == pc \in Sending \cup {"header", "next", "dryrun"}
                    \/ (pc = "record" /\ outcome = "answered")
<1>c. ASSUME SameCounts PROVE FailuresBounded' /\ (Slack' <=> Slack)
                             /\ result'.sent = result'.answered + result'.failed
  BY <1>a, <1>c DEF Budget, FailuresBounded, Slack
<1>d. ASSUME SameCounts, pc' \notin Sending \cup {"header", "next", "dryrun", "record"}
      PROVE  Budget'
  BY <1>c, <1>d DEF Budget
<1>e. ASSUME SameCounts, Loose, Aborted => Aborted' PROVE Budget'
  BY <1>a, <1>c, <1>e DEF Budget
<1>f. Aborted => Aborted'
  BY GivenUpForGood
<1>g. ASSUME result'.sent = result.sent + 1, result'.failed = result.failed + 1,
             result'.answered = result.answered, Slack, pc' = "record", outcome' # "answered"
      PROVE  Budget'
  <2>1. result'.sent = result'.answered + result'.failed
    BY <1>a, <1>b, <1>g DEF Budget
  <2>2. FailuresBounded'
    <3>1. CASE result.failed < MinAttempts
      BY <1>b, <1>g, <3>1 DEF FailuresBounded
    <3>2. CASE result.failed * RateDen <= RateNum * result.sent
      <4>1. result'.failed - 1 = result.failed /\ result'.sent - 1 = result.sent
        BY <1>b, <1>g
      <4> QED
        BY <3>2, <4>1 DEF FailuresBounded
    <3> QED
      BY <1>g, <3>1, <3>2 DEF Slack
  <2> QED
    BY <1>g, <2>1, <2>2 DEF Budget, Sending
<1>1. CASE WriteHeader \/ WriteSummary
  <2>1. SameCounts
    BY <1>1 DEF WriteHeader, WriteSummary
  <2>2. Loose
    BY <1>1 DEF WriteHeader, WriteSummary
  <2> QED
    BY <2>1, <2>2, <1>e, <1>f
<1>2. ASSUME NEW j \in DOMAIN plan, StartExchange(j) PROVE Budget'
  <2>1. SameCounts
    BY <1>2, CountOther DEF StartExchange
  <2>2. Loose
    BY <1>2 DEF StartExchange
  <2> QED
    BY <2>1, <2>2, <1>e, <1>f
<1>3. ASSUME NEW j \in DOMAIN plan, SkipExchange(j) PROVE Budget'
  <2>1. SameCounts
    BY <1>3, CountOther DEF SkipExchange
  <2>2. Loose
    BY <1>3 DEF SkipExchange
  <2> QED
    BY <2>1, <2>2, <1>e, <1>f
<1>4. CASE RecordDryRun
  <2>1. SameCounts
    BY <1>4, CountOther DEF RecordDryRun
  <2>2. Loose
    BY <1>4 DEF RecordDryRun
  <2> QED
    BY <2>1, <2>2, <1>e, <1>f
<1>5. CASE PaceAtOnce \/ Wake
  <2>1. SameCounts
    BY <1>5 DEF PaceAtOnce, Wake
  <2>2. Loose
    BY <1>5 DEF PaceAtOnce, Wake, Sending
  <2> QED
    BY <2>1, <2>2, <1>e, <1>f
<1>6. CASE PaceCancelled
  <2>1. SameCounts
    BY <1>6, CountOther DEF PaceCancelled
  <2>2. Loose
    BY <1>6 DEF PaceCancelled, Sending
  <2> QED
    BY <2>1, <2>2, <1>e, <1>f
<1>7. CASE DialBegins \/ DialSucceeds \/ SendRequest
  <2>1. SameCounts
    BY <1>7 DEF DialBegins, DialSucceeds, SendRequest
  <2>2. Loose
    BY <1>7 DEF DialBegins, DialSucceeds, SendRequest, Sending
  <2> QED
    BY <2>1, <2>2, <1>e, <1>f
<1>8. CASE DialFails \/ Unanswered
  <2>1. ~ Aborted
    BY <1>8, <1>a DEF DialFails, Unanswered, Gates, Sending
  <2>2. Slack
    BY <1>8, <1>a, <2>1 DEF DialFails, Unanswered, Budget, Sending
  <2>3. pc' = "record" /\ outcome' # "answered"
    BY <1>8 DEF DialFails, Unanswered
  <2>4. /\ result'.sent = result.sent + 1
        /\ result'.failed = result.failed + 1
        /\ result'.answered = result.answered
    BY <1>8, CountFailure DEF DialFails, Unanswered
  <2> QED
    BY <2>2, <2>3, <2>4, <1>g
<1>9. CASE Answered
  <2>1. ~ Aborted
    BY <1>9, <1>a DEF Answered, Gates, Sending
  <2>2. Slack
    BY <1>9, <1>a, <2>1 DEF Answered, Budget, Sending
  <2>3. /\ result'.sent = result.sent + 1
        /\ result'.failed = result.failed
        /\ result'.answered = result.answered + 1
    BY <1>9, CountAnswer DEF Answered
  <2>4. result'.sent = result'.answered + result'.failed
    BY <1>a, <1>b, <2>3 DEF Budget
  <2>5. Slack'
    <3>1. RateNum * result.sent <= RateNum * (result.sent + 1)
      BY <1>b, Allowance
    <3>2. /\ RateNum * result.sent \in Nat
          /\ RateNum * (result.sent + 1) \in Nat
          /\ result.failed * RateDen \in Nat
      BY <1>b
    <3> QED
      BY <2>2, <2>3, <3>1, <3>2 DEF Slack
  <2>6. FailuresBounded'
    <3>1. CASE result.failed < MinAttempts
      BY <1>b, <2>3, <3>1 DEF FailuresBounded
    <3>2. CASE result.failed * RateDen <= RateNum * result.sent
      <4>1. (result.failed - 1) * RateDen = result.failed * RateDen - RateDen
        BY <1>b
      <4>2. result.failed * RateDen \in Nat /\ RateNum * result.sent \in Nat
        BY <1>b
      <4>3. (result.failed - 1) * RateDen <= RateNum * result.sent
        BY <1>b, <3>2, <4>1, <4>2
      <4>4. result'.sent - 1 = result.sent
        BY <1>b, <2>3
      <4> QED
        BY <2>3, <4>3, <4>4 DEF FailuresBounded
    <3> QED
      BY <2>2, <3>1, <3>2 DEF Slack
  <2> QED
    BY <2>4, <2>5, <2>6 DEF Budget
<1>10. CASE RecordPacket
  <2>1. SameCounts
    BY <1>10 DEF RecordPacket
  <2>2. CASE outcome = "answered"
    <3>1. Loose
      BY <1>10, <2>2 DEF RecordPacket
    <3> QED
      BY <2>1, <3>1, <1>e, <1>f
  <2>3. CASE outcome # "answered"
    <3>1. Failed(outcome)
      BY <1>10, <2>3, <1>a DEF RecordPacket, Recording, SentOutcomes, Failed
    <3>2. pc' \in {"judge", "abandon", "failed"}
      BY <1>10, <3>1 DEF RecordPacket, WriteOrFail, AfterRecord
    <3>3. pc' \notin Sending \cup {"header", "next", "dryrun", "record"}
      BY <3>2 DEF Sending
    <3> QED
      BY <2>1, <3>3, <1>d
  <2> QED
    BY <2>2, <2>3
<1>11. CASE RecordAbandoned \/ Kill
  <2>1. SameCounts
    BY <1>11 DEF RecordAbandoned, Kill
  <2>2. pc' \in {"judge", "abandon", "failed", "killed"}
    BY <1>11 DEF RecordAbandoned, WriteOrFail, Kill
  <2>3. pc' \notin Sending \cup {"header", "next", "dryrun", "record"}
    BY <2>2 DEF Sending
  <2> QED
    BY <2>1, <2>3, <1>d
<1>12. CASE Judge
  <2>1. SameCounts
    BY <1>12 DEF Judge
  <2>2. CASE ShouldAbort
    <3>1. Aborted'
      BY <1>12, <2>2 DEF Judge, Aborted
    <3> QED
      BY <2>1, <3>1, <1>c DEF Budget
  <2>3. CASE ~ ShouldAbort
    <3>1. result.failed * RateDen \in Nat /\ RateNum * result.sent \in Nat
      BY <1>b
    <3>2. result.failed <= result.sent
      BY <1>a, <1>b DEF Budget
    <3>3. Slack
      BY <1>b, <2>3, <3>1, <3>2 DEF ShouldAbort, Slack
    <3> QED
      BY <2>1, <3>3, <1>c DEF Budget
  <2> QED
    BY <2>2, <2>3
<1>13. CASE ReplyBegins \/ Interrupt \/ Tick \/ UNCHANGED vars
  <2>1. UNCHANGED <<result, pc, outcome, reason>>
    BY <1>13 DEF ReplyBegins, Interrupt, Tick, vars
  <2>2. SameCounts
    BY <2>1
  <2>3. CASE Loose
    BY <2>2, <2>3, <1>e, <1>f
  <2>4. CASE ~ Loose
    BY <2>1, <2>2, <2>4, <1>c DEF Budget
  <2> QED
    BY <2>3, <2>4
<1> QED
  BY <1>1, <1>2, <1>3, <1>4, <1>5, <1>6, <1>7, <1>8, <1>9, <1>10, <1>11, <1>12, <1>13
  DEF Next, EngineStep

-----------------------------------------------------------------------------
(* What is typed and invariant stays so. *)
LEMMA InvariantStep == TypeOK /\ IInv /\ [Next]_vars => IInv'
  BY FilingStep, RecordingStep, GatesStep, FreshStep, RemembersStep, BudgetStep DEF IInv

(* Every reachable state is typed and satisfies the inductive invariant. *)
THEOREM Invariance == Spec => [](TypeOK /\ IInv)
<1>1. Init => TypeOK /\ IInv
  BY InitType, InvariantInit
<1>2. TypeOK /\ IInv /\ [Next]_vars => (TypeOK /\ IInv)'
  BY StepType, InvariantStep
<1> QED
  BY <1>1, <1>2, PTL DEF Spec

(* Whenever the process dies, at most one packet that left is missing from *)
(* the audit file.                                                         *)
THEOREM NothingElseUnfiled == Spec => []AtMostOneUnfiled
<1>1. IInv => AtMostOneUnfiled
  BY DEF IInv, Filing, AtMostOneUnfiled
<1> QED
  BY <1>1, Invariance, PTL

(* A segment that stops answering is left alone within the failure budget *)
(* of the policy.                                                         *)
THEOREM FailuresStayBounded == Spec => []FailuresBounded
<1>1. IInv => FailuresBounded
  BY DEF IInv, Budget
<1> QED
  BY <1>1, Invariance, PTL

-----------------------------------------------------------------------------
(* The sending loop implements AccountableRun: every step of the engine is  *)
(* a send, a filing, a stop, or nothing at all to an outsider who sees the  *)
(* wire and the audit file.                                                 *)

(* A line that is not of a packet files nothing. *)
LEMMA FilesNothing ==
  ASSUME trail \subseteq trail',
         \A l \in trail' \ trail : l.outcome \notin SentOutcomes
  PROVE  \A p : Filed(p)' <=> Filed(p)
<1>1. \A i, k, o : Line(i, k, o).outcome = o
  BY LineParts
<1>2. "unreachable" \in SentOutcomes
  BY DEF SentOutcomes
<1> QED
  BY <1>1, <1>2 DEF Filed

(* The packets a run may send are fixed when it starts. *)
LEMMA PermittedFixed ==
  ASSUME UNCHANGED <<plan, prior, dryRun>>
  PROVE  Permitted' = Permitted
  BY AskedFixed DEF Permitted

(* A packet of an exchange the gates let through is permitted. *)
LEMMA PermittedPacket ==
  ASSUME TypeOK, ex # 0, MayBeAsked(ex), NEW k \in Nat, k # 0, k <= plan[ex].steps
  PROVE  <<ex, k>> \in Permitted
<1>1. ex \in DOMAIN plan /\ plan[ex].steps \in Nat
  BY DomainType
<1>2. k \in 1 .. plan[ex].steps
  BY <1>1
<1> QED
  BY <1>1, <1>2 DEF Permitted

(* A packet about to leave is not on file yet. *)
LEMMA NotYetFiled ==
  ASSUME TypeOK, Fresh, pc \in Sending, step # 0
  PROVE  ~ Filed(<<ex, step>>)
<1>1. \A l \in trail : l.outcome \in SentOutcomes /\ l.ex = ex => 0 < l.step /\ l.step < step
  BY DEF Fresh
<1>2. step \in Nat
  BY DEF TypeOK
<1>3. \A o \in SentOutcomes : Line(ex, step, o) \notin trail
  <2> SUFFICES ASSUME NEW o \in SentOutcomes, Line(ex, step, o) \in trail PROVE FALSE
    OBVIOUS
  <2>1. step < step
    BY <1>1, LineParts
  <2> QED
    BY <2>1, <1>2
<1>4. Line(ex, 0, "unreachable") \notin trail
  <2> SUFFICES ASSUME Line(ex, 0, "unreachable") \in trail PROVE FALSE
    OBVIOUS
  <2>1. 0 < 0
    BY <1>1, LineParts DEF SentOutcomes
  <2> QED
    BY <2>1
<1> QED
  BY <1>3, <1>4 DEF Filed

(* A step that touches neither the wire nor the lines of packets is a stop *)
(* or nothing.                                                             *)
LEMMA Unseen ==
  ASSUME [Next]_vars, wire' = wire, \A p \in wire : Filed(p)' <=> Filed(p)
  PROVE  [Promise!Next]_(Promise!vars)
<1>1. Permitted' = Permitted
  BY InputFixed, PermittedFixed
<1>2. {p \in wire : Filed(p)}' = {p \in wire : Filed(p)}
  OBVIOUS
<1>3. (Aborted \/ pc \in Terminal) => (Aborted \/ pc \in Terminal)'
  BY GivenUpForGood
<1>4. CASE (Aborted \/ pc \in Terminal)' = (Aborted \/ pc \in Terminal)
  BY <1>1, <1>2, <1>4 DEF Promise!vars
<1>5. CASE (Aborted \/ pc \in Terminal)'
  <2>1. Promise!Stop
    BY <1>1, <1>2, <1>5 DEF Promise!Stop
  <2> QED
    BY <2>1 DEF Promise!Next
<1> QED
  BY <1>3, <1>4, <1>5

(* A packet leaves: it was permitted, nothing before it is missing from the *)
(* file, and the run has not given up.                                      *)
LEMMA PacketLeaves ==
  ASSUME TypeOK, IInv, [Next]_vars, pc \in Sending, step # 0, ex # 0,
         trail' = trail, UNCHANGED reason, pc' \notin Terminal,
         wire' = wire \cup {<<ex, step>>}
  PROVE  [Promise!Next]_(Promise!vars)
<1> DEFINE p == <<ex, step>>
<1>a. Filing /\ Gates /\ Fresh
  BY DEF IInv
<1>b. \A q : Filed(q)' <=> Filed(q)
  BY DEF Filed
<1>1. CASE p \in wire
  BY <1>1, <1>b, Unseen
<1>2. CASE p \notin wire
  <2>1. Permitted' = Permitted
    BY InputFixed, PermittedFixed
  <2>2. p \in Permitted
    BY <1>a, PermittedPacket DEF Gates, TypeOK
  <2>3. ~ Filed(p)
    BY <1>a, NotYetFiled
  <2>4. \A q \in wire : Filed(q)
    BY <1>2, <1>a DEF Filing, Current
  <2>5. {q \in wire : Filed(q)} = wire
    BY <2>4
  <2>6. {q \in wire : Filed(q)}' = {q \in wire : Filed(q)}
    BY <1>b, <2>3
  <2>7. ~ (Aborted \/ pc \in Terminal) /\ ~ (Aborted \/ pc \in Terminal)'
    BY <1>a DEF Gates, Sending, Terminal, Aborted
  <2>8. Promise!Send(p)
    BY <1>2, <2>1, <2>2, <2>5, <2>6, <2>7 DEF Promise!Send
  <2> QED
    BY <2>2, <2>8 DEF Promise!Next
<1> QED
  BY <1>1, <1>2

(* The record of a packet files that packet or, when the write fails before *)
(* anything reached the file, nothing.                                      *)
LEMMA Recorded ==
  ASSUME TypeOK, IInv, RecordPacket, [Next]_vars
  PROVE  [Promise!Next]_(Promise!vars)
<1>a. Recording /\ pc = "record"
  BY DEF IInv, RecordPacket
<1>b. wire' = wire /\ trail \subseteq trail' /\ trail' \subseteq trail \cup {Line(ex, step, outcome)}
  BY DEF RecordPacket, WriteOrFail, Write, network
<1>c. \A p : Filed(p) => Filed(p)'
  BY <1>b, FiledStable
<1>1. \A p \in wire : Filed(p)' /\ ~ Filed(p) => p = Current
  <2> SUFFICES ASSUME NEW p \in wire, Filed(p)', ~ Filed(p) PROVE p = Current
    OBVIOUS
  <2>1. p = <<p[1], p[2]>>
    BY DEF TypeOK
  <2>2. \/ \E o \in SentOutcomes : Line(p[1], p[2], o) = Line(ex, step, outcome)
        \/ p[2] = 1 /\ Line(p[1], 0, "unreachable") = Line(ex, step, outcome)
    BY <1>b DEF Filed
  <2>3. \/ p[1] = ex /\ p[2] = step
        \/ p[2] = 1 /\ p[1] = ex /\ step = 0
    BY <2>2 DEF Line
  <2>4. p[2] = step => step # 0
    <3> SUFFICES ASSUME p[2] = step, step = 0 PROVE FALSE
      OBVIOUS
    <3>1. p[1] = ex /\ p[2] = 0
      BY <2>3
    <3>2. p \in wire /\ ~ Filed(p) /\ Filing
      BY DEF IInv
    <3>3. p = Current
      BY <3>2 DEF Filing
    <3> QED
      BY <3>1, <3>3 DEF Current
  <2> QED
    BY <2>1, <2>3, <2>4 DEF Current
<1>2. CASE \A p \in wire : Filed(p)' <=> Filed(p)
  BY <1>2, <1>b, Unseen
<1>3. CASE \E p \in wire : Filed(p)' /\ ~ Filed(p)
  <2>1. PICK p \in wire : Filed(p)' /\ ~ Filed(p)
    BY <1>3
  <2>2. p = Current
    BY <2>1, <1>1
  <2>3. {q \in wire : Filed(q)}' = {q \in wire : Filed(q)} \cup {p}
    BY <2>1, <2>2, <1>1, <1>b, <1>c
  <2>4. Permitted' = Permitted
    BY InputFixed, PermittedFixed
  <2>5. (Aborted \/ pc \in Terminal) => (Aborted \/ pc \in Terminal)'
    BY GivenUpForGood
  <2>6. (Aborted \/ pc \in Terminal)' \in {(Aborted \/ pc \in Terminal), TRUE}
    BY <2>5
  <2>7. Promise!File(p)
    BY <2>1, <2>3, <2>4, <2>6, <1>b DEF Promise!File
  <2> QED
    BY <2>1, <2>7 DEF Promise!Next
<1> QED
  BY <1>2, <1>3, <1>c
(* Every step of the engine is a step of the promise, or a stutter. *)
LEMMA StepKeepsPromise ==
  ASSUME TypeOK, IInv, [Next]_vars
  PROVE  [Promise!Next]_(Promise!vars)
<1> USE DEF network, file
<1>a. Gates /\ trail \subseteq trail'
  BY TrailGrows DEF IInv
<1>b. ASSUME wire' = wire, trail' = trail PROVE [Promise!Next]_(Promise!vars)
  BY <1>b, Unseen DEF Filed
<1>c. ASSUME wire' = wire, \A l \in trail' \ trail : l.outcome \notin SentOutcomes
      PROVE  [Promise!Next]_(Promise!vars)
  BY <1>a, <1>c, FilesNothing, Unseen
<1>d. ASSUME NEW i, NEW k, NEW o, o \notin SentOutcomes, NEW err, Write(Line(i, k, o), err)
      PROVE  \A l \in trail' \ trail : l.outcome \notin SentOutcomes
  BY <1>d, LineParts DEF Write
<1>e. ASSUME NEW i, NEW k, NEW o, o \notin SentOutcomes,
             NEW then, WriteOrFail(Line(i, k, o), then)
      PROVE  \A l \in trail' \ trail : l.outcome \notin SentOutcomes
  BY <1>d, <1>e DEF WriteOrFail
<1>f. ASSUME NEW i, NEW k, NEW o, o \notin SentOutcomes, WriteOrDrop(Line(i, k, o))
      PROVE  \A l \in trail' \ trail : l.outcome \notin SentOutcomes
  BY <1>d, <1>f DEF WriteOrDrop
<1>g. /\ "run" \notin SentOutcomes
      /\ "summary" \notin SentOutcomes
      /\ "dry-run" \notin SentOutcomes
      /\ "skipped-aborted" \notin SentOutcomes
  BY DEF SentOutcomes
<1>1. CASE WriteHeader
  BY <1>1, <1>c, <1>e, <1>g DEF WriteHeader
<1>2. ASSUME NEW j \in DOMAIN plan, SkipExchange(j) PROVE [Promise!Next]_(Promise!vars)
  <2>1. Refusal(j) \notin SentOutcomes
    BY <1>2 DEF SkipExchange, Refusal, SentOutcomes
  <2> QED
    BY <1>2, <2>1, <1>c, <1>f DEF SkipExchange
<1>3. CASE RecordDryRun
  BY <1>3, <1>c, <1>e, <1>g DEF RecordDryRun
<1>4. CASE WriteSummary
  BY <1>4, <1>c, <1>e, <1>g DEF WriteSummary
<1>5. CASE PaceCancelled
  <2>1. \A l \in trail' \ trail : l.outcome \notin SentOutcomes
    BY <1>5, <1>f, <1>g DEF PaceCancelled
  <2> QED
    BY <1>5, <2>1, <1>c DEF PaceCancelled
<1>6. CASE RecordAbandoned
  BY <1>6, <1>c, <1>e, <1>g DEF RecordAbandoned
<1>7. CASE RecordPacket
  BY <1>7, Recorded
<1>8. CASE DialBegins
  <2>1. step = 1 /\ ex # 0 /\ pc \in Sending
    BY <1>8, <1>a DEF DialBegins, Gates, Sending, TypeOK, Running, Terminal
  <2>2. CASE plan[ex].transport = "tcp"
    <3>1. trail' = trail /\ UNCHANGED reason /\ pc' \notin Terminal
          /\ wire' = wire \cup {<<ex, step>>}
      BY <1>8, <2>1, <2>2 DEF DialBegins, Leaves, Terminal
    <3> QED
      BY <2>1, <3>1, PacketLeaves
  <2>3. CASE plan[ex].transport # "tcp"
    BY <1>8, <2>3, <1>b DEF DialBegins
  <2> QED
    BY <2>2, <2>3
<1>9. CASE SendRequest
  <2>1. step # 0 /\ ex # 0 /\ pc \in Sending
    BY <1>9, <1>a DEF SendRequest, Gates, Sending, TypeOK, Running, Terminal
  <2>2. trail' = trail /\ UNCHANGED reason /\ pc' \notin Terminal
        /\ wire' = wire \cup {<<ex, step>>}
    BY <1>9 DEF SendRequest, Leaves, Terminal
  <2> QED
    BY <2>1, <2>2, PacketLeaves
<1>10. CASE \/ \E j \in DOMAIN plan : StartExchange(j)
            \/ PaceAtOnce \/ Wake \/ DialSucceeds \/ DialFails
  BY <1>10, <1>b DEF StartExchange, PaceAtOnce, Wake, DialSucceeds, DialFails
<1>11. CASE Answered \/ Unanswered \/ Judge
  BY <1>11, <1>b DEF Answered, Unanswered, Judge
<1>12. CASE ReplyBegins \/ Interrupt \/ Kill \/ Tick \/ UNCHANGED vars
  BY <1>12, <1>b DEF ReplyBegins, Interrupt, Kill, Tick, vars
<1> QED
  BY <1>1, <1>2, <1>3, <1>4, <1>5, <1>6, <1>7, <1>8, <1>9, <1>10, <1>11, <1>12
  DEF Next, EngineStep

(* The engine keeps what AccountableRun promises: permitted packets only, *)
(* each on file before the next, none after the run gave up.              *)
THEOREM EngineKeepsPromise == Spec => KeepsPromise
<1>1. Init => Promise!Init
  BY DEF Init, Promise!Init, Aborted, Terminal
<1>2. TypeOK /\ IInv /\ [Next]_vars => [Promise!Next]_(Promise!vars)
  BY StepKeepsPromise
<1> QED
  BY <1>1, <1>2, Invariance, PTL DEF Spec, Promise!Spec, KeepsPromise
-----------------------------------------------------------------------------

(* The packets an interrupt did not stop are of the exchange under way, and *)
(* where one more is about to leave, a timer has outrun the interrupt for   *)
(* each of them.                                                            *)
LateInv ==
  /\ IsFiniteSet(late)
  /\ Cardinality(late) <= 1 + raced
  /\ late # {} => /\ cancelled
                  /\ pc \in {"dial", "dialing", "request"} => Cardinality(late) <= raced
  /\ \A p, q \in late : p[1] = q[1]
  /\ pc \in Running => \A p \in late : p[1] = ex

(* Between two packets the engine's clock is never ahead of the wire's, and *)
(* where a packet is about to leave, either the interval has passed or the  *)
(* packet is the first request of a dial that left already.                 *)
Spacing ==
  /\ pc \notin {"dialing", "request", "awaiting"} \cup Terminal => quiet >= since
  /\ pc = "dial" => since = Interval
  /\ pc = "request" /\ step # 1 => quiet = Interval
  /\ pc = "dialing" \/ (pc = "request" /\ step = 1) =>
       IF plan[ex].transport = "tcp" THEN <<ex, 1>> \in wire ELSE quiet = Interval

(* The exchanges of a host are taken in the order of the plan. *)
Ordered ==
  /\ \A i \in handled, j \in Pending : SameHost(i, j) => i < j
  /\ \A i \in handled : ex # 0 /\ SameHost(i, ex) => i <= ex

(* What is known of a host is what the inventory brought and, where that is *)
(* silent, what the host has told.                                          *)
Learned ==
  /\ \A r \in replies : r.ex \in handled
  /\ \A h \in Hosts : known[h] = Merge(prior[h], Heard(h, handled))

(* What was asked, and what is being asked, was not denied by then. *)
LeftAlone ==
  /\ \A p \in wire : p[1] \in handled
  /\ RecognisedIsLeftAlone
  /\ pc \in Sending \cup {"record"} => ~ Denied(Rules, Believed(ex), plan[ex])

SummaryLine == Line(0, 0, "summary")

(* The summary is the last thing a run writes. *)
Closed == SummaryLine \in trail => pc \in {"returned", "failed"}

(* The file accounts for the exchanges before this one, and of this one for *)
(* the steps before this.                                                   *)
Shown ==
  /\ \A i \in handled \ {ex} : \A k \in 1 .. plan[i].steps : Accounted(i, k)
  /\ ex # 0 => \A k \in 1 .. plan[ex].steps :
                 pc \in {"header", "next", "judge"} \/ k < step => Accounted(ex, k)

(* As long as nothing was lost and nobody interfered. *)
Accounting ==
  /\ disk = "ok" /\ ~ cancelled /\ pc \notin Terminal => Shown
  /\ UninterruptedAccountedFor

(* A line that shows its exchange as skipped, or as run dry, and those      *)
(* exchanges.                                                               *)
ShowsSkip(l) == l.outcome = "dry-run" \/ (l.outcome \in SkipOutcomes /\ l.step = 0)

Skipped == {l.ex : l \in {m \in trail : ShowsSkip(m)}}

(* A line is written once. *)
Once ==
  /\ IsFiniteSet(trail)
  /\ pc = "record" => \A l \in trail : l.outcome \in SentOutcomes /\ l.ex = ex => l.step # step
  /\ Skipped \subseteq handled
  /\ pc \in Sending \cup {"record"} => ex \notin Skipped
  /\ pc = "abandon" => step # 0

(* The three kinds of line the counters of packets are about. *)
Answers == LinesOf({"answered"})
Failures == LinesOf({"no-answer", "unreachable"})
Sent == LinesOf(SentOutcomes)

(* The counters follow the lines of packets, one packet ahead while it is   *)
(* still to be recorded.                                                    *)
PacketsCounted ==
  /\ result.sent = Cardinality(Sent) + (IF pc = "record" THEN 1 ELSE 0)
  /\ result.answered = Cardinality(Answers) + (IF pc = "record" /\ outcome = "answered" THEN 1 ELSE 0)
  /\ result.failed = Cardinality(Failures) + (IF pc = "record" /\ outcome # "answered" THEN 1 ELSE 0)

(* And those of exchanges; one that is run dry is skipped at its last line. *)
ExchangesCounted ==
  /\ result.attempted = Cardinality(handled)
  /\ result.skipped = Cardinality(IF pc = "dryrun" THEN Skipped \ {ex} ELSE Skipped)

(* While nothing was lost the counters are those of the file. *)
Agreement ==
  /\ disk = "ok" /\ pc \notin Terminal => PacketsCounted /\ ExchangesCounted
  /\ SummaryAgrees
-----------------------------------------------------------------------------
(* Nothing moves once the run is over.                                      *)
LEMMA OverIsOver ==
  ASSUME pc \in Terminal, [Next]_vars
  PROVE  UNCHANGED vars
<1> USE DEF Terminal
<1>1. ~ (WriteHeader \/ RecordDryRun \/ WriteSummary \/ RecordPacket \/ RecordAbandoned)
  BY DEF WriteHeader, RecordDryRun, WriteSummary, RecordPacket, RecordAbandoned
<1>2. ~ ((\E j \in DOMAIN plan : StartExchange(j) \/ SkipExchange(j)) \/ PaceCancelled \/ Judge)
  BY DEF StartExchange, SkipExchange, PaceCancelled, Judge
<1>3. ~ (PaceAtOnce \/ Wake \/ DialBegins \/ DialSucceeds \/ DialFails)
  BY DEF PaceAtOnce, Wake, DialBegins, DialSucceeds, DialFails
<1>4. ~ (SendRequest \/ Answered \/ Unanswered \/ ReplyBegins \/ Interrupt \/ Kill \/ Tick)
  BY DEF SendRequest, Answered, Unanswered, ReplyBegins, Interrupt, Kill, Tick
<1> QED
  BY <1>1, <1>2, <1>3, <1>4 DEF Next, EngineStep

(* The actions that put nothing on the wire. *)
Silent ==
  \/ WriteHeader \/ RecordDryRun \/ WriteSummary \/ RecordPacket \/ RecordAbandoned
  \/ \E j \in DOMAIN plan : StartExchange(j) \/ SkipExchange(j)
  \/ PaceAtOnce \/ Wake \/ PaceCancelled \/ DialSucceeds \/ DialFails
  \/ Answered \/ Unanswered \/ Judge \/ ReplyBegins \/ Interrupt \/ Kill \/ Tick \/ UNCHANGED vars

(* A step sends nothing, or is one of the two that do.                      *)
LEMMA SilentOrSends ==
  ASSUME [Next]_vars
  PROVE  /\ Silent \/ DialBegins \/ SendRequest
         /\ Silent => UNCHANGED <<wire, late>>
<1>1. Silent \/ DialBegins \/ SendRequest
  BY DEF Next, EngineStep, Silent
<1> SUFFICES ASSUME Silent PROVE UNCHANGED <<wire, late>>
  BY <1>1
<1> USE DEF network
<1>2. CASE WriteHeader \/ RecordDryRun \/ WriteSummary \/ RecordPacket \/ RecordAbandoned
  BY <1>2 DEF WriteHeader, RecordDryRun, WriteSummary, RecordPacket, RecordAbandoned
<1>3. CASE (\E j \in DOMAIN plan : StartExchange(j) \/ SkipExchange(j)) \/ PaceCancelled \/ Judge
  BY <1>3 DEF StartExchange, SkipExchange, PaceCancelled, Judge
<1>4. CASE PaceAtOnce \/ Wake \/ DialSucceeds \/ DialFails \/ Answered \/ Unanswered
  BY <1>4 DEF PaceAtOnce, Wake, DialSucceeds, DialFails, Answered, Unanswered
<1>5. CASE ReplyBegins \/ Interrupt \/ Kill \/ Tick \/ UNCHANGED vars
  BY <1>5 DEF ReplyBegins, Interrupt, Kill, Tick, vars
<1> QED
  BY <1>2, <1>3, <1>4, <1>5 DEF Silent

(* Only a timer that outran the interrupt is counted.                       *)
LEMMA RacedStep ==
  ASSUME [Next]_vars, ~ Wake
  PROVE  raced' = raced
<1> USE DEF timers
<1>1. CASE WriteHeader \/ RecordDryRun \/ WriteSummary \/ RecordPacket \/ RecordAbandoned
  BY <1>1 DEF WriteHeader, RecordDryRun, WriteSummary, RecordPacket, RecordAbandoned
<1>2. CASE (\E j \in DOMAIN plan : StartExchange(j) \/ SkipExchange(j)) \/ PaceCancelled \/ Judge
  BY <1>2 DEF StartExchange, SkipExchange, PaceCancelled, Judge
<1>3. CASE PaceAtOnce \/ DialBegins \/ DialSucceeds \/ DialFails
  BY <1>3 DEF PaceAtOnce, DialBegins, DialSucceeds, DialFails
<1>4. CASE SendRequest \/ ReplyBegins \/ Answered \/ Unanswered
  BY <1>4 DEF SendRequest, ReplyBegins, Answered, Unanswered
<1>5. CASE Interrupt \/ Kill \/ Tick \/ UNCHANGED vars
  BY <1>5 DEF Interrupt, Kill, Tick, vars
<1> QED
  BY <1>1, <1>2, <1>3, <1>4, <1>5 DEF Next, EngineStep

(* Once the operator has interrupted, the loop takes no further exchange,   *)
(* and comes to a further request only by a timer that outran the           *)
(* interrupt.                                                               *)
LEMMA LateStep ==
  ASSUME TypeOK, LateInv, [Next]_vars
  PROVE  LateInv'
<1>a. cancelled \in BOOLEAN /\ raced \in Nat /\ Cardinality(late) \in Nat
  BY FS_CardinalityType DEF TypeOK, LateInv
<1> DEFINE Ready == {"dial", "dialing", "request"}
<1>1. CASE DialBegins
  <2>1. late' = late /\ late = {} /\ raced' = raced
    BY <1>1 DEF DialBegins, Leaves, LateInv, network
  <2> QED
    BY <2>1, <1>a DEF LateInv
<1>2. CASE SendRequest
  <2>1. UNCHANGED <<ex, cancelled, raced>> /\ pc \in Running /\ pc' = "awaiting"
        /\ late' = (IF cancelled THEN late \cup {<<ex, step>>} ELSE late)
    BY <1>2 DEF SendRequest, Leaves, Running, PCs, Terminal
  <2>2. IsFiniteSet(late') /\ Cardinality(late') <= 1 + raced
    <3>1. late = {} => Cardinality(late) = 0
      BY FS_EmptySet
    <3>2. late # {} => Cardinality(late) <= raced
      BY <1>2 DEF SendRequest, LateInv
    <3>3. /\ IsFiniteSet(late \cup {<<ex, step>>})
          /\ Cardinality(late \cup {<<ex, step>>}) <= Cardinality(late) + 1
      <4>1. IsFiniteSet(late)
        BY DEF LateInv
      <4>2. /\ IsFiniteSet(late \cup {<<ex, step>>})
            /\ Cardinality(late \cup {<<ex, step>>}) =
                 IF <<ex, step>> \in late THEN Cardinality(late) ELSE Cardinality(late) + 1
        BY <4>1, FS_AddElement
      <4> QED
        BY <4>2, <1>a
    <3>4. Cardinality(late \cup {<<ex, step>>}) \in Nat
      BY <3>3, FS_CardinalityType
    <3>5. CASE cancelled
      BY <2>1, <3>1, <3>2, <3>3, <3>4, <3>5, <1>a
    <3>6. CASE ~ cancelled
      BY <2>1, <3>6 DEF LateInv
    <3> QED
      BY <3>5, <3>6
  <2>3. \A p \in late' : p[1] = ex
    BY <2>1 DEF LateInv
  <2>4. late' # {} => cancelled
    BY <2>1 DEF LateInv
  <2> QED
    BY <2>1, <2>2, <2>3, <2>4 DEF LateInv
<1>3. CASE Wake
  <2>1. UNCHANGED <<late, ex, cancelled>> /\ pc \in Running
        /\ raced' = (IF cancelled THEN raced + 1 ELSE raced)
    BY <1>3 DEF Wake, network, Running, PCs, Terminal
  <2> QED
    BY <2>1, <1>a DEF LateInv
<1>4. CASE Silent /\ ~ Wake
  <2>1. UNCHANGED <<late, raced>>
    BY <1>4, SilentOrSends, RacedStep
  <2>2. CASE late = {}
    BY <2>1, <2>2 DEF LateInv
  <2>3. CASE late # {}
    <3>1. cancelled
      BY <2>3 DEF LateInv
    <3>2. /\ cancelled'
          /\ pc' \in Ready => pc \in Ready
          /\ pc' \in Running => pc \in Running /\ ex' = ex
      <4> USE DEF Running, PCs, Terminal
      <4>1. CASE WriteHeader \/ RecordDryRun \/ WriteSummary \/ RecordPacket \/ RecordAbandoned
        BY <3>1, <4>1
        DEF WriteHeader, RecordDryRun, WriteSummary, RecordPacket, RecordAbandoned, WriteOrFail,
            AfterRecord
      <4>2. CASE (\E j \in DOMAIN plan : StartExchange(j) \/ SkipExchange(j)) \/ PaceCancelled \/ Judge
        BY <3>1, <4>2 DEF StartExchange, Refusal, SkipExchange, PaceCancelled, Judge
      <4>3. CASE PaceAtOnce \/ DialSucceeds \/ DialFails \/ Answered \/ Unanswered
        BY <3>1, <4>3 DEF PaceAtOnce, DialSucceeds, DialFails, Answered, Unanswered
      <4>4. CASE ReplyBegins \/ Interrupt \/ Kill \/ Tick \/ UNCHANGED vars
        BY <3>1, <4>4 DEF ReplyBegins, Interrupt, Kill, Tick, vars
      <4> QED
        BY <1>4, <4>1, <4>2, <4>3, <4>4 DEF Silent
    <3> QED
      BY <2>1, <2>3, <3>2 DEF LateInv
  <2> QED
    BY <2>2, <2>3
<1> QED
  BY <1>1, <1>2, <1>3, <1>4, SilentOrSends

(* What leaves after the operator's interrupt belongs to one exchange, and  *)
(* each packet after the first took a timer that outran the interrupt.      *)
THEOREM LateCostsARace == Spec => []InterruptStopsSending
<1>1. Init => LateInv
  BY FS_EmptySet DEF Init, LateInv
<1>2. TypeOK /\ LateInv /\ [Next]_vars => LateInv'
  BY LateStep
<1>3. LateInv => InterruptStopsSending
  BY DEF LateInv, InterruptStopsSending
<1> QED
  BY <1>1, <1>2, <1>3, TypeCorrect, PTL DEF Spec
-----------------------------------------------------------------------------
(* The loop's clock was set back after everything that left.                *)
LEMMA SpacingStep ==
  ASSUME TypeOK, IInv, Spacing, [Next]_vars
  PROVE  Spacing'
<1>a. PICK n \in Nat \ {0} : n = Interval
  BY IntervalType
<1>b. since \in 0 .. n /\ quiet \in 0 .. n /\ Interval' = n
  BY <1>a DEF TypeOK, Interval
<1>c. Gates
  BY DEF IInv
<1>d. plan' = plan
  BY InputFixed
<1> DEFINE Leaving == {"dialing", "request", "awaiting"} \cup Terminal
<1>e. ASSUME quiet' = quiet, since' = since \/ since' = 0, pc \notin Leaving,
             pc' \notin {"dial", "dialing", "request"}
      PROVE  Spacing'
  BY <1>a, <1>b, <1>e DEF Spacing
<1> USE DEF network, Terminal
<1>1. CASE WriteHeader \/ RecordDryRun \/ WriteSummary \/ RecordPacket \/ RecordAbandoned
  BY <1>1, <1>e
  DEF WriteHeader, RecordDryRun, WriteSummary, RecordPacket, RecordAbandoned, WriteOrFail,
      AfterRecord
<1>2. CASE (\E j \in DOMAIN plan : StartExchange(j) \/ SkipExchange(j)) \/ PaceCancelled \/ Judge
  BY <1>2, <1>e DEF StartExchange, SkipExchange, PaceCancelled, Judge
<1>3. CASE PaceAtOnce \/ Wake
  <2>1. UNCHANGED <<quiet, since, step>> /\ quiet >= since /\ pc' \in {"sleep", "dial", "request"}
        /\ (pc' = "dial" => since = n) /\ (pc' = "request" => step # 1 /\ quiet = n)
    BY <1>3, <1>a, <1>b DEF PaceAtOnce, Wake, AfterPace, Waited, Spacing
  <2> QED
    BY <2>1, <1>a, <1>b DEF Spacing
<1>4. CASE DialBegins
  <2>1. quiet = n /\ step = 1 /\ step' = 1 /\ ex' = ex /\ pc' = "dialing"
    BY <1>4, <1>a, <1>b, <1>c DEF DialBegins, Spacing, Gates
  <2>2. IF plan[ex].transport = "tcp" THEN <<ex, 1>> \in wire' ELSE quiet' = n
    BY <1>4, <2>1 DEF DialBegins, Leaves
  <2> QED
    BY <2>1, <2>2, <1>b, <1>d DEF Spacing
<1>5. CASE DialSucceeds
  BY <1>5, <1>b, <1>a, <1>c, <1>d DEF DialSucceeds, Spacing, Gates
<1>6. CASE DialFails \/ Answered \/ Unanswered
  BY <1>6, <1>b DEF DialFails, Answered, Unanswered, Spacing
<1>7. CASE SendRequest
  BY <1>7 DEF SendRequest, Spacing
<1>8. CASE Tick
  <2>1. /\ since' = IF since < n THEN since + 1 ELSE since
        /\ quiet' = IF quiet < n THEN quiet + 1 ELSE quiet
    BY <1>8, <1>a DEF Tick, Capped
  <2>2. /\ quiet >= since => quiet' >= since'
        /\ since = n => since' = n
        /\ quiet = n => quiet' = n
    BY <2>1, <1>b
  <2>3. UNCHANGED <<pc, ex, step, wire>>
    BY <1>8 DEF Tick
  <2> QED
    BY <2>2, <2>3, <1>a, <1>b, <1>d DEF Spacing
<1>9. CASE ReplyBegins \/ Interrupt \/ UNCHANGED vars
  <2>1. UNCHANGED <<pc, ex, step, wire, since, quiet>>
    BY <1>9 DEF ReplyBegins, Interrupt, vars, network
  <2> QED
    BY <2>1, <1>a, <1>b, <1>d DEF Spacing
<1>10. CASE Kill
  BY <1>10 DEF Kill, Spacing
<1> QED
  BY <1>1, <1>2, <1>3, <1>4, <1>5, <1>6, <1>7, <1>8, <1>9, <1>10 DEF Next, EngineStep

(* Between two packets both the delay that protects a device and the        *)
(* ceiling that protects the segment have passed.                           *)
THEOREM Spaced == Spec => PacketsAreSpaced
<1>1. Init => Spacing
  <2> SUFFICES ASSUME Init PROVE Spacing
    OBVIOUS
  <2>1. pc = "header" /\ quiet = Interval /\ since = Interval /\ Interval \in Nat
    BY IntervalType DEF Init
  <2> QED
    BY <2>1 DEF Spacing
<1>2. TypeOK /\ IInv /\ Spacing /\ [Next]_vars => Spacing'
  BY SpacingStep
<1>3. TypeOK /\ IInv /\ Spacing /\ [Next]_vars =>
        [\A p \in wire' \ wire : quiet >= Delay /\ quiet >= RateGap]_vars
  <2> SUFFICES ASSUME TypeOK, IInv, Spacing, [Next]_vars, NEW p \in wire' \ wire
               PROVE  quiet >= Delay /\ quiet >= RateGap
    OBVIOUS
  <2>1. DialBegins \/ SendRequest
    BY SilentOrSends
  <2>2. CASE DialBegins
    <3>1. since = Interval /\ quiet >= since
      BY <2>2 DEF DialBegins, Spacing, Terminal
    <3>2. quiet = Interval
      BY <3>1, IntervalType DEF TypeOK
    <3> QED
      BY <3>2, IntervalType
  <2>3. CASE SendRequest
    <3>1. p = <<ex, step>> /\ p \notin wire
      BY <2>3 DEF SendRequest, Leaves
    <3>2. quiet = Interval
      BY <2>3, <3>1 DEF SendRequest, Spacing
    <3> QED
      BY <3>2, IntervalType
  <2> QED
    BY <2>1, <2>2, <2>3
<1> QED
  BY <1>1, <1>2, <1>3, Invariance, PTL DEF Spec, PacketsAreSpaced
-----------------------------------------------------------------------------
(* An exchange is taken by the two actions that say so; no other step       *)
(* changes which is run.                                                    *)
LEMMA OneTaken ==
  ASSUME [Next]_vars
  PROVE  \/ UNCHANGED <<ex, handled>>
         \/ \E j \in DOMAIN plan : /\ StartExchange(j) \/ SkipExchange(j)
                                   /\ IsNext(j) /\ ex' = j /\ handled' = handled \cup {j}
<1> USE DEF network
<1>1. CASE WriteHeader \/ RecordDryRun \/ WriteSummary \/ RecordPacket \/ RecordAbandoned
  BY <1>1 DEF WriteHeader, RecordDryRun, WriteSummary, RecordPacket, RecordAbandoned
<1>2. CASE \E j \in DOMAIN plan : StartExchange(j) \/ SkipExchange(j)
  BY <1>2 DEF StartExchange, SkipExchange
<1>3. CASE PaceAtOnce \/ Wake \/ PaceCancelled \/ DialBegins \/ DialSucceeds \/ DialFails
  BY <1>3 DEF PaceAtOnce, Wake, PaceCancelled, DialBegins, DialSucceeds, DialFails
<1>4. CASE SendRequest \/ Answered \/ Unanswered \/ Judge
  BY <1>4 DEF SendRequest, Answered, Unanswered, Judge
<1>5. CASE ReplyBegins \/ Interrupt \/ Kill \/ Tick \/ UNCHANGED vars
  BY <1>5 DEF ReplyBegins, Interrupt, Kill, Tick, vars
<1> QED
  BY <1>1, <1>2, <1>3, <1>4, <1>5 DEF Next, EngineStep

(* The exchanges of a host that are left are after those that were taken.   *)
LEMMA OrderedStep ==
  ASSUME TypeOK, Ordered, [Next]_vars
  PROVE  Ordered'
<1>1. plan' = plan
  BY InputFixed
<1>2. CASE UNCHANGED <<ex, handled>>
  BY <1>1, <1>2 DEF Ordered, Pending, SameHost
<1>3. ASSUME NEW j \in DOMAIN plan, IsNext(j), ex' = j, handled' = handled \cup {j}
      PROVE  Ordered'
  <2>1. /\ j \in Pending
        /\ \A i \in Pending : SameHost(i, j) => j <= i
        /\ \A i \in handled : SameHost(i, j) => i < j
    BY <1>3 DEF IsNext, Ordered
  <2>2. \A i, k \in DOMAIN plan : i \in Nat /\ (SameHost(i, k)' <=> SameHost(i, k))
    BY <1>1, DomainType DEF SameHost
  <2>3. Pending' = Pending \ {j} /\ handled \subseteq DOMAIN plan /\ Pending \subseteq DOMAIN plan
    BY <1>1, <1>3 DEF Pending, TypeOK
  <2>4. ASSUME NEW i \in handled', NEW k \in Pending', SameHost(i, k) PROVE i < k
    <3>1. k \in Pending /\ k # j /\ k \in Nat /\ j \in Nat
      BY <2>2, <2>3
    <3>2. CASE i \in handled
      BY <3>1, <3>2, <2>4 DEF Ordered
    <3>3. CASE i = j
      <4>1. SameHost(k, j)
        BY <2>4, <3>3 DEF SameHost
      <4> QED
        BY <4>1, <3>1, <3>3, <2>1
    <3> QED
      BY <3>2, <3>3, <1>3
  <2>5. ASSUME NEW i \in handled', SameHost(i, j) PROVE i <= j
    BY <2>1, <2>2, <2>3, <2>5, <1>3
  <2>6. \A i \in handled', k \in Pending' : SameHost(i, k)' => i < k
    BY <2>2, <2>3, <2>4, <1>3
  <2>7. \A i \in handled' : SameHost(i, ex)' => i <= ex'
    BY <2>2, <2>3, <2>5, <1>3 DEF SameHost
  <2> QED
    BY <2>6, <2>7 DEF Ordered
<1> QED
  BY <1>2, <1>3, OneTaken

(* Only an answer changes what is known, and what has been told.            *)
LEMMA OnlyAnswersTell ==
  ASSUME [Next]_vars
  PROVE  Answered \/ UNCHANGED <<known, replies>>
<1> USE DEF network
<1>1. CASE WriteHeader \/ RecordDryRun \/ WriteSummary \/ RecordPacket \/ RecordAbandoned
  BY <1>1 DEF WriteHeader, RecordDryRun, WriteSummary, RecordPacket, RecordAbandoned
<1>2. CASE \E j \in DOMAIN plan : StartExchange(j) \/ SkipExchange(j)
  BY <1>2 DEF StartExchange, SkipExchange
<1>3. CASE PaceAtOnce \/ Wake \/ PaceCancelled \/ DialBegins \/ DialSucceeds \/ DialFails
  BY <1>3 DEF PaceAtOnce, Wake, PaceCancelled, DialBegins, DialSucceeds, DialFails
<1>4. CASE SendRequest \/ Unanswered \/ Judge
  BY <1>4 DEF SendRequest, Unanswered, Judge
<1>5. CASE ReplyBegins \/ Interrupt \/ Kill \/ Tick \/ UNCHANGED vars
  BY <1>5 DEF ReplyBegins, Interrupt, Kill, Tick, vars
<1> QED
  BY <1>1, <1>2, <1>3, <1>4, <1>5 DEF Next, EngineStep

(* What was heard, field by field.                                          *)
LEMMA HeardField ==
  ASSUME NEW h, NEW S, NEW f \in Fields
  PROVE  Heard(h, S)[f] =
           IF \E r \in replies : r.ex \in S /\ plan[r.ex].host = h /\ r.told[f] # None
           THEN Device[h][f] ELSE None
  BY DEF Heard

(* A run knows of a host what the inventory brought and what it told since. *)
LEMMA LearnedStep ==
  ASSUME TypeOK, Learned, [Next]_vars
  PROVE  Learned'
<1>1. plan' = plan /\ prior' = prior
  BY InputFixed
<1>2. CASE UNCHANGED <<known, replies>>
  <2>1. handled \subseteq handled'
    BY OneTaken
  <2>2. \A r \in replies' : r.ex \in handled'
    BY <1>2, <2>1 DEF Learned
  <2>3. \A h \in Hosts : Heard(h, handled)' = Heard(h, handled)
    BY <1>1, <1>2, <2>1 DEF Heard, Learned
  <2> QED
    BY <1>1, <1>2, <2>2, <2>3 DEF Learned, Merge
<1>3. CASE Answered
  <2>0. ex \in handled /\ plan[ex].host \in Hosts /\ handled' = handled /\ ex' = ex
    BY <1>3, DomainType DEF Answered, TypeOK, Running, PCs, Terminal
  <2>1. PICK host \in Hosts : host = plan[ex].host
    BY <2>0
  <2>2. PICK F \in Disclosures :
          /\ replies' = replies \cup {[ex |-> ex, step |-> step, told |-> Told(Device[host], F)]}
          /\ known' = [known EXCEPT ![host] = Merge(known[host], Told(Device[host], F))]
    BY <1>3, <2>1 DEF Answered
  <2> DEFINE told == Told(Device[host], F)
             new == [ex |-> ex, step |-> step, told |-> told]
  <2>3. \A f \in Fields : told[f] = IF f \in F THEN Device[host][f] ELSE None
    BY DEF Told
  <2>4. new.ex = ex /\ new.told = told /\ replies' = replies \cup {new}
    BY <2>2
  <2>5. known \in [Hosts -> Identity]
    BY DEF TypeOK
  <2>6. /\ known'[host] = Merge(known[host], told)
        /\ \A h \in Hosts : h # host => known'[h] = known[h]
    BY <2>1, <2>2, <2>5
  <2> HIDE DEF told, new
  <2>7. \A r \in replies' : r.ex \in handled'
    BY <2>0, <2>4 DEF Learned
  <2>8. ASSUME NEW h \in Hosts PROVE known'[h] = Merge(prior[h], Heard(h, handled)')
    <3>1. known[h] = Merge(prior[h], Heard(h, handled))
      BY DEF Learned
    <3>2. CASE h # host
      <4>1. Heard(h, handled)' = Heard(h, handled)
        BY <1>1, <2>0, <2>1, <2>4, <3>2 DEF Heard
      <4> QED
        BY <2>6, <3>1, <3>2, <4>1
    <3>3. CASE h = host
      <4>1. ASSUME NEW f \in Fields
            PROVE  Heard(host, handled)'[f] =
                     IF Heard(host, handled)[f] # None THEN Heard(host, handled)[f] ELSE told[f]
        <5>1. Heard(host, handled)'[f] =
                IF \E r \in replies' : r.ex \in handled /\ plan[r.ex].host = host /\ r.told[f] # None
                THEN Device[host][f] ELSE None
          BY <1>1, <2>0 DEF Heard
        <5>2. Heard(host, handled)[f] =
                IF \E r \in replies : r.ex \in handled /\ plan[r.ex].host = host /\ r.told[f] # None
                THEN Device[host][f] ELSE None
          BY HeardField
        <5>3. (\E r \in replies' : r.ex \in handled /\ plan[r.ex].host = host /\ r.told[f] # None)
              <=> \/ \E r \in replies : r.ex \in handled /\ plan[r.ex].host = host /\ r.told[f] # None
                  \/ told[f] # None
          BY <2>0, <2>1, <2>4
        <5>4. told[f] # None => told[f] = Device[host][f]
          BY <2>3
        <5> QED
          BY <5>1, <5>2, <5>3, <5>4
      <4>2. Merge(Merge(prior[host], Heard(host, handled)), told)
              = Merge(prior[host], Heard(host, handled)')
        BY <4>1 DEF Merge
      <4> QED
        BY <2>6, <3>1, <3>3, <4>2
    <3> QED
      BY <3>2, <3>3
  <2> QED
    BY <1>1, <2>7, <2>8 DEF Learned, Merge
<1> QED
  BY <1>2, <1>3, OnlyAnswersTell

(* A later reply is never to an exchange that comes before one taken.       *)
LEMMA BelievedStable ==
  ASSUME TypeOK, Ordered, [Next]_vars, NEW i \in handled
  PROVE  Believed(i)' = Believed(i) /\ plan'[i] = plan[i]
<1>1. plan' = plan /\ prior' = prior
  BY InputFixed
<1>2. CASE UNCHANGED <<known, replies>>
  BY <1>1, <1>2 DEF Believed, Heard, Merge
<1>3. CASE Answered
  <2>1. ex # 0 /\ ex \in Nat /\ i \in DOMAIN plan /\ i \in Nat
    BY <1>3, DomainType DEF Answered, TypeOK, Running, PCs, Terminal
  <2>2. ex \in 1 .. i - 1 => plan[ex].host # plan[i].host
    BY <2>1 DEF Ordered, SameHost
  <2>3. PICK F \in Disclosures :
          replies' = replies \cup
            {[ex |-> ex, step |-> step, told |-> Told(Device[plan[ex].host], F)]}
    BY <1>3 DEF Answered
  <2>4. Heard(plan[i].host, 1 .. i - 1)' = Heard(plan[i].host, 1 .. i - 1)
    BY <1>1, <2>2, <2>3 DEF Heard
  <2> QED
    BY <1>1, <2>4 DEF Believed, Merge
<1> QED
  BY <1>2, <1>3, OnlyAnswersTell

(* What an exchange is refused for is all that has been told before it.     *)
LEMMA RefusedByBelief ==
  ASSUME TypeOK, Ordered, Learned, NEW j \in Pending
  PROVE  known[plan[j].host] = Believed(j)
<1>1. j \in DOMAIN plan /\ plan[j].host \in Hosts /\ j \in Nat
  BY DomainType DEF Pending
<1>2. ASSUME NEW r \in replies, plan[r.ex].host = plan[j].host
      PROVE  r.ex \in handled <=> r.ex \in 1 .. j - 1
  <2>1. r.ex \in handled /\ r.ex \in DOMAIN plan
    BY DEF Learned, TypeOK
  <2>2. r.ex < j /\ r.ex \in Nat \ {0}
    BY <1>2, <2>1, DomainType DEF Ordered, SameHost
  <2> QED
    BY <1>1, <2>1, <2>2
<1>3. Heard(plan[j].host, handled) = Heard(plan[j].host, 1 .. j - 1)
  BY <1>2 DEF Heard
<1> QED
  BY <1>1, <1>3 DEF Learned, Believed

(* A packet leaves for an exchange that was not denied when it was taken,   *)
(* and what was believed then is believed of it ever after.                 *)
LEMMA LeftAloneStep ==
  ASSUME TypeOK, IInv, Ordered, Learned, LeftAlone, [Next]_vars
  PROVE  LeftAlone'
<1> DEFINE Barred(i) == Denied(Rules, Believed(i), plan[i])
<1>1. \A i \in handled : Barred(i)' <=> Barred(i)
  BY BelievedStable DEF Denied, Matches, Empty
<1>2. handled \subseteq handled' /\ (ex # 0 => ex \in handled)
  BY OneTaken DEF TypeOK
<1>3. /\ \A p \in wire : p[1] \in handled /\ ~ Barred(p[1])
      /\ pc \in Sending \cup {"record"} => ex \in handled /\ ~ Barred(ex)
  BY <1>2 DEF LeftAlone, RecognisedIsLeftAlone, TypeOK, Running, PCs, Terminal, Sending
<1> HIDE DEF Barred
<1>4. \A p \in wire' : p[1] \in handled /\ ~ Barred(p[1])
  <2>1. CASE Silent
    BY <2>1, <1>3, SilentOrSends
  <2>2. CASE DialBegins \/ SendRequest
    <3>1. pc \in Sending
      BY <2>2 DEF DialBegins, SendRequest, Sending
    <3>2. \A p \in wire' : p \in wire \/ p[1] = ex
      BY <2>2 DEF DialBegins, SendRequest, Leaves, network
    <3> QED
      BY <3>1, <3>2, <1>3
  <2> QED
    BY <2>1, <2>2, SilentOrSends
<1>5. pc' \in Sending \cup {"record"} => ~ Barred(ex)'
  <2>1. ASSUME NEW j \in DOMAIN plan, StartExchange(j) PROVE ~ Barred(ex)'
    <3>1. /\ j \in Pending /\ ex' = j /\ plan' = plan /\ prior' = prior /\ replies' = replies
          /\ ~ Denied(Rules, known[plan[j].host], plan[j])
      BY <2>1 DEF StartExchange, IsNext, Refusal, input
    <3>2. ~ Denied(Rules, Believed(j), plan[j])
      BY <3>1, RefusedByBelief
    <3>3. Believed(ex)' = Believed(j) /\ plan'[ex'] = plan[j]
      BY <3>1 DEF Believed, Heard, Merge
    <3> QED
      BY <3>2, <3>3 DEF Barred
  <2>2. ASSUME NEW j \in DOMAIN plan, SkipExchange(j)
        PROVE  pc' \notin Sending \cup {"record"}
    BY <2>2 DEF SkipExchange, Sending
  <2>3. ASSUME UNCHANGED <<ex, handled>>, pc \in Sending \cup {"record"} PROVE ~ Barred(ex)'
    <3>1. ex \in handled /\ ~ Barred(ex)
      BY <2>3, <1>3
    <3>2. PICK i \in handled : i = ex
      BY <3>1
    <3>3. ~ Barred(i)'
      BY <3>1, <3>2, <1>1
    <3>4. ex' = i
      BY <2>3, <3>2
    <3> QED
      BY <3>3, <3>4 DEF Barred, Believed, SameHost
  <2>4. UNCHANGED <<ex, handled>> /\ pc' \in Sending \cup {"record"}
        => pc \in Sending \cup {"record"}
    <3> USE DEF Sending
    <3>1. CASE WriteHeader \/ RecordDryRun \/ WriteSummary \/ RecordPacket \/ RecordAbandoned
      BY <3>1
      DEF WriteHeader, RecordDryRun, WriteSummary, RecordPacket, RecordAbandoned, WriteOrFail,
          AfterRecord
    <3>2. ASSUME NEW j \in DOMAIN plan, StartExchange(j) PROVE handled' # handled
      BY <3>2 DEF StartExchange, IsNext, Pending
    <3>3. ASSUME NEW j \in DOMAIN plan, SkipExchange(j) PROVE handled' # handled
      BY <3>3 DEF SkipExchange, IsNext, Pending
    <3>4. CASE PaceAtOnce \/ Wake \/ PaceCancelled \/ DialBegins \/ DialSucceeds \/ DialFails
      BY <3>4 DEF PaceAtOnce, Wake, PaceCancelled, DialBegins, DialSucceeds, DialFails
    <3>5. CASE SendRequest \/ Answered \/ Unanswered \/ Judge
      BY <3>5 DEF SendRequest, Answered, Unanswered, Judge
    <3>6. CASE ReplyBegins \/ Interrupt \/ Kill \/ Tick \/ UNCHANGED vars
      BY <3>6 DEF ReplyBegins, Interrupt, Kill, Tick, vars
    <3> QED
      BY <3>1, <3>2, <3>3, <3>4, <3>5, <3>6 DEF Next, EngineStep
  <2> QED
    BY <2>1, <2>2, <2>3, <2>4, OneTaken
<1>6. \A p \in wire' : p[1] \in handled' /\ ~ Barred(p[1])'
  BY <1>1, <1>2, <1>4
<1> QED
  BY <1>5, <1>6 DEF LeftAlone, RecognisedIsLeftAlone, Barred

(* Of the identities: what was in the inventory, and what was told.         *)
Recognition == Ordered /\ Learned /\ LeftAlone

(* At the start nothing was taken, heard or sent.                           *)
LEMMA RecognitionInit == Init => Recognition
<1> SUFFICES ASSUME Init PROVE Recognition
  OBVIOUS
<1>1. Ordered /\ LeftAlone
  BY DEF Init, Ordered, LeftAlone, RecognisedIsLeftAlone, Sending
<1>2. \A h \in Hosts : Heard(h, handled) = Blank
  BY DEF Init, Heard, Blank
<1>3. known = prior /\ known \in [Hosts -> Identity]
  BY InitType DEF Init, TypeOK
<1>4. \A h \in Hosts : Merge(prior[h], Blank) = prior[h]
  BY <1>3 DEF Merge, Blank, Identity
<1> QED
  BY <1>1, <1>2, <1>3, <1>4 DEF Recognition, Learned, Init

(* A device the deny list names is sent nothing from the exchange on after  *)
(* the inventory and its own replies gave it away.                          *)
THEOREM RecognisedDevicesLeftAlone == Spec => []RecognisedIsLeftAlone
<1>1. TypeOK /\ IInv /\ Recognition /\ [Next]_vars => Recognition'
  BY OrderedStep, LearnedStep, LeftAloneStep DEF Recognition
<1>2. Recognition => RecognisedIsLeftAlone
  BY DEF Recognition, LeftAlone
<1> QED
  BY <1>1, <1>2, RecognitionInit, Invariance, PTL DEF Spec
-----------------------------------------------------------------------------
(* A write puts its line in the file, or breaks the encoder for good.       *)
Puts(line) ==
  /\ trail' = trail \/ trail' = trail \cup {line}
  /\ disk' = "ok" => disk = "ok" /\ trail' = trail \cup {line}

(* The three ways of writing all do, and one that may end the run ends it   *)
(* or goes on as it should.                                                 *)
LEMMA WritesPut ==
  /\ \A line : WriteOrDrop(line) => Puts(line)
  /\ \A line, then : WriteOrFail(line, then) => Puts(line) /\ pc' \in {then, "failed"}
<1>1. ASSUME NEW line, NEW err, Write(line, err) PROVE Puts(line)
  BY <1>1 DEF Write, Puts
<1> QED
  BY <1>1 DEF WriteOrDrop, WriteOrFail

(* The steps that write nothing. *)
Unwritten ==
  \/ \E j \in DOMAIN plan : StartExchange(j)
  \/ PaceAtOnce \/ Wake \/ DialBegins \/ DialSucceeds \/ DialFails
  \/ SendRequest \/ Answered \/ Unanswered \/ Judge
  \/ ReplyBegins \/ Interrupt \/ Kill \/ Tick \/ UNCHANGED vars

(* They leave the file as it is.                                            *)
LEMMA UnwrittenFile == Unwritten => UNCHANGED <<trail, disk>>
<1> SUFFICES ASSUME Unwritten PROVE UNCHANGED <<trail, disk>>
  OBVIOUS
<1> USE DEF file
<1>1. CASE \E j \in DOMAIN plan : StartExchange(j)
  BY <1>1 DEF StartExchange
<1>2. CASE PaceAtOnce \/ Wake \/ DialBegins \/ DialSucceeds \/ DialFails
  BY <1>2 DEF PaceAtOnce, Wake, DialBegins, DialSucceeds, DialFails
<1>3. CASE SendRequest \/ Answered \/ Unanswered \/ Judge
  BY <1>3 DEF SendRequest, Answered, Unanswered, Judge
<1>4. CASE ReplyBegins \/ Interrupt \/ Kill \/ Tick \/ UNCHANGED vars
  BY <1>4 DEF ReplyBegins, Interrupt, Kill, Tick, vars
<1> QED
  BY <1>1, <1>2, <1>3, <1>4 DEF Unwritten

(* What each of the others writes.                                          *)
LEMMA Written ==
  /\ WriteHeader => Puts(Line(0, 0, "run"))
  /\ \A j \in DOMAIN plan : SkipExchange(j) => Puts(Line(j, 0, Refusal(j)))
  /\ RecordDryRun => Puts(Line(ex, step, "dry-run"))
  /\ WriteSummary => Puts(SummaryLine)
  /\ PaceCancelled /\ step = 1 => Puts(Line(ex, 0, "skipped-aborted"))
  /\ PaceCancelled /\ step # 1 => UNCHANGED <<trail, disk>>
  /\ RecordPacket => Puts(Line(ex, step, outcome))
  /\ RecordAbandoned => Puts(Line(ex, step, "skipped-aborted"))
<1>1. WriteHeader => Puts(Line(0, 0, "run"))
  BY WritesPut DEF WriteHeader
<1>2. \A j \in DOMAIN plan : SkipExchange(j) => Puts(Line(j, 0, Refusal(j)))
  BY WritesPut DEF SkipExchange
<1>3. RecordDryRun => Puts(Line(ex, step, "dry-run"))
  BY WritesPut DEF RecordDryRun
<1>4. WriteSummary => Puts(SummaryLine)
  BY WritesPut DEF WriteSummary, SummaryLine
<1>5. PaceCancelled /\ step = 1 => Puts(Line(ex, 0, "skipped-aborted"))
  BY WritesPut DEF PaceCancelled
<1>6. PaceCancelled /\ step # 1 => UNCHANGED <<trail, disk>>
  BY DEF PaceCancelled, file
<1>7. RecordPacket => Puts(Line(ex, step, outcome))
  BY WritesPut DEF RecordPacket
<1>8. RecordAbandoned => Puts(Line(ex, step, "skipped-aborted"))
  BY WritesPut DEF RecordAbandoned
<1> QED
  BY <1>1, <1>2, <1>3, <1>4, <1>5, <1>6, <1>7, <1>8

(* Every step writes nothing or is one of these.                            *)
LEMMA WrittenOrNot ==
  ASSUME [Next]_vars
  PROVE  \/ Unwritten
         \/ WriteHeader \/ RecordDryRun \/ WriteSummary
         \/ \E j \in DOMAIN plan : SkipExchange(j)
         \/ PaceCancelled \/ RecordPacket \/ RecordAbandoned
  BY DEF Next, EngineStep, Unwritten

(* A file that was lost stays lost.                                         *)
LEMMA LostForGood ==
  ASSUME [Next]_vars, disk' = "ok"
  PROVE  disk = "ok"
  BY WrittenOrNot, UnwrittenFile, Written DEF Puts

(* Only the last step of a run writes the summary.                          *)
LEMMA OnlySummarySums ==
  ASSUME TypeOK, IInv, [Next]_vars, SummaryLine \in trail' \ trail
  PROVE  WriteSummary
<1>1. SummaryLine.outcome = "summary"
  BY LineParts DEF SummaryLine
<1>2. ASSUME NEW line, Puts(line), line.outcome # "summary" PROVE FALSE
  BY <1>1, <1>2 DEF Puts
<1>3. ~ Unwritten
  BY UnwrittenFile
<1>4. ~ WriteHeader /\ ~ RecordDryRun /\ ~ RecordAbandoned
  BY <1>2, Written, LineParts
<1>5. ASSUME NEW j \in DOMAIN plan, SkipExchange(j) PROVE FALSE
  BY <1>2, <1>5, Written, LineParts DEF Refusal
<1>6. ~ PaceCancelled
  BY <1>2, Written, LineParts
<1>7. ~ RecordPacket
  <2>1. RecordPacket => outcome # "summary"
    BY DEF RecordPacket, IInv, Recording, SentOutcomes
  <2> QED
    BY <2>1, <1>2, Written, LineParts
<1> QED
  BY <1>3, <1>4, <1>5, <1>6, <1>7, WrittenOrNot

(* Nothing is written after the summary.                                    *)
LEMMA ClosedStep ==
  ASSUME TypeOK, IInv, Closed, [Next]_vars
  PROVE  Closed'
<1>1. CASE pc \in Terminal
  BY <1>1, OverIsOver DEF Closed, SummaryLine, Line, vars
<1>2. CASE pc \notin Terminal
  <2>1. SummaryLine \notin trail
    BY <1>2 DEF Closed, Terminal
  <2>2. SummaryLine \in trail' => pc' \in {"returned", "failed"}
    BY <2>1, OnlySummarySums, WritesPut DEF WriteSummary
  <2> QED
    BY <2>2 DEF Closed, SummaryLine, Line
<1> QED
  BY <1>1, <1>2

(* What is accounted for stays so.                                          *)
LEMMA AccountedStable ==
  ASSUME [Next]_vars
  PROVE  \A i, k : Accounted(i, k) => Accounted(i, k)'
  BY TrailGrows DEF Accounted

(* Steps that record nothing, and those that record a step or a whole       *)
(* exchange, leave the file accounting for what lies behind.                *)
LEMMA ShownStep ==
  ASSUME TypeOK, IInv, [Next]_vars, disk' = "ok", ~ cancelled, pc \notin Terminal,
         pc' \notin Terminal, Shown
  PROVE  Shown'
<1>a. /\ plan' = plan /\ step \in Nat /\ ex \in Nat
      /\ \A i \in DOMAIN plan : plan[i].steps \in Nat
      /\ handled \subseteq DOMAIN plan
  BY InputFixed, DomainType DEF TypeOK
<1>b. \A i, k : Accounted(i, k) => Accounted(i, k)'
  BY AccountedStable
<1> DEFINE Behind == {"header", "next", "judge"}
<1>c. ASSUME UNCHANGED <<ex, handled>>, step' = step \/ step' = 0, pc' \in Behind => pc \in Behind
      PROVE  Shown'
  <2>1. \A i \in handled' \ {ex'} : \A k \in 1 .. plan'[i].steps : Accounted(i, k)'
    BY <1>a, <1>b, <1>c DEF Shown
  <2>2. ASSUME ex # 0, NEW k \in 1 .. plan[ex].steps, pc' \in Behind \/ k < step'
        PROVE  Accounted(ex, k)'
    <3>1. pc \in Behind \/ k < step
      BY <1>a, <1>c, <2>2
    <3> QED
      BY <1>b, <1>c, <2>2, <3>1 DEF Shown, Accounted
  <2> QED
    BY <1>a, <1>c, <2>1, <2>2 DEF Shown, Accounted
<1>d. ASSUME NEW s \in {0, step}, NEW o, Puts(Line(ex, s, o)), UNCHANGED <<ex, handled>>, ex # 0,
             step' = step \/ (step' = step + 1 /\ s = step),
             pc' \in Behind => s = 0 \/ LastStep
      PROVE  Shown'
  <2>1. Line(ex, s, o) \in trail'
    BY <1>d DEF Puts
  <2>2. \A k : s = 0 \/ s = k => Accounted(ex, k)'
    BY <2>1, <1>d, LineParts DEF Accounted
  <2>3. \A i \in handled' \ {ex'} : \A k \in 1 .. plan'[i].steps : Accounted(i, k)'
    BY <1>a, <1>b, <1>d DEF Shown
  <2>4. ASSUME NEW k \in 1 .. plan[ex].steps, pc' \in Behind \/ k < step'
        PROVE  Accounted(ex, k)'
    <3>1. plan[ex].steps \in Nat
      BY <1>a, <1>d DEF TypeOK
    <3>2. s = 0 \/ k < step \/ (k = step /\ s = step)
      BY <1>a, <1>d, <2>4, <3>1 DEF LastStep
    <3> QED
      BY <1>b, <1>d, <2>2, <3>2 DEF Shown
  <2> QED
    BY <1>a, <1>d, <2>3, <2>4 DEF Shown, Accounted
<1>e. pc \in Running => ex # 0
  BY DEF TypeOK
<1> USE DEF Terminal
<1>1. CASE WriteHeader \/ WriteSummary
  <2>1. UNCHANGED <<ex, handled, step>> /\ pc \in Behind
    BY <1>1 DEF WriteHeader, WriteSummary
  <2> QED
    BY <2>1, <1>c
<1>2. ASSUME NEW j \in DOMAIN plan, StartExchange(j) PROVE Shown'
  <2>1. /\ ex' = j /\ step' = 1 /\ handled' = handled \cup {j} /\ pc = "next"
        /\ pc' \in {"dryrun", "pace"}
    BY <1>2 DEF StartExchange
  <2>2. \A i \in handled : \A k \in 1 .. plan[i].steps : Accounted(i, k)
    BY <2>1 DEF Shown, TypeOK
  <2>3. \A k \in 1 .. plan[j].steps : ~ (k < 1)
    BY <1>a
  <2> QED
    BY <1>a, <1>b, <2>1, <2>2, <2>3 DEF Shown
<1>3. ASSUME NEW j \in DOMAIN plan, SkipExchange(j) PROVE Shown'
  <2>1. /\ ex' = j /\ handled' = handled \cup {j} /\ pc = "next"
        /\ Line(j, 0, Refusal(j)) \in trail'
    BY <1>3, Written DEF SkipExchange, Puts
  <2>2. \A i \in handled : \A k \in 1 .. plan[i].steps : Accounted(i, k)
    BY <2>1 DEF Shown, TypeOK
  <2>3. \A k : Accounted(j, k)'
    BY <2>1, LineParts DEF Accounted
  <2>4. \A k : Accounted(ex, k)'
    BY <2>1, LineParts DEF Accounted
  <2> QED
    BY <1>a, <1>b, <2>1, <2>2, <2>3, <2>4 DEF Shown
<1>4. CASE RecordDryRun
  <2>1. Puts(Line(ex, step, "dry-run")) /\ ex # 0 /\ UNCHANGED <<ex, handled>>
    BY <1>4, <1>e, Written DEF RecordDryRun, Running, PCs
  <2>2. step' = (IF LastStep THEN step ELSE step + 1)
        /\ pc' \in {IF LastStep THEN "next" ELSE "dryrun", "failed"}
    BY <1>4, WritesPut DEF RecordDryRun
  <2> QED
    BY <2>1, <2>2, <1>d
<1>5. CASE PaceAtOnce \/ Wake
  BY <1>5, <1>c DEF PaceAtOnce, Wake, AfterPace
<1>6. CASE PaceCancelled
  BY <1>6 DEF PaceCancelled
<1>7. CASE DialBegins \/ DialSucceeds \/ DialFails
  BY <1>7, <1>c DEF DialBegins, DialSucceeds, DialFails
<1>8. CASE SendRequest \/ Answered \/ Unanswered
  BY <1>8, <1>c DEF SendRequest, Answered, Unanswered
<1>9. CASE RecordPacket
  <2>1. Puts(Line(ex, step, outcome)) /\ ex # 0 /\ UNCHANGED <<ex, handled>>
    BY <1>9, <1>e, Written DEF RecordPacket, Running, PCs
  <2>2. pc' \in {AfterRecord, "failed"} /\ step' = (IF pc' \in {"pace", "abandon"} THEN step + 1 ELSE step)
    BY <1>9, WritesPut DEF RecordPacket
  <2>3. pc' \in Behind => step = 0 \/ LastStep
    BY <2>2 DEF AfterRecord
  <2> QED
    BY <2>1, <2>2, <2>3, <1>d
<1>10. CASE RecordAbandoned
  <2>1. Puts(Line(ex, step, "skipped-aborted")) /\ ex # 0 /\ UNCHANGED <<ex, handled>>
    BY <1>10, <1>e, Written DEF RecordAbandoned, Running, PCs
  <2>2. step' = (IF LastStep THEN step ELSE step + 1)
        /\ pc' \in {IF LastStep THEN "judge" ELSE "abandon", "failed"}
    BY <1>10, WritesPut DEF RecordAbandoned
  <2> QED
    BY <2>1, <2>2, <1>d
<1>11. CASE Judge
  BY <1>11, <1>c DEF Judge
<1>12. CASE ReplyBegins \/ Interrupt \/ Kill \/ Tick \/ UNCHANGED vars
  BY <1>12, <1>c DEF ReplyBegins, Interrupt, Kill, Tick, vars
<1> QED
  BY <1>1, <1>2, <1>3, <1>4, <1>5, <1>6, <1>7, <1>8, <1>9, <1>10, <1>11, <1>12
  DEF Next, EngineStep

(* A run that nobody interrupted and that lost nothing accounts for every   *)
(* step of its plan by the time it writes the summary.                      *)
LEMMA AccountingStep ==
  ASSUME TypeOK, IInv, Closed, Accounting, [Next]_vars
  PROVE  Accounting'
<1>1. CASE pc \in Terminal
  <2>1. UNCHANGED vars
    BY <1>1, OverIsOver
  <2> QED
    BY <1>1, <2>1 DEF vars, Accounting, UninterruptedAccountedFor, Accounted, Line
<1>2. CASE pc \notin Terminal
  <2>1. SummaryLine \notin trail
    BY <1>2 DEF Closed, Terminal
  <2>2. ~ cancelled' => ~ cancelled
    <3> USE DEF Terminal, network
    <3>1. CASE WriteHeader \/ RecordDryRun \/ WriteSummary \/ RecordPacket \/ RecordAbandoned
      BY <3>1 DEF WriteHeader, RecordDryRun, WriteSummary, RecordPacket, RecordAbandoned
    <3>2. CASE (\E j \in DOMAIN plan : StartExchange(j) \/ SkipExchange(j)) \/ PaceCancelled \/ Judge
      BY <3>2 DEF StartExchange, SkipExchange, PaceCancelled, Judge
    <3>3. CASE PaceAtOnce \/ Wake \/ DialBegins \/ DialSucceeds \/ DialFails
      BY <3>3 DEF PaceAtOnce, Wake, DialBegins, DialSucceeds, DialFails
    <3>4. CASE SendRequest \/ Answered \/ Unanswered \/ ReplyBegins \/ Interrupt \/ Kill \/ Tick \/ UNCHANGED vars
      BY <3>4 DEF SendRequest, Answered, Unanswered, ReplyBegins, Interrupt, Kill, Tick, vars
    <3> QED
      BY <3>1, <3>2, <3>3, <3>4 DEF Next, EngineStep
  <2>3. disk' = "ok" /\ ~ cancelled' /\ pc' \notin Terminal => Shown'
    BY <1>2, <2>2, ShownStep, LostForGood DEF Accounting
  <2>4. UninterruptedAccountedFor'
    <3> SUFFICES ASSUME SummaryLine \in trail', ~ cancelled',
                        NEW i \in DOMAIN plan, NEW k \in 1 .. plan[i].steps
                 PROVE  Accounted(i, k)'
      BY InputFixed DEF UninterruptedAccountedFor, SummaryLine, Line
    <3>1. WriteSummary
      BY <2>1, OnlySummarySums
    <3>2. disk = "ok"
      BY <2>1, <3>1, WritesPut DEF WriteSummary, WriteOrFail, Write
    <3>3. Shown
      BY <1>2, <2>2, <3>2 DEF Accounting
    <3>4. i \in handled /\ pc = "next"
      BY <3>1 DEF WriteSummary, Pending
    <3>5. i # 0
      BY DomainType
    <3>6. Accounted(i, k)
      BY <3>3, <3>4, <3>5 DEF Shown
    <3> QED
      BY <3>6, AccountedStable
  <2> QED
    BY <2>3, <2>4 DEF Accounting
<1> QED
  BY <1>1, <1>2

(* The file of a run that ended of itself accounts for every step of its    *)
(* plan: sent, refused, or abandoned partway through.                       *)
THEOREM EveryStepAccountedFor == Spec => []UninterruptedAccountedFor
<1>1. Init => Closed /\ Accounting
  <2> SUFFICES ASSUME Init PROVE Closed /\ Accounting
    OBVIOUS
  <2>1. trail = {} /\ handled = {} /\ ex = 0
    BY DEF Init
  <2> QED
    BY <2>1 DEF Closed, Accounting, Shown, UninterruptedAccountedFor
<1>2. TypeOK /\ IInv /\ Closed /\ Accounting /\ [Next]_vars => (Closed /\ Accounting)'
  BY ClosedStep, AccountingStep
<1>3. Closed /\ Accounting => UninterruptedAccountedFor
  BY DEF Accounting
<1> QED
  BY <1>1, <1>2, <1>3, Invariance, PTL DEF Spec
-----------------------------------------------------------------------------
(* A line in the file is among those of its outcome, and if it shows a skip *)
(* its exchange is among the skipped ones.                                  *)
LEMMA PutsInto ==
  ASSUME NEW line, trail' = trail \cup {line}
  PROVE  /\ \A O : LinesOf(O)' = IF line.outcome \in O THEN LinesOf(O) \cup {line} ELSE LinesOf(O)
         /\ Skipped' = IF ShowsSkip(line) THEN Skipped \cup {line.ex} ELSE Skipped
<1>1. \A O : LinesOf(O)' = IF line.outcome \in O THEN LinesOf(O) \cup {line} ELSE LinesOf(O)
  BY DEF LinesOf
<1>2. Skipped' = IF ShowsSkip(line) THEN Skipped \cup {line.ex} ELSE Skipped
  BY DEF Skipped, ShowsSkip
<1> QED
  BY <1>1, <1>2

(* Which lines show a skip.                                                 *)
LEMMA WhichShowSkip ==
  ASSUME NEW i, NEW k
  PROVE  /\ ShowsSkip(Line(i, k, "dry-run"))
         /\ \A o \in SkipOutcomes : ShowsSkip(Line(i, k, o)) <=> k = 0
         /\ \A o \in SentOutcomes \cup {"run", "summary"} : ~ ShowsSkip(Line(i, k, o))
<1>1. \A o : Line(i, k, o).outcome = o /\ Line(i, k, o).step = k
  BY LineParts
<1>2. \A o \in SentOutcomes \cup {"run", "summary"} : o # "dry-run" /\ o \notin SkipOutcomes
  BY DEF SentOutcomes, SkipOutcomes
<1>3. \A o \in SkipOutcomes : o # "dry-run"
  BY DEF SkipOutcomes
<1> QED
  BY <1>1, <1>2, <1>3 DEF ShowsSkip

(* Only what was taken is shown as skipped.                                 *)
LEMMA SkippedTaken ==
  ASSUME TypeOK, IInv, Once, [Next]_vars
  PROVE  /\ IsFiniteSet(trail')
         /\ Skipped' \subseteq handled'
<1>1. Skipped \subseteq handled /\ handled \subseteq handled' /\ IsFiniteSet(trail)
  BY OneTaken DEF Once
<1>a. ASSUME trail' = trail PROVE IsFiniteSet(trail') /\ Skipped' \subseteq handled'
  BY <1>1, <1>a DEF Skipped, ShowsSkip
<1>b. ASSUME NEW line, Puts(line), ShowsSkip(line) => line.ex \in handled'
      PROVE  IsFiniteSet(trail') /\ Skipped' \subseteq handled'
  <2>1. CASE trail' = trail
    BY <2>1, <1>a
  <2>2. CASE trail' = trail \cup {line}
    <3>1. IsFiniteSet(trail')
      BY <2>2, <1>1, FS_AddElement
    <3>2. Skipped' \subseteq handled'
      BY <2>2, <1>1, <1>b, PutsInto
    <3> QED
      BY <3>1, <3>2
  <2> QED
    BY <1>b, <2>1, <2>2 DEF Puts
<1>c. pc \in Running => ex \in handled'
  BY <1>1 DEF TypeOK
<1> USE DEF Running, PCs, Terminal
<1>2. CASE Unwritten
  BY <1>2, <1>a, UnwrittenFile
<1>3. CASE WriteHeader \/ WriteSummary
  BY <1>3, <1>b, Written, WhichShowSkip DEF SummaryLine
<1>4. CASE RecordDryRun
  BY <1>4, <1>b, <1>c, Written, LineParts DEF RecordDryRun
<1>5. ASSUME NEW j \in DOMAIN plan, SkipExchange(j)
      PROVE  IsFiniteSet(trail') /\ Skipped' \subseteq handled'
  <2>1. Puts(Line(j, 0, Refusal(j))) /\ j \in handled'
    BY <1>5, Written DEF SkipExchange
  <2> QED
    BY <2>1, <1>b, LineParts
<1>6. CASE PaceCancelled
  <2>1. ex \in handled'
    BY <1>6, <1>c DEF PaceCancelled
  <2> QED
    BY <2>1, <1>6, <1>a, <1>b, Written, LineParts
<1>7. CASE RecordPacket
  <2>1. outcome \in SentOutcomes
    BY <1>7 DEF RecordPacket, IInv, Recording
  <2> QED
    BY <2>1, <1>7, <1>b, Written, WhichShowSkip
<1>8. CASE RecordAbandoned
  BY <1>8, <1>b, <1>c, Written, LineParts DEF RecordAbandoned
<1> QED
  BY <1>2, <1>3, <1>4, <1>5, <1>6, <1>7, <1>8, WrittenOrNot

(* The line of a packet is not in the file before the packet is recorded,   *)
(* and an exchange that is sent is not among the skipped.                   *)
LEMMA OnceStep ==
  ASSUME TypeOK, IInv, Once, [Next]_vars
  PROVE  Once'
<1>a. IsFiniteSet(trail') /\ Skipped' \subseteq handled' /\ step \in Nat
  BY SkippedTaken DEF TypeOK
<1>b. Fresh /\ Gates /\ Recording
  BY DEF IInv
<1>c. ASSUME pc' \notin Sending \cup {"record", "abandon"} PROVE Once'
  BY <1>a, <1>c DEF Once
<1>d. ASSUME UNCHANGED <<trail, ex>>, pc \in Sending \cup {"record"},
             pc' \in Sending \/ (pc' = "record" /\ pc = "record" /\ step' = step)
      PROVE  Once'
  BY <1>a, <1>d DEF Once, Skipped, ShowsSkip, Sending
<1>e. ASSUME UNCHANGED <<trail, ex>>, pc \in Sending, pc' = "record", step' \in {0, step}
      PROVE  Once'
  <2>1. \A l \in trail : l.outcome \in SentOutcomes /\ l.ex = ex => l.step # step'
    <3>1. \A l \in trail : l.outcome \in SentOutcomes /\ l.ex = ex => 0 < l.step /\ l.step < step
      BY <1>b, <1>e DEF Fresh
    <3>2. \A l \in trail : l.step \in Nat
      BY DEF TypeOK, Lines
    <3> QED
      BY <1>a, <1>e, <3>1, <3>2
  <2> QED
    BY <1>a, <1>e, <2>1 DEF Once, Skipped, ShowsSkip, Sending
<1> USE DEF Sending
<1>1. CASE WriteHeader \/ RecordDryRun \/ WriteSummary
  BY <1>1, <1>c, WritesPut DEF WriteHeader, RecordDryRun, WriteSummary
<1>2. ASSUME NEW j \in DOMAIN plan, StartExchange(j) PROVE Once'
  <2>1. ex' = j /\ j \notin handled /\ trail' = trail /\ pc' \in {"dryrun", "pace"}
    BY <1>2 DEF StartExchange, IsNext, Pending, file
  <2> QED
    BY <2>1, <1>a DEF Once, Skipped, ShowsSkip
<1>3. CASE \E j \in DOMAIN plan : SkipExchange(j)
  BY <1>3, <1>c DEF SkipExchange
<1>4. CASE PaceAtOnce \/ Wake
  BY <1>4, <1>d DEF PaceAtOnce, Wake, AfterPace, file
<1>5. CASE PaceCancelled \/ Judge
  BY <1>5, <1>c DEF PaceCancelled, Judge
<1>6. CASE DialBegins \/ DialSucceeds \/ SendRequest
  <2>1. UNCHANGED <<trail, ex>> /\ pc \in Sending /\ pc' \in Sending
    BY <1>6 DEF DialBegins, DialSucceeds, SendRequest, file
  <2> QED
    BY <2>1, <1>d
<1>7. CASE DialFails \/ Answered \/ Unanswered
  <2>1. UNCHANGED <<trail, ex>> /\ pc \in Sending /\ pc' = "record" /\ step' \in {0, step}
    BY <1>7 DEF DialFails, Answered, Unanswered, file
  <2> QED
    BY <2>1, <1>e
<1>8. CASE RecordPacket
  <2>1. outcome \in SentOutcomes /\ pc' \in {AfterRecord, "failed"} /\ ex' = ex
        /\ step' = (IF pc' \in {"pace", "abandon"} THEN step + 1 ELSE step)
    BY <1>8, <1>b, WritesPut DEF RecordPacket, Recording
  <2>2. Skipped' = Skipped
    <3>1. Puts(Line(ex, step, outcome)) /\ ~ ShowsSkip(Line(ex, step, outcome))
      BY <1>8, <2>1, Written, WhichShowSkip
    <3>2. CASE trail' = trail
      BY <3>2 DEF Skipped, ShowsSkip
    <3> QED
      BY <3>1, <3>2, PutsInto DEF Puts
  <2>3. ex \notin Skipped
    BY <1>8 DEF Once, RecordPacket
  <2> QED
    BY <1>a, <2>1, <2>2, <2>3 DEF Once, AfterRecord
<1>9. CASE RecordAbandoned
  <2>1. pc' \in {"abandon", "judge", "failed"} /\ step' \in {step, step + 1} /\ step # 0
    BY <1>9, WritesPut DEF RecordAbandoned, Once
  <2> QED
    BY <1>a, <2>1 DEF Once
<1>10. CASE ReplyBegins \/ Interrupt \/ Tick \/ UNCHANGED vars
  <2>1. UNCHANGED <<trail, ex, step, pc>>
    BY <1>10 DEF ReplyBegins, Interrupt, Tick, vars, file
  <2> QED
    BY <1>a, <2>1 DEF Once, Skipped, ShowsSkip
<1>11. CASE Kill
  BY <1>11, <1>c DEF Kill
<1> QED
  BY <1>1, <1>2, <1>3, <1>4, <1>5, <1>6, <1>7, <1>8, <1>9, <1>10, <1>11 DEF Next, EngineStep

(* The sets that are counted are finite.                                    *)
LEMMA CountedFinite ==
  ASSUME TypeOK, Once
  PROVE  /\ IsFiniteSet(handled)
         /\ IsFiniteSet(Skipped)
         /\ \A O : IsFiniteSet(LinesOf(O))
<1>1. IsFiniteSet(DOMAIN plan)
  <2>1. Len(plan) \in Nat
    BY DEF TypeOK
  <2>2. DOMAIN plan = 1 .. Len(plan)
    BY DomainType
  <2>3. IsFiniteSet(1 .. Len(plan))
    BY <2>1, FS_Interval
  <2> QED
    BY <2>2, <2>3
<1>2. IsFiniteSet(handled)
  BY <1>1, FS_Subset DEF TypeOK
<1>3. IsFiniteSet(Skipped)
  BY <1>2, FS_Subset DEF Once
<1>4. \A O : LinesOf(O) \subseteq trail
  BY DEF LinesOf
<1> QED
  BY <1>2, <1>3, <1>4, FS_Subset DEF Once

(* One element more counts for one more.                                    *)
LEMMA OneMore ==
  ASSUME NEW S, NEW x, IsFiniteSet(S), x \notin S
  PROVE  Cardinality(S \cup {x}) = Cardinality(S) + 1
  BY FS_AddElement

(* What a line adds to the numbers of lines when it is written.             *)
LEMMA PutsCounts ==
  ASSUME TypeOK, Once, NEW line, line \notin trail, trail' = trail \cup {line}
  PROVE  \A O : Cardinality(LinesOf(O)') =
                  Cardinality(LinesOf(O)) + (IF line.outcome \in O THEN 1 ELSE 0)
<1> TAKE O
<1>1. IsFiniteSet(LinesOf(O)) /\ line \notin LinesOf(O) /\ Cardinality(LinesOf(O)) \in Nat
  BY CountedFinite, FS_CardinalityType DEF LinesOf
<1>2. LinesOf(O)' = IF line.outcome \in O THEN LinesOf(O) \cup {line} ELSE LinesOf(O)
  BY PutsInto
<1> QED
  BY <1>1, <1>2, OneMore

(* Lines that are not about packets leave these alone.                      *)
LEMMA OtherLines ==
  ASSUME NEW line, Puts(line), line.outcome \notin SentOutcomes
  PROVE  UNCHANGED <<Sent, Answers, Failures>>
<1>1. CASE trail' = trail
  BY <1>1 DEF LinesOf, Sent, Answers, Failures
<1>2. CASE trail' = trail \cup {line}
  <2>1. line.outcome \notin {"answered"} /\ line.outcome \notin {"no-answer", "unreachable"}
    BY DEF SentOutcomes
  <2> QED
    BY <1>2, <2>1, PutsInto DEF Sent, Answers, Failures
<1> QED
  BY <1>1, <1>2 DEF Puts

(* A packet is counted when its fate is known, and has its line next.       *)
LEMMA PacketsCountedStep ==
  ASSUME TypeOK, IInv, Once, PacketsCounted, [Next]_vars, disk' = "ok", pc' \notin Terminal
  PROVE  PacketsCounted'
<1>a. /\ Cardinality(Sent) \in Nat /\ Cardinality(Answers) \in Nat /\ Cardinality(Failures) \in Nat
  BY CountedFinite, FS_CardinalityType DEF Sent, Answers, Failures
<1> DEFINE SameCounts == /\ result'.sent = result.sent
                         /\ result'.failed = result.failed
                         /\ result'.answered = result.answered
<1>b. ASSUME SameCounts, UNCHANGED <<Sent, Answers, Failures>>,
             \/ pc # "record" /\ pc' # "record"
             \/ pc = "record" /\ pc' = "record" /\ outcome' = outcome
      PROVE  PacketsCounted'
  BY <1>b DEF PacketsCounted
<1>c. trail' = trail => UNCHANGED <<Sent, Answers, Failures>>
  BY DEF Sent, Answers, Failures, LinesOf
<1>1. CASE WriteHeader \/ RecordDryRun \/ WriteSummary \/ RecordAbandoned
  <2>1. SameCounts
    BY <1>1, CountOther DEF WriteHeader, RecordDryRun, WriteSummary, RecordAbandoned
  <2>2. pc # "record" /\ pc' # "record"
    BY <1>1, WritesPut DEF WriteHeader, RecordDryRun, WriteSummary, RecordAbandoned
  <2>3. UNCHANGED <<Sent, Answers, Failures>>
    BY <1>1, Written, OtherLines, LineParts DEF SummaryLine, SentOutcomes
  <2> QED
    BY <2>1, <2>2, <2>3, <1>b
<1>2. ASSUME NEW j \in DOMAIN plan, StartExchange(j) PROVE PacketsCounted'
  <2>1. SameCounts
    BY <1>2, CountOther DEF StartExchange
  <2>2. pc # "record" /\ pc' # "record" /\ trail' = trail
    BY <1>2 DEF StartExchange, file
  <2> QED
    BY <2>1, <2>2, <1>b, <1>c
<1>3. ASSUME NEW j \in DOMAIN plan, SkipExchange(j) PROVE PacketsCounted'
  <2>1. SameCounts
    BY <1>3, CountOther DEF SkipExchange
  <2>2. pc # "record" /\ pc' # "record"
    BY <1>3 DEF SkipExchange
  <2>3. Refusal(j) \notin SentOutcomes
    BY DEF Refusal, SentOutcomes
  <2>4. UNCHANGED <<Sent, Answers, Failures>>
    BY <1>3, <2>3, Written, OtherLines, LineParts
  <2> QED
    BY <2>1, <2>2, <2>4, <1>b
<1>4. CASE PaceAtOnce \/ Wake \/ DialBegins \/ DialSucceeds \/ SendRequest \/ Judge
  <2>1. SameCounts /\ trail' = trail /\ pc # "record" /\ pc' # "record"
    BY <1>4
    DEF PaceAtOnce, Wake, DialBegins, DialSucceeds, SendRequest, Judge, AfterPace, file
  <2> QED
    BY <2>1, <1>b, <1>c
<1>5. CASE PaceCancelled
  <2>1. SameCounts
    BY <1>5, CountOther DEF PaceCancelled
  <2>2. pc # "record" /\ pc' # "record"
    BY <1>5 DEF PaceCancelled
  <2>3. UNCHANGED <<Sent, Answers, Failures>>
    BY <1>5, <1>c, Written, OtherLines, LineParts DEF SentOutcomes
  <2> QED
    BY <2>1, <2>2, <2>3, <1>b
<1>6. CASE DialFails \/ Unanswered
  <2>1. /\ result'.sent = result.sent + 1 /\ result'.failed = result.failed + 1
        /\ result'.answered = result.answered
    BY <1>6, CountFailure DEF DialFails, Unanswered
  <2>2. pc # "record" /\ pc' = "record" /\ outcome' # "answered" /\ trail' = trail
    BY <1>6 DEF DialFails, Unanswered, file
  <2> QED
    BY <2>1, <2>2, <1>a, <1>c DEF PacketsCounted
<1>7. CASE Answered
  <2>1. /\ result'.sent = result.sent + 1 /\ result'.failed = result.failed
        /\ result'.answered = result.answered + 1
    BY <1>7, CountAnswer DEF Answered
  <2>2. pc # "record" /\ pc' = "record" /\ outcome' = "answered" /\ trail' = trail
    BY <1>7 DEF Answered, file
  <2> QED
    BY <2>1, <2>2, <1>a, <1>c DEF PacketsCounted
<1>8. CASE RecordPacket
  <2> DEFINE line == Line(ex, step, outcome)
  <2>1. outcome \in SentOutcomes /\ pc = "record" /\ SameCounts
    BY <1>8 DEF RecordPacket, IInv, Recording
  <2>2. pc' # "record"
    BY <1>8, WritesPut DEF RecordPacket, AfterRecord, Terminal
  <2>3. trail' = trail \cup {line}
    BY <1>8, Written DEF Puts
  <2>4. line \notin trail
    BY <2>1, LineParts DEF Once
  <2>5. /\ Cardinality(Sent') = Cardinality(Sent) + 1
        /\ Cardinality(Answers') = Cardinality(Answers) + (IF outcome = "answered" THEN 1 ELSE 0)
        /\ Cardinality(Failures') = Cardinality(Failures) + (IF outcome # "answered" THEN 1 ELSE 0)
    <3>1. \A O : Cardinality(LinesOf(O)') =
                   Cardinality(LinesOf(O)) + (IF line.outcome \in O THEN 1 ELSE 0)
      BY <2>3, <2>4, PutsCounts
    <3>2. line.outcome = outcome
      BY LineParts
    <3>3. outcome \in {"no-answer", "unreachable"} <=> outcome # "answered"
      BY <2>1 DEF SentOutcomes
    <3> QED
      BY <2>1, <3>1, <3>2, <3>3 DEF Sent, Answers, Failures
  <2> QED
    BY <2>1, <2>2, <2>5, <1>a DEF PacketsCounted
<1>9. CASE ReplyBegins \/ Interrupt \/ Kill \/ Tick \/ UNCHANGED vars
  <2>1. SameCounts /\ trail' = trail /\ outcome' = outcome /\ (pc' = pc \/ pc' = "killed")
    BY <1>9 DEF ReplyBegins, Interrupt, Kill, Tick, vars, file
  <2> QED
    BY <2>1, <1>b, <1>c DEF Terminal
<1> QED
  BY <1>1, <1>2, <1>3, <1>4, <1>5, <1>6, <1>7, <1>8, <1>9 DEF Next, EngineStep

(* How each way of counting moves the two counters of exchanges.            *)
LEMMA CountExchange ==
  ASSUME TypeOK
  PROVE  /\ result' = [result EXCEPT !.attempted = @ + 1] =>
              result'.attempted = result.attempted + 1 /\ result'.skipped = result.skipped
         /\ result' = [result EXCEPT !.attempted = @ + 1, !.skipped = @ + 1] =>
              result'.attempted = result.attempted + 1 /\ result'.skipped = result.skipped + 1
         /\ result' = [result EXCEPT !.skipped = @ + 1] =>
              result'.attempted = result.attempted /\ result'.skipped = result.skipped + 1
         /\ result' = [result EXCEPT !.sent = @ + 1, !.failed = @ + 1] =>
              result'.attempted = result.attempted /\ result'.skipped = result.skipped
         /\ result' = [result EXCEPT !.sent = @ + 1, !.answered = @ + 1] =>
              result'.attempted = result.attempted /\ result'.skipped = result.skipped
  BY DEF TypeOK, Counts

(* An exchange is counted when it is taken, and as skipped when it is       *)
(* refused, called off before its dial, or run dry to its last step.        *)
LEMMA ExchangesCountedStep ==
  ASSUME TypeOK, IInv, Once, ExchangesCounted, [Next]_vars, disk' = "ok", pc' \notin Terminal
  PROVE  ExchangesCounted'
<1>a. /\ IsFiniteSet(handled) /\ IsFiniteSet(Skipped) /\ Skipped \subseteq handled
      /\ Cardinality(handled) \in Nat /\ Cardinality(Skipped) \in Nat
  BY CountedFinite, FS_CardinalityType DEF Once
<1> DEFINE Same == result'.attempted = result.attempted /\ result'.skipped = result.skipped
<1>b. ASSUME Same, UNCHANGED <<ex, handled, Skipped>>, pc' = "dryrun" <=> pc = "dryrun"
      PROVE  ExchangesCounted'
  BY <1>b DEF ExchangesCounted
<1>c. trail' = trail => Skipped' = Skipped
  BY DEF Skipped, ShowsSkip
<1>d. ASSUME NEW line, Puts(line), ~ ShowsSkip(line) PROVE Skipped' = Skipped
  BY <1>c, <1>d, PutsInto DEF Puts
<1>e. ASSUME NEW line, Puts(line), ShowsSkip(line) PROVE Skipped' = Skipped \cup {line.ex}
  BY <1>e, PutsInto DEF Puts
<1>1. CASE WriteHeader
  <2>1. Same /\ UNCHANGED <<ex, handled>> /\ pc # "dryrun" /\ pc' # "dryrun"
    BY <1>1, WritesPut DEF WriteHeader
  <2>2. Skipped' = Skipped
    BY <1>1, <1>d, Written, WhichShowSkip
  <2> QED
    BY <2>1, <2>2, <1>b
<1>2. ASSUME NEW j \in DOMAIN plan, StartExchange(j) PROVE ExchangesCounted'
  <2>1. result'.attempted = result.attempted + 1 /\ result'.skipped = result.skipped
    BY <1>2, CountExchange DEF StartExchange
  <2>2. /\ ex' = j /\ j \notin handled /\ handled' = handled \cup {j}
        /\ pc = "next" /\ trail' = trail
    BY <1>2 DEF StartExchange, IsNext, Pending, file
  <2>3. Cardinality(handled') = Cardinality(handled) + 1
    BY <2>2, <1>a, OneMore
  <2>4. Skipped' = Skipped /\ Skipped \ {j} = Skipped
    BY <2>2, <1>a, <1>c
  <2> QED
    BY <2>1, <2>2, <2>3, <2>4 DEF ExchangesCounted
<1>3. ASSUME NEW j \in DOMAIN plan, SkipExchange(j) PROVE ExchangesCounted'
  <2>1. result'.attempted = result.attempted + 1 /\ result'.skipped = result.skipped + 1
    BY <1>3, CountExchange DEF SkipExchange
  <2>2. j \notin handled /\ handled' = handled \cup {j} /\ pc = "next" /\ pc' = "next"
    BY <1>3 DEF SkipExchange, IsNext, Pending
  <2>3. Cardinality(handled') = Cardinality(handled) + 1
    BY <2>2, <1>a, OneMore
  <2>4. Refusal(j) \in SkipOutcomes
    BY <1>3 DEF SkipExchange, Refusal, SkipOutcomes
  <2>5. Skipped' = Skipped \cup {j}
    <3> DEFINE line == Line(j, 0, Refusal(j))
    <3>1. Puts(line)
      BY <1>3, Written
    <3>2. ShowsSkip(line)
      BY <2>4, WhichShowSkip
    <3>3. line.ex = j
      BY LineParts
    <3> HIDE DEF line
    <3> QED
      BY <3>1, <3>2, <3>3, <1>e
  <2>6. Cardinality(Skipped') = Cardinality(Skipped) + 1
    BY <2>2, <2>5, <1>a, OneMore
  <2> QED
    BY <2>1, <2>2, <2>3, <2>6 DEF ExchangesCounted
<1>4. CASE RecordDryRun
  <2>1. Skipped' = Skipped \cup {ex} /\ UNCHANGED <<ex, handled>> /\ pc = "dryrun"
    BY <1>4, <1>e, Written, WhichShowSkip, LineParts DEF RecordDryRun
  <2>2. pc' \in {"next", "dryrun"}
    BY <1>4, WritesPut DEF RecordDryRun, Terminal
  <2>3. CASE pc' = "dryrun"
    <3>1. result' = result
      BY <1>4, <2>3 DEF RecordDryRun
    <3>2. Skipped' \ {ex'} = Skipped \ {ex}
      BY <2>1
    <3> QED
      BY <2>1, <2>3, <3>1, <3>2 DEF ExchangesCounted
  <2>4. CASE pc' = "next"
    <3>1. result'.attempted = result.attempted /\ result'.skipped = result.skipped + 1
      BY <1>4, <2>4, CountExchange DEF RecordDryRun
    <3>2. IsFiniteSet(Skipped \ {ex}) /\ Skipped' = (Skipped \ {ex}) \cup {ex}
      BY <2>1, <1>a, FS_RemoveElement
    <3>3. Cardinality(Skipped') = Cardinality(Skipped \ {ex}) + 1
      BY <3>2, OneMore
    <3> QED
      BY <2>1, <2>4, <3>1, <3>3 DEF ExchangesCounted
  <2> QED
    BY <2>2, <2>3, <2>4
<1>5. CASE WriteSummary
  BY <1>5, WritesPut DEF WriteSummary, Terminal
<1>6. CASE PaceAtOnce \/ Wake \/ DialBegins \/ DialSucceeds \/ SendRequest \/ Judge
  <2>1. Same /\ UNCHANGED <<ex, handled, trail>> /\ pc # "dryrun" /\ pc' # "dryrun"
    BY <1>6
    DEF PaceAtOnce, Wake, DialBegins, DialSucceeds, SendRequest, Judge, AfterPace, file
  <2> QED
    BY <2>1, <1>b, <1>c
<1>7. CASE PaceCancelled
  <2>1. UNCHANGED <<ex, handled>> /\ pc \in {"pace", "sleep"} /\ pc' = "judge"
    BY <1>7 DEF PaceCancelled
  <2>2. CASE step # 1
    <3>1. Same /\ trail' = trail
      BY <1>7, <2>2 DEF PaceCancelled, file
    <3> QED
      BY <2>1, <3>1, <1>b, <1>c
  <2>3. CASE step = 1
    <3>1. result'.attempted = result.attempted /\ result'.skipped = result.skipped + 1
      BY <1>7, <2>3, CountExchange DEF PaceCancelled
    <3>2. Skipped' = Skipped \cup {ex}
      BY <1>7, <2>3, <1>e, Written, WhichShowSkip, LineParts DEF SkipOutcomes
    <3>3. ex \notin Skipped
      BY <2>1 DEF Once, Sending
    <3>4. Cardinality(Skipped') = Cardinality(Skipped) + 1
      BY <3>2, <3>3, <1>a, OneMore
    <3> QED
      BY <2>1, <3>1, <3>4 DEF ExchangesCounted
  <2> QED
    BY <2>2, <2>3
<1>8. CASE DialFails \/ Answered \/ Unanswered
  <2>1. Same
    BY <1>8, CountExchange DEF DialFails, Answered, Unanswered
  <2>2. UNCHANGED <<ex, handled, trail>> /\ pc # "dryrun" /\ pc' # "dryrun"
    BY <1>8 DEF DialFails, Answered, Unanswered, file
  <2> QED
    BY <2>1, <2>2, <1>b, <1>c
<1>9. CASE RecordPacket
  <2>1. Same /\ UNCHANGED <<ex, handled>> /\ pc # "dryrun" /\ pc' # "dryrun"
    BY <1>9, WritesPut DEF RecordPacket, AfterRecord
  <2>2. outcome \in SentOutcomes
    BY <1>9 DEF RecordPacket, IInv, Recording
  <2>3. Skipped' = Skipped
    BY <1>9, <2>2, <1>d, Written, WhichShowSkip
  <2> QED
    BY <2>1, <2>3, <1>b
<1>10. CASE RecordAbandoned
  <2>1. Same /\ UNCHANGED <<ex, handled>> /\ pc # "dryrun" /\ pc' # "dryrun" /\ step # 0
    BY <1>10, WritesPut DEF RecordAbandoned, Once
  <2>2. Skipped' = Skipped
    BY <1>10, <2>1, <1>d, Written, WhichShowSkip DEF SkipOutcomes
  <2> QED
    BY <2>1, <2>2, <1>b
<1>11. CASE ReplyBegins \/ Interrupt \/ Kill \/ Tick \/ UNCHANGED vars
  <2>1. Same /\ UNCHANGED <<ex, handled, trail>> /\ (pc' = pc \/ pc' = "killed")
    BY <1>11 DEF ReplyBegins, Interrupt, Kill, Tick, vars, file
  <2> QED
    BY <2>1, <1>b, <1>c DEF Terminal
<1> QED
  BY <1>1, <1>2, <1>3, <1>4, <1>5, <1>6, <1>7, <1>8, <1>9, <1>10, <1>11 DEF Next, EngineStep

(* When the summary is written nothing is on its way, so that the counters, *)
(* which followed the lines all along, are theirs.                          *)
LEMMA AgreementStep ==
  ASSUME TypeOK, IInv, Closed, Once, Agreement, [Next]_vars
  PROVE  Agreement'
<1>1. CASE pc \in Terminal
  <2>1. UNCHANGED vars
    BY <1>1, OverIsOver
  <2> QED
    BY <1>1, <2>1 DEF vars, Agreement, SummaryAgrees, LinesOf, Filed, Line
<1>2. CASE pc \notin Terminal
  <2>1. SummaryLine \notin trail
    BY <1>2 DEF Closed, Terminal
  <2>2. disk' = "ok" /\ pc' \notin Terminal => (PacketsCounted /\ ExchangesCounted)'
    BY <1>2, LostForGood, PacketsCountedStep, ExchangesCountedStep DEF Agreement
  <2>3. SummaryAgrees'
    <3> SUFFICES ASSUME SummaryLine \in trail' PROVE SummaryAgrees'
      BY DEF SummaryAgrees, SummaryLine, Line
    <3>1. WriteSummary
      BY <2>1, OnlySummarySums
    <3>2. disk = "ok" /\ trail' = trail \cup {SummaryLine}
      BY <2>1, <3>1, WritesPut DEF WriteSummary, WriteOrFail, Write, SummaryLine
    <3>3. pc = "next" /\ handled = DOMAIN plan /\ UNCHANGED <<result, wire, plan>>
      BY <3>1 DEF WriteSummary, Pending, TypeOK, network, input
    <3>4. PacketsCounted /\ ExchangesCounted
      BY <1>2, <3>2 DEF Agreement
    <3>5. \A p \in wire' : Filed(p)'
      <4>1. \A p \in wire : Filed(p)
        BY <3>3 DEF IInv, Filing
      <4> QED
        BY <4>1, <3>3, TrailGrows, FiledStable
    <3>6. UNCHANGED <<Sent, Answers, Failures, Skipped>>
      <4>1. SummaryLine.outcome = "summary" /\ ~ ShowsSkip(SummaryLine)
        <5>1. SummaryLine.outcome = "summary"
          BY LineParts DEF SummaryLine
        <5> QED
          BY <5>1 DEF ShowsSkip, SkipOutcomes
      <4>2. Skipped' = Skipped
        BY <3>2, <4>1, PutsInto
      <4>3. Puts(SummaryLine)
        BY <3>1, Written
      <4>4. UNCHANGED <<Sent, Answers, Failures>>
        BY <4>1, <4>3, OtherLines DEF SentOutcomes
      <4> QED
        BY <4>2, <4>4
    <3>7. result'.attempted = Len(plan)
      <4>1. Len(plan) \in Nat /\ DOMAIN plan = 1 .. Len(plan)
        BY DomainType DEF TypeOK
      <4>2. ASSUME NEW n \in Nat PROVE Cardinality(1 .. n) = n
        <5>1. Cardinality(1 .. n) = IF 1 > n THEN 0 ELSE n - 1 + 1
          BY FS_Interval
        <5> QED
          BY <5>1
      <4> QED
        BY <3>3, <3>4, <4>1, <4>2 DEF ExchangesCounted
    <3>8. /\ result'.sent = Cardinality(Sent') /\ result'.answered = Cardinality(Answers')
          /\ result'.failed = Cardinality(Failures') /\ result'.skipped = Cardinality(Skipped')
      <4>1. /\ Cardinality(Sent) \in Nat /\ Cardinality(Answers) \in Nat
            /\ Cardinality(Failures) \in Nat
        BY CountedFinite, FS_CardinalityType DEF Sent, Answers, Failures
      <4> QED
        BY <3>3, <3>4, <3>6, <4>1 DEF PacketsCounted, ExchangesCounted
    <3>9. Skipped' = ({l.ex : l \in LinesOf({"dry-run"})} \cup
                      {l.ex : l \in {m \in LinesOf(SkipOutcomes) : m.step = 0}})'
      BY DEF Skipped, ShowsSkip, LinesOf
    <3> QED
      BY <3>3, <3>5, <3>7, <3>8, <3>9 DEF SummaryAgrees, Sent, Answers, Failures
  <2> QED
    BY <2>2, <2>3 DEF Agreement
<1> QED
  BY <1>1, <1>2

(* A file that ends in a summary is complete and agrees with it: every      *)
(* packet has its line, and the totals are those of the lines.              *)
THEOREM SummaryIsOfTheFile == Spec => []SummaryAgrees
<1>1. Init => Closed /\ Once /\ Agreement
  <2> SUFFICES ASSUME Init PROVE Closed /\ Once /\ Agreement
    OBVIOUS
  <2>1. trail = {} /\ handled = {} /\ pc = "header" /\ result = NoCounts
    BY DEF Init
  <2>2. Skipped = {} /\ Sent = {} /\ Answers = {} /\ Failures = {}
    BY <2>1 DEF Skipped, Sent, Answers, Failures, LinesOf
  <2>3. Closed /\ Once
    BY <2>1, <2>2, FS_EmptySet DEF Closed, Once, Sending
  <2>4. PacketsCounted /\ ExchangesCounted
    BY <2>1, <2>2, FS_EmptySet DEF PacketsCounted, ExchangesCounted, NoCounts
  <2>5. SummaryAgrees
    BY <2>1 DEF SummaryAgrees
  <2> QED
    BY <2>3, <2>4, <2>5 DEF Agreement
<1>2. TypeOK /\ IInv /\ Closed /\ Once /\ Agreement /\ [Next]_vars
        => (Closed /\ Once /\ Agreement)'
  BY ClosedStep, OnceStep, AgreementStep
<1>3. Agreement => SummaryAgrees
  BY DEF Agreement
<1> QED
  BY <1>1, <1>2, <1>3, Invariance, PTL DEF Spec
=============================================================================

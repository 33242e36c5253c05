---------------------------- MODULE SafetyEngine ----------------------------
(***************************************************************************)
(* The sending loop of internal/safety/engine.go, with the connection of   *)
(* internal/probe/dial.go, the audit file of internal/safety/audit.go, the *)
(* operator's interrupt, and a kill at any instant.                        *)
(*                                                                         *)
(* A packet <<i, k>> is step k of exchange i of the plan.  The dial and    *)
(* the first request are one packet here, as they are for the engine: it   *)
(* counts and records them together.  Time is a number of ticks since an   *)
(* event, which stops growing at Interval, the longest wait the engine     *)
(* ever compares it with, or the number of ticks left until a deadline.    *)
(***************************************************************************)
EXTENDS Integers, Sequences, FiniteSets, DenyList

CONSTANTS
  Hosts,
  Inputs,         \* what a run is given: [exchanges, known, dryRun]
  Rules,          \* the deny list
  Device,         \* what each host really is
  Disclosures,    \* the sets of fields one reply may disclose
  AllowedRisk,
  Delay,          \* Policy.InterPacketDelay, in ticks
  RateGap,        \* one second over Policy.PacketsPerSecond, in ticks
  ConnectTimeout, \* Policy.ConnectTimeout, in ticks
  ReadTimeout,    \* Policy.ReadTimeout, in ticks
  MinAttempts,    \* Policy.MinAttemptsBeforeAbort
  RateNum,        \* Policy.ErrorRateAbort is RateNum / RateDen
  RateDen

Risks == {"safe", "caution", "lab-only"}

RiskOrder(risk) == CASE risk = "safe" -> 0
                     [] risk = "caution" -> 1
                     [] risk = "lab-only" -> 2

AtMost(risk, ceiling) == RiskOrder(risk) <= RiskOrder(ceiling)

Exchange == [host : Hosts, template : Templates, protocol : Protocols,
             transport : {"tcp", "udp"}, risk : Risks, steps : Nat \ {0}]

Input == [exchanges : Seq(Exchange), known : [Hosts -> Identity], dryRun : BOOLEAN]

ASSUME InputAssumption ==
  /\ Inputs \subseteq Input
  /\ Device \in [Hosts -> Identity]
  /\ Disclosures \subseteq SUBSET Fields
  /\ Rules \subseteq Rule
  /\ \A rule \in Rules : ValidRule(rule)

(* Policy.Validate *)
ASSUME PolicyAssumption ==
  /\ AllowedRisk \in Risks
  /\ Delay \in Nat \ {0}
  /\ RateGap \in Nat \ {0}
  /\ ConnectTimeout \in Nat \ {0}
  /\ ReadTimeout \in Nat \ {0}
  /\ MinAttempts \in Nat \ {0}
  /\ RateNum \in Nat \ {0}
  /\ RateDen \in Nat \ {0}
  /\ 5 * RateNum <= RateDen

Interval_Looser == IF RateGap < Delay THEN RateGap ELSE Delay

(* The stricter of the two controls, not their sum. *)
Interval == IF RateGap > Delay THEN RateGap ELSE Delay

VARIABLES
  plan,           \* Plan.Exchanges
  prior,          \* Plan.Known
  dryRun,         \* Engine.dryRun
  pc,             \* where the loop stands
  ex,             \* the exchange being run
  step,           \* its step, counting from one
  handled,        \* the exchanges taken so far, ex included
  known,          \* the identities known so far, prior ones included
  since,          \* ticks since lastSend
  result,         \* the counters of Result
  reason,         \* Result.AbortReason; Result.Aborted is reason # "none"
  replies,        \* Result.Replies: the packet and what its reply told
  outcome,        \* of the packet about to be recorded
  cancelled,      \* the context is done
  trail,          \* the lines of the audit file
  disk,           \* whether the encoder of the audit file still writes
  wire,           \* every packet that has left
  quiet,          \* ticks since anything left
  late,           \* the packets that left after the interrupt
  raced,          \* timers that fired although the context was done
  deadline,       \* ticks left of the dial or the read under way, or NoDeadline
  heard           \* bytes of a reply have come, not yet a whole one

vars == <<plan, prior, dryRun, pc, ex, step, handled, known, since, result, reason,
          replies, outcome, cancelled, trail, disk, wire, quiet, late, raced,
          deadline, heard>>

input == <<plan, prior, dryRun>>
network == <<wire, quiet, late>>
timers == <<raced, deadline, heard>>
file == <<trail, disk>>

(* A connection without one, which may wait for ever. *)
NoDeadline == -1

Terminal == {"returned", "failed", "killed"}

PCs == Terminal \cup
       {"header", "next", "dryrun", "pace", "sleep", "dial", "dialing",
        "request", "awaiting", "record", "abandon", "judge"}

(* Inside an exchange. *)
Running == PCs \ (Terminal \cup {"header", "next"})

Reasons == {"none", "cancelled", "failures"}

SentOutcomes == {"answered", "no-answer", "unreachable"}
SkipOutcomes == {"skipped-risk", "skipped-denied", "skipped-aborted"}
Outcomes == SentOutcomes \cup SkipOutcomes \cup {"dry-run", "run", "summary"}

Failed_Silence(o) == o = "no-answer"

(* Outcome.Failed *)
Failed(o) == o \in {"no-answer", "unreachable"}

(* A line about exchange i as a whole has step 0; the header and the *)
(* summary are about exchange 0.                                     *)
Line(i, k, o) == [ex |-> i, step |-> k, outcome |-> o]

Lines == [ex : Nat, step : Nat, outcome : Outcomes]

Aborted == reason # "none"

Counts == [attempted : Nat, sent : Nat, answered : Nat, failed : Nat, skipped : Nat]

NoCounts == [attempted |-> 0, sent |-> 0, answered |-> 0, failed |-> 0, skipped |-> 0]

Init ==
  /\ \E given \in Inputs :
       /\ plan = given.exchanges
       /\ prior = given.known
       /\ known = given.known
       /\ dryRun = given.dryRun
  /\ pc = "header"
  /\ ex = 0
  /\ step = 0
  /\ handled = {}
  /\ since = Interval
  /\ result = NoCounts
  /\ reason = "none"
  /\ replies = {}
  /\ outcome = "run"
  /\ cancelled = FALSE
  /\ trail = {}
  /\ disk = "ok"
  /\ wire = {}
  /\ quiet = Interval
  /\ late = {}
  /\ raced = 0
  /\ deadline = NoDeadline
  /\ heard = FALSE

-----------------------------------------------------------------------------
Write_Forgiving(line, err) ==
  /\ trail' \in {trail, trail \cup {line}}
  /\ line \notin trail' => err
  /\ UNCHANGED disk

(* Auditor.write.  Encoding may fail, and the encoder then fails every     *)
(* later line too; or the line is written and flushing it fails.           *)
Write(line, err) ==
  \/ /\ disk = "ok"
     /\ trail' = trail \cup {line}
     /\ UNCHANGED disk
  \/ /\ err
     /\ disk' = "broken"
     /\ UNCHANGED trail

WriteOrFail_Swallow(line, then) ==
  /\ \E err \in BOOLEAN : Write(line, err)
  /\ pc' = then

(* A write whose error ends the run. *)
WriteOrFail(line, then) ==
  \/ Write(line, FALSE) /\ pc' = then
  \/ Write(line, TRUE) /\ pc' = "failed"

(* A write whose error is dropped. *)
WriteOrDrop(line) == \E err \in BOOLEAN : Write(line, err)

(* Run: writeHeader *)
WriteHeader ==
  /\ pc = "header"
  /\ WriteOrFail(Line(0, 0, "run"), "next")
  /\ UNCHANGED <<input, ex, step, handled, known, since, result, reason, replies,
                 outcome, cancelled, network, timers>>

(* groupByHost and the two loops over it: the hosts in the order they first *)
(* appear, and the exchanges of one in the caller's order.                  *)
Pending == DOMAIN plan \ handled

SameHost(i, j) == plan[i].host = plan[j].host

IsNext(j) ==
  /\ j \in Pending
  /\ \A i \in Pending : SameHost(i, j) => j <= i
  /\ IF ex # 0 /\ \E i \in Pending : SameHost(i, ex)
     THEN SameHost(j, ex)
     ELSE \A i \in Pending : j <= i

Refusal_OnceAborted(j) ==
  IF cancelled THEN "skipped-aborted"
  ELSE IF ~ AtMost(plan[j].risk, AllowedRisk) THEN "skipped-risk"
  ELSE IF Denied(Rules, known[plan[j].host], plan[j]) THEN "skipped-denied"
  ELSE "none"

(* What the loop decides about an exchange before anything is sent for it. *)
Refusal(j) ==
  IF Aborted \/ cancelled THEN "skipped-aborted"
  ELSE IF ~ AtMost(plan[j].risk, AllowedRisk) THEN "skipped-risk"
  ELSE IF Denied(Rules, known[plan[j].host], plan[j]) THEN "skipped-denied"
  ELSE "none"

StartExchange(j) ==
  /\ pc = "next"
  /\ IsNext(j)
  /\ Refusal(j) = "none"
  /\ ex' = j
  /\ step' = 1
  /\ handled' = handled \cup {j}
  /\ result' = [result EXCEPT !.attempted = @ + 1]
  /\ pc' = IF dryRun THEN "dryrun" ELSE "pace"
  /\ UNCHANGED <<input, known, since, reason, replies, outcome, cancelled, file, network,
                 timers>>

(* recordSkip: the error of the write is dropped. *)
SkipExchange(j) ==
  /\ pc = "next"
  /\ IsNext(j)
  /\ Refusal(j) # "none"
  /\ ex' = j
  /\ step' = 0
  /\ handled' = handled \cup {j}
  /\ result' = [result EXCEPT !.attempted = @ + 1, !.skipped = @ + 1]
  /\ reason' = IF cancelled /\ ~ Aborted THEN "cancelled" ELSE reason
  /\ WriteOrDrop(Line(j, 0, Refusal(j)))
  /\ UNCHANGED <<input, pc, known, since, replies, outcome, cancelled, network, timers>>

LastStep_OffByOne == step > plan[ex].steps

LastStep == step = plan[ex].steps

(* recordDryRun: one line per step, and the first error ends the run. *)
RecordDryRun ==
  /\ pc = "dryrun"
  /\ WriteOrFail(Line(ex, step, "dry-run"), IF LastStep THEN "next" ELSE "dryrun")
  /\ step' = IF LastStep THEN step ELSE step + 1
  /\ result' = IF pc' = "next" THEN [result EXCEPT !.skipped = @ + 1] ELSE result
  /\ UNCHANGED <<input, ex, handled, known, since, reason, replies, outcome, cancelled,
                 network, timers>>

(* Run: writeSummary *)
WriteSummary ==
  /\ pc = "next"
  /\ Pending = {}
  /\ WriteOrFail(Line(0, 0, "summary"), "returned")
  /\ UNCHANGED <<input, ex, step, handled, known, since, result, reason, replies,
                 outcome, cancelled, network, timers>>

-----------------------------------------------------------------------------
(* runExchange.  Before the dial and before every later request, pace waits *)
(* out the interval.  lastSend being zero is since = Interval: no wait.     *)
AfterPace == IF step = 1 THEN "dial" ELSE "request"

Waited == since >= Interval

PaceAtOnce_Deaf ==
  /\ pc = "pace"
  /\ pc' = IF Waited THEN AfterPace ELSE "sleep"
  /\ UNCHANGED <<input, ex, step, handled, known, since, result, reason, replies,
                 outcome, cancelled, file, network, timers>>

(* Only a pace with nothing to wait for looks at the context first; with *)
(* some of the interval left it goes to sleep, interrupted or not.       *)
PaceAtOnce ==
  /\ pc = "pace"
  /\ Waited => ~ cancelled
  /\ pc' = IF Waited THEN AfterPace ELSE "sleep"
  /\ UNCHANGED <<input, ex, step, handled, known, since, result, reason, replies,
                 outcome, cancelled, file, network, timers>>

(* The timer fires.  A select that finds the timer and the context both *)
(* ready may take either, so an interrupt does not disable this step.   *)
Wake ==
  /\ pc = "sleep"
  /\ Waited
  /\ pc' = AfterPace
  /\ raced' = IF cancelled THEN raced + 1 ELSE raced
  /\ UNCHANGED <<input, ex, step, handled, known, since, result, reason, replies,
                 outcome, cancelled, file, network, deadline, heard>>

(* pace returns the context's error.  Before the dial the exchange is     *)
(* recorded as skipped; between two steps the rest of it is not recorded. *)
PaceCancelled ==
  /\ pc = "sleep" \/ (pc = "pace" /\ Waited)
  /\ cancelled
  /\ reason' = "cancelled"
  /\ pc' = "judge"
  /\ IF step = 1
     THEN /\ result' = [result EXCEPT !.skipped = @ + 1]
          /\ WriteOrDrop(Line(ex, 0, "skipped-aborted"))
     ELSE UNCHANGED <<result, file>>
  /\ UNCHANGED <<input, ex, step, handled, known, since, replies, outcome, cancelled,
                 network, timers>>

Leaves(p) ==
  /\ wire' = wire \cup {p}
  /\ quiet' = 0
  /\ late' = IF cancelled THEN late \cup {p} ELSE late

(* NetDialer.Dial begins.  Only a TCP dial puts anything on the wire. *)
DialBegins ==
  /\ pc = "dial"
  /\ ~ cancelled
  /\ pc' = "dialing"
  /\ deadline' = ConnectTimeout
  /\ IF plan[ex].transport = "tcp" THEN Leaves(<<ex, 1>>) ELSE UNCHANGED network
  /\ UNCHANGED <<input, ex, step, handled, known, since, result, reason, replies,
                 outcome, cancelled, file, raced, heard>>

DialSucceeds ==
  /\ pc = "dialing"
  /\ pc' = "request"
  /\ deadline' = NoDeadline
  /\ UNCHANGED <<input, ex, step, handled, known, since, result, reason, replies,
                 outcome, cancelled, file, network, raced, heard>>

(* Refused, timed out, or given up for the interrupt; a context that is done *)
(* before the dial begins fails it too, and nothing has left.  All count.    *)
DialFails ==
  /\ \/ pc = "dialing"
     \/ pc = "dial" /\ cancelled
  /\ pc' = "record"
  /\ outcome' = "unreachable"
  /\ step' = 0
  /\ since' = 0
  /\ result' = [result EXCEPT !.sent = @ + 1, !.failed = @ + 1]
  /\ deadline' = NoDeadline
  /\ UNCHANGED <<input, ex, handled, known, reason, replies, cancelled, file, network,
                 raced, heard>>

SendRequest_Unbounded ==
  /\ pc = "request"
  /\ pc' = "awaiting"
  /\ Leaves(<<ex, step>>)
  /\ UNCHANGED <<input, ex, step, handled, known, since, result, reason, replies,
                 outcome, cancelled, file, timers>>

(* netConn.Exchange writes the request and sets the deadline of the whole *)
(* reply; it does not look at the interrupt.                              *)
SendRequest ==
  /\ pc = "request"
  /\ pc' = "awaiting"
  /\ deadline' = ReadTimeout
  /\ Leaves(<<ex, step>>)
  /\ UNCHANGED <<input, ex, step, handled, known, since, result, reason, replies,
                 outcome, cancelled, file, raced, heard>>

(* A frame that ends early: netConn.read reads on, until the same deadline. *)
ReplyBegins ==
  /\ pc = "awaiting"
  /\ ~ heard
  /\ heard' = TRUE
  /\ UNCHANGED <<input, pc, ex, step, handled, known, since, result, reason, replies,
                 outcome, cancelled, file, network, raced, deadline>>

ReadEnds == deadline' = NoDeadline /\ heard' = FALSE

(* A reply, whole or cut short by the deadline or the device, which the *)
(* interpreter reads what it can from.                                  *)
Answered ==
  /\ pc = "awaiting"
  /\ pc' = "record"
  /\ outcome' = "answered"
  /\ since' = 0
  /\ result' = [result EXCEPT !.sent = @ + 1, !.answered = @ + 1]
  /\ \E F \in Disclosures :
       LET host == plan[ex].host
           told == Told(Device[host], F)
       IN /\ replies' = replies \cup {[ex |-> ex, step |-> step, told |-> told]}
          /\ known' = [known EXCEPT ![host] = Merge(@, told)]
  /\ ReadEnds
  /\ UNCHANGED <<input, ex, step, handled, reason, cancelled, file, network, raced>>

(* The read deadline passes, the device closes, or the socket fails, before *)
(* any byte of a reply.                                                     *)
Unanswered ==
  /\ pc = "awaiting"
  /\ ~ heard
  /\ pc' = "record"
  /\ outcome' \in {"no-answer", "unreachable"}
  /\ since' = 0
  /\ result' = [result EXCEPT !.sent = @ + 1, !.failed = @ + 1]
  /\ ReadEnds
  /\ UNCHANGED <<input, ex, step, handled, known, reason, replies, cancelled, file,
                 network, raced>>

AfterRecord_DropRest ==
  IF step = 0 \/ LastStep \/ Failed(outcome) THEN "judge" ELSE "pace"

(* A failed dial, a failed step and the last step end the exchange. *)
AfterRecord ==
  CASE step = 0 \/ LastStep -> "judge"
    [] Failed(outcome) /\ ~ (step = 0 \/ LastStep) -> "abandon"
    [] OTHER -> "pace"

(* The record of a packet, written after it was sent and answered or not. *)
RecordPacket ==
  /\ pc = "record"
  /\ WriteOrFail(Line(ex, step, outcome), AfterRecord)
  /\ step' = IF pc' \in {"pace", "abandon"} THEN step + 1 ELSE step
  /\ UNCHANGED <<input, ex, handled, known, since, result, reason, replies, outcome,
                 cancelled, network, timers>>

(* The steps a failed one leaves behind are recorded one by one. *)
RecordAbandoned ==
  /\ pc = "abandon"
  /\ WriteOrFail(Line(ex, step, "skipped-aborted"), IF LastStep THEN "judge" ELSE "abandon")
  /\ step' = IF LastStep THEN step ELSE step + 1
  /\ UNCHANGED <<input, ex, handled, known, since, result, reason, replies, outcome,
                 cancelled, network, timers>>

ShouldAbort_CountsAnswers ==
  /\ result.answered >= MinAttempts
  /\ result.failed * RateDen > RateNum * result.sent

(* shouldAbort *)
ShouldAbort ==
  /\ result.sent >= MinAttempts
  /\ result.failed * RateDen > RateNum * result.sent

Judge ==
  /\ pc = "judge"
  /\ pc' = "next"
  /\ reason' = IF ShouldAbort THEN "failures" ELSE reason
  /\ UNCHANGED <<input, ex, step, handled, known, since, result, replies, outcome,
                 cancelled, file, network, timers>>

-----------------------------------------------------------------------------
(* The operator presses control-C. *)
Interrupt ==
  /\ pc \notin Terminal
  /\ ~ cancelled
  /\ cancelled' = TRUE
  /\ UNCHANGED <<input, pc, ex, step, handled, known, since, result, reason, replies,
                 outcome, file, network, timers>>

(* The process dies: what it held in memory is gone, the file stays. *)
Kill ==
  /\ pc \notin Terminal
  /\ pc' = "killed"
  /\ UNCHANGED <<input, ex, step, handled, known, since, result, reason, replies,
                 outcome, cancelled, file, network, timers>>

Capped(t) == IF t < Interval THEN t + 1 ELSE t

Tick ==
  /\ pc \notin Terminal
  /\ since < Interval \/ quiet < Interval \/ deadline > 0
  /\ since' = Capped(since)
  /\ quiet' = Capped(quiet)
  /\ deadline' = IF deadline > 0 THEN deadline - 1 ELSE deadline
  /\ UNCHANGED <<input, pc, ex, step, handled, known, result, reason, replies, outcome,
                 cancelled, file, wire, late, raced, heard>>

EngineStep ==
  \/ WriteHeader
  \/ \E j \in DOMAIN plan : StartExchange(j)
  \/ \E j \in DOMAIN plan : SkipExchange(j)
  \/ RecordDryRun
  \/ WriteSummary
  \/ PaceAtOnce
  \/ Wake
  \/ PaceCancelled
  \/ DialBegins
  \/ DialSucceeds
  \/ DialFails
  \/ SendRequest
  \/ ReplyBegins
  \/ Answered
  \/ Unanswered
  \/ RecordPacket
  \/ RecordAbandoned
  \/ Judge

Next == EngineStep \/ Interrupt \/ Kill \/ Tick

Spec == Init /\ [][Next]_vars

(* What the goroutine does by itself, waiting for no device. *)
OwnStep == pc \notin {"dialing", "awaiting"} /\ EngineStep

(* The runtime ends a dial or a read whose deadline has passed. *)
TimesOut ==
  /\ deadline = 0
  /\ DialFails \/ Unanswered \/ (heard /\ Answered)

(* The goroutine runs on, the clock advances, and a dial or a read that has *)
(* a deadline ends at it.  No device has to accept or to answer anything,   *)
(* and nobody has to interrupt or kill the run.                             *)
FairSpec == Spec /\ WF_vars(OwnStep) /\ WF_vars(TimesOut) /\ WF_vars(Tick)
-----------------------------------------------------------------------------
(* Every variable keeps its type: the loop stands inside an exchange it has *)
(* taken, at one of its steps, and the clocks stay below the interval.      *)
TypeOK ==
  /\ plan \in Seq(Exchange)
  /\ prior \in [Hosts -> Identity]
  /\ dryRun \in BOOLEAN
  /\ pc \in PCs
  /\ ex \in Nat
  /\ step \in Nat
  /\ ex # 0 => ex \in handled /\ step <= plan[ex].steps
  /\ pc \in Running => ex # 0
  /\ handled \subseteq DOMAIN plan
  /\ known \in [Hosts -> Identity]
  /\ since \in 0 .. Interval
  /\ result \in Counts
  /\ reason \in Reasons
  /\ replies \subseteq [ex : Nat, step : Nat, told : Identity]
  /\ outcome \in Outcomes
  /\ cancelled \in BOOLEAN
  /\ trail \subseteq Lines
  /\ disk \in {"ok", "broken"}
  /\ wire \subseteq Nat \X Nat
  /\ quiet \in 0 .. Interval
  /\ late \subseteq wire
  /\ raced \in Nat
  /\ deadline \in Int
  /\ heard \in BOOLEAN

(* The audit file shows packet p: its own line, or for a first packet the *)
(* line of a dial that failed.                                            *)
Filed(p) ==
  \/ \E o \in SentOutcomes : Line(p[1], p[2], o) \in trail
  \/ p[2] = 1 /\ Line(p[1], 0, "unreachable") \in trail

(* Everything sent is written to the audit file as it happens (safety.go):  *)
(* whenever the process is killed, whatever the disk does and wherever the  *)
(* run gives up, at most one packet that left is missing from the file.     *)
AtMostOneUnfiled == \A p, q \in wire : Filed(p) \/ Filed(q) \/ p = q

(* The run stops on its own if devices start failing to answer: beyond the  *)
(* first MinAttempts failures, all but the last failure are within the      *)
(* threshold of what was sent before it.                                    *)
FailuresBounded ==
  \/ result.failed <= MinAttempts
  \/ (result.failed - 1) * RateDen <= RateNum * (result.sent - 1)

(* What the replies of a host tell of it, among those of exchanges in S.    *)
Heard(host, S) ==
  [f \in Fields |->
     IF \E r \in replies : r.ex \in S /\ plan[r.ex].host = host /\ r.told[f] # None
     THEN Device[host][f] ELSE None]

(* What the run believes of the host of exchange i before it takes it: the  *)
(* passive inventory, and where that is silent the replies to the exchanges *)
(* before it.                                                               *)
Believed(i) == Merge(prior[plan[i].host], Heard(plan[i].host, 1 .. i - 1))

(* Nothing is sent to a device the deny list says reacts badly to it, once  *)
(* the inventory and the replies to earlier exchanges have given it away.   *)
RecognisedIsLeftAlone ==
  \A p \in wire : ~ Denied(Rules, Believed(p[1]), plan[p[1]])

LinesOf(outcomes) == {l \in trail : l.outcome \in outcomes}

(* A file that ends in a summary is complete and agrees with it: every      *)
(* packet has its line, and the totals are those of the lines.  A line lost *)
(* on the way makes the encoder refuse the summary too.                     *)
SummaryAgrees ==
  Line(0, 0, "summary") \in trail =>
    /\ \A p \in wire : Filed(p)
    /\ result.attempted = Len(plan)
    /\ result.sent = Cardinality(LinesOf(SentOutcomes))
    /\ result.answered = Cardinality(LinesOf({"answered"}))
    /\ result.failed = Cardinality(LinesOf({"no-answer", "unreachable"}))
    /\ result.skipped = Cardinality({l.ex : l \in LinesOf({"dry-run"})} \cup
                        {l.ex : l \in {m \in LinesOf(SkipOutcomes) : m.step = 0}})

(* A step of an exchange is on file by itself or with its whole exchange.   *)
Accounted(i, k) ==
  \E l \in trail : l.ex = i /\ l.step \in {0, k}

(* Skipped exchanges are recorded too, as are the steps of an exchange      *)
(* abandoned partway through (SAFETY.md): the file of a run that ended of   *)
(* itself accounts for every step of the plan.  SAFETY.md makes no          *)
(* exception of a run that was interrupted, but the code does: between two  *)
(* steps it returns without a record of those that remain.                  *)
UninterruptedAccountedFor ==
  Line(0, 0, "summary") \in trail /\ ~ cancelled =>
    \A i \in DOMAIN plan : \A k \in 1 .. plan[i].steps : Accounted(i, k)

(* Interrupt cancels the context so an active scan stops sending (main.go). *)
(* What still leaves belongs to the exchange under way, and after the first *)
(* packet each takes another pacing timer that outran the interrupt.        *)
InterruptStopsSending ==
  /\ \A p, q \in late : p[1] = q[1]
  /\ Cardinality(late) <= 1 + raced

(* Both controls hold between two packets: the delay that protects a device *)
(* and the ceiling that protects the segment.                               *)
PacketsAreSpaced ==
  [][\A p \in wire' \ wire : quiet >= Delay /\ quiet >= RateGap]_vars

(* The packets a run may send are fixed by what it was given: nothing in a  *)
(* dry run, nothing above the allowed risk, nothing the deny list forbids   *)
(* to a device the passive inventory already identified.                    *)
MayBeAsked(i) ==
  /\ ~ dryRun
  /\ AtMost(plan[i].risk, AllowedRisk)
  /\ ~ Denied(Rules, prior[plan[i].host], plan[i])

Permitted == UNION {{i} \X (1 .. plan[i].steps) : i \in {j \in DOMAIN plan : MayBeAsked(j)}}

Promise == INSTANCE AccountableRun WITH
  allowed <- Permitted,
  sent <- wire,
  filed <- {p \in wire : Filed(p)},
  stopped <- Aborted \/ pc \in Terminal

(* The engine keeps the promise of AccountableRun: no packet outside the    *)
(* permitted ones, none before the last is on file, none after the run gave *)
(* up.                                                                      *)
KeepsPromise == Promise!Spec

(* The run ends, whatever the devices, the disk and the operator do: one    *)
(* that accepts or answers nothing, or only part of a reply, holds it no    *)
(* longer than a deadline.                                                  *)
Terminates == <>(pc \in Terminal)

(* The identity a rule is matched with is what the run has learned, not     *)
(* what the operator expects to find (denylist.go): a device whose own      *)
(* replies named it is left alone from the next exchange on.                *)
RepliesDecide ==
  \A p \in wire :
    ~ Denied(Rules, Heard(plan[p[1]].host, 1 .. p[1] - 1), plan[p[1]])

(* One identification exchange has succeeded by the time the rule for a     *)
(* device is consulted (default-denylist.yaml): a device that has told what *)
(* it is in an exchange is asked nothing more that the list forbids to it,  *)
(* whatever fields the decoders fill in from a reply.                       *)
IdentifiedIsLeftAlone ==
  \A p \in wire :
    LET host == plan[p[1]].host
    IN Heard(host, 1 .. p[1] - 1) # Blank => ~ Denied(Rules, Device[host], plan[p[1]])
-----------------------------------------------------------------------------
(***************************************************************************)
(* The inductive invariant behind AtMostOneUnfiled, FailuresBounded and    *)
(* KeepsPromise.                                                           *)
(***************************************************************************)

(* The packet the loop is at; the dial and the first request are one. *)
Current == <<ex, IF step = 0 THEN 1 ELSE step>>

(* Only the packet being sent, awaited or recorded may be missing. *)
Filing ==
  \A p \in wire :
    \/ Filed(p)
    \/ /\ p = Current
       /\ pc \in {"dialing", "request", "awaiting", "record", "failed", "killed"}

Recording ==
  pc = "record" => /\ outcome \in SentOutcomes
                   /\ step = 0 => outcome = "unreachable"

(* Before every packet the loop has passed the gates and not given up. *)
Sending == {"pace", "sleep", "dial", "dialing", "request", "awaiting"}

Gates ==
  /\ pc \in Sending => ~ Aborted /\ MayBeAsked(ex) /\ step # 0
  /\ pc \in {"dial", "dialing"} => step = 1
  /\ pc = "record" /\ outcome = "answered" => ~ Aborted /\ MayBeAsked(ex) /\ step # 0

(* The lines of packets are about exchanges already taken, and for the one *)
(* that is being run about the steps before this one.                      *)
Fresh ==
  /\ \A l \in trail : l.outcome \in SentOutcomes => l.ex \in handled
  /\ pc \in Sending \/ (pc = "record" /\ outcome = "answered") =>
       \A l \in trail : l.outcome \in SentOutcomes /\ l.ex = ex =>
         0 < l.step /\ l.step < step

(* Merge keeps what the inventory brought. *)
Remembers ==
  \A h \in Hosts, f \in Fields : prior[h][f] # None => known[h][f] = prior[h][f]

(* One more failure is affordable. *)
Slack ==
  \/ result.failed < MinAttempts
  \/ result.failed * RateDen <= RateNum * result.sent

Budget ==
  /\ result.sent = result.answered + result.failed
  /\ FailuresBounded
  /\ (\/ pc \in Sending \cup {"header", "next", "dryrun"}
      \/ pc = "record" /\ outcome = "answered") => Aborted \/ Slack

(* No step of the loop leaves these, and together they give the three. *)
IInv == Filing /\ Recording /\ Gates /\ Fresh /\ Remembers /\ Budget
=============================================================================

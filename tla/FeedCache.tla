------------------------------ MODULE FeedCache ------------------------------
(***************************************************************************)
(* The conditional, cached, retried GET of internal/advisory/fetch.go for  *)
(* one URL, with the two files of its cache entry, the server behind it,   *)
(* and a process that may be killed between any two of its system calls.   *)
(*                                                                         *)
(* A body is the version of the resource it holds.  The entry file names   *)
(* the version whose digest it records and says whether the server sent a  *)
(* validator (an ETag or a date) with it.                                  *)
(***************************************************************************)
EXTENDS Naturals

CONSTANTS
  MaxVersion,     \* bound: the versions the server goes through
  Retries,        \* Fetcher.retries
  MaxKills,       \* bound: how often the process is killed
  None,           \* no file, no body
  Torn            \* the body of a file that was cut short or altered

ASSUME BoundsAssumption ==
  /\ MaxVersion \in Nat \ {0}
  /\ Retries \in Nat
  /\ MaxKills \in Nat

Versions == 1 .. MaxVersion

ASSUME BodyAssumption == None \notin Versions /\ Torn \notin Versions /\ None # Torn

VARIABLES
  server,         \* the version the server holds now
  body,           \* the body file
  meta,           \* the entry file
  stage,
  offline,        \* Fetcher.offline
  entry,          \* what readCache returned: the entry
  cached,         \* and the body
  attempt,
  fresh,          \* the body just downloaded
  sent,           \* the validator it came with
  served,         \* what the last call returned: [ok, body]
  during,         \* the versions the server held while the call ran
  kills

cacheVars == <<server, body, meta, stage, offline, entry, cached, attempt, fresh, sent, served,
               during, kills>>

files == <<body, meta>>
call == <<offline, entry, cached>>
answer == <<fresh, sent>>

Entry == [of : Versions, validator : BOOLEAN]

NoAnswer == [ok |-> FALSE, body |-> None]

CacheInit ==
  /\ server = 1
  /\ body = None
  /\ meta = None
  /\ stage = "idle"
  /\ offline = FALSE
  /\ entry = None
  /\ cached = None
  /\ attempt = 0
  /\ fresh = None
  /\ sent = FALSE
  /\ served = NoAnswer
  /\ during = {}
  /\ kills = 0

-----------------------------------------------------------------------------
ReadBody_Unchecked == IF meta = None THEN None ELSE body

(* readCache: a body that fails its checksum is a miss, and so is an entry *)
(* that is not there; an entry whose body is not there is returned alone.  *)
ReadEntry ==
  IF meta # None /\ body \notin {None, meta.of} THEN None ELSE meta

ReadBody ==
  IF meta # None /\ body = meta.of THEN body ELSE None

Return(ok, what) ==
  /\ served' = [ok |-> ok, body |-> what]
  /\ stage' = "idle"

(* GetWithHeaders up to the first attempt. *)
BeginGet(off) ==
  /\ stage = "idle"
  /\ offline' = off
  /\ entry' = ReadEntry
  /\ cached' = ReadBody
  /\ attempt' = 0
  /\ during' = {server}
  /\ IF off
     THEN Return(ReadBody # None, ReadBody)
     ELSE stage' = "ask" /\ UNCHANGED served
  /\ UNCHANGED <<server, files, answer, kills>>

(* doGet: the request is conditional when the entry has a validator. *)
Conditional == entry # None /\ entry.validator

(* The server confirms the copy: 304. *)
NotModified ==
  /\ stage = "ask"
  /\ Conditional
  /\ entry.of = server
  /\ Return(TRUE, cached)
  /\ UNCHANGED <<server, files, call, attempt, answer, during, kills>>

(* 200 with the whole resource, with or without a validator. *)
Downloaded ==
  /\ stage = "ask"
  /\ ~ (Conditional /\ entry.of = server)
  /\ fresh' = server
  /\ sent' \in BOOLEAN
  /\ stage' = "write body"
  /\ UNCHANGED <<server, files, call, attempt, served, during, kills>>

(* No connection, 429, 5xx, or a body cut short: tried again after a pause, *)
(* and given up when the retries are used up.                               *)
GiveUp_Silently == Return(TRUE, cached)

(* The stale copy is handed out with an error. *)
GiveUp == Return(FALSE, cached)

NextAttempt == attempt < Retries

Failed_StartsOver ==
  /\ stage = "ask"
  /\ attempt' = IF NextAttempt THEN attempt + 1 ELSE 0
  /\ UNCHANGED <<server, files, stage, call, served, answer, during, kills>>

Failed ==
  /\ stage = "ask"
  /\ IF NextAttempt
     THEN attempt' = attempt + 1 /\ UNCHANGED <<stage, served>>
     ELSE UNCHANGED attempt /\ GiveUp
  /\ UNCHANGED <<server, files, call, answer, during, kills>>

(* Any other status, or a context that is done: the call ends at once. *)
Refused ==
  /\ stage = "ask"
  /\ Return(FALSE, None)
  /\ UNCHANGED <<server, files, call, attempt, answer, during, kills>>

(* writeFileAtomic: the target is removed and the temporary file renamed    *)
(* onto it.  Every write may fail before the removal or after it, and a     *)
(* failed one ends writeCache, never the call.                              *)
RemoveBody ==
  /\ stage = "write body"
  /\ body' = None
  /\ stage' = "rename body"
  /\ UNCHANGED <<server, meta, call, attempt, answer, served, during, kills>>

RenameBody ==
  /\ stage = "rename body"
  /\ body' = fresh
  /\ stage' = "write entry"
  /\ UNCHANGED <<server, meta, call, attempt, answer, served, during, kills>>

RemoveEntry ==
  /\ stage = "write entry"
  /\ meta' = None
  /\ stage' = "rename entry"
  /\ UNCHANGED <<server, body, call, attempt, answer, served, during, kills>>

RenameEntry ==
  /\ stage = "rename entry"
  /\ meta' = [of |-> fresh, validator |-> sent]
  /\ Return(TRUE, fresh)
  /\ UNCHANGED <<server, body, call, attempt, answer, during, kills>>

CacheWriteFails ==
  /\ stage \in {"write body", "rename body", "write entry", "rename entry"}
  /\ Return(TRUE, fresh)
  /\ UNCHANGED <<server, files, call, attempt, answer, during, kills>>

-----------------------------------------------------------------------------
(* The publisher replaces the resource. *)
PublishVersion ==
  /\ server < MaxVersion
  /\ server' = server + 1
  /\ during' = IF stage = "idle" THEN during ELSE during \cup {server'}
  /\ UNCHANGED <<files, stage, call, attempt, answer, served, kills>>

(* The process dies in a call; the next one reads the files it left. *)
KillGet ==
  /\ stage # "idle"
  /\ kills < MaxKills
  /\ kills' = kills + 1
  /\ stage' = "idle"
  /\ served' = NoAnswer
  /\ UNCHANGED <<server, files, call, attempt, answer, during>>

(* The body is cut short or altered while nobody looks: a power failure   *)
(* before the data reached the disk, or a corpus carried on a bad medium. *)
Tear ==
  /\ stage = "idle"
  /\ body # None
  /\ body' = Torn
  /\ UNCHANGED <<server, meta, stage, call, attempt, answer, served, during, kills>>

CallStep ==
  \/ NotModified \/ Downloaded \/ Failed \/ Refused
  \/ RemoveBody \/ RenameBody \/ RemoveEntry \/ RenameEntry \/ CacheWriteFails

CacheNext ==
  \/ \E off \in BOOLEAN : BeginGet(off)
  \/ CallStep
  \/ PublishVersion
  \/ KillGet
  \/ Tear

CacheSpec == CacheInit /\ [][CacheNext]_cacheVars

(* A call that was made goes on: the client's timeout bounds the server.   *)
FairCacheSpec == CacheSpec /\ WF_cacheVars(CallStep)
-----------------------------------------------------------------------------
(* The files hold versions, the attempts stay within the retries, and a     *)
(* call that returned success is over.                                      *)
CacheTypeOK ==
  /\ server \in Versions
  /\ body \in Versions \cup {None, Torn}
  /\ meta \in Entry \cup {None}
  /\ stage \in {"idle", "ask", "write body", "rename body", "write entry", "rename entry"}
  /\ offline \in BOOLEAN
  /\ entry \in Entry \cup {None}
  /\ cached \in Versions \cup {None}
  /\ attempt \in 0 .. Retries
  /\ fresh \in Versions \cup {None}
  /\ sent \in BOOLEAN
  /\ served \in [ok : BOOLEAN, body : Versions \cup {None}]
  /\ during \subseteq Versions
  /\ kills \in 0 .. MaxKills

(* An online call that succeeds with a body returns what the server held at *)
(* some moment of the call, whatever crashes and failed writes left in the  *)
(* cache: using anything else would silently corrupt the corpus (readCache).*)
ServedIsCurrent ==
  stage = "idle" /\ served.ok /\ ~ offline /\ served.body # None => served.body \in during

(* An offline call succeeds only with a whole body that was published, and  *)
(* never with one that was cut short or belongs to another entry.           *)
OfflineIsGenuine ==
  stage = "idle" /\ served.ok /\ offline =>
    served.body \in 1 .. server /\ meta # None /\ meta.of = served.body

(* What every step keeps: the call knows what the server holds, what it is  *)
(* about to write was downloaded in it, the copy it holds is the one the    *)
(* entry is about, and the entry file is about a version that was published.*)
CacheInv ==
  /\ stage # "idle" => ~ offline /\ server \in during
  /\ stage \notin {"idle", "ask"} => fresh \in during
  /\ cached # None => entry # None /\ cached = entry.of
  /\ meta # None => meta.of <= server
  /\ \A v \in during : v <= server
  /\ ServedIsCurrent
  /\ OfflineIsGenuine

(* A call ends, however often the server fails.                             *)
CallEnds == (stage = "ask") ~> (stage = "idle")

(* When the server answers 304 the cached bytes are returned (fetch.go): a  *)
(* call that succeeds brings a body.                                        *)
SuccessBringsABody == stage = "idle" /\ served.ok => served.body # None
=============================================================================

------------------------------ MODULE AcceptLoop ------------------------------
(* The accept loop of serve.rs with the error table and the backoff of         *)
(* accept.rs, over the descriptor table, the listen queue and tokio's          *)
(* readiness flag it runs against. Times are in milliseconds.                  *)
EXTENDS Integers, Sequences, FiniteSets

CONSTANTS
    Clients,      \* the connections that may reach the listener
    Table,        \* descriptors the process has besides the listener's own
    Floor,        \* BACKOFF_FLOOR
    Ceiling,      \* BACKOFF_CEILING
    Transient,    \* errnos accept(2) may answer with a live listener and a free descriptor
    LimitAborts,  \* TRUE: at the limit the kernel throws the queued connection away (macOS)
    MaxFailures   \* bound: failed accepts in one episode (a u32 in the code)

ASSUME BackoffAssumption ==
    /\ Floor \in Nat \ {0}
    /\ Ceiling \in Nat
    /\ Floor <= Ceiling

ASSUME TableAssumption == Table \in Nat /\ LimitAborts \in BOOLEAN

(* A live listener with a free descriptor never answers like a dead one. *)
ASSUME TransientAssumption ==
    Transient \cap {"EBADF", "ENOTSOCK", "EINVAL", "EFAULT"} = {}

VARIABLES
    listener,  \* "open" or "dead"
    ready,     \* tokio's readiness of the listener: only WouldBlock clears it
    backlog,   \* the system's queue of connections, oldest first
    open,      \* connections whose `handle` task is running
    others,    \* descriptors held by the rest of the process
    loop,      \* "accepting", "sleeping" (in the backoff's sleep) or "ended"
    timer,     \* what is left of that sleep
    backoff,   \* the Backoff struct: next (None or a wait), failures, waited
    log,       \* history: the lines the latest exhaustion episode printed
    seen       \* history: that episode as an onlooker counts it

osVars == <<listener, ready, backlog, open, others>>
loopVars == <<loop, timer, backoff>>
history == <<log, seen>>
vars == <<osVars, loopVars, history>>

(* `next: None`. A wait is at least Floor, so it is never 0. *)
None == 0

-------------------------------------------------------------------------------
(* accept.rs: what one accept error means, and one episode's state. *)

FatalErrnos == {"EBADF", "ENOTSOCK", "EINVAL", "EFAULT"}
ExhaustionErrnos == {"EMFILE", "ENFILE", "ENOBUFS", "ENOMEM"}
ConnectionErrnos ==
    {"ECONNABORTED", "ECONNRESET", "ECONNREFUSED", "EINTR", "EAGAIN", "EPROTO", "EPERM",
     "ETIMEDOUT", "ENETDOWN", "ENETUNREACH", "EHOSTDOWN", "EHOSTUNREACH", "ENOPROTOOPT",
     "EOPNOTSUPP"}

(* Faulty variants of Classify: an unknown errno ends the loop; exhaustion is  *)
(* taken for a dead listener; a dead listener is retried.                      *)
ClassifyUnknownFatal(e) ==
    IF e \in FatalErrnos THEN "Fatal"
    ELSE IF e \in ConnectionErrnos THEN "Skip"
    ELSE IF e \in ExhaustionErrnos THEN "BackOff" ELSE "Fatal"
ClassifyExhaustionFatal(e) == IF e \in ConnectionErrnos THEN "Skip" ELSE "Fatal"
ClassifyNothingFatal(e) == IF e \in ConnectionErrnos THEN "Skip" ELSE "BackOff"

Classify(e) ==
    IF e \in FatalErrnos THEN "Fatal"
    ELSE IF e \in ConnectionErrnos THEN "Skip" ELSE "BackOff"

Outside == [next |-> None, failures |-> 0, waited |-> 0]

Wait(b) == IF b.next = None THEN Floor ELSE b.next

(* The two lines the loop prints; the first carries no totals. *)
Failing == [line |-> "failing", failures |-> 0, waited |-> 0]
Recovered(failures, waited) ==
    [line |-> "recovered", failures |-> failures, waited |-> waited]

(* Faulty variant: the doubled wait is not capped.                             *)
DoubledUncapped(w) == 2 * w

Doubled(w) == IF 2 * w < Ceiling THEN 2 * w ELSE Ceiling

(* The line `failed` prints when it opens an episode. *)
FailingLines(b) == IF b.next = None THEN <<Failing>> ELSE <<>>

Failed(b) ==
    [next |-> Doubled(Wait(b)), failures |-> b.failures + 1, waited |-> b.waited + Wait(b)]

(* The line `succeeded` prints when it closes one. *)
RecoveredLines(b) ==
    IF b.next = None THEN <<>> ELSE <<Recovered(b.failures, b.waited)>>

(* Faulty variant: the episode is closed without clearing its totals.          *)
SucceededKeepsTotals(b) == [b EXCEPT !.next = None]

Succeeded(b) == IF b.next = None THEN b ELSE Outside

-------------------------------------------------------------------------------
Init ==
    /\ listener = "open"
    /\ ready = FALSE
    /\ backlog = <<>>
    /\ open = {}
    /\ others \in 0 .. Table
    /\ loop = "accepting"
    /\ timer = 0
    /\ backoff = Outside
    /\ log = <<>>
    /\ seen = [failed |-> 0, slept |-> 0, state |-> "over"]

Over == seen.state = "over"

Queued(c) == \E i \in DOMAIN backlog : backlog[i] = c
Room == Cardinality(open) + others < Table

-------------------------------------------------------------------------------
(* The system around the loop. *)

Arrive(c) ==
    /\ listener = "open"
    /\ c \notin open /\ ~ Queued(c)
    /\ backlog' = Append(backlog, c)
    /\ ready' = TRUE
    /\ UNCHANGED <<listener, open, others, loopVars, history>>

(* `handle` returns, or its task panics: the stream is dropped either way. *)
Finish(c) ==
    /\ c \in open
    /\ open' = open \ {c}
    /\ UNCHANGED <<listener, ready, backlog, others, loopVars, history>>

(* Mounts, files and whatever else the process opens and closes. *)
Grab ==
    /\ Room
    /\ others' = others + 1
    /\ UNCHANGED <<listener, ready, backlog, open, loopVars, history>>

Release ==
    /\ others > 0
    /\ others' = others - 1
    /\ UNCHANGED <<listener, ready, backlog, open, loopVars, history>>

(* The listening socket becomes unusable. Whether the poller reports it is the *)
(* system's choice.                                                            *)
Die ==
    /\ listener = "open"
    /\ listener' = "dead"
    /\ backlog' = <<>>
    /\ ready' \in BOOLEAN /\ (ready => ready')
    /\ UNCHANGED <<open, others, loopVars, history>>

(* The errnos accept(2) may answer now: Linux reserves the descriptor before   *)
(* it looks at the listener, so a full table hides a dead listener.            *)
AcceptErrors ==
    IF ~ Room THEN {"EMFILE"}
    ELSE IF listener = "dead" THEN {"EBADF", "ENOTSOCK", "EINVAL"}
    ELSE IF backlog # <<>> THEN Transient ELSE {}

(* A connection's own error uses that connection up. *)
BacklogAfter(e) ==
    IF backlog # <<>> /\ (e \in ConnectionErrnos \/ (e = "EMFILE" /\ LimitAborts))
    THEN Tail(backlog) ELSE backlog

-------------------------------------------------------------------------------
(* The loop. An accept is attempted while tokio believes the listener ready.   *)

Attempting == loop = "accepting" /\ ready

(* WouldBlock inside tokio's accept: the queue was empty after all. *)
AcceptWouldBlock ==
    /\ Attempting
    /\ Room /\ listener = "open" /\ backlog = <<>>
    /\ ready' = FALSE
    /\ UNCHANGED <<listener, backlog, open, others, loopVars, history>>

(* Ok((stream, _)): close the episode, spawn a task for the connection. *)
AcceptOk ==
    /\ Attempting
    /\ Room /\ listener = "open" /\ backlog # <<>>
    /\ open' = open \cup {Head(backlog)}
    /\ backlog' = Tail(backlog)
    /\ backoff' = Succeeded(backoff)
    /\ log' = log \o RecoveredLines(backoff)
    /\ seen' = [seen EXCEPT !.state = "over"]
    /\ UNCHANGED <<listener, ready, others, loop, timer>>

AcceptSkip(e) ==
    /\ Attempting
    /\ e \in AcceptErrors
    /\ Classify(e) = "Skip"
    /\ backlog' = BacklogAfter(e)
    /\ UNCHANGED <<listener, ready, open, others, loopVars, history>>

(* Faulty variant: the loop continues without sleeping the wait it was given.  *)
SleepSkipped(wait) == UNCHANGED <<loop, timer>>

Sleep(wait) ==
    /\ loop' = "sleeping"
    /\ timer' = wait

(* sleep(backoff.failed(&e)). *)
AcceptBackOff(e) ==
    /\ Attempting
    /\ e \in AcceptErrors
    /\ Classify(e) = "BackOff"
    /\ backoff.failures < MaxFailures
    /\ backlog' = BacklogAfter(e)
    /\ backoff' = Failed(backoff)
    /\ Sleep(Wait(backoff))
    /\ log' = (IF Over THEN <<>> ELSE log) \o FailingLines(backoff)
    /\ seen' = [failed |-> IF Over THEN 1 ELSE seen.failed + 1,
                slept |-> IF Over THEN 0 ELSE seen.slept, state |-> "running"]
    /\ UNCHANGED <<listener, ready, open, others>>

AcceptFatal(e) ==
    /\ Attempting
    /\ e \in AcceptErrors
    /\ Classify(e) = "Fatal"
    /\ loop' = "ended"
    /\ UNCHANGED <<osVars, timer, backoff, history>>

Wake ==
    /\ loop = "sleeping"
    /\ loop' = "accepting"
    /\ timer' = 0
    /\ seen' = [seen EXCEPT !.slept = @ + timer]
    /\ UNCHANGED <<osVars, backoff, log>>

-------------------------------------------------------------------------------
(* Every errno some platform's accept(2) may answer here. *)
Errnos == {"EMFILE", "EBADF", "ENOTSOCK", "EINVAL"} \cup Transient

Loop ==
    \/ AcceptWouldBlock
    \/ AcceptOk
    \/ \E e \in Errnos : AcceptSkip(e) \/ AcceptBackOff(e) \/ AcceptFatal(e)
    \/ Wake

System ==
    \/ \E c \in Clients : Arrive(c) \/ Finish(c)
    \/ Grab \/ Release \/ Die

Next == Loop \/ System

Spec == Init /\ [][Next]_vars

(* The runtime keeps polling a ready task and its timers fire. Nothing makes a *)
(* client come, a handler finish or a descriptor free.                         *)
FairSpec == Spec /\ WF_vars(Loop)

-------------------------------------------------------------------------------
Lines == [line : {"failing", "recovered"}, failures : Nat, waited : Nat]

TypeOK ==
    /\ listener \in {"open", "dead"}
    /\ ready \in BOOLEAN
    /\ backlog \in Seq(Clients)
    /\ open \in SUBSET Clients /\ IsFiniteSet(open)
    /\ others \in 0 .. Table
    /\ loop \in {"accepting", "sleeping", "ended"}
    /\ timer \in Nat
    /\ backoff \in [next : Nat, failures : Nat, waited : Nat]
    /\ log \in Seq(Lines)
    /\ seen \in [failed : Nat, slept : Nat, state : {"over", "running"}]

(* The struct's three fields open and close together, and a wait in hand lies  *)
(* between BACKOFF_FLOOR and BACKOFF_CEILING (accept.rs `Backoff`): no         *)
(* interleaving of failures, skipped connections and successes leaves totals   *)
(* of an earlier episode behind, or a wait outside its bounds.                 *)
EpisodeConsistent ==
    /\ (backoff.next = None) <=> (backoff.failures = 0)
    /\ (backoff.next = None) <=> (backoff.waited = 0)
    /\ backoff.next # None => backoff.next \in Floor .. Ceiling
    /\ backoff.waited <= backoff.failures * Ceiling

(* "It logs exactly twice — at its start and at its end — however many retries *)
(* it takes" (accept.rs:92): the latest episode printed one line while it is   *)
(* open and two when over, and the second reports exactly the failed accepts   *)
(* and the milliseconds an onlooker counted, so every wait was really slept.   *)
EpisodeReported ==
    IF seen.failed = 0 THEN log = <<>>
    ELSE IF Over
    THEN log = <<Failing, Recovered(seen.failed, seen.slept)>>
    ELSE log = <<Failing>>

(* The floor doubled n times, as it would be without a ceiling.                *)
Uncapped[n \in Nat] == IF n = 0 THEN Floor ELSE 2 * Uncapped[n - 1]

(* After n failures the next wait is the floor doubled n times, capped, which  *)
(* is the schedule the unit test of accept.rs lists up to ten waits.           *)
Schedule ==
    backoff.next # None =>
        backoff.next = IF Uncapped[backoff.failures] < Ceiling
                       THEN Uncapped[backoff.failures] ELSE Ceiling

(* Only a dead listener ends the loop (accept.rs `Fault::Fatal`): whatever     *)
(* clients, exhaustion or an errno nobody anticipated do, an open listener     *)
(* keeps its loop.                                                             *)
OnlyDeathEnds == loop = "ended" => listener = "dead"

(* A connection leaves the queue of a live listener: it is taken, lost to an   *)
(* error of its own, or lost with the listener, and nothing but accept failing *)
(* again and again, with no success between, holds it there. The bound is the  *)
(* second outcome and not a premise: errors may recur at every retry for ever  *)
(* (accept.rs:120), and such an episode is one that reaches MaxFailures.       *)
QueueMoves ==
    \A c \in Clients : Queued(c) ~> (~ Queued(c) \/ backoff.failures = MaxFailures)

(* Once descriptors stay free, a dead listener that tokio still reports ready  *)
(* ends the loop instead of being backed off forever (accept.rs:27).           *)
DeathShows ==
    <>[]Room => ((listener = "dead" /\ ready) ~> (loop = "ended"))

-------------------------------------------------------------------------------
(* The promise this loop implements. *)
D == INSTANCE Door WITH
        door <- IF loop = "ended" THEN "gone"
                ELSE IF backoff.next = None THEN "serving" ELSE "struggling"

Implements == D!Spec
===============================================================================

--------------------------- MODULE AcceptLoopProofs ---------------------------
(* Proofs about AcceptLoop, for every table size, set of connections, floor,   *)
(* ceiling and errno set.                                                      *)
EXTENDS AcceptLoop, FiniteSetTheorems, SequenceTheorems, WellFoundedInduction, TLAPS

-------------------------------------------------------------------------------
(* The wait handed out is positive, and the doubled wait stays in bounds.      *)
LEMMA WaitBounds ==
    ASSUME NEW b \in [next : Nat, failures : Nat, waited : Nat],
           b.next # None => b.next \in Floor .. Ceiling
    PROVE  /\ Wait(b) \in Floor .. Ceiling
           /\ Doubled(Wait(b)) \in Floor .. Ceiling
BY BackoffAssumption DEF Wait, Doubled, None

(* The queue an accept error leaves is a queue of connections. *)
LEMMA BacklogAfterType ==
    ASSUME backlog \in Seq(Clients), NEW e
    PROVE  BacklogAfter(e) \in Seq(Clients)
BY DEF BacklogAfter

(* The lines a step prints are lines of the log. *)
LEMMA LinesType ==
    ASSUME NEW b \in [next : Nat, failures : Nat, waited : Nat]
    PROVE  FailingLines(b) \in Seq(Lines) /\ RecoveredLines(b) \in Seq(Lines)
<1>1. Failing \in Lines /\ Recovered(b.failures, b.waited) \in Lines
  BY DEF Failing, Recovered, Lines
<1> QED BY <1>1 DEF FailingLines, RecoveredLines

(* Two one-line logs joined. *)
LEMMA TwoLines ==
    ASSUME NEW S, NEW a \in S, NEW b \in S
    PROVE  <<a>> \o <<b>> = <<a, b>>
<1> DEFINE s == <<a>> \o <<b>>
<1>1. s \in Seq(S) /\ Len(s) = 2 /\ s[1] = a /\ s[2] = b
  OBVIOUS
<1>2. /\ <<a, b>> \in Seq(S) /\ Len(<<a, b>>) = 2
      /\ <<a, b>>[1] = a /\ <<a, b>>[2] = b
  OBVIOUS
<1> HIDE DEF s
<1>3. \A i \in 1 .. Len(s) : s[i] = <<a, b>>[i]
  <2> TAKE i \in 1 .. Len(s)
  <2>1. i = 1 \/ i = 2
    BY <1>1
  <2> QED BY <1>1, <1>2, <2>1
<1>4. s = <<a, b>>
  BY <1>1, <1>2, <1>3, SeqEqual
<1> QED BY <1>4 DEF s

(* What `failed` leaves behind is again a Backoff. *)
LEMMA FailedType ==
    ASSUME NEW b \in [next : Nat, failures : Nat, waited : Nat]
    PROVE  /\ Wait(b) \in Nat
           /\ Failed(b) \in [next : Nat, failures : Nat, waited : Nat]
BY BackoffAssumption DEF Failed, Doubled, Wait

-------------------------------------------------------------------------------
(* Inv joins the type invariant to the account of the running episode: the     *)
(* backoff's totals are what an onlooker counts, less the sleep in progress.   *)
Accounted ==
    /\ loop = "sleeping" => ~ Over
    /\ loop # "sleeping" => timer = 0
    /\ Over => backoff = Outside
    /\ Over /\ seen.failed = 0 => seen.slept = 0
    /\ ~ Over =>
        /\ seen.failed > 0
        /\ backoff.next \in Floor .. Ceiling
        /\ backoff.failures = seen.failed
        /\ backoff.waited = seen.slept + timer
        /\ backoff.waited >= Floor
        /\ backoff.waited <= backoff.failures * Ceiling

Inv == TypeOK /\ Accounted /\ EpisodeReported /\ OnlyDeathEnds

(* The initial states. *)
LEMMA InitInv == Init => Inv
<1> SUFFICES ASSUME Init PROVE Inv
  OBVIOUS
<1> USE DEF Init
<1>1. TypeOK
  <2>1. backlog \in Seq(Clients) /\ log \in Seq(Lines) /\ IsFiniteSet(open)
    BY FS_EmptySet
  <2>2. backoff \in [next : Nat, failures : Nat, waited : Nat]
    BY DEF Outside, None
  <2>3. seen \in [failed : Nat, slept : Nat, state : {"over", "running"}]
    OBVIOUS
  <2> QED BY <2>1, <2>2, <2>3 DEF TypeOK
<1>2. Accounted
  BY DEF Accounted, Over
<1>3. EpisodeReported /\ OnlyDeathEnds
  BY DEF EpisodeReported, OnlyDeathEnds, Over
<1> QED BY <1>1, <1>2, <1>3 DEF Inv

(* Steps that leave the loop and its history alone keep the account. *)
LEMMA LoopUntouched ==
    ASSUME Accounted, EpisodeReported, UNCHANGED <<loopVars, history>>
    PROVE  Accounted' /\ EpisodeReported'
BY DEF Accounted, EpisodeReported, loopVars, history, Over

LEMMA StepTypeOK == TypeOK /\ Accounted /\ Next => TypeOK'
<1> SUFFICES ASSUME TypeOK, Accounted, Next PROVE TypeOK'
  OBVIOUS
<1> USE DEF TypeOK, osVars, loopVars, history
<1>1. ASSUME NEW c \in Clients, Arrive(c) PROVE TypeOK'
  BY <1>1 DEF Arrive
<1>2. ASSUME NEW c \in Clients, Finish(c) PROVE TypeOK'
  BY <1>2, FS_RemoveElement DEF Finish
<1>3. CASE Grab
  <2>1. others + 1 \in 0 .. Table
    <3>1. others < Table
      BY <1>3, TableAssumption, FS_CardinalityType DEF Grab, Room
    <3> QED BY <3>1, TableAssumption
  <2> QED BY <1>3, <2>1 DEF Grab
<1>4. CASE Release
  BY <1>4, TableAssumption DEF Release
<1>5. CASE Die
  BY <1>5 DEF Die
<1>6. CASE AcceptWouldBlock
  BY <1>6 DEF AcceptWouldBlock
<1>7. CASE AcceptOk
  <2>1. Head(backlog) \in Clients /\ Tail(backlog) \in Seq(Clients)
    BY <1>7 DEF AcceptOk
  <2>2. IsFiniteSet(open')
    BY <1>7, FS_AddElement DEF AcceptOk
  <2>3. log' \in Seq(Lines)
    BY <1>7, LinesType DEF AcceptOk
  <2>4. backoff' \in [next : Nat, failures : Nat, waited : Nat]
    BY <1>7 DEF AcceptOk, Succeeded, Outside, None
  <2> QED BY <1>7, <2>1, <2>2, <2>3, <2>4 DEF AcceptOk
<1>8. ASSUME NEW e \in Errnos, AcceptSkip(e) PROVE TypeOK'
  BY <1>8, BacklogAfterType DEF AcceptSkip
<1>9. ASSUME NEW e \in Errnos, AcceptBackOff(e) PROVE TypeOK'
  <2>1. backlog' \in Seq(Clients)
    BY <1>9, BacklogAfterType DEF AcceptBackOff
  <2>2. log' \in Seq(Lines)
    BY <1>9, LinesType DEF AcceptBackOff
  <2>3. timer' \in Nat /\ backoff' \in [next : Nat, failures : Nat, waited : Nat]
    BY <1>9, FailedType DEF AcceptBackOff, Sleep
  <2>4. seen' \in [failed : Nat, slept : Nat, state : {"over", "running"}]
    BY <1>9 DEF AcceptBackOff, Over
  <2> QED BY <1>9, <2>1, <2>2, <2>3, <2>4 DEF AcceptBackOff, Sleep
<1>10. ASSUME NEW e \in Errnos, AcceptFatal(e) PROVE TypeOK'
  BY <1>10 DEF AcceptFatal
<1>11. CASE Wake
  <2>1. seen' \in [failed : Nat, slept : Nat, state : {"over", "running"}]
    <3>1. seen.slept + timer \in Nat
      OBVIOUS
    <3> QED BY <1>11, <3>1 DEF Wake
  <2> QED BY <1>11, <2>1 DEF Wake
<1> QED
  BY <1>1, <1>2, <1>3, <1>4, <1>5, <1>6, <1>7, <1>8, <1>9, <1>10, <1>11
  DEF Next, Loop, System

(* The account of the episode survives every step of the loop. *)
LEMMA StepAccounted == TypeOK /\ Accounted /\ EpisodeReported /\ Next
                       => Accounted' /\ EpisodeReported'
<1> SUFFICES ASSUME TypeOK, Accounted, EpisodeReported, Next
             PROVE  Accounted' /\ EpisodeReported'
  OBVIOUS
<1>t. /\ backoff \in [next : Nat, failures : Nat, waited : Nat]
      /\ seen \in [failed : Nat, slept : Nat, state : {"over", "running"}]
      /\ log \in Seq(Lines) /\ timer \in Nat
  BY DEF TypeOK
<1>1. CASE System
  BY <1>1, LoopUntouched DEF System, Arrive, Finish, Grab, Release, Die
<1>2. CASE AcceptWouldBlock
  BY <1>2, LoopUntouched DEF AcceptWouldBlock
<1>3. CASE AcceptOk
  <2>1. /\ loop = "accepting" /\ loop' = loop /\ timer' = timer
        /\ backoff' = Succeeded(backoff)
        /\ log' = log \o RecoveredLines(backoff)
        /\ seen' = [seen EXCEPT !.state = "over"]
    BY <1>3 DEF AcceptOk, Attempting
  <2>2. /\ seen'.failed = seen.failed /\ seen'.slept = seen.slept /\ Over'
        /\ timer = 0 /\ timer' = 0
    BY <2>1, <1>t DEF Accounted, Over
  <2>3. backoff' = Outside
    BY <2>1, <1>t, BackoffAssumption DEF Accounted, Succeeded, Outside, None
  <2>4. seen.failed = 0 => seen.slept = 0
    BY <1>t DEF Accounted
  <2>5. Accounted'
    BY <2>1, <2>2, <2>3, <2>4 DEF Accounted
  <2>6. CASE Over
    <3>1. RecoveredLines(backoff) = <<>>
      BY <2>6 DEF Accounted, RecoveredLines, Outside
    <3>2. log' = log
      BY <2>1, <3>1, <1>t
    <3> QED BY <2>2, <2>5, <2>6, <3>2 DEF EpisodeReported
  <2>7. CASE ~ Over
    <3>1. RecoveredLines(backoff) = <<Recovered(seen.failed, seen.slept)>>
      BY <2>2, <2>7, <1>t, BackoffAssumption DEF Accounted, RecoveredLines, None
    <3>2. log = <<Failing>> /\ seen.failed # 0
      BY <2>7, <1>t DEF Accounted, EpisodeReported
    <3>3. log' = <<Failing, Recovered(seen.failed, seen.slept)>>
      <4>1. Failing \in Lines /\ Recovered(seen.failed, seen.slept) \in Lines
        BY <1>t DEF Failing, Recovered, Lines
      <4> QED BY <2>1, <3>1, <3>2, <4>1, TwoLines
    <3> QED BY <2>2, <2>5, <3>2, <3>3 DEF EpisodeReported
  <2> QED BY <2>6, <2>7
<1>4. ASSUME NEW e \in Errnos, AcceptSkip(e) PROVE Accounted' /\ EpisodeReported'
  BY <1>4, LoopUntouched DEF AcceptSkip
<1>5. ASSUME NEW e \in Errnos, AcceptBackOff(e) PROVE Accounted' /\ EpisodeReported'
  <2>1. /\ loop = "accepting" /\ loop' = "sleeping" /\ timer' = Wait(backoff)
        /\ backoff' = Failed(backoff)
        /\ log' = (IF Over THEN <<>> ELSE log) \o FailingLines(backoff)
        /\ seen' = [failed |-> IF Over THEN 1 ELSE seen.failed + 1,
                    slept |-> IF Over THEN 0 ELSE seen.slept, state |-> "running"]
    BY <1>5 DEF AcceptBackOff, Attempting, Sleep
  <2>2. /\ Wait(backoff) \in Floor .. Ceiling
        /\ Doubled(Wait(backoff)) \in Floor .. Ceiling
    BY <1>t, WaitBounds DEF Accounted, Outside
  <2>3. ~ Over' /\ timer = 0
    BY <2>1 DEF Over, Accounted
  <2>4. /\ backoff'.next = Doubled(Wait(backoff))
        /\ backoff'.failures = backoff.failures + 1
        /\ backoff'.waited = backoff.waited + Wait(backoff)
    BY <2>1 DEF Failed
  <2>5. CASE Over
    <3>1. seen'.failed = 1 /\ seen'.slept = 0
      BY <2>1, <2>5
    <3>2. backoff.failures = 0 /\ backoff.waited = 0 /\ backoff.next = None
      BY <2>5 DEF Accounted, Outside
    <3>3. Accounted'
      BY <2>1, <2>2, <2>3, <2>4, <3>1, <3>2, BackoffAssumption DEF Accounted
    <3>4. log' = <<Failing>>
      BY <2>1, <2>5, <3>2 DEF FailingLines
    <3> QED BY <2>3, <3>1, <3>3, <3>4 DEF EpisodeReported
  <2>6. CASE ~ Over
    <3>1. seen'.failed = seen.failed + 1 /\ seen'.slept = seen.slept
      BY <2>1, <2>6
    <3>2. /\ backoff.next # None /\ backoff.failures = seen.failed /\ seen.failed > 0
          /\ backoff.waited = seen.slept /\ backoff.waited >= Floor
          /\ backoff.waited <= backoff.failures * Ceiling
      BY <2>3, <2>6, <1>t, BackoffAssumption DEF Accounted, None
    <3>3. (backoff.failures + 1) * Ceiling = backoff.failures * Ceiling + Ceiling
      BY <1>t, BackoffAssumption
    <3>4. backoff'.waited <= backoff'.failures * Ceiling
      BY <2>2, <2>4, <3>2, <3>3, <1>t, BackoffAssumption
    <3>5. Accounted'
      BY <2>1, <2>2, <2>3, <2>4, <3>1, <3>2, <3>4, <1>t, BackoffAssumption DEF Accounted
    <3>6. log' = <<Failing>>
      BY <2>1, <2>6, <3>2, <1>t DEF EpisodeReported, FailingLines
    <3> QED BY <2>3, <3>1, <3>2, <3>5, <3>6, <1>t DEF EpisodeReported
  <2> QED BY <2>5, <2>6
<1>6. ASSUME NEW e \in Errnos, AcceptFatal(e) PROVE Accounted' /\ EpisodeReported'
  BY <1>6 DEF AcceptFatal, Attempting, Accounted, EpisodeReported, history, Over
<1>7. CASE Wake
  BY <1>7 DEF Wake, Accounted, EpisodeReported, TypeOK, Over
<1> QED
  BY <1>1, <1>2, <1>3, <1>4, <1>5, <1>6, <1>7 DEF Next, Loop

(* Only an accept error of a dead listener is fatal. *)
LEMMA FatalIsDeath ==
    ASSUME NEW e, e \in AcceptErrors, Classify(e) = "Fatal"
    PROVE  listener = "dead"
BY TransientAssumption DEF AcceptErrors, Classify, FatalErrnos

LEMMA StepOnlyDeathEnds ==
    ASSUME OnlyDeathEnds, Next
    PROVE  OnlyDeathEnds'
<1> USE DEF OnlyDeathEnds, osVars, loopVars
<1>1. CASE System
  BY <1>1 DEF System, Arrive, Finish, Grab, Release, Die
<1>2. ASSUME NEW e \in Errnos, AcceptFatal(e) PROVE OnlyDeathEnds'
  BY <1>2, FatalIsDeath DEF AcceptFatal
<1>3. ASSUME NEW e \in Errnos, AcceptSkip(e) \/ AcceptBackOff(e) PROVE OnlyDeathEnds'
  BY <1>3 DEF AcceptSkip, AcceptBackOff, Sleep
<1>4. CASE AcceptWouldBlock \/ AcceptOk \/ Wake
  BY <1>4 DEF AcceptWouldBlock, AcceptOk, Wake
<1> QED BY <1>1, <1>2, <1>3, <1>4 DEF Next, Loop

LEMMA InvInductive == Inv /\ [Next]_vars => Inv'
<1>1. Inv /\ Next => Inv'
  BY StepTypeOK, StepAccounted, StepOnlyDeathEnds DEF Inv
<1>2. Inv /\ UNCHANGED vars => Inv'
  BY DEF Inv, TypeOK, Accounted, EpisodeReported, OnlyDeathEnds, Over,
         vars, osVars, loopVars, history
<1> QED BY <1>1, <1>2

LEMMA InvAlways == Spec => []Inv
BY InitInv, InvInductive, PTL DEF Spec

-------------------------------------------------------------------------------
(* Every variable keeps its type (serve.rs `serve_until_error`). *)
THEOREM TypeCorrect == Spec => []TypeOK
<1>1. Inv => TypeOK
  BY DEF Inv
<1> QED BY <1>1, InvAlways, PTL

(* The Backoff's fields open and close together, within the floor and the      *)
(* ceiling (accept.rs `failed`, `succeeded`), in every interleaving.           *)
THEOREM EpisodeAlwaysConsistent == Spec => []EpisodeConsistent
<1>1. Inv => EpisodeConsistent
  <2> SUFFICES ASSUME Inv PROVE EpisodeConsistent
    OBVIOUS
  <2>1. backoff \in [next : Nat, failures : Nat, waited : Nat]
    BY DEF Inv, TypeOK
  <2>2. CASE Over
    <3>1. backoff.next = 0 /\ backoff.failures = 0 /\ backoff.waited = 0
      BY <2>2 DEF Inv, Accounted, Outside, None
    <3> QED BY <3>1, BackoffAssumption DEF EpisodeConsistent, None
  <2>3. CASE ~ Over
    <3>1. /\ backoff.next \in Floor .. Ceiling
          /\ backoff.failures > 0 /\ backoff.waited >= Floor
          /\ backoff.waited <= backoff.failures * Ceiling
      BY <2>3 DEF Inv, Accounted
    <3> QED BY <2>1, <3>1, BackoffAssumption DEF EpisodeConsistent, None
  <2> QED BY <2>2, <2>3
<1> QED BY <1>1, InvAlways, PTL

(* The log names each exhaustion episode once at its start and once at its     *)
(* end, with the failures and the slept milliseconds an onlooker counts        *)
(* (accept.rs:92).                                                             *)
THEOREM EpisodeAlwaysReported == Spec => []EpisodeReported
<1>1. Inv => EpisodeReported
  BY DEF Inv
<1> QED BY <1>1, InvAlways, PTL

(* The loop ends only for a dead listener (accept.rs `Fault::Fatal`). *)
THEOREM OnlyDeathEverEnds == Spec => []OnlyDeathEnds
<1>1. Inv => OnlyDeathEnds
  BY DEF Inv
<1> QED BY <1>1, InvAlways, PTL

-------------------------------------------------------------------------------
(* The schedule. A set of numbers that has an element has a least one, and so  *)
(* what holds of 0 and passes on to the next number holds of all.              *)
LEMMA Least ==
    ASSUME NEW T \in SUBSET Nat, T # {}
    PROVE  \E n \in T : \A m \in T : n <= m
<1> DEFINE R == {p \in Nat \X Nat : p[1] < p[2]}
<1>1. IsWellFoundedOn(R, Nat)
  BY NatLessThanWellFounded, Zenon DEF OpToRel
<1> HIDE DEF R
<1>2. PICK n \in T : \A m \in T : ~ (<<m, n>> \in R)
  BY <1>1, WFMin
<1>3. ASSUME NEW m \in T PROVE n <= m
  <2>1. n \in Nat /\ m \in Nat /\ ~ (<<m, n>> \in R)
    BY <1>2
  <2> QED BY <2>1 DEF R
<1> QED BY <1>3

LEMMA Upward ==
    ASSUME NEW T, 0 \in T, \A n \in Nat : n \in T => n + 1 \in T
    PROVE  \A n \in Nat : n \in T
<1> DEFINE W == Nat \ T
<1>0. W \in SUBSET Nat
  OBVIOUS
<1>1. ASSUME W # {} PROVE FALSE
  <2>1. PICK n \in W : \A m \in W : n <= m
    <3> HIDE DEF W
    <3> QED BY <1>0, <1>1, Least
  <2>2. n - 1 \in Nat /\ n - 1 \notin W /\ n - 1 + 1 = n
    BY <2>1
  <2> QED BY <2>2
<1> QED BY <1>1

(* The doublings of the floor up to the n-th.                                  *)
Doublings(f, n) ==
    /\ f \in [0 .. n -> Nat]
    /\ f[0] = Floor
    /\ \A i \in 0 .. n - 1 : f[i + 1] = 2 * f[i]

LEMMA DoublingsExist == \A n \in Nat : \E f : Doublings(f, n)
<1> DEFINE T == {n \in Nat : \E f : Doublings(f, n)}
<1>1. 0 \in T
  <2>1. Doublings([i \in 0 .. 0 |-> Floor], 0)
    BY BackoffAssumption DEF Doublings
  <2> QED BY <2>1
<1>2. ASSUME NEW n \in Nat, n \in T PROVE n + 1 \in T
  <2>1. PICK f : Doublings(f, n)
    BY <1>2
  <2> DEFINE g == [i \in 0 .. n + 1 |-> IF i = n + 1 THEN 2 * f[n] ELSE f[i]]
  <2>2. /\ f \in [0 .. n -> Nat] /\ f[0] = Floor
        /\ \A i \in 0 .. n - 1 : f[i + 1] = 2 * f[i]
    BY <2>1 DEF Doublings
  <2>3. /\ g \in [0 .. n + 1 -> Nat] /\ g[n + 1] = 2 * f[n]
        /\ \A i \in 0 .. n : g[i] = f[i]
    BY <2>2
  <2> HIDE DEF g
  <2>4. \A i \in 0 .. n + 1 - 1 : i = n \/ i \in 0 .. n - 1
    OBVIOUS
  <2>5. \A i \in 0 .. n - 1 : i \in 0 .. n /\ i + 1 \in 0 .. n
    OBVIOUS
  <2>6. 0 \in 0 .. n /\ n \in 0 .. n
    OBVIOUS
  <2>7. \A i \in 0 .. n + 1 - 1 : g[i + 1] = 2 * g[i]
    BY <2>2, <2>3, <2>4, <2>5, <2>6
  <2>8. Doublings(g, n + 1)
    BY <2>2, <2>3, <2>6, <2>7 DEF Doublings
  <2> QED BY <2>8
<1>3. \A n \in Nat : n \in T
  <2> HIDE DEF T
  <2> QED BY <1>1, <1>2, Upward
<1> QED BY <1>3

LEMMA DoublingsAgree ==
    ASSUME NEW f, NEW g, NEW n \in Nat, Doublings(f, n), Doublings(g, n + 1)
    PROVE  g[n] = f[n]
<1> DEFINE T == {i \in Nat : i \in 0 .. n => g[i] = f[i]}
<1>1. 0 \in T
  BY DEF Doublings
<1>2. ASSUME NEW i \in Nat, i \in T PROVE i + 1 \in T
  <2>1. CASE i + 1 \in 0 .. n
    <3>1. i \in 0 .. n /\ i \in 0 .. n - 1 /\ i \in 0 .. n + 1 - 1
      BY <2>1
    <3>2. f[i + 1] = 2 * f[i] /\ g[i + 1] = 2 * g[i]
      BY <3>1 DEF Doublings
    <3> QED BY <1>2, <3>1, <3>2
  <2> QED BY <2>1
<1>3. \A i \in Nat : i \in T
  <2> HIDE DEF T
  <2> QED BY <1>1, <1>2, Upward
<1> QED BY <1>3

Doubles(f) == f = [n \in Nat |-> IF n = 0 THEN Floor ELSE 2 * f[n - 1]]

LEMMA DoublesExists == \E f : Doubles(f)
<1> DEFINE d(n) == CHOOSE f : Doublings(f, n)
           f == [n \in Nat |-> d(n)[n]]
<1>1. \A n \in Nat : Doublings(d(n), n)
  BY DoublingsExist
<1> HIDE DEF d
<1>2. f[0] = Floor
  BY <1>1 DEF Doublings
<1>3. ASSUME NEW n \in Nat PROVE f[n + 1] = 2 * f[n]
  <2>1. Doublings(d(n), n) /\ Doublings(d(n + 1), n + 1)
    BY <1>1
  <2>2. d(n + 1)[n] = d(n)[n]
    BY <2>1, DoublingsAgree
  <2>3. n \in 0 .. n + 1 - 1
    OBVIOUS
  <2>4. d(n + 1)[n + 1] = 2 * d(n + 1)[n]
    BY <2>1, <2>3 DEF Doublings
  <2> QED BY <2>2, <2>4
<1> HIDE DEF f
<1>4. \A n \in Nat : f[n] = IF n = 0 THEN Floor ELSE 2 * f[n - 1]
  <2> SUFFICES ASSUME NEW n \in Nat PROVE f[n] = IF n = 0 THEN Floor ELSE 2 * f[n - 1]
    OBVIOUS
  <2>1. CASE n = 0
    BY <1>2, <2>1
  <2>2. CASE n # 0
    <3>1. n - 1 \in Nat /\ n - 1 + 1 = n
      BY <2>2
    <3>2. f[n - 1 + 1] = 2 * f[n - 1]
      BY <1>3, <3>1
    <3> QED BY <2>2, <3>1, <3>2
  <2> QED BY <2>1, <2>2
<1>5. f = [n \in Nat |-> f[n]]
  BY DEF f
<1>6. f = [n \in Nat |-> IF n = 0 THEN Floor ELSE 2 * f[n - 1]]
  BY <1>4, <1>5
<1> QED BY <1>6 DEF Doubles

(* The doublings as the specification defines them.                            *)
LEMMA UncappedAt ==
    /\ Uncapped[0] = Floor
    /\ \A n \in Nat : Uncapped[n] \in Nat /\ Uncapped[n + 1] = 2 * Uncapped[n]
<1> DEFINE e(n) == IF n = 0 THEN Floor ELSE 2 * Uncapped[n - 1]
<1>1. Uncapped = [n \in Nat |-> e(n)]
  <2>1. Uncapped = CHOOSE f : Doubles(f)
    BY DEF Uncapped, Doubles
  <2>2. Doubles(Uncapped)
    BY <2>1, DoublesExists
  <2> QED BY <2>2 DEF Doubles
<1>2. \A n \in Nat : Uncapped[n] = e(n)
  <2> HIDE DEF e
  <2> QED BY <1>1
<1>3. Uncapped[0] = Floor
  BY <1>2
<1>4. \A n \in Nat : Uncapped[n + 1] = 2 * Uncapped[n]
  <2>1. \A n \in Nat : n + 1 \in Nat /\ n + 1 # 0 /\ n + 1 - 1 = n
    OBVIOUS
  <2>2. \A n \in Nat : e(n + 1) = 2 * Uncapped[n]
    BY <2>1
  <2> HIDE DEF e
  <2> QED BY <1>2, <2>1, <2>2
<1> DEFINE T == {n \in Nat : Uncapped[n] \in Nat}
<1>5. 0 \in T /\ \A n \in Nat : n \in T => n + 1 \in T
  BY <1>3, <1>4, BackoffAssumption
<1>6. \A n \in Nat : n \in T
  <2> HIDE DEF T
  <2> QED BY <1>5, Upward
<1> QED BY <1>3, <1>4, <1>6

LEMMA ScheduleStep == Inv /\ Schedule /\ [Next]_vars => Schedule'
<1> SUFFICES ASSUME Inv, Schedule, [Next]_vars PROVE Schedule'
  OBVIOUS
<1>t. backoff \in [next : Nat, failures : Nat, waited : Nat]
  BY DEF Inv, TypeOK
<1>1. CASE backoff' = backoff
  BY <1>1 DEF Schedule
<1>2. CASE AcceptOk
  <2>1. backoff'.next = None
    BY <1>2 DEF AcceptOk, Succeeded, Outside
  <2> QED BY <2>1 DEF Schedule
<1>3. ASSUME NEW e \in Errnos, AcceptBackOff(e) PROVE Schedule'
  <2> DEFINE n == backoff.failures
             u == Uncapped[n]
             w == Wait(backoff)
  <2>1. n \in Nat /\ u \in Nat /\ Uncapped[n + 1] = 2 * u
    BY <1>t, UncappedAt
  <2>2. backoff'.next = Doubled(w) /\ backoff'.failures = n + 1
    BY <1>3 DEF AcceptBackOff, Failed
  <2>3. w = IF u < Ceiling THEN u ELSE Ceiling
    <3>1. CASE backoff.next = None
      <4>1. w = Floor
        BY <3>1 DEF Wait
      <4>2. n = 0
        <5>1. Over
          BY <1>t, <3>1, BackoffAssumption DEF Inv, Accounted, None
        <5> QED BY <5>1 DEF Inv, Accounted, Outside
      <4>3. u = Floor
        BY <4>2, UncappedAt
      <4> QED BY <4>1, <4>3, BackoffAssumption
    <3>2. CASE backoff.next # None
      BY <3>2 DEF Wait, Schedule
    <3> QED BY <3>1, <3>2
  <2> HIDE DEF w, u, n
  <2>4. Doubled(w) = IF 2 * u < Ceiling THEN 2 * u ELSE Ceiling
    BY <2>1, <2>3, BackoffAssumption DEF Doubled
  <2> QED BY <2>1, <2>2, <2>4 DEF Schedule
<1>4. [Next]_vars => backoff' = backoff \/ AcceptOk \/ \E e \in Errnos : AcceptBackOff(e)
  BY DEF Next, Loop, System, AcceptWouldBlock, AcceptSkip, AcceptFatal, Wake, Arrive, Finish,
         Grab, Release, Die, vars, loopVars
<1> QED BY <1>1, <1>2, <1>3, <1>4

(* However many accepts fail, the wait in hand is the floor doubled as often,  *)
(* capped (accept.rs `failed`).                                                *)
THEOREM AlwaysOnSchedule == Spec => []Schedule
<1>1. Init => Schedule
  BY DEF Init, Outside, Schedule
<1> QED BY <1>1, InvAlways, ScheduleStep, PTL DEF Spec

-------------------------------------------------------------------------------
(* What QueueMoves rests on: a queue is never left to a loop that waits for   *)
(* a readiness that has been spent, or that has ended.                         *)
Announced == listener = "open" /\ backlog # <<>> => ready

Watched ==
    listener = "open" /\ backlog # <<>> => loop = "sleeping" \/ Attempting

LEMMA AnnouncedStep == Announced /\ [Next]_vars => Announced'
<1> SUFFICES ASSUME Announced, [Next]_vars PROVE Announced'
  OBVIOUS
<1> USE DEF Announced, osVars, loopVars
<1>1. CASE UNCHANGED vars
  BY <1>1 DEF vars
<1>2. ASSUME NEW c \in Clients, Arrive(c) \/ Finish(c) PROVE Announced'
  BY <1>2 DEF Arrive, Finish
<1>3. CASE Grab \/ Release \/ Die
  BY <1>3 DEF Grab, Release, Die
<1>4. CASE AcceptWouldBlock \/ AcceptOk \/ Wake
  BY <1>4 DEF AcceptWouldBlock, AcceptOk, Attempting, Wake
<1>5. ASSUME NEW e \in Errnos, AcceptSkip(e) \/ AcceptBackOff(e) \/ AcceptFatal(e)
      PROVE  Announced'
  BY <1>5 DEF AcceptSkip, AcceptBackOff, AcceptFatal, Attempting
<1> QED BY <1>1, <1>2, <1>3, <1>4, <1>5 DEF Next, Loop, System

(* While connections queue at a live listener the loop is asleep for a wait of *)
(* the backoff or is about to accept: no wakeup is lost between tokio's        *)
(* readiness, skips, backoffs and successes (serve.rs `serve_until_error`).    *)
THEOREM QueueAlwaysWatched == Spec => []Watched
<1>1. Init => Announced
  BY DEF Init, Announced
<1>2. Spec => []Announced
  BY <1>1, AnnouncedStep, PTL DEF Spec
<1>3. Inv /\ Announced => Watched
  BY DEF Inv, TypeOK, OnlyDeathEnds, Announced, Watched, Attempting
<1> QED BY <1>2, <1>3, InvAlways, PTL

-------------------------------------------------------------------------------
(* The loop implements the promise of Door. *)
LEMMA InitRefines == Init => D!Init
BY DEF Init, D!Init, Outside

LEMMA StepRefines == Inv /\ [Next]_vars => [D!Next]_D!vars
<1> SUFFICES ASSUME Inv, [Next]_vars PROVE D!Next \/ UNCHANGED D!vars
  OBVIOUS
<1> USE DEF D!vars, osVars, loopVars, history
<1>1. ASSUME NEW c \in Clients, Arrive(c) PROVE D!Next
  BY <1>1 DEF Arrive, D!Arrive, D!Next
<1>2. ASSUME NEW c \in Clients, Finish(c) PROVE D!Next
  BY <1>2 DEF Finish, D!Finish, D!Next
<1>3. CASE Grab \/ Release \/ AcceptWouldBlock
  BY <1>3 DEF Grab, Release, AcceptWouldBlock
<1>4. CASE Die
  BY <1>4 DEF Die, D!Die, D!Next
<1>5. CASE AcceptOk
  <2>1. backoff'.next = None
    BY <1>5 DEF AcceptOk, Succeeded, Outside
  <2> QED BY <1>5, <2>1 DEF AcceptOk, Attempting, D!Take, D!Next
<1>6. ASSUME NEW e \in Errnos, AcceptSkip(e) PROVE D!Next \/ UNCHANGED D!vars
  BY <1>6 DEF AcceptSkip, BacklogAfter, Attempting, D!Lose, D!Next
<1>7. ASSUME NEW e \in Errnos, AcceptBackOff(e) PROVE D!Next
  <2>1. backoff'.next # None
    BY <1>7, BackoffAssumption
    DEF AcceptBackOff, Failed, Doubled, Wait, None, Inv, TypeOK
  <2> QED BY <1>7, <2>1 DEF AcceptBackOff, Sleep, BacklogAfter, Attempting,
                            D!Lose, D!Struggle, D!Next
<1>8. ASSUME NEW e \in Errnos, AcceptFatal(e) PROVE D!Next
  BY <1>8, FatalIsDeath DEF AcceptFatal, D!Go, D!Next
<1>9. CASE Wake
  BY <1>9 DEF Wake
<1>10. CASE UNCHANGED vars
  BY <1>10 DEF vars
<1> QED
  BY <1>1, <1>2, <1>3, <1>4, <1>5, <1>6, <1>7, <1>8, <1>9, <1>10
  DEF Next, Loop, System

(* Connections are taken oldest first, exhaustion never closes the door, and   *)
(* only the listener's death does (serve.rs `serve_until_error`).              *)
THEOREM LoopImplementsDoor == Spec => Implements
BY InitRefines, StepRefines, InvAlways, PTL DEF Spec, Implements, D!Spec
===============================================================================

---------------------------- MODULE LazyMountProofs ----------------------------
(* Theorems of LazyMount, for any number of calls, dials and moments at which  *)
(* the peer is out of reach. The inductive invariant adds to the properties    *)
(* what they rest on: an active call has noted a peer out of reach (Noted),    *)
(* and once a call has begun with a resolver kept, one stays kept (Kept).      *)
EXTENDS LazyMount, TLAPS

Noted == \A t \in Calls : Active(t) /\ peer # "up" => t \in sawCut

Kept ==
    /\ sawKept # {} => inner # None
    /\ \A t \in Calls : pc[t] = "storing" => mine[t] \in Resolvers

Inv ==
    /\ TypeOK
    /\ Noted /\ Kept
    /\ UnavailableMeansUnreachable /\ DialsOnlyUntilKept /\ ProbesTakeTurns

(* None is no resolver, and a resolver just made has the next number.          *)
LEMMA NoneIsNoResolver == None \notin Resolvers
BY BoundsAssumption DEF Resolvers

LEMMA Initially == Init => Inv
BY BoundsAssumption DEF Init, Inv, TypeOK, Reaches, Noted, Kept, Active, UnavailableMeansUnreachable,
    DialsOnlyUntilKept, ProbesTakeTurns

-------------------------------------------------------------------------------
(* Type correctness step by step: `Finish` and `Connect` first.                *)
LEMMA TypeStep == TypeOK /\ [Next]_vars => TypeOK'
<1> SUFFICES ASSUME TypeOK, [Next]_vars PROVE TypeOK'
  OBVIOUS
<1> USE DEF TypeOK, Reaches, world, history
<1>1. CASE UNCHANGED vars
  BY <1>1 DEF vars
<1>2. CASE PeerLeaves
  BY <1>2, BoundsAssumption DEF PeerLeaves
<1>3. CASE PeerReturns
  BY <1>3 DEF PeerReturns
<1>4. ASSUME NEW t \in Calls, Begin(t) PROVE TypeOK'
  BY <1>4 DEF Begin
<1>5. ASSUME NEW t \in Calls, Get(t) PROVE TypeOK'
  BY <1>5 DEF Get
<1>6. ASSUME NEW t \in Calls, Dial(t) PROVE TypeOK'
  BY <1>6, BoundsAssumption DEF Dial, Connect, Finish, Resolvers
<1>7. ASSUME NEW t \in Calls, Store(t) PROVE TypeOK'
  BY <1>7 DEF Store
<1>8. ASSUME NEW t \in Calls, Issue(t) PROVE TypeOK'
  BY <1>8 DEF Issue, Finish
<1>9. ASSUME NEW t \in Calls, Probe(t) PROVE TypeOK'
  BY <1>9 DEF Probe, Finish
<1>10. ASSUME NEW t \in Calls, ProbeEnds(t) PROVE TypeOK'
  BY <1>10 DEF ProbeEnds, Finish
<1> QED BY <1>1, <1>2, <1>3, <1>4, <1>5, <1>6, <1>7, <1>8, <1>9, <1>10 DEF Next, Step

(* A call is Unavailable only when the peer was out of reach while it ran.     *)
LEMMA CutStep ==
    TypeOK /\ Noted /\ UnavailableMeansUnreachable /\ [Next]_vars
        => Noted' /\ UnavailableMeansUnreachable'
<1> SUFFICES ASSUME TypeOK, Noted, UnavailableMeansUnreachable, [Next]_vars
             PROVE  Noted' /\ UnavailableMeansUnreachable'
  OBVIOUS
<1> USE DEF TypeOK, Noted, UnavailableMeansUnreachable, Active, world, history
<1>1. CASE UNCHANGED vars
  BY <1>1 DEF vars
<1>2. CASE PeerLeaves \/ PeerReturns
  BY <1>2 DEF PeerLeaves, PeerReturns
<1>3. ASSUME NEW t \in Calls, Begin(t) PROVE Noted' /\ UnavailableMeansUnreachable'
  BY <1>3 DEF Begin
<1>4. ASSUME NEW t \in Calls, Get(t) \/ Store(t) PROVE Noted' /\ UnavailableMeansUnreachable'
  BY <1>4 DEF Get, Store
<1>5. ASSUME NEW t \in Calls, Dial(t) PROVE Noted' /\ UnavailableMeansUnreachable'
  BY <1>5 DEF Dial, Connect, Finish
<1>6. ASSUME NEW t \in Calls, Issue(t) PROVE Noted' /\ UnavailableMeansUnreachable'
  BY <1>6 DEF Issue, Finish
<1>7. ASSUME NEW t \in Calls, Probe(t) \/ ProbeEnds(t) PROVE Noted' /\ UnavailableMeansUnreachable'
  BY <1>7 DEF Probe, ProbeEnds, Finish
<1> QED BY <1>1, <1>2, <1>3, <1>4, <1>5, <1>6, <1>7 DEF Next, Step

(* Once a resolver is kept, a call that begins finds one and never dials.      *)
LEMMA KeptStep ==
    TypeOK /\ Kept /\ DialsOnlyUntilKept /\ [Next]_vars => Kept' /\ DialsOnlyUntilKept'
<1> SUFFICES ASSUME TypeOK, Kept, DialsOnlyUntilKept, [Next]_vars
             PROVE  Kept' /\ DialsOnlyUntilKept'
  OBVIOUS
<1> USE NoneIsNoResolver DEF TypeOK, Kept, DialsOnlyUntilKept, world, history
<1>1. CASE UNCHANGED vars
  BY <1>1 DEF vars
<1>2. CASE PeerLeaves \/ PeerReturns
  BY <1>2 DEF PeerLeaves, PeerReturns
<1>3. ASSUME NEW t \in Calls, Begin(t) PROVE Kept' /\ DialsOnlyUntilKept'
  BY <1>3 DEF Begin
<1>4. ASSUME NEW t \in Calls, Get(t) PROVE Kept' /\ DialsOnlyUntilKept'
  BY <1>4 DEF Get
<1>5. ASSUME NEW t \in Calls, Dial(t) PROVE Kept' /\ DialsOnlyUntilKept'
  BY <1>5, BoundsAssumption DEF Dial, Connect, Finish, Resolvers
<1>6. ASSUME NEW t \in Calls, Store(t) PROVE Kept' /\ DialsOnlyUntilKept'
  BY <1>6 DEF Store
<1>7. ASSUME NEW t \in Calls, Issue(t) PROVE Kept' /\ DialsOnlyUntilKept'
  BY <1>7 DEF Issue, Finish
<1>8. ASSUME NEW t \in Calls, Probe(t) \/ ProbeEnds(t) PROVE Kept' /\ DialsOnlyUntilKept'
  BY <1>8 DEF Probe, ProbeEnds, Finish
<1> QED BY <1>1, <1>2, <1>3, <1>4, <1>5, <1>6, <1>7, <1>8 DEF Next, Step

(* The mutex is taken by a probe that finds a resolver kept, and given back    *)
(* with its answer; nothing is kept or taken while it is held.                 *)
LEMMA TurnsStep == TypeOK /\ ProbesTakeTurns /\ [Next]_vars => ProbesTakeTurns'
<1> SUFFICES ASSUME TypeOK, ProbesTakeTurns, [Next]_vars PROVE ProbesTakeTurns'
  OBVIOUS
<1> USE CallsAssumption DEF TypeOK, ProbesTakeTurns, world, history
<1>1. CASE UNCHANGED vars
  BY <1>1 DEF vars
<1>2. CASE PeerLeaves \/ PeerReturns
  BY <1>2 DEF PeerLeaves, PeerReturns
<1>3. ASSUME NEW t \in Calls, Begin(t) PROVE ProbesTakeTurns'
  BY <1>3 DEF Begin
<1>4. ASSUME NEW t \in Calls, Get(t) PROVE ProbesTakeTurns'
  BY <1>4 DEF Get
<1>5. ASSUME NEW t \in Calls, Dial(t) PROVE ProbesTakeTurns'
  BY <1>5 DEF Dial, Connect, Finish
<1>6. ASSUME NEW t \in Calls, Store(t) PROVE ProbesTakeTurns'
  BY <1>6 DEF Store
<1>7. ASSUME NEW t \in Calls, Issue(t) PROVE ProbesTakeTurns'
  BY <1>7 DEF Issue, Finish
<1>8. ASSUME NEW t \in Calls, Probe(t) PROVE ProbesTakeTurns'
  BY <1>8 DEF Probe, Finish
<1>9. ASSUME NEW t \in Calls, ProbeEnds(t) PROVE ProbesTakeTurns'
  BY <1>9 DEF ProbeEnds, Finish
<1> QED BY <1>1, <1>2, <1>3, <1>4, <1>5, <1>6, <1>7, <1>8, <1>9 DEF Next, Step

LEMMA Invariant == Spec => []Inv
<1>1. Inv /\ [Next]_vars => Inv'
  BY TypeStep, CutStep, KeptStep, TurnsStep DEF Inv
<1> QED BY Initially, <1>1, PTL DEF Spec

(* Every call's result, the kept resolver and the mutex stay what they can be. *)
THEOREM TypeCorrect == Spec => []TypeOK
BY Invariant, PTL DEF Inv

(* A 503 from the mount always tells of a peer this process could not reach    *)
(* during the call, never of an earlier failure or of another call's           *)
(* (mounts.rs `get`).                                                          *)
THEOREM UnavailableAlwaysMeansUnreachable == Spec => []UnavailableMeansUnreachable
BY Invariant, PTL DEF Inv

(* However many calls race for the first dial, no call that begins once a      *)
(* resolver is kept dials again (mounts.rs `get`).                             *)
THEOREM DialsOnlyUntilOneIsKept == Spec => []DialsOnlyUntilKept
BY Invariant, PTL DEF Inv

(* The mutex is only ever held by a probe that still asks, and what it asks is *)
(* the resolver kept, however many calls store and probe (mounts.rs:257).      *)
THEOREM ProbesAlwaysTakeTurns == Spec => []ProbesTakeTurns
BY Invariant, PTL DEF Inv
===============================================================================

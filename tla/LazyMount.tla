------------------------------ MODULE LazyMount -------------------------------
(* One `prefer` mount: LazyIpcResolver of mounts.rs, called by many tasks   *)
(* at once, over a peer that comes and goes. A resolver is one connection to   *)
(* the peer; the peer and ikigai-ipc's resolver are external.                  *)
EXTENDS Naturals, FiniteSets

CONSTANTS
    Calls,     \* the calls that reach the mount, each in a task of its own
    None,      \* `inner: None`
    MaxDials,  \* bound: resolvers ever made
    MaxCuts    \* bound: times the peer goes out of reach

ASSUME CallsAssumption == None \notin Calls
ASSUME BoundsAssumption ==
    /\ MaxDials \in Nat /\ MaxCuts \in Nat
    /\ None \notin 1 .. MaxDials

Resolvers == 1 .. MaxDials

(* What a caller asks: a request, by `issue_as`, `issue` or `entries`, or the   *)
(* probe `is_cached`.                                                          *)
Asks == {"issue", "is_cached"}

(* What this process finds of the peer: it is up; it is down; or it is barred, *)
(* up and yet not to be connected to from here (no descriptor left, a path     *)
(* without permission, a handshake that fails).                                *)
Reaches == {"up", "down", "barred"}

VARIABLES
    peer,     \* the peer as this process finds it
    cuts,     \* how often it has gone out of reach
    dials,    \* resolvers made so far
    inner,    \* the kept resolver, or None
    lock,     \* the call that holds the mutex while it asks, or None
    ask,      \* what each call asks
    pc,       \* where it is
    mine,     \* the resolver it works with, or None
    result,   \* what it got
    sawCut,   \* history: calls that met a moment with the peer out of reach
    sawKept   \* history: calls that began with a resolver kept

vars == <<peer, cuts, dials, inner, lock, ask, pc, mine, result, sawCut, sawKept>>
world == <<peer, cuts>>
history == <<sawCut, sawKept>>

Init ==
    /\ peer \in Reaches
    /\ cuts = 0 /\ dials = 0
    /\ inner = None
    /\ lock = None
    /\ ask \in [Calls -> Asks]
    /\ pc = [t \in Calls |-> "idle"]
    /\ mine = [t \in Calls |-> None]
    /\ result = [t \in Calls |-> "none"]
    /\ sawCut = {} /\ sawKept = {}

Active(t) == pc[t] \notin {"idle", "done"}

-------------------------------------------------------------------------------
(* The peer goes out of reach at any moment; every call under way meets it. *)
PeerLeaves ==
    /\ peer = "up"
    /\ cuts < MaxCuts
    /\ peer' \in {"down", "barred"}
    /\ cuts' = cuts + 1
    /\ sawCut' = sawCut \cup {t \in Calls : Active(t)}
    /\ UNCHANGED <<dials, inner, lock, pc, ask, mine, result, sawKept>>

PeerReturns ==
    /\ peer # "up"
    /\ peer' = "up"
    /\ UNCHANGED <<cuts, dials, inner, lock, pc, ask, mine, result, history>>

(* A caller's request reaches the mount. *)
Begin(t) ==
    /\ pc[t] = "idle"
    /\ pc' = [pc EXCEPT ![t] = "looking"]
    /\ sawCut' = IF peer # "up" THEN sawCut \cup {t} ELSE sawCut
    /\ sawKept' = IF inner # None THEN sawKept \cup {t} ELSE sawKept
    /\ UNCHANGED <<world, dials, inner, lock, ask, mine, result>>

-------------------------------------------------------------------------------
Finish(t, r) ==
    /\ pc' = [pc EXCEPT ![t] = "done"]
    /\ mine' = [mine EXCEPT ![t] = None]
    /\ result' = [result EXCEPT ![t] = r]

(* Faulty variant: the kept resolver is not looked for.                        *)
GetAnew(t) ==
    /\ pc[t] = "looking" /\ ask[t] # "is_cached"
    /\ lock = None
    /\ pc' = [pc EXCEPT ![t] = "dialing"]
    /\ UNCHANGED <<world, dials, inner, lock, ask, mine, result, history>>

(* `get`: lock, clone, unlock. A kept resolver is used as it is; with none the *)
(* dial happens outside the lock.                                              *)
Get(t) ==
    /\ pc[t] = "looking" /\ ask[t] # "is_cached"
    /\ lock = None
    /\ pc' = [pc EXCEPT ![t] = IF inner = None THEN "dialing" ELSE "issuing"]
    /\ mine' = [mine EXCEPT ![t] = inner]
    /\ UNCHANGED <<world, dials, inner, lock, ask, result, history>>

Connect(t) ==
    /\ peer = "up"
    /\ dials < MaxDials
    /\ dials' = dials + 1
    /\ mine' = [mine EXCEPT ![t] = dials + 1]
    /\ pc' = [pc EXCEPT ![t] = "storing"]
    /\ UNCHANGED result

(* Faulty variant: while another call's dial is not yet kept, a call gives up. *)
DialGivesUp(t) ==
    /\ pc[t] = "dialing"
    /\ \/ dials = 0 /\ Connect(t)
       \/ /\ peer # "up" \/ dials > 0
          /\ Finish(t, "unavailable")
          /\ UNCHANGED dials
    /\ UNCHANGED <<world, inner, lock, ask, history>>

(* `connect`: whatever error a dial ends in is Unavailable, and it leaves       *)
(* nothing behind.                                                             *)
Dial(t) ==
    /\ pc[t] = "dialing"
    /\ \/ Connect(t)
       \/ /\ peer # "up"
          /\ Finish(t, "unavailable")
          /\ UNCHANGED dials
    /\ UNCHANGED <<world, inner, lock, ask, history>>

(* Keep the resolver, whatever was kept meanwhile, and use one's own. *)
Store(t) ==
    /\ pc[t] = "storing"
    /\ lock = None
    /\ inner' = mine[t]
    /\ pc' = [pc EXCEPT ![t] = "issuing"]
    /\ UNCHANGED <<world, dials, lock, ask, mine, result, history>>

(* The kept resolver re-establishes its own connection: with the peer barred   *)
(* it answers over the connection it has, or has none and is Unavailable.      *)
Issue(t) ==
    /\ pc[t] = "issuing"
    /\ \/ peer # "down" /\ Finish(t, "answer")
       \/ peer # "up" /\ Finish(t, "unavailable")
    /\ UNCHANGED <<world, dials, inner, lock, ask, history>>

(* `is_cached`: with no resolver kept nothing is cached, and it must not dial. *)
(* With one, the mutex guard lives to the end of the `match`, so it is held    *)
(* while the resolver is asked.                                                *)
Probe(t) ==
    /\ pc[t] = "looking" /\ ask[t] = "is_cached"
    /\ lock = None
    /\ \/ /\ inner = None
          /\ Finish(t, "uncached")
          /\ UNCHANGED lock
       \/ /\ inner # None
          /\ lock' = t
          /\ pc' = [pc EXCEPT ![t] = "probing"]
          /\ mine' = [mine EXCEPT ![t] = inner]
          /\ UNCHANGED result
    /\ UNCHANGED <<world, dials, inner, ask, history>>

(* Faulty variant: the guard outlives the probe.                               *)
ProbeEndsLocked(t) ==
    /\ pc[t] = "probing"
    /\ Finish(t, "probed")
    /\ UNCHANGED <<world, dials, inner, lock, ask, history>>

ProbeEnds(t) ==
    /\ pc[t] = "probing"
    /\ lock' = None
    /\ Finish(t, "probed")
    /\ UNCHANGED <<world, dials, inner, ask, history>>

-------------------------------------------------------------------------------
Step(t) == Get(t) \/ Dial(t) \/ Store(t) \/ Issue(t) \/ Probe(t) \/ ProbeEnds(t)

Next ==
    \/ PeerLeaves \/ PeerReturns
    \/ \E t \in Calls : Begin(t) \/ Step(t)

Spec == Init /\ [][Next]_vars

(* The runtime runs a call on wherever it waits for nothing but the mutex. In  *)
(* `connect` and in a resolver's answer it waits for the peer, under no        *)
(* timeout, so nothing is fair about Dial, Issue and ProbeEnds.                *)
FairSpec == Spec /\ \A t \in Calls : WF_vars(Get(t) \/ Store(t) \/ Probe(t))

-------------------------------------------------------------------------------
TypeOK ==
    /\ peer \in Reaches
    /\ cuts \in 0 .. MaxCuts
    /\ dials \in 0 .. MaxDials
    /\ inner \in Resolvers \cup {None}
    /\ lock \in Calls \cup {None}
    /\ ask \in [Calls -> Asks]
    /\ pc \in [Calls -> {"idle", "looking", "dialing", "storing", "issuing", "probing", "done"}]
    /\ mine \in [Calls -> Resolvers \cup {None}]
    /\ result \in [Calls -> {"none", "answer", "unavailable", "uncached", "probed"}]
    /\ sawCut \subseteq Calls
    /\ sawKept \subseteq Calls

(* A call is Unavailable (503) only when this process could not reach the peer *)
(* at some moment of that very call (mounts.rs `get`): neither a failed dial   *)
(* of the past nor another call's failure is remembered ("re-tries on every    *)
(* use after a failure", mounts.rs:200).                                       *)
UnavailableMeansUnreachable ==
    \A t \in Calls : result[t] = "unavailable" => t \in sawCut

(* Once a resolver is kept, no later call dials, whatever the calls that raced *)
(* for the first dial still do ("dials on FIRST USE", mounts.rs:200).          *)
DialsOnlyUntilKept ==
    \A t \in Calls : t \in sawKept => pc[t] \notin {"dialing", "storing"}

(* A mutex that is held is held by a probe that still asks, so nobody waits    *)
(* for a call that has ended; and the resolver a probe asks stays the one kept *)
(* until it has its answer, whoever dialled meanwhile (mounts.rs:257).         *)
ProbesTakeTurns ==
    /\ lock # None => lock \in Calls /\ pc[lock] = "probing"
    /\ \A t \in Calls : pc[t] = "probing" => lock = t /\ mine[t] = inner /\ inner # None

AwaitsPeer(t) == pc[t] \in {"dialing", "issuing", "probing"}

(* As long as the peer leaves no call without an answer for ever, every call   *)
(* that has begun ends: the mutex, held by a probe while it asks, starves      *)
(* nobody. A peer that stays silent does block the mount, and the code has no  *)
(* timeout against it; that is the premise.                                    *)
EveryCallEnds ==
    (\A t \in Calls : []<> ~ AwaitsPeer(t))
        => \A t \in Calls : (pc[t] = "looking") ~> (pc[t] = "done")

===============================================================================

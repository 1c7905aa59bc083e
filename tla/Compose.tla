-------------------------------- MODULE Compose --------------------------------
(* compose_space of mounts.rs: the parsed mount lines become one chain of      *)
(* spaces. Alias and override lines dial their peer while the chain is built,  *)
(* and one refusal ends the start; prefer lines dial nothing. A line is known  *)
(* by its place in the configuration. The peers, MountedRemote and Fallback    *)
(* are external. The empty local space that closes the chain claims nothing    *)
(* and is left out. Startup extends this module with the rest of the start.    *)
EXTENDS Naturals, Sequences

CONSTANTS
    IRIs,      \* what requests name
    Prefixes,  \* what mount lines claim
    Claims,    \* for each prefix, the IRIs that begin with it
    Length,    \* `prefix.len()`
    MaxLines   \* bound: mount lines in a configuration

ASSUME PrefixesAssumption ==
    /\ Claims \in [Prefixes -> SUBSET IRIs]
    /\ Length \in [Prefixes -> Nat]
ASSUME LinesAssumption == MaxLines \in Nat

(* MountLine, without the target: whether its peer answers is not its own.     *)
Kinds == {"alias", "override", "prefer"}
Lines == [kind : Kinds, prefix : Prefixes]

(* HelloMode: an alias renames, an override forwards IRIs as they are.         *)
Modes == {"Alias", "Verbatim"}

VARIABLES
    stage,     \* "dialling", "composed" or "failed" while the chain is built
    lines,     \* the configuration's mount lines, in its order
    taken,     \* how many of them the loop has taken
    fronting,  \* lines that go to the front, as collected
    aliases,   \* lines that follow them
    spaces,    \* the chain Fallback asks, first to last
    dialled    \* history: <<line, mode>> connected during the start

composeVars == <<stage, lines, taken, fronting, aliases, spaces, dialled>>

Configurations == UNION {[1 .. n -> Lines] : n \in 1 .. MaxLines}

ComposeInit ==
    /\ stage = "dialling"
    /\ lines \in Configurations
    /\ taken = 0
    /\ fronting = <<>> /\ aliases = <<>> /\ spaces = <<>>
    /\ dialled = {}

-------------------------------------------------------------------------------
(* The loop over the lines, one action for each arm of its match.              *)
Takes(kind) ==
    /\ stage = "dialling"
    /\ taken < Len(lines)
    /\ lines[taken + 1].kind = kind
    /\ taken' = taken + 1
    /\ UNCHANGED <<lines, spaces>>

ConnectAlias ==
    /\ Takes("alias")
    /\ aliases' = Append(aliases, taken + 1)
    /\ dialled' = dialled \cup {<<taken + 1, "Alias">>}
    /\ UNCHANGED <<stage, fronting>>

ConnectOverride ==
    /\ Takes("override")
    /\ fronting' = Append(fronting, taken + 1)
    /\ dialled' = dialled \cup {<<taken + 1, "Verbatim">>}
    /\ UNCHANGED <<stage, aliases>>

(* A LazyIpcResolver with nothing in it: no dial, so no way to fail.           *)
DeferPrefer ==
    /\ Takes("prefer")
    /\ fronting' = Append(fronting, taken + 1)
    /\ UNCHANGED <<stage, aliases, dialled>>

(* Faulty variant: a line whose peer refuses is passed over.                   *)
EagerRefusedSkips ==
    /\ Takes("alias") \/ Takes("override")
    /\ UNCHANGED <<stage, fronting, aliases, dialled>>

(* An eager peer that refuses is an error of the whole composition; what was   *)
(* connected so far is dropped with it.                                        *)
EagerRefused ==
    /\ Takes("alias") \/ Takes("override")
    /\ stage' = "failed"
    /\ fronting' = <<>> /\ aliases' = <<>> /\ dialled' = {}

(* The sort key of a place of `fronting`.                                      *)
LengthAt(p) == Length[lines[fronting[p]].prefix]

(* Faulty variant: sorted by length, shortest first.                           *)
PrecedesAscending(p, q) ==
    LengthAt(p) < LengthAt(q) \/ (LengthAt(p) = LengthAt(q) /\ p < q)

(* Which of two places of `fronting` sort_by_key puts first: the one with the  *)
(* longer prefix and, the sort being stable, the earlier of two as long.       *)
Precedes(p, q) ==
    LengthAt(p) > LengthAt(q) \/ (LengthAt(p) = LengthAt(q) /\ p < q)

(* The orders of the places of `fronting` that are sorted: there is just one.  *)
Sorted(order) ==
    /\ \A p \in 1 .. Len(fronting) : \E k \in 1 .. Len(fronting) : order[k] = p
    /\ \A j, k \in 1 .. Len(fronting) : j < k => Precedes(order[j], order[k])

Arranged(s, order) == [k \in 1 .. Len(s) |-> s[order[k]]]

Order ==
    /\ stage = "dialling"
    /\ taken = Len(lines)
    /\ \E order \in [1 .. Len(fronting) -> 1 .. Len(fronting)] :
          /\ Sorted(order)
          /\ spaces' = Arranged(fronting, order) \o aliases
    /\ stage' = "composed"
    /\ UNCHANGED <<lines, taken, fronting, aliases, dialled>>

ComposeNext ==
    \/ ConnectAlias \/ ConnectOverride \/ DeferPrefer \/ EagerRefused
    \/ Order

ComposeSpec == ComposeInit /\ [][ComposeNext]_composeVars

-------------------------------------------------------------------------------
ComposeTypeOK ==
    /\ stage \in {"dialling", "composed", "failed"}
    /\ lines \in Seq(Lines)
    /\ taken \in 0 .. Len(lines)
    /\ fronting \in Seq(1 .. taken)
    /\ aliases \in Seq(1 .. taken)
    /\ spaces \in Seq(1 .. taken)
    /\ dialled \subseteq (1 .. taken) \X Modes

Eager(line) == line.kind # "prefer"
Hello(line) == IF line.kind = "alias" THEN "Alias" ELSE "Verbatim"

(* What the first n of these lines have dialled when all of them answered.     *)
Hellos(ls, n) == {<<i, Hello(ls[i])>> : i \in {j \in 1 .. n : Eager(ls[j])}}

(* A kernel is composed of every mount line or not at all (mounts.rs           *)
(* `compose_space`): no line is lost on the way through the two lists and the  *)
(* sort, each alias and override peer was reached in its own mode, and no      *)
(* prefer peer was dialled, so its absence cannot have stopped the start.      *)
Whole ==
    /\ \A i \in 1 .. Len(lines) : \E k \in 1 .. Len(spaces) : spaces[k] = i
    /\ dialled = Hellos(lines, Len(lines))

WholeOrNothing ==
    /\ stage = "composed" => Whole
    /\ stage = "failed" => spaces = <<>> /\ \E i \in 1 .. Len(lines) : Eager(lines[i])

Claimed(i, iri) == iri \in Claims[lines[i].prefix]

(* The place of the chain that Fallback hands a request for `iri` to.          *)
AnsweredAt(k, iri) ==
    /\ Claimed(spaces[k], iri)
    /\ \A m \in 1 .. (k - 1) : ~ Claimed(spaces[m], iri)

(* Which of two lines an operator means for an IRI both claim.                 *)
Outranks(i, j) ==
    LET front(l) == lines[l].kind # "alias"
        len(l)   == Length[lines[l].prefix]
    IN  \/ i = j
        \/ front(i) /\ ~ front(j)
        \/ front(i) /\ front(j) /\ (len(i) > len(j) \/ (len(i) = len(j) /\ i < j))
        \/ ~ front(i) /\ ~ front(j) /\ i < j

(* Whatever the order of the lines, a request goes to the most specific of the *)
(* fronting mounts that claim its IRI, to the first declared of equally long   *)
(* ones, and to an alias only when no fronting mount claims it: "a whole-IRI   *)
(* mount beats a namespace mount" (mounts.rs:113).                             *)
MostSpecific ==
    \A k \in 1 .. Len(spaces), iri \in IRIs :
        AnsweredAt(k, iri) =>
            \A i \in 1 .. Len(lines) : Claimed(i, iri) => Outranks(spaces[k], i)

MostSpecificAnswers == stage = "composed" => MostSpecific
===============================================================================

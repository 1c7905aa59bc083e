----------------------------- MODULE StartupProofs -----------------------------
(* Theorems of Compose, for any prefixes, IRIs and number of mount lines, and  *)
(* of Startup, for any addresses, scopes, files and arguments as well.         *)
EXTENDS Startup, SequenceTheorems, TLAPS

-------------------------------------------------------------------------------
(* Compose. The inductive invariant says what the two lists are while the loop *)
(* fills them: the lines taken so far, each once, in the order of the          *)
(* configuration, those to the front in one and the aliases in the other.      *)
Increasing(s) == \A j, k \in 1 .. Len(s) : j < k => s[j] < s[k]
Holds(s, i) == \E k \in 1 .. Len(s) : s[k] = i

Collected ==
    stage # "failed" =>
        /\ Increasing(fronting) /\ Increasing(aliases)
        /\ \A k \in 1 .. Len(fronting) : lines[fronting[k]].kind # "alias"
        /\ \A k \in 1 .. Len(aliases) : lines[aliases[k]].kind = "alias"
        /\ \A i \in 1 .. taken : Holds(fronting, i) \/ Holds(aliases, i)

Dialled == stage # "failed" => dialled = Hellos(lines, taken)

(* What the sort leaves, with the order that it chose.                         *)
Chain(order) ==
    /\ order \in [1 .. Len(fronting) -> 1 .. Len(fronting)]
    /\ Sorted(order)
    /\ spaces = Arranged(fronting, order) \o aliases

Chained ==
    /\ stage = "composed" => taken = Len(lines) /\ \E order : Chain(order)
    /\ stage # "composed" => spaces = <<>>
    /\ stage = "failed" => \E i \in 1 .. Len(lines) : Eager(lines[i])

ComposeInv == ComposeTypeOK /\ Collected /\ Dialled /\ Chained

-------------------------------------------------------------------------------
(* Where the places of the chain come from.                                    *)
LEMMA Places ==
    ASSUME fronting \in Seq(Nat), aliases \in Seq(Nat), NEW order, Chain(order)
    PROVE  /\ Len(spaces) = Len(fronting) + Len(aliases)
           /\ \A k \in 1 .. Len(fronting) :
                 order[k] \in 1 .. Len(fronting) /\ spaces[k] = fronting[order[k]]
           /\ \A k \in 1 .. Len(aliases) : spaces[Len(fronting) + k] = aliases[k]
<1> DEFINE front == Arranged(fronting, order)
<1>1. Len(fronting) \in Nat /\ Len(aliases) \in Nat
  OBVIOUS
<1>2. \A k \in 1 .. Len(fronting) : order[k] \in 1 .. Len(fronting)
  BY DEF Chain
<1>3. \A k \in 1 .. Len(fronting) : fronting[order[k]] \in Nat
  BY <1>2
<1>4. front \in Seq(Nat) /\ Len(front) = Len(fronting)
  BY <1>1, <1>3 DEF Arranged
<1>5. spaces = front \o aliases
  BY DEF Chain
<1>6. \A k \in 1 .. Len(fronting) : front[k] = fronting[order[k]]
  BY DEF Arranged
<1> HIDE DEF front
<1>7. /\ Len(front \o aliases) = Len(front) + Len(aliases)
      /\ \A k \in 1 .. Len(front) + Len(aliases) :
            (front \o aliases)[k] =
                IF k <= Len(front) THEN front[k] ELSE aliases[k - Len(front)]
  BY <1>4, ConcatProperties, Zenon
<1>8. \A k \in 1 .. Len(fronting) : spaces[k] = fronting[order[k]]
  BY <1>1, <1>4, <1>5, <1>6, <1>7
<1>9. \A k \in 1 .. Len(aliases) : spaces[Len(fronting) + k] = aliases[k]
  <2> TAKE k \in 1 .. Len(aliases)
  <2>1. /\ Len(fronting) + k \in 1 .. Len(fronting) + Len(aliases)
        /\ ~ (Len(fronting) + k <= Len(fronting))
        /\ (Len(fronting) + k) - Len(fronting) = k
    BY <1>1
  <2> QED BY <1>4, <1>5, <1>7, <2>1
<1> QED BY <1>2, <1>4, <1>5, <1>7, <1>8, <1>9

(* No line is lost between the configuration and the chain.                    *)
LEMMA EveryLinePlaced ==
    ASSUME ComposeTypeOK, Collected, Chained, stage = "composed"
    PROVE  \A i \in 1 .. Len(lines) : \E k \in 1 .. Len(spaces) : spaces[k] = i
<1>1. fronting \in Seq(Nat) /\ aliases \in Seq(Nat) /\ Len(lines) \in Nat
  BY DEF ComposeTypeOK
<1>2. PICK order : Chain(order)
  BY DEF Chained
<1>3. /\ Len(spaces) = Len(fronting) + Len(aliases)
      /\ \A k \in 1 .. Len(fronting) : spaces[k] = fronting[order[k]]
      /\ \A k \in 1 .. Len(aliases) : spaces[Len(fronting) + k] = aliases[k]
  BY <1>1, <1>2, Places
<1> TAKE i \in 1 .. Len(lines)
<1>4. CASE Holds(aliases, i)
  <2>1. PICK k \in 1 .. Len(aliases) : aliases[k] = i
    BY <1>4 DEF Holds
  <2>2. Len(fronting) + k \in 1 .. Len(spaces) /\ spaces[Len(fronting) + k] = i
    BY <1>1, <1>3, <2>1
  <2> QED BY <2>2
<1>5. CASE Holds(fronting, i)
  <2>1. PICK p \in 1 .. Len(fronting) : fronting[p] = i
    BY <1>5 DEF Holds
  <2>2. PICK k \in 1 .. Len(fronting) : order[k] = p
    BY <1>2 DEF Chain, Sorted
  <2>3. k \in 1 .. Len(spaces) /\ spaces[k] = i
    BY <1>1, <1>3, <2>1, <2>2
  <2> QED BY <2>3
<1>6. taken = Len(lines)
  BY DEF Chained
<1> QED BY <1>4, <1>5, <1>6 DEF Collected

(* The line at one place of the chain outranks every line further down.        *)
LEMMA ChainRanked ==
    ASSUME ComposeTypeOK, Collected, Chained, stage = "composed",
           NEW k \in 1 .. Len(spaces), NEW m \in 1 .. Len(spaces), k < m
    PROVE  Outranks(spaces[k], spaces[m])
<1>1. fronting \in Seq(Nat) /\ aliases \in Seq(Nat)
  BY DEF ComposeTypeOK
<1>2. PICK order : Chain(order)
  BY DEF Chained
<1>3. /\ Len(spaces) = Len(fronting) + Len(aliases)
      /\ \A n \in 1 .. Len(fronting) :
            order[n] \in 1 .. Len(fronting) /\ spaces[n] = fronting[order[n]]
      /\ \A n \in 1 .. Len(aliases) : spaces[Len(fronting) + n] = aliases[n]
  BY <1>1, <1>2, Places
<1>4. \A n \in 1 .. Len(fronting) : lines[spaces[n]].kind # "alias"
  BY <1>3 DEF Collected
<1>5. \A n \in 1 .. Len(spaces) :
         n > Len(fronting) => /\ n - Len(fronting) \in 1 .. Len(aliases)
                              /\ spaces[n] = aliases[n - Len(fronting)]
                              /\ lines[spaces[n]].kind = "alias"
  <2> TAKE n \in 1 .. Len(spaces)
  <2> HAVE n > Len(fronting)
  <2>1. /\ n - Len(fronting) \in 1 .. Len(aliases)
        /\ n = Len(fronting) + (n - Len(fronting))
    BY <1>1, <1>3
  <2>2. spaces[n] = aliases[n - Len(fronting)]
    BY <1>3, <2>1
  <2> QED BY <2>1, <2>2 DEF Collected
<1>6. CASE m <= Len(fronting)
  <2>1. k \in 1 .. Len(fronting) /\ m \in 1 .. Len(fronting)
    BY <1>1, <1>6
  <2>2. Precedes(order[k], order[m])
    BY <1>2, <2>1 DEF Chain, Sorted
  <2>3. order[k] < order[m] => spaces[k] < spaces[m]
    BY <1>3, <2>1 DEF Collected, Increasing
  <2> QED BY <1>3, <1>4, <2>1, <2>2, <2>3 DEF Precedes, LengthAt, Outranks
<1>7. CASE k <= Len(fronting) /\ m > Len(fronting)
  BY <1>1, <1>4, <1>5, <1>7 DEF Outranks
<1>8. CASE k > Len(fronting)
  <2>1. m > Len(fronting) /\ k - Len(fronting) < m - Len(fronting)
    BY <1>1, <1>8
  <2>2. spaces[k] < spaces[m]
    BY <1>5, <1>8, <2>1 DEF Collected, Increasing
  <2> QED BY <1>5, <1>8, <2>1, <2>2 DEF Outranks
<1> QED BY <1>1, <1>6, <1>7, <1>8

-------------------------------------------------------------------------------
(* How an append grows one of the two lists.                                   *)
LEMMA Grown ==
    ASSUME NEW s \in Seq(Nat), NEW n \in Nat, Increasing(s),
           \A k \in 1 .. Len(s) : s[k] <= n
    PROVE  /\ Increasing(Append(s, n + 1))
           /\ Holds(Append(s, n + 1), n + 1)
           /\ \A i : Holds(s, i) => Holds(Append(s, n + 1), i)
<1> DEFINE t == Append(s, n + 1)
<1>1. /\ Len(t) = Len(s) + 1
      /\ t[Len(s) + 1] = n + 1
      /\ \A k \in 1 .. Len(s) : t[k] = s[k]
  BY AppendProperties
<1>2. Len(s) \in Nat /\ \A k \in 1 .. Len(s) : s[k] \in Nat
  OBVIOUS
<1> HIDE DEF t
<1>3. Increasing(t)
  <2> SUFFICES ASSUME NEW j \in 1 .. Len(t), NEW k \in 1 .. Len(t), j < k
               PROVE  t[j] < t[k]
    BY DEF Increasing
  <2>1. j \in 1 .. Len(s) /\ t[j] = s[j] /\ s[j] \in Nat /\ s[j] <= n
    BY <1>1, <1>2
  <2>2. CASE k \in 1 .. Len(s)
    BY <1>1, <2>1, <2>2 DEF Increasing
  <2>3. CASE k = Len(s) + 1
    BY <1>1, <2>1, <2>3
  <2> QED BY <1>1, <1>2, <2>2, <2>3
<1>4. Holds(t, n + 1)
  BY <1>1, <1>2 DEF Holds
<1>5. \A i : Holds(s, i) => Holds(t, i)
  BY <1>1, <1>2 DEF Holds
<1> QED BY <1>3, <1>4, <1>5 DEF t

(* It holds where Compose starts. *)
LEMMA ComposeInitially == ComposeInit => ComposeInv
<1> SUFFICES ASSUME ComposeInit PROVE ComposeInv
  OBVIOUS
<1>1. lines \in Seq(Lines)
  BY DEF ComposeInit, Configurations
<1> QED BY <1>1 DEF ComposeInit, ComposeInv, ComposeTypeOK, Collected, Dialled, Hellos, Chained, Increasing, Holds

(* Type correctness, one step for each arm of the loop.                        *)
LEMMA ComposeTypeStep == ComposeTypeOK /\ [ComposeNext]_composeVars => ComposeTypeOK'
<1> SUFFICES ASSUME ComposeTypeOK, [ComposeNext]_composeVars PROVE ComposeTypeOK'
  OBVIOUS
<1> USE DEF ComposeTypeOK, Modes
<1>1. CASE UNCHANGED composeVars
  BY <1>1 DEF composeVars
<1>2. CASE ConnectAlias
  BY <1>2 DEF ConnectAlias, Takes
<1>3. CASE ConnectOverride
  BY <1>3 DEF ConnectOverride, Takes
<1>4. CASE DeferPrefer
  BY <1>4 DEF DeferPrefer, Takes
<1>5. CASE EagerRefused
  BY <1>5 DEF EagerRefused, Takes
<1>6. CASE Order
  <2>1. PICK order \in [1 .. Len(fronting) -> 1 .. Len(fronting)] :
            spaces' = Arranged(fronting, order) \o aliases
    BY <1>6 DEF Order
  <2>2. \A k \in 1 .. Len(fronting) : fronting[order[k]] \in 1 .. taken
    <3> TAKE k \in 1 .. Len(fronting)
    <3>1. order[k] \in 1 .. Len(fronting)
      BY <2>1
    <3> QED BY <3>1, ElementOfSeq, Zenon
  <2>3. Arranged(fronting, order) \in Seq(1 .. taken)
    BY <2>2 DEF Arranged
  <2>4. spaces' \in Seq(1 .. taken)
    BY <2>1, <2>3, ConcatProperties
  <2> QED BY <1>6, <2>4 DEF Order
<1> QED BY <1>1, <1>2, <1>3, <1>4, <1>5, <1>6 DEF ComposeNext

(* The places in a list are numbers up to how many lines were taken.           *)
LEMMA PlacesBelow ==
    ASSUME NEW n \in Nat, NEW s \in Seq(1 .. n)
    PROVE  s \in Seq(Nat) /\ \A k \in 1 .. Len(s) : s[k] <= n
<1>1. \A k \in 1 .. Len(s) : s[k] \in 1 .. n
  BY ElementOfSeq
<1>2. 1 .. n \subseteq Nat
  OBVIOUS
<1>3. s \in Seq(Nat)
  BY <1>2
<1>4. \A k \in 1 .. Len(s) : s[k] <= n
  BY <1>1
<1> QED BY <1>3, <1>4

(* An arm of the loop that appends the line it took to one of the lists.       *)
LEMMA Collects ==
    ASSUME ComposeTypeOK, Collected, stage # "failed", taken < Len(lines),
           taken' = taken + 1, lines' = lines, stage' = stage,
           \/ /\ lines[taken + 1].kind # "alias"
              /\ fronting' = Append(fronting, taken + 1) /\ aliases' = aliases
           \/ /\ lines[taken + 1].kind = "alias"
              /\ aliases' = Append(aliases, taken + 1) /\ fronting' = fronting
    PROVE  Collected'
<1>1. taken \in Nat /\ fronting \in Seq(1 .. taken) /\ aliases \in Seq(1 .. taken)
  BY DEF ComposeTypeOK
<1>2. ASSUME NEW s \in Seq(1 .. taken), Increasing(s)
      PROVE  LET t == Append(s, taken + 1)
             IN  /\ Increasing(t) /\ Holds(t, taken + 1)
                 /\ \A i : Holds(s, i) => Holds(t, i)
                 /\ Len(t) = Len(s) + 1 /\ t[Len(s) + 1] = taken + 1
                 /\ \A k \in 1 .. Len(s) : t[k] = s[k]
  <2>1. s \in Seq(Nat) /\ \A k \in 1 .. Len(s) : s[k] <= taken
    BY <1>1, <1>2, PlacesBelow
  <2>2. taken + 1 \in Nat
    BY <1>1
  <2> QED BY <1>1, <1>2, <2>1, <2>2, Grown, AppendProperties
<1>3. \A i \in 1 .. taken' : i \in 1 .. taken \/ i = taken + 1
  BY <1>1
<1>4. Increasing(fronting) /\ Increasing(aliases)
  BY DEF Collected
<1>5. CASE /\ lines[taken + 1].kind # "alias"
           /\ fronting' = Append(fronting, taken + 1) /\ aliases' = aliases
  <2>1. Increasing(fronting') /\ Increasing(aliases')
    BY <1>1, <1>2, <1>4, <1>5
  <2>2. \A k \in 1 .. Len(fronting') : lines'[fronting'[k]].kind # "alias"
    <3> TAKE k \in 1 .. Len(fronting')
    <3>1. k \in 1 .. Len(fronting) \/ k = Len(fronting) + 1
      BY <1>1, <1>2, <1>4, <1>5
    <3> QED BY <1>1, <1>2, <1>4, <1>5, <3>1 DEF Collected
  <2>3. \A i \in 1 .. taken' : Holds(fronting', i) \/ Holds(aliases', i)
    BY <1>1, <1>2, <1>3, <1>4, <1>5 DEF Collected
  <2> QED BY <1>5, <2>1, <2>2, <2>3 DEF Collected, Increasing, Holds
<1>6. CASE /\ lines[taken + 1].kind = "alias"
           /\ aliases' = Append(aliases, taken + 1) /\ fronting' = fronting
  <2>1. Increasing(fronting') /\ Increasing(aliases')
    BY <1>1, <1>2, <1>4, <1>6
  <2>2. \A k \in 1 .. Len(aliases') : lines'[aliases'[k]].kind = "alias"
    <3> TAKE k \in 1 .. Len(aliases')
    <3>1. k \in 1 .. Len(aliases) \/ k = Len(aliases) + 1
      BY <1>1, <1>2, <1>4, <1>6
    <3> QED BY <1>1, <1>2, <1>4, <1>6, <3>1 DEF Collected
  <2>3. \A i \in 1 .. taken' : Holds(fronting', i) \/ Holds(aliases', i)
    BY <1>1, <1>2, <1>3, <1>4, <1>6 DEF Collected
  <2> QED BY <1>6, <2>1, <2>2, <2>3 DEF Collected, Increasing, Holds
<1> QED BY <1>5, <1>6

(* The loop keeps both lists in the order of the lines it has taken.           *)
LEMMA CollectedStep == ComposeTypeOK /\ Collected /\ [ComposeNext]_composeVars => Collected'
<1> SUFFICES ASSUME ComposeTypeOK, Collected, [ComposeNext]_composeVars PROVE Collected'
  OBVIOUS
<1>1. CASE UNCHANGED composeVars
  BY <1>1 DEF composeVars, Collected, Increasing, Holds
<1>2. CASE Order
  BY <1>2 DEF Order, Collected, Increasing, Holds
<1>3. CASE EagerRefused
  BY <1>3 DEF EagerRefused, Collected
<1>4. CASE ConnectAlias \/ ConnectOverride \/ DeferPrefer
  BY <1>4, Collects DEF ConnectAlias, ConnectOverride, DeferPrefer, Takes
<1> QED BY <1>1, <1>2, <1>3, <1>4 DEF ComposeNext

(* What one more line adds to what is dialled.                                 *)
LEMMA HellosGrow ==
    ASSUME NEW ls, NEW n \in Nat
    PROVE  Hellos(ls, n + 1) =
             Hellos(ls, n) \cup (IF Eager(ls[n + 1]) THEN {<<n + 1, Hello(ls[n + 1])>>} ELSE {})
<1>1. \A j : j \in 1 .. (n + 1) <=> j \in 1 .. n \/ j = n + 1
  OBVIOUS
<1> QED BY <1>1 DEF Hellos

(* Each eager line is dialled once, in its mode, and no other.                 *)
LEMMA DialledStep == ComposeTypeOK /\ Dialled /\ [ComposeNext]_composeVars => Dialled'
<1> SUFFICES ASSUME ComposeTypeOK, Dialled, [ComposeNext]_composeVars PROVE Dialled'
  OBVIOUS
<1> USE DEF Dialled
<1>1. CASE UNCHANGED composeVars
  BY <1>1 DEF composeVars
<1>2. CASE Order
  BY <1>2 DEF Order
<1>3. CASE EagerRefused
  BY <1>3 DEF EagerRefused
<1>4. ASSUME NEW kind, Takes(kind)
      PROVE  /\ lines' = lines /\ taken' = taken + 1
             /\ dialled = Hellos(lines, taken)
             /\ lines[taken + 1].kind = kind
             /\ Hellos(lines, taken + 1) =
                  dialled \cup (IF Eager(lines[taken + 1])
                                THEN {<<taken + 1, Hello(lines[taken + 1])>>} ELSE {})
  BY <1>4, HellosGrow DEF Takes, ComposeTypeOK
<1>5. CASE ConnectAlias
  BY <1>4, <1>5 DEF ConnectAlias, Eager, Hello
<1>6. CASE ConnectOverride
  BY <1>4, <1>6 DEF ConnectOverride, Eager, Hello
<1>7. CASE DeferPrefer
  BY <1>4, <1>7 DEF DeferPrefer, Eager
<1> QED BY <1>1, <1>2, <1>3, <1>5, <1>6, <1>7 DEF ComposeNext

(* A sorted order stays sorted while lines and list stay.                      *)
LEMMA StaysSorted ==
    ASSUME NEW order, Sorted(order), UNCHANGED <<lines, fronting>>
    PROVE  Sorted(order)'
<1>1. \A p, q : Precedes(p, q) => Precedes(p, q)'
  BY DEF Precedes, LengthAt
<1> QED BY <1>1 DEF Sorted

(* The chain is made once, by the sort.                                        *)
LEMMA ChainedStep == ComposeTypeOK /\ Chained /\ [ComposeNext]_composeVars => Chained'
<1> SUFFICES ASSUME ComposeTypeOK, Chained, [ComposeNext]_composeVars PROVE Chained'
  OBVIOUS
<1>1. CASE UNCHANGED composeVars
  <2>1. ASSUME NEW order, Chain(order) PROVE Chain(order)'
    BY <1>1, <2>1, StaysSorted DEF composeVars, Chain
  <2> QED BY <1>1, <2>1 DEF composeVars, Chained, Eager
<1>2. CASE Order
  <2>1. PICK order \in [1 .. Len(fronting) -> 1 .. Len(fronting)] :
            /\ Sorted(order)
            /\ spaces' = Arranged(fronting, order) \o aliases
    BY <1>2 DEF Order
  <2>2. Chain(order)'
    BY <1>2, <2>1, StaysSorted DEF Order, Chain
  <2> QED BY <1>2, <2>2 DEF Order, Chained
<1>3. CASE EagerRefused
  <2>1. Eager(lines[taken + 1]) /\ taken + 1 \in 1 .. Len(lines)
    BY <1>3 DEF EagerRefused, Takes, Eager, ComposeTypeOK
  <2> QED BY <1>3, <2>1 DEF EagerRefused, Takes, Chained, Eager
<1>4. CASE ConnectAlias \/ ConnectOverride \/ DeferPrefer
  BY <1>4 DEF ConnectAlias, ConnectOverride, DeferPrefer, Takes, Chained
<1> QED BY <1>1, <1>2, <1>3, <1>4 DEF ComposeNext

LEMMA ComposeInvariant == ComposeSpec => []ComposeInv
<1>1. ComposeInv /\ [ComposeNext]_composeVars => ComposeInv'
  BY ComposeTypeStep, CollectedStep, DialledStep, ChainedStep DEF ComposeInv
<1> QED BY ComposeInitially, <1>1, PTL DEF ComposeSpec

-------------------------------------------------------------------------------
(* The lists, the chain and the count stay what they can be.                   *)
THEOREM ComposeTypeCorrect == ComposeSpec => []ComposeTypeOK
BY ComposeInvariant, PTL DEF ComposeInv

(* A kernel of every mount line, each eager peer reached in its own mode, or   *)
(* no kernel (mounts.rs `compose_space`).                                      *)
THEOREM AlwaysWholeOrNothing == ComposeSpec => []WholeOrNothing
<1>1. ComposeInv => WholeOrNothing
  <2> SUFFICES ASSUME ComposeInv PROVE WholeOrNothing
    OBVIOUS
  <2>1. CASE stage = "composed"
    BY <2>1, EveryLinePlaced DEF ComposeInv, WholeOrNothing, Whole, Dialled, Chained
  <2>2. CASE stage # "composed"
    BY <2>2 DEF ComposeInv, WholeOrNothing, Chained
  <2> QED BY <2>1, <2>2
<1> QED BY ComposeInvariant, <1>1, PTL

(* Composed, it hands each request to the most specific mount. *)
LEMMA ComposedSpecific ==
    ASSUME ComposeInv, stage = "composed"
    PROVE  MostSpecific
<1> SUFFICES ASSUME NEW k \in 1 .. Len(spaces), NEW iri \in IRIs, AnsweredAt(k, iri),
                    NEW i \in 1 .. Len(lines), Claimed(i, iri)
             PROVE  Outranks(spaces[k], i)
  BY DEF MostSpecific
<1>1. PICK m \in 1 .. Len(spaces) : spaces[m] = i
  BY EveryLinePlaced DEF ComposeInv
<1>2. ~ (m \in 1 .. (k - 1))
  BY <1>1 DEF AnsweredAt
<1>3. m = k \/ k < m
  BY <1>2 DEF ComposeInv, ComposeTypeOK
<1>4. CASE m = k
  BY <1>1, <1>4 DEF Outranks
<1>5. CASE k < m
  BY <1>1, <1>5, ChainRanked DEF ComposeInv
<1> QED BY <1>3, <1>4, <1>5

(* However the lines are ordered, the most specific fronting mount answers,    *)
(* and an alias only where none does (mounts.rs, the sort and the chain).      *)
THEOREM MostSpecificAlwaysAnswers == ComposeSpec => []MostSpecificAnswers
<1>1. ComposeInv => MostSpecificAnswers
  BY ComposedSpecific DEF MostSpecificAnswers
<1> QED BY ComposeInvariant, <1>1, PTL

-------------------------------------------------------------------------------
(* Startup. The inductive invariant says what is settled once the start is     *)
(* past each of its stages, and that the flags hold what was typed.            *)

(* The stages after each decision, in the order of main.                       *)
AfterAdmit == {"dialling", "composed", "bound", "serving"}
AfterCeiling == {"admit"} \cup AfterAdmit
AfterBind == {"ceiling"} \cup AfterCeiling
AfterRead == {"mounts", "bind"} \cup AfterBind

(* The start of the binary got so far, and may have failed since.              *)
Past(S) == caller = "main" /\ (stage \in S \/ bound # Unset)

FlagsTyped ==
    stage # "failed" \/ bound # Unset =>
        /\ bindFlag = Unset <=> Given(typed, "--bind") = {}
        /\ bindFlag # Unset => GivenLast(typed, "--bind", bindFlag)
        /\ portFlag = Unset <=> Given(typed, "--port") = {}
        /\ Elements(capFlags) = Given(typed, "--cap")

Settled ==
    /\ Past(AfterRead) => file \in Files
    /\ Past(AfterBind) => BindGood /\ intended = BindSpelled
    /\ Past(AfterCeiling) => ceiling = Elements(CapValues)
    /\ Past(AfterAdmit) => Admits(ceiling, Posture(intended))

Bound ==
    /\ caller = "library" => stage \in {"args", "bound", "serving", "failed"}
    /\ Opened => bound = intended
    /\ stage \in {"bound", "serving"} => bound \in Addrs
    /\ stage \notin {"bound", "serving", "failed"} => bound = Unset

Faced ==
    stage = "serving" =>
        /\ Admits(ceiling, Posture(bound))
        /\ face = [posture |-> Posture(bound), capability |-> Capability]

-------------------------------------------------------------------------------
(* Composing happens in one stage of the start, and leaves it for two.         *)
LEMMA ComposingStage ==
    ASSUME ComposeNext
    PROVE  /\ stage = "dialling" /\ stage' \in {"dialling", "composed", "failed"}
           /\ lines' = lines
BY DEF ComposeNext, ConnectAlias, ConnectOverride, DeferPrefer, EagerRefused, Order, Takes

(* The first of five spellings that is given.                                  *)
LEMMA FirstOfFive ==
    ASSUME NEW a, NEW b, NEW c, NEW d, NEW e, e # Unset
    PROVE  FirstGiven(<<a, b, c, d, e>>) =
             IF a # Unset THEN a ELSE IF b # Unset THEN b
             ELSE IF c # Unset THEN c ELSE IF d # Unset THEN d ELSE e
<1> DEFINE s == <<a, b, c, d, e>>
           P(k) == s[k] # Unset /\ \A j \in 1 .. (k - 1) : s[j] = Unset
<1>1. DOMAIN s = 1 .. 5 /\ s[1] = a /\ s[2] = b /\ s[3] = c /\ s[4] = d /\ s[5] = e
  OBVIOUS
<1> HIDE DEF s
<1>2. \A k \in 1 .. 5 : k = 1 \/ k = 2 \/ k = 3 \/ k = 4 \/ k = 5
  OBVIOUS
<1>3. \E k \in 1 .. 5 : P(k)
  <2>1. CASE a # Unset
    BY <1>1, <2>1
  <2>2. CASE a = Unset /\ b # Unset
    BY <1>1, <2>2
  <2>3. CASE a = Unset /\ b = Unset /\ c # Unset
    BY <1>1, <2>3
  <2>4. CASE a = Unset /\ b = Unset /\ c = Unset /\ d # Unset
    <3>1. 4 \in 1 .. 5 /\ \A j \in 1 .. 3 : j = 1 \/ j = 2 \/ j = 3
      OBVIOUS
    <3> QED BY <1>1, <2>4, <3>1
  <2>5. CASE a = Unset /\ b = Unset /\ c = Unset /\ d = Unset
    <3>1. 5 \in 1 .. 5 /\ \A j \in 1 .. 4 : j = 1 \/ j = 2 \/ j = 3 \/ j = 4
      OBVIOUS
    <3> QED BY <1>1, <2>5, <3>1
  <2> QED BY <2>1, <2>2, <2>3, <2>4, <2>5
<1>4. PICK k \in 1 .. 5 : P(k) /\ FirstGiven(s) = s[k]
  BY <1>1, <1>3 DEF FirstGiven
<1>5. FirstGiven(s) = IF a # Unset THEN a ELSE IF b # Unset THEN b
                      ELSE IF c # Unset THEN c ELSE IF d # Unset THEN d ELSE e
  BY <1>1, <1>2, <1>4
<1> QED BY <1>5 DEF s

(* What one more argument adds to what was typed, and that it is the last.     *)
LEMMA GivenGrows ==
    ASSUME NEW args \in Seq(Arguments), NEW flag, NEW value, <<flag, value>> \in Arguments,
           NEW more, more = Append(args, <<flag, value>>)
    PROVE  /\ \A v : v \in Given(more, flag) <=> v \in Given(args, flag) \/ v = value
           /\ \A other, v : other # flag =>
                 (v \in Given(more, other) <=> v \in Given(args, other))
           /\ GivenLast(more, flag, value)
           /\ \A other, v : other # flag /\ GivenLast(args, other, v) => GivenLast(more, other, v)
<1>1. /\ Len(args) \in Nat /\ Len(more) = Len(args) + 1
      /\ \A k \in 1 .. Len(args) : more[k] = args[k]
      /\ more[Len(args) + 1] = <<flag, value>>
  BY AppendProperties
<1>2. \A k : k \in 1 .. Len(more) <=> k \in 1 .. Len(args) \/ k = Len(args) + 1
  BY <1>1
<1>3. /\ \A v : v \in Given(more, flag) <=> v \in Given(args, flag) \/ v = value
      /\ \A other, v : other # flag =>
            (v \in Given(more, other) <=> v \in Given(args, other))
  BY <1>1, <1>2 DEF Given
<1>4. GivenLast(more, flag, value)
  BY <1>1, <1>2 DEF GivenLast
<1>5. ASSUME NEW other, NEW v, other # flag, GivenLast(args, other, v)
      PROVE  GivenLast(more, other, v)
  <2>1. PICK k \in 1 .. Len(args) :
            /\ args[k] = <<other, v>>
            /\ \A j \in 1 .. Len(args) : j > k => args[j][1] # other
    BY <1>5 DEF GivenLast
  <2>2. k \in 1 .. Len(more) /\ more[k] = <<other, v>>
    BY <1>1, <1>2, <2>1
  <2>3. \A j \in 1 .. Len(more) : j > k => more[j][1] # other
    <3> TAKE j \in 1 .. Len(more)
    <3>1. CASE j \in 1 .. Len(args)
      BY <1>1, <2>1, <3>1
    <3>2. CASE j = Len(args) + 1
      BY <1>1, <1>5, <3>2
    <3> QED BY <1>2, <3>1, <3>2
  <2> QED BY <2>2, <2>3 DEF GivenLast
<1> QED BY <1>3, <1>4, <1>5

(* The elements of a flag's values grow by the one that is appended.           *)
LEMMA ElementsGrow ==
    ASSUME NEW S, NEW s \in Seq(S), NEW e \in S
    PROVE  Elements(Append(s, e)) = Elements(s) \cup {e}
<1>1. /\ Len(s) \in Nat /\ Len(Append(s, e)) = Len(s) + 1
      /\ \A k \in 1 .. Len(s) : Append(s, e)[k] = s[k]
      /\ Append(s, e)[Len(s) + 1] = e
  BY AppendProperties
<1>2. \A k : k \in 1 .. Len(Append(s, e)) <=> k \in 1 .. Len(s) \/ k = Len(s) + 1
  BY <1>1
<1> QED BY <1>1, <1>2 DEF Elements

(* A sequence is empty exactly when it has no elements.                        *)
LEMMA ElementsEmpty ==
    ASSUME NEW S, NEW s \in Seq(S)
    PROVE  /\ s = <<>> <=> Elements(s) = {}
           /\ Elements(s) \subseteq S
<1>1. s = <<>> => Elements(s) = {}
  BY EmptySeq DEF Elements
<1>2. s # <<>> => 1 \in 1 .. Len(s)
  BY EmptySeq
<1> QED BY <1>1, <1>2 DEF Elements

(* The value a key has: none when no line of the file names the key.           *)
LEMMA ValueGiven ==
    ASSUME NEW S, NEW values \in Values(S), Unset \notin S
    PROVE  /\ values = <<>> <=> ValueFor(values) = Unset
           /\ ValueFor(values) \in S \cup {Malformed, Unset}
           /\ values # <<>> => ValueFor(values) = values[1] /\ 1 \in 1 .. Len(values)
<1>1. values \in Seq(S \cup {Malformed}) /\ Unset \notin S \cup {Malformed}
  BY UnsetAssumption DEF Values
<1>2. values # <<>> => 1 \in 1 .. Len(values) /\ values[1] \in S \cup {Malformed}
  BY <1>1, EmptySeq, ElementOfSeq
<1> QED BY <1>1, <1>2 DEF ValueFor

(* What decides the address, from a file that was read.                        *)
LEMMA SpelledCases ==
    ASSUME file \in Files
    PROVE  /\ file.bind \in Values(Addrs) /\ file.port \in Values({Localhost})
           /\ file.cap \in Values(Scopes)
           /\ BindSpelled =
                IF bindFlag # Unset THEN bindFlag ELSE IF portFlag # Unset THEN portFlag
                ELSE IF file.bind # <<>> THEN file.bind[1]
                ELSE IF file.port # <<>> THEN file.port[1] ELSE Localhost
<1>1. /\ file.bind \in Values(Addrs) /\ file.port \in Values({Localhost})
      /\ file.cap \in Values(Scopes)
  BY FilesAssumption DEF ConfigText
<1>2. Localhost # Unset /\ Unset \notin Addrs /\ Unset \notin {Localhost}
  BY AddrsAssumption, UnsetAssumption
<1>3. /\ file.bind = <<>> <=> ValueFor(file.bind) = Unset
      /\ file.port = <<>> <=> ValueFor(file.port) = Unset
  BY <1>1, <1>2, ValueGiven
<1>4. /\ file.bind # <<>> => ValueFor(file.bind) = file.bind[1]
      /\ file.port # <<>> => ValueFor(file.port) = file.port[1]
  BY DEF ValueFor
<1> QED BY <1>1, <1>2, <1>3, <1>4, FirstOfFive DEF BindSpelled

-------------------------------------------------------------------------------
(* What an argument of a known flag is.                                        *)
LEMMA TypesType ==
    ASSUME typed \in Seq(Arguments), NEW flag \in Flags,
           NEW value \in Addrs \cup Scopes \cup Lines \cup {Malformed, Missing, Unset},
           Types(flag, value)
    PROVE  <<flag, value>> \in Arguments /\ typed' \in Seq(Arguments)
<1>1. <<flag, value>> \in Arguments
  BY DEF Arguments
<1> QED BY <1>1, AppendProperties DEF Types

LEMMA ArgsType ==
    ASSUME TypeOK,
           TakeBind \/ TakePort \/ TakeCap \/ TakeMount \/ TakeConfig \/ RefuseArg \/ Help
    PROVE  TypeOK'
<1> USE DEF TypeOK
<1>1. /\ Localhost \in Addrs /\ {"--bind", "--port", "--cap", "--mount", "--config", "--help", "unknown"} = Flags
  BY AddrsAssumption DEF Flags
<1>2. ASSUME NEW flag, NEW value, Types(flag, value)
      PROVE  UNCHANGED <<caller, file, intended, ceiling, bound, face>>
  BY <1>2 DEF Types
<1>3. CASE TakeBind
  <2>1. PICK v \in Addrs \cup {Malformed} : Types("--bind", v) /\ bindFlag' = v
    BY <1>3 DEF TakeBind
  <2>2. typed' \in Seq(Arguments)
    BY <1>1, <2>1, TypesType
  <2> QED BY <1>2, <1>3, <2>1, <2>2 DEF TakeBind
<1>4. CASE TakePort
  <2>1. typed' \in Seq(Arguments)
    BY <1>1, <1>4, TypesType DEF TakePort
  <2> QED BY <1>2, <1>4, <2>1 DEF TakePort
<1>5. CASE TakeCap
  <2>1. PICK v \in Scopes \cup {Malformed} :
            Types("--cap", v) /\ capFlags' = Append(capFlags, v)
    BY <1>5 DEF TakeCap
  <2>2. typed' \in Seq(Arguments)
    BY <1>1, <2>1, TypesType
  <2>3. capFlags' \in Values(Scopes)
    BY <2>1, AppendProperties DEF Values
  <2> QED BY <1>2, <1>5, <2>1, <2>2, <2>3 DEF TakeCap
<1>6. CASE TakeMount
  <2>1. PICK v \in Lines \cup {Malformed} :
            Types("--mount", v) /\ mountFlags' = Append(mountFlags, v)
    BY <1>6 DEF TakeMount
  <2>2. typed' \in Seq(Arguments)
    BY <1>1, <2>1, TypesType
  <2>3. mountFlags' \in Values(Lines)
    BY <2>1, AppendProperties DEF Values
  <2> QED BY <1>2, <1>6, <2>1, <2>2, <2>3 DEF TakeMount
<1>7. CASE TakeConfig
  <2>1. typed' \in Seq(Arguments)
    BY <1>1, <1>7, TypesType DEF TakeConfig
  <2> QED BY <1>2, <1>7, <2>1 DEF TakeConfig, flags
<1>8. CASE RefuseArg
  <2>1. PICK flag \in Flags : \E v \in {Malformed, Missing} : Types(flag, v)
    BY <1>1, <1>8 DEF RefuseArg, Flags
  <2>2. typed' \in Seq(Arguments)
    BY <2>1, TypesType
  <2> QED BY <1>2, <1>8, <2>1, <2>2 DEF RefuseArg, Fail, Stages, flags
<1>9. CASE Help
  <2>1. typed' \in Seq(Arguments)
    BY <1>1, <1>9, TypesType DEF Help
  <2> QED BY <1>2, <1>9, <2>1 DEF Help, Stages, flags
<1> QED BY <1>3, <1>4, <1>5, <1>6, <1>7, <1>8, <1>9

(* The address that resolve_bind names is one, unless it does not parse.       *)
LEMMA SpelledType ==
    ASSUME TypeOK, file \in Files, BindGood
    PROVE  BindSpelled \in Addrs
<1>1. /\ file.bind \in Seq(Addrs \cup {Malformed})
      /\ file.port \in Seq({Localhost} \cup {Malformed})
  BY SpelledCases DEF Values
<1>2. /\ file.bind # <<>> => file.bind[1] \in Addrs \cup {Malformed}
      /\ file.port # <<>> => file.port[1] \in {Localhost, Malformed}
  BY <1>1, EmptySeq, ElementOfSeq
<1> QED BY <1>2, SpelledCases, AddrsAssumption DEF BindGood, TypeOK

(* The scopes in force are well formed.                                        *)
LEMMA CeilingType ==
    ASSUME TypeOK, file \in Files, Malformed \notin Elements(CapValues)
    PROVE  Elements(CapValues) \in SUBSET Scopes
<1>1. CapValues \in Seq(Scopes \cup {Malformed})
  BY SpelledCases DEF CapValues, TypeOK, Values
<1> QED BY <1>1, ElementsEmpty

LEMMA TypeStep == TypeOK /\ Settled /\ Bound /\ [Next]_vars => TypeOK'
<1> SUFFICES ASSUME TypeOK, Settled, Bound, [Next]_vars PROVE TypeOK'
  OBVIOUS
<1>1. CASE UNCHANGED vars
  BY <1>1 DEF vars, flags, composing, TypeOK
<1>2. CASE TakeBind \/ TakePort \/ TakeCap \/ TakeMount \/ TakeConfig \/ RefuseArg \/ Help
  BY <1>2, ArgsType
<1> USE DEF TypeOK, Stages, flags, Works, Past, AfterAdmit, AfterCeiling, AfterBind, AfterRead
<1>3. CASE Read
  BY <1>3 DEF Read
<1>4. CASE ParseMounts
  BY <1>4 DEF ParseMounts
<1>5. CASE ResolveBind
  <2>1. file \in Files
    BY <1>5 DEF ResolveBind, Settled
  <2> QED BY <1>5, <2>1, SpelledType DEF ResolveBind
<1>6. CASE ResolveCeiling
  <2>1. file \in Files
    BY <1>6 DEF ResolveCeiling, Settled
  <2> QED BY <1>6, <2>1, CeilingType DEF ResolveCeiling
<1>7. CASE Admit
  BY <1>7 DEF Admit
<1>8. CASE Composing
  BY <1>8, ComposingStage DEF Composing
<1>9. CASE Bind
  BY <1>9 DEF Bind, Fail
<1>10. CASE CallServe
  BY <1>10 DEF CallServe
<1>11. CASE Serve
  BY <1>11 DEF Serve, Fail, Posture, Capability
<1> QED BY <1>1, <1>2, <1>3, <1>4, <1>5, <1>6, <1>7, <1>8, <1>9, <1>10, <1>11 DEF Next

-------------------------------------------------------------------------------
(* The flags hold what was typed.                                              *)
LEMMA FlagsTypedStep == TypeOK /\ FlagsTyped /\ Bound /\ [Next]_vars => FlagsTyped'
<1> SUFFICES ASSUME TypeOK, FlagsTyped, Bound, [Next]_vars PROVE FlagsTyped'
  OBVIOUS
<1>1. Unset \notin Addrs \cup {Malformed} /\ Localhost # Unset
  BY AddrsAssumption, UnsetAssumption
<1>2. ASSUME UNCHANGED <<typed, flags>>, stage = "failed" => stage' = "failed" /\ bound' = bound
      PROVE  FlagsTyped'
  BY <1>2 DEF FlagsTyped, flags
<1>3. ASSUME NEW flag \in Flags,
             NEW value \in Addrs \cup Scopes \cup Lines \cup {Malformed, Missing, Unset},
             Types(flag, value)
      PROVE  /\ Given(typed', flag) = Given(typed, flag) \cup {value}
             /\ \A other : other # flag => Given(typed', other) = Given(typed, other)
             /\ GivenLast(typed', flag, value)
             /\ \A other, v : other # flag /\ GivenLast(typed, other, v)
                   => GivenLast(typed', other, v)
             /\ stage = "args"
  <2>1. <<flag, value>> \in Arguments /\ typed' = Append(typed, <<flag, value>>)
    BY <1>3 DEF Types, Arguments
  <2>2. typed \in Seq(Arguments)
    BY DEF TypeOK
  <2>3. \A v : v \in Given(typed', flag) <=> v \in Given(typed, flag) \/ v = value
    BY <2>1, <2>2, GivenGrows
  <2>4. GivenLast(typed', flag, value)
    BY <2>1, <2>2, GivenGrows
  <2>5. \A other, v : other # flag /\ GivenLast(typed, other, v) => GivenLast(typed', other, v)
    BY <2>1, <2>2, GivenGrows
  <2>6. stage = "args"
    BY <1>3 DEF Types
  <2>7. \A other, v : other # flag =>
            (v \in Given(typed', other) <=> v \in Given(typed, other))
    BY <2>1, <2>2, GivenGrows
  <2>8. Given(typed', flag) = Given(typed, flag) \cup {value}
    BY <2>3 DEF Given
  <2>9. \A other : other # flag => Given(typed', other) = Given(typed, other)
    BY <2>7 DEF Given
  <2> QED BY <2>4, <2>5, <2>6, <2>8, <2>9
<1>4. CASE TakeBind
  <2>1. PICK v \in Addrs \cup {Malformed} : Types("--bind", v) /\ bindFlag' = v
    BY <1>4 DEF TakeBind
  <2> DEFINE F == "--bind"
  <2>2. F \in Flags /\ "--port" # F /\ "--cap" # F
    BY DEF Flags
  <2>3. Given(typed', F) = Given(typed, F) \cup {v} /\ GivenLast(typed', F, v) /\ stage = "args"
    BY <1>3, <2>1, <2>2
  <2>4. Given(typed', "--port") = Given(typed, "--port")
    BY <1>3, <2>1, <2>2
  <2>5. Given(typed', "--cap") = Given(typed, "--cap")
    BY <1>3, <2>1, <2>2
  <2> QED BY <1>1, <1>4, <2>1, <2>3, <2>4, <2>5 DEF TakeBind, FlagsTyped
<1>5. CASE TakePort
  <2>1. Localhost \in Addrs /\ Types("--port", Localhost)
    BY <1>5, AddrsAssumption DEF TakePort
  <2> DEFINE F == "--port"
  <2>2. F \in Flags /\ "--bind" # F /\ "--cap" # F
    BY DEF Flags
  <2>3. Given(typed', F) = Given(typed, F) \cup {Localhost} /\ stage = "args"
    BY <1>3, <2>1, <2>2
  <2>4. Given(typed', "--bind") = Given(typed, "--bind")
    BY <1>3, <2>1, <2>2
  <2>5. Given(typed', "--cap") = Given(typed, "--cap")
    BY <1>3, <2>1, <2>2
  <2>6. GivenLast(typed, "--bind", bindFlag) => GivenLast(typed', "--bind", bindFlag)
    BY <1>3, <2>1, <2>2
  <2> QED BY <1>1, <1>5, <2>3, <2>4, <2>5, <2>6 DEF TakePort, FlagsTyped
<1>6. CASE TakeCap
  <2>1. PICK v \in Scopes \cup {Malformed} :
            Types("--cap", v) /\ capFlags' = Append(capFlags, v)
    BY <1>6 DEF TakeCap
  <2> DEFINE F == "--cap"
  <2>2. F \in Flags /\ "--bind" # F /\ "--port" # F
    BY DEF Flags
  <2>3. Given(typed', F) = Given(typed, F) \cup {v} /\ stage = "args"
    BY <1>3, <2>1, <2>2
  <2>4. Given(typed', "--bind") = Given(typed, "--bind")
    BY <1>3, <2>1, <2>2
  <2>5. Given(typed', "--port") = Given(typed, "--port")
    BY <1>3, <2>1, <2>2
  <2>6. GivenLast(typed, "--bind", bindFlag) => GivenLast(typed', "--bind", bindFlag)
    BY <1>3, <2>1, <2>2
  <2>7. Elements(capFlags') = Elements(capFlags) \cup {v}
    BY <2>1, ElementsGrow DEF TypeOK, Values
  <2> QED BY <1>6, <2>3, <2>4, <2>5, <2>6, <2>7 DEF TakeCap, FlagsTyped
<1>7. ASSUME NEW flag \in Flags \ {"--bind", "--port", "--cap"},
             NEW value \in Addrs \cup Scopes \cup Lines \cup {Malformed, Missing, Unset},
             Types(flag, value), UNCHANGED <<bindFlag, portFlag, capFlags>>
      PROVE  FlagsTyped'
  <2>1. Given(typed', "--bind") = Given(typed, "--bind")
    BY <1>3, <1>7
  <2>2. Given(typed', "--port") = Given(typed, "--port")
    BY <1>3, <1>7
  <2>3. Given(typed', "--cap") = Given(typed, "--cap") /\ stage = "args"
    BY <1>3, <1>7
  <2>4. GivenLast(typed, "--bind", bindFlag) => GivenLast(typed', "--bind", bindFlag)
    BY <1>3, <1>7
  <2> QED BY <1>7, <2>1, <2>2, <2>3, <2>4 DEF FlagsTyped
<1>8. CASE TakeMount \/ TakeConfig \/ Help
  BY <1>7, <1>8 DEF TakeMount, TakeConfig, Help, Flags, flags
<1>9. CASE RefuseArg
  <2>1. stage' = "failed" /\ bound' = Unset
    BY <1>9 DEF RefuseArg, Fail, Types, Bound
  <2> QED BY <2>1 DEF FlagsTyped
<1>10. CASE Read \/ ParseMounts \/ ResolveBind \/ ResolveCeiling \/ Admit \/ Composing
            \/ Bind \/ CallServe \/ Serve
  BY <1>2, <1>10, ComposingStage DEF Read, ParseMounts, ResolveBind, ResolveCeiling, Admit,
      Works, Composing, Bind, CallServe, Serve, flags
<1> QED BY <1>2, <1>4, <1>5, <1>6, <1>8, <1>9, <1>10 DEF Next, vars
-------------------------------------------------------------------------------
(* What is settled stays settled.                                              *)
LEMMA SettledStep == TypeOK /\ Settled /\ Bound /\ [Next]_vars => Settled'
<1> SUFFICES ASSUME TypeOK, Settled, Bound, [Next]_vars PROVE Settled'
  OBVIOUS
<1> USE DEF Past, AfterAdmit, AfterCeiling, AfterBind, AfterRead
<1>1. ASSUME UNCHANGED <<caller, bindFlag, portFlag, capFlags, file, intended, ceiling, bound>>
      PROVE  /\ BindGood' <=> BindGood
             /\ BindSpelled' = BindSpelled /\ CapValues' = CapValues
             /\ Admits(ceiling, Posture(intended))' <=> Admits(ceiling, Posture(intended))
  BY <1>1 DEF BindGood, BindConflict, BindSpelled, FirstGiven, ValueFor, CapValues, Admits, Posture
<1>2. CASE UNCHANGED vars
  BY <1>1, <1>2 DEF Settled, vars, flags
<1>3. CASE TakeBind \/ TakePort \/ TakeCap \/ TakeMount \/ TakeConfig \/ RefuseArg \/ Help
  <2>1. bound' = Unset /\ stage' \in {"args", "helped", "failed"}
    BY <1>3 DEF TakeBind, TakePort, TakeCap, TakeMount, TakeConfig, RefuseArg, Help, Types, Fail, Bound
  <2> QED BY <2>1 DEF Settled
<1>4. CASE Read
  <2>1. bound' = Unset /\ stage' \in {"mounts", "failed"} /\ (stage' = "mounts" => file' \in Files)
    BY <1>4 DEF Read, Works, Bound
  <2> QED BY <2>1 DEF Settled
<1>5. CASE ParseMounts
  <2>1. /\ bound' = Unset /\ stage' \in {"bind", "failed"}
        /\ file' = file /\ file \in Files
    BY <1>5 DEF ParseMounts, Works, Bound, Settled
  <2> QED BY <2>1 DEF Settled
<1>6. CASE ResolveBind
  <2>1. /\ bound' = Unset /\ stage' \in {"ceiling", "failed"}
        /\ UNCHANGED <<file, flags>> /\ file \in Files
    BY <1>6 DEF ResolveBind, Works, Bound, Settled
  <2>2. stage' = "ceiling" => BindGood /\ intended' = BindSpelled
    BY <1>6 DEF ResolveBind
  <2>3. (BindGood' <=> BindGood) /\ BindSpelled' = BindSpelled
    BY <2>1 DEF BindGood, BindConflict, BindSpelled, FirstGiven, ValueFor, flags
  <2> QED BY <2>1, <2>2, <2>3 DEF Settled
<1>7. CASE ResolveCeiling
  <2>1. /\ bound' = Unset /\ stage' \in {"admit", "failed"}
        /\ UNCHANGED <<file, flags, intended>>
        /\ file \in Files /\ BindGood /\ intended = BindSpelled
    BY <1>7 DEF ResolveCeiling, Works, Bound, Settled
  <2>2. stage' = "admit" => ceiling' = Elements(CapValues)
    BY <1>7 DEF ResolveCeiling
  <2>3. (BindGood' <=> BindGood) /\ BindSpelled' = BindSpelled /\ CapValues' = CapValues
    BY <2>1 DEF BindGood, BindConflict, BindSpelled, FirstGiven, ValueFor, CapValues, flags
  <2>4. Elements(CapValues)' = Elements(CapValues)
    BY <2>3 DEF Elements
  <2> QED BY <2>1, <2>2, <2>3, <2>4 DEF Settled
<1>8. CASE Admit
  <2>1. /\ bound' = Unset /\ stage' \in {"dialling", "failed"}
        /\ UNCHANGED <<caller, file, bindFlag, portFlag, capFlags, intended, ceiling, bound>>
        /\ file \in Files /\ BindGood /\ intended = BindSpelled /\ ceiling = Elements(CapValues)
    BY <1>8 DEF Admit, Works, Bound, Settled, flags
  <2>2. stage' = "dialling" => Admits(ceiling, Posture(intended))
    BY <1>8 DEF Admit
  <2>3. Elements(CapValues)' = Elements(CapValues)
    BY <1>1, <2>1 DEF Elements
  <2> QED BY <1>1, <2>1, <2>2, <2>3 DEF Settled
<1>9. CASE Composing \/ Bind \/ Serve
  <2>1. /\ UNCHANGED <<caller, bindFlag, portFlag, capFlags, file, intended, ceiling>>
        /\ \/ stage \in AfterAdmit
           \/ bound = bound'
    BY <1>9, ComposingStage DEF Composing, Bind, Serve, flags
  <2>2. Past(AfterAdmit)' => Past(AfterAdmit)
    BY <1>9, ComposingStage DEF Composing, Bind, Serve, Fail
  <2>3. Past(AfterRead)' \/ Past(AfterBind)' \/ Past(AfterCeiling)' => Past(AfterAdmit)
    BY <1>9, ComposingStage DEF Composing, Bind, Serve, Fail
  <2>4. /\ BindGood' <=> BindGood
        /\ BindSpelled' = BindSpelled /\ CapValues' = CapValues
        /\ Admits(ceiling, Posture(intended))' <=> Admits(ceiling, Posture(intended))
    BY <2>1 DEF BindGood, BindConflict, BindSpelled, FirstGiven, ValueFor, CapValues, Admits, Posture
  <2>5. Elements(CapValues)' = Elements(CapValues)
    BY <2>4 DEF Elements
  <2>6. Past(AfterAdmit) => /\ file \in Files /\ BindGood /\ intended = BindSpelled
                            /\ ceiling = Elements(CapValues) /\ Admits(ceiling, Posture(intended))
    BY DEF Settled
  <2> HIDE DEF Past
  <2> QED BY <2>1, <2>2, <2>3, <2>4, <2>5, <2>6 DEF Settled
<1>10. CASE CallServe
  BY <1>10 DEF CallServe, Settled
<1> QED BY <1>2, <1>3, <1>4, <1>5, <1>6, <1>7, <1>8, <1>9, <1>10 DEF Next

(* The socket is on the address that main resolved.                            *)
LEMMA BoundStep == TypeOK /\ Settled /\ Bound /\ [Next]_vars => Bound'
<1> SUFFICES ASSUME TypeOK, Settled, Bound, [Next]_vars PROVE Bound'
  OBVIOUS
<1> USE DEF Bound, Opened
<1>1. CASE UNCHANGED vars
  BY <1>1 DEF vars
<1>2. CASE TakeBind \/ TakePort \/ TakeCap \/ TakeMount \/ TakeConfig \/ RefuseArg \/ Help
  <2>1. /\ stage = "args" /\ bound' = bound /\ stage' \in {"args", "helped", "failed"}
        /\ caller = "main" /\ caller' = caller
    BY <1>2 DEF TakeBind, TakePort, TakeCap, TakeMount, TakeConfig, RefuseArg, Help, Types, Fail
  <2> QED BY <2>1
<1>3. CASE Read \/ ParseMounts \/ ResolveBind \/ ResolveCeiling \/ Admit
  <2>1. /\ stage \in {"args", "mounts", "bind", "ceiling", "admit"}
        /\ bound' = bound /\ stage' \in {"mounts", "bind", "ceiling", "admit", "dialling", "failed"}
        /\ caller = "main" /\ caller' = caller
    BY <1>3 DEF Read, ParseMounts, ResolveBind, ResolveCeiling, Admit, Works
  <2> QED BY <2>1
<1>4. CASE Composing
  BY <1>4, ComposingStage DEF Composing
<1>5. CASE Bind
  <2>1. /\ caller = "main" /\ stage = "composed"
        /\ caller' = caller /\ intended' = intended
        /\ \/ bound' = intended /\ stage' = "bound"
           \/ bound' = bound /\ stage' = "failed"
    BY <1>5 DEF Bind, Fail, TypeOK
  <2>2. file \in Files /\ BindGood /\ intended = BindSpelled
    BY <2>1 DEF Settled, Past, AfterRead, AfterBind, AfterCeiling, AfterAdmit
  <2>3. intended \in Addrs
    BY <2>2, SpelledType
  <2> QED BY <2>1, <2>3
<1>6. CASE CallServe
  BY <1>6 DEF CallServe
<1>7. CASE Serve
  BY <1>7 DEF Serve, Fail
<1> QED BY <1>1, <1>2, <1>3, <1>4, <1>5, <1>6, <1>7 DEF Next

LEMMA FacedStep == TypeOK /\ Bound /\ Faced /\ [Next]_vars => Faced'
<1> SUFFICES ASSUME TypeOK, Bound, Faced, [Next]_vars, stage' = "serving" PROVE Faced'
  BY DEF Faced
<1>1. CASE UNCHANGED vars
  BY <1>1 DEF vars, Faced, Admits, Posture, Capability
<1>2. CASE Serve
  <2>1. /\ Admits(ceiling, Posture(bound)) /\ UNCHANGED <<ceiling, bound>>
        /\ face' = [posture |-> Posture(bound), capability |-> Capability]
    BY <1>2 DEF Serve, Fail
  <2> QED BY <2>1 DEF Faced, Admits, Posture, Capability
<1>3. stage' # "serving" \/ UNCHANGED vars \/ Serve
  BY ComposingStage DEF Next, TakeBind, TakePort, TakeCap, TakeMount, TakeConfig, RefuseArg, Help,
      Types, Fail, Read, ParseMounts, ResolveBind, ResolveCeiling, Admit, Works, Composing, Bind,
      CallServe
<1> QED BY <1>1, <1>2, <1>3

-------------------------------------------------------------------------------
Inv == TypeOK /\ FlagsTyped /\ Settled /\ Bound /\ Faced

LEMMA Initially == Init => Inv
<1> SUFFICES ASSUME Init PROVE Inv
  OBVIOUS
<1>1. \A S : <<>> \in Seq(S)
  BY EmptySeq
<1>2. TypeOK
  BY <1>1 DEF Init, TypeOK, Stages, Values
<1>3. Given(typed, "--bind") = {} /\ Given(typed, "--port") = {} /\ Given(typed, "--cap") = {}
  BY EmptySeq DEF Init, Given
<1>4. Elements(capFlags) = {}
  BY EmptySeq DEF Init, Elements
<1>5. FlagsTyped
  BY <1>3, <1>4 DEF Init, FlagsTyped
<1>6. Settled /\ Bound /\ Faced
  BY DEF Init, Settled, Bound, Opened, Faced, Past, AfterRead, AfterBind, AfterCeiling, AfterAdmit
<1> QED BY <1>2, <1>5, <1>6 DEF Inv

LEMMA Invariant == Spec => []Inv
<1>1. Inv /\ [Next]_vars => Inv'
  BY TypeStep, FlagsTypedStep, SettledStep, BoundStep, FacedStep DEF Inv
<1> QED BY Initially, <1>1, PTL DEF Spec

(* What the binary decided of a socket that it opened.                         *)
LEMMA OpenedSettled ==
    ASSUME Inv, Opened
    PROVE  /\ file \in Files /\ BindGood /\ bound = BindSpelled
           /\ ceiling = Elements(CapValues) /\ Admits(ceiling, Posture(bound))
BY DEF Inv, Settled, Bound, Opened, Past, AfterRead, AfterBind, AfterCeiling, AfterAdmit

-------------------------------------------------------------------------------
(* Every variable of the start keeps its type, whatever is typed and whatever  *)
(* the file holds (main.rs `main`).                                            *)
THEOREM TypeCorrect == Spec => []TypeOK
<1>1. Inv => TypeOK
  BY DEF Inv
<1> QED BY Invariant, <1>1, PTL

(* A face beyond loopback is read-only and holds no root, for any addresses    *)
(* and any caller of `serve_until_error` (serve.rs `Posture::of`, ceiling.rs   *)
(* `admits`).                                                                  *)
THEOREM RootNeverServedBeyondLoopback == Spec => []RootNeverBeyondLoopback
<1>1. Inv => RootNeverBeyondLoopback
  BY UnsetAssumption DEF Inv, Faced, TypeOK, RootNeverBeyondLoopback, Admits, Posture, Capability
<1> QED BY Invariant, <1>1, PTL

(* The binary opens no socket that its ceiling may not be served on (main.rs,  *)
(* the refusal before the bind).                                               *)
THEOREM SocketAlwaysAdmitted == Spec => []SocketOnlyIfAdmitted
<1>1. Inv => SocketOnlyIfAdmitted
  BY OpenedSettled DEF SocketOnlyIfAdmitted
<1> QED BY Invariant, <1>1, PTL

(* A socket beyond loopback was spelled out, for any line of arguments and any *)
(* file (config.rs `resolve_bind`).                                            *)
THEOREM ExposureAlwaysSpelled == Spec => []ExposureIsSpelled
<1>1. ASSUME Inv, Opened, bound \notin Loopback
      PROVE  \/ GivenLast(typed, "--bind", bound)
             \/ /\ Given(typed, "--bind") = {} /\ Given(typed, "--port") = {}
                /\ \E k \in 1 .. Len(file.bind) : file.bind[k] = bound
  <2>1. /\ file \in Files /\ bound = BindSpelled /\ BindGood
    BY <1>1, OpenedSettled
  <2>2. /\ bindFlag = Unset <=> Given(typed, "--bind") = {}
        /\ bindFlag # Unset => GivenLast(typed, "--bind", bindFlag)
        /\ portFlag = Unset <=> Given(typed, "--port") = {}
    BY <1>1 DEF Inv, FlagsTyped, Opened
  <2>3. /\ file.bind \in Values(Addrs) /\ file.port \in Values({Localhost})
        /\ bound = IF bindFlag # Unset THEN bindFlag ELSE IF portFlag # Unset THEN portFlag
                   ELSE IF file.bind # <<>> THEN file.bind[1]
                   ELSE IF file.port # <<>> THEN file.port[1] ELSE Localhost
    BY <2>1, SpelledCases
  <2>4. bound # Malformed /\ Localhost \in Loopback
    BY <2>1, AddrsAssumption DEF BindGood
  <2>5. file.port # <<>> => file.port[1] \in {Localhost, Malformed}
    BY <2>3, EmptySeq, ElementOfSeq DEF Values
  <2>6. file.bind # <<>> => 1 \in 1 .. Len(file.bind)
    BY <2>3, EmptySeq DEF Values
  <2>7. CASE bindFlag # Unset
    BY <2>2, <2>3, <2>7
  <2>8. CASE bindFlag = Unset
    <3>1. portFlag = Unset
      BY <1>1, <2>3, <2>4, <2>8 DEF Inv, TypeOK
    <3>2. file.bind # <<>>
      BY <1>1, <2>3, <2>4, <2>5, <2>8, <3>1
    <3> QED BY <2>2, <2>3, <2>6, <2>8, <3>1, <3>2
  <2> QED BY <2>7, <2>8
<1>2. Inv => ExposureIsSpelled
  BY <1>1 DEF ExposureIsSpelled
<1> QED BY Invariant, <1>2, PTL

(* The scopes in force are those of the command line, or else of the file, and *)
(* never of both (config.rs `resolve_ceiling`).                                *)
THEOREM CeilingAlwaysSpelled == Spec => []CeilingIsSpelled
<1>1. ASSUME Inv, Opened
      PROVE  ceiling = IF Given(typed, "--cap") # {} THEN Given(typed, "--cap")
                       ELSE Elements(file.cap)
  <2>1. ceiling = Elements(CapValues)
    BY <1>1, OpenedSettled
  <2>2. Elements(capFlags) = Given(typed, "--cap")
    BY <1>1 DEF Inv, FlagsTyped, Opened
  <2>3. capFlags = <<>> <=> Elements(capFlags) = {}
    BY <1>1, ElementsEmpty DEF Inv, TypeOK, Values
  <2> QED BY <2>1, <2>2, <2>3 DEF CapValues
<1>2. Inv => CeilingIsSpelled
  BY <1>1 DEF CeilingIsSpelled
<1> QED BY Invariant, <1>2, PTL

(* No socket opens on a setting spelled two ways at one level (config.rs       *)
(* `resolve_bind`).                                                            *)
THEOREM ContradictionOpensNothing == Spec => []ContradictionNeverOpens
<1>1. ASSUME Inv, Opened
      PROVE  /\ Given(typed, "--bind") = {} \/ Given(typed, "--port") = {}
             /\ file.bind = <<>> \/ file.port = <<>>
  <2>1. file \in Files /\ BindGood
    BY <1>1, OpenedSettled
  <2>2. /\ bindFlag = Unset <=> Given(typed, "--bind") = {}
        /\ portFlag = Unset <=> Given(typed, "--port") = {}
    BY <1>1 DEF Inv, FlagsTyped, Opened
  <2>3. file.bind \in Values(Addrs) /\ file.port \in Values({Localhost})
    BY <2>1, SpelledCases
  <2>4. Unset \notin Addrs /\ Unset \notin {Localhost}
    BY UnsetAssumption, AddrsAssumption
  <2>5. /\ file.bind = <<>> <=> ValueFor(file.bind) = Unset
        /\ file.port = <<>> <=> ValueFor(file.port) = Unset
    BY <2>3, <2>4, ValueGiven
  <2> QED BY <2>1, <2>2, <2>5 DEF BindGood, BindConflict
<1>2. Inv => ContradictionNeverOpens
  BY <1>1 DEF ContradictionNeverOpens
<1> QED BY Invariant, <1>2, PTL
-------------------------------------------------------------------------------
(* The mount lines on their way from three places to the chain.                *)
Unmounted == taken = 0 /\ fronting = <<>> /\ aliases = <<>> /\ spaces = <<>> /\ dialled = {}

Mounted ==
    /\ Past({"bind"} \cup AfterBind) => file \in Files /\ lines = MountValues /\ MountsGood
    /\ stage \in {"args", "mounts", "bind", "ceiling", "admit"} => Unmounted
    /\ stage \in {"dialling", "composed"} => caller = "main" /\ ComposeInv
    /\ Opened => Whole /\ MostSpecific

(* A sequence without the one bad value is one of good values.                 *)
LEMMA WithoutBad ==
    ASSUME NEW S, NEW bad, NEW s \in Seq(S \cup {bad}), bad \notin Elements(s)
    PROVE  s \in Seq(S)
<1>1. Len(s) \in Nat /\ s \in [1 .. Len(s) -> S \cup {bad}]
  BY LenProperties
<1>2. s \in [1 .. Len(s) -> S]
  BY <1>1 DEF Elements
<1> QED BY <1>1, <1>2, SeqDef

(* Lines that all parsed are mount lines. *)
LEMMA GoodLines ==
    ASSUME file \in Files, mountFlags \in Values(Lines), MountsGood
    PROVE  /\ MountValues \in Seq(Lines) /\ MountValues # <<>>
           /\ Len(MountValues) = Len(file.mount) + Len(file.webMount) + Len(mountFlags)
<1>1. file.mount \in Values(Lines) /\ file.webMount \in Values(Lines)
  BY FilesAssumption DEF ConfigText
<1>2. /\ file.mount \o file.webMount \in Values(Lines)
      /\ Len(file.mount \o file.webMount) = Len(file.mount) + Len(file.webMount)
  BY <1>1, ConcatProperties DEF Values
<1>3. /\ MountValues \in Values(Lines)
      /\ Len(MountValues) = Len(file.mount) + Len(file.webMount) + Len(mountFlags)
  BY <1>2, ConcatProperties DEF Values, MountValues
<1>4. MountValues \in Seq(Lines)
  BY <1>3, WithoutBad DEF Values, MountsGood
<1> QED BY <1>3, <1>4 DEF MountsGood

(* Composing starts as Compose does. *)
LEMMA ComposingStarts ==
    ASSUME stage' = "dialling", lines' \in Seq(Lines), Unmounted'
    PROVE  ComposeInv'
BY EmptySeq DEF Unmounted, ComposeInv, ComposeTypeOK, Collected, Dialled, Hellos, Chained,
    Increasing, Holds

(* Composing goes on as Compose does. *)
LEMMA ComposingKeeps ==
    ASSUME ComposeInv, ComposeNext \/ UNCHANGED <<stage, composing>>
    PROVE  ComposeInv'
<1>1. [ComposeNext]_composeVars
  BY DEF composeVars, composing
<1> QED BY <1>1, ComposeTypeStep, CollectedStep, DialledStep, ChainedStep DEF ComposeInv

(* Composed, it is whole. *)
LEMMA ComposedWhole ==
    ASSUME ComposeInv, stage = "composed"
    PROVE  Whole
BY EveryLinePlaced DEF ComposeInv, Dialled, Chained, Whole

LEMMA MountedStep == TypeOK /\ Settled /\ Bound /\ Mounted /\ [Next]_vars => Mounted'
<1> SUFFICES ASSUME TypeOK, Settled, Bound, Mounted, [Next]_vars PROVE Mounted'
  OBVIOUS
<1>1. ASSUME UNCHANGED <<file, mountFlags, lines>>
      PROVE  UNCHANGED <<MountValues, MountsGood>>
  BY <1>1 DEF MountValues, MountsGood, Elements
<1>2. ASSUME UNCHANGED <<lines, spaces, dialled>>, Whole PROVE Whole'
  BY <1>2 DEF Whole, Hellos, Eager, Hello
<1>0. ASSUME UNCHANGED <<lines, spaces>>, MostSpecific PROVE MostSpecific'
  BY <1>0 DEF MostSpecific, AnsweredAt, Claimed, Outranks
<1>3. CASE UNCHANGED vars
  <2>1. UNCHANGED <<file, mountFlags, lines, spaces, dialled, stage, caller, bound, composing>>
    BY <1>3 DEF vars, flags, composing
  <2>2. ComposeInv => ComposeInv'
    BY <2>1, ComposingKeeps
  <2> QED BY <1>1, <1>2, <1>0, <2>1, <2>2 DEF Mounted, Past, Opened, Unmounted, composing
<1>4. CASE TakeBind \/ TakePort \/ TakeCap \/ TakeMount \/ TakeConfig \/ RefuseArg \/ Help
  <2>1. /\ stage = "args" /\ UNCHANGED <<bound, composing>>
        /\ stage' \in {"args", "helped", "failed"}
    BY <1>4 DEF TakeBind, TakePort, TakeCap, TakeMount, TakeConfig, RefuseArg, Help, Types, Fail
  <2> QED BY <2>1 DEF Mounted, Bound, Past, AfterBind, AfterCeiling, AfterAdmit, Opened,
                      Unmounted, composing
<1>5. CASE Read
  <2>1. /\ stage = "args" /\ UNCHANGED <<bound, composing>>
        /\ stage' \in {"mounts", "failed"}
    BY <1>5 DEF Read, Works, composing
  <2> QED BY <2>1 DEF Mounted, Bound, Past, AfterBind, AfterCeiling, AfterAdmit, Opened,
                      Unmounted, composing
<1>6. CASE ParseMounts
  <2>1. /\ stage = "mounts" /\ stage' \in {"bind", "failed"} /\ bound' = bound
        /\ UNCHANGED <<caller, file, mountFlags, taken, fronting, aliases, spaces, dialled>>
        /\ stage' = "bind" => MountsGood /\ lines' = MountValues
    BY <1>6 DEF ParseMounts, Works, flags
  <2>2. UNCHANGED <<MountValues, MountsGood>>
    BY <2>1 DEF MountValues, MountsGood, Elements
  <2>3. caller = "main" /\ file \in Files
    BY <1>6, <2>1 DEF ParseMounts, Works, Settled, Past, AfterRead
  <2> QED BY <2>1, <2>2, <2>3 DEF Mounted, Bound, Past, AfterBind, AfterCeiling, AfterAdmit,
                                  Opened, Unmounted
<1>7. CASE ResolveBind \/ ResolveCeiling
  <2>1. /\ caller = "main" /\ stage \in {"bind", "ceiling"}
        /\ stage' \in {"ceiling", "admit", "failed"}
        /\ UNCHANGED <<bound, caller, file, mountFlags, composing>>
    BY <1>7 DEF ResolveBind, ResolveCeiling, Works, flags, composing
  <2> QED BY <1>1, <2>1 DEF Mounted, Bound, Past, AfterBind, AfterCeiling, AfterAdmit, Opened,
                            Unmounted, composing
<1>8. CASE Admit
  <2>1. /\ caller = "main" /\ stage = "admit" /\ stage' \in {"dialling", "failed"}
        /\ UNCHANGED <<bound, caller, file, mountFlags, composing>>
    BY <1>8 DEF Admit, Works, flags, composing
  <2>2. file \in Files /\ lines = MountValues /\ MountsGood /\ Unmounted
    BY <2>1 DEF Mounted, Past, AfterBind, AfterCeiling
  <2>3. lines' \in Seq(Lines) /\ Unmounted'
    BY <2>1, <2>2, GoodLines DEF TypeOK, composing, Unmounted
  <2>4. stage' = "dialling" => ComposeInv'
    BY <2>3, ComposingStarts
  <2> QED BY <1>1, <2>1, <2>2, <2>4 DEF Mounted, Bound, Past, AfterBind, AfterCeiling,
                                        AfterAdmit, Opened, composing
<1>9. CASE Composing
  <2>1. /\ stage = "dialling" /\ stage' \in {"dialling", "composed", "failed"}
        /\ UNCHANGED <<bound, caller, file, mountFlags, lines>> /\ ComposeNext
    BY <1>9, ComposingStage DEF Composing, flags
  <2>2. caller = "main" /\ ComposeInv'
    BY <2>1, ComposingKeeps DEF Mounted
  <2> QED BY <1>1, <2>1, <2>2 DEF Mounted, Bound, Past, AfterBind, AfterCeiling, AfterAdmit,
                                  Opened
<1>10. CASE Bind
  <2>1. /\ stage = "composed" /\ stage' \in {"bound", "failed"}
        /\ UNCHANGED <<caller, file, mountFlags, lines, spaces, dialled>>
    BY <1>10 DEF Bind, Fail, flags, composing
  <2>2. caller = "main" /\ Whole /\ MostSpecific
    BY <2>1, ComposedWhole, ComposedSpecific DEF Mounted
  <2> QED BY <1>1, <1>2, <1>0, <2>1, <2>2 DEF Mounted, Past, AfterBind, AfterCeiling, AfterAdmit,
                                        Opened
<1>11. CASE CallServe
  BY <1>11 DEF CallServe, Mounted, Past, Opened
<1>12. CASE Serve
  <2>1. /\ stage = "bound" /\ stage' \in {"serving", "failed"}
        /\ UNCHANGED <<bound, caller, file, mountFlags, lines, spaces, dialled>>
    BY <1>12 DEF Serve, Fail, flags, composing
  <2> QED BY <1>1, <1>2, <1>0, <2>1 DEF Mounted, Past, AfterBind, AfterCeiling, AfterAdmit, Opened
<1> QED BY <1>3, <1>4, <1>5, <1>6, <1>7, <1>8, <1>9, <1>10, <1>11, <1>12 DEF Next

LEMMA MountedInvariant == Spec => []Mounted
<1>1. Init => Mounted
  BY DEF Init, Mounted, Unmounted, Past, Opened, AfterBind, AfterCeiling, AfterAdmit
<1> QED BY <1>1, MountedStep, Invariant, PTL DEF Spec, Inv

(* No socket opens before every mount line has its place in the chain and each *)
(* eager peer has answered: by Compose's proofs, for any lines from any of the *)
(* three places (main.rs, mounts.rs `compose_space`).                          *)
THEOREM EveryMountAlwaysServed == Spec => []EveryMountServed
<1>1. Inv /\ Mounted => EveryMountServed
  <2> SUFFICES ASSUME Inv, Mounted, Opened PROVE EveryMountServed
    BY DEF EveryMountServed
  <2>1. file \in Files /\ lines = MountValues /\ MountsGood /\ Whole
    BY DEF Mounted, Past, Opened
  <2>2. mountFlags \in Values(Lines)
    BY DEF Inv, TypeOK
  <2> QED BY <2>1, <2>2, GoodLines DEF EveryMountServed
<1> QED BY MountedInvariant, <1>1, Invariant, PTL

(* What answers an IRI behind a socket that main opened is the most specific   *)
(* of all the lines that were given, wherever each came from: the order that   *)
(* compose_space chose is the one that serves (main.rs:150, mounts.rs:178).    *)
THEOREM MostSpecificAlwaysServes == Spec => [](Opened => MostSpecific)
<1>1. Mounted => (Opened => MostSpecific)
  BY DEF Mounted
<1> QED BY MountedInvariant, <1>1, PTL
===============================================================================

----------------------------- MODULE Revalidation ------------------------------
(* serve.rs `get` and `source_resp` before a cache: which face of a resource   *)
(* an answer is, how long it may be kept, and when a 304 confirms a copy. The  *)
(* cache, shared or a browser's own, and the kernel are external: the cache    *)
(* keeps what the headers let it keep, the kernel what its expiries promise.   *)
EXTENDS Integers, Sequences

CONSTANTS
    Types,      \* media types `accept_face` knows
    Other,      \* any other item of an Accept header
    None,       \* no `as`, no answer
    Bytes,      \* what a face can hold
    Default,    \* the type the endpoint answers without an `as`
    Accepts,    \* the Accept headers clients send
    Explicit,   \* the `as=` a URL names, None for a URL without one
    Clients,    \* who asks through the cache
    Second,     \* ticks of the clock in a second
    MaxTime,    \* bound: the clock
    Deadlines   \* bound: when an answer may expire

ASSUME TypesAssumption ==
    /\ Other \notin Types /\ None \notin Types
    /\ Default \in Types
    /\ Accepts \subseteq Seq(Types \cup {Other})
    /\ Explicit \subseteq Types \cup {None}
ASSUME TimeAssumption == Second \in Nat \ {0} /\ MaxTime \in Nat /\ Deadlines \subseteq Nat

Asks == [as : Explicit, accept : Accepts]
Reprs == [type : Types, bytes : Bytes]

(* A kernel expiry: "Always" expired, "Never", or the tick it expires at.      *)
Expiries == [kind : {"Always", "Never"}, at : {0}] \cup [kind : {"At"}, at : Deadlines]

Etags == Types \X Bytes
Controls == [store : BOOLEAN, maxAge : Nat]

(* What source_resp sends; None stands for the body a 304 leaves out.          *)
Resps == [status : {200, 304}, repr : Reprs \cup {None}, control : Controls,
          etag : Etags, vary : BOOLEAN]

(* A stored answer, fresh before the tick `until`.                             *)
Copies == [as : Types \cup {None}, accept : Accepts, vary : BOOLEAN, repr : Reprs,
           etag : Etags, until : Nat]

VARIABLES
    now,        \* the clock, in ticks
    content,    \* what each face of the resource holds
    promised,   \* the kernel said it will not change before this tick
    stored,     \* the cache's copies
    stage,      \* of each client's call: "idle", "asking" or "answering"
    ask,        \* the URL's `as` and the Accept header of the call, or None
    sent,       \* when the cache sent the call on
    held,       \* what is held under the tags the call's If-None-Match lists
    resp,       \* the server's answer on its way, or None
    seen,       \* history: what was current at some moment of the call
    last        \* history: was the last answer given current, and the right face?

call == <<stage, ask, sent, held, resp>>
vars == <<now, content, promised, stored, call, seen, last>>

(* `accept_face`: the first type it knows, in the header's order.              *)
AcceptFace(accept) ==
    LET IsFirst(i) == accept[i] \in Types /\ \A j \in 1..i - 1 : accept[j] \notin Types
    IN  IF \E i \in DOMAIN accept : IsFirst(i)
        THEN accept[CHOOSE i \in DOMAIN accept : IsFirst(i)] ELSE None

(* `get`: an explicit `as` wins over the header.                               *)
As(a) == IF a.as # None THEN a.as ELSE AcceptFace(a.accept)

(* What the kernel resolves. *)
TypeFor(a) == IF As(a) # None THEN As(a) ELSE Default
Current(a) == [type |-> TypeFor(a), bytes |-> content[TypeFor(a)]]

Init ==
    /\ now = 0
    /\ content \in [Types -> Bytes]
    /\ promised = 0
    /\ stored = {}
    /\ stage = [c \in Clients |-> "idle"]
    /\ ask = [c \in Clients |-> None]
    /\ sent = [c \in Clients |-> 0]
    /\ held = [c \in Clients |-> {}]
    /\ resp = [c \in Clients |-> None]
    /\ seen = [c \in Clients |-> {}]
    /\ last = [current |-> TRUE, right |-> TRUE]

-------------------------------------------------------------------------------
(* The resource and the clock. *)
Change(new) ==
    /\ now >= promised
    /\ content' = new
    /\ seen' = [c \in Clients |->
        IF stage[c] # "idle"
        THEN seen[c] \cup {[type |-> TypeFor(ask[c]), bytes |-> new[TypeFor(ask[c])]]}
        ELSE seen[c]]
    /\ UNCHANGED <<now, promised, stored, call, last>>

Tick ==
    /\ now < MaxTime
    /\ now' = now + 1
    /\ UNCHANGED <<content, promised, stored, call, seen, last>>

-------------------------------------------------------------------------------
(* The cache. *)
SameUrl(copy, a) == copy.as = a.as
Matches(copy, a) == SameUrl(copy, a) /\ (copy.vary => copy.accept = a.accept)

(* What the last answer was to its client, for the properties.                 *)
Judge(a, repr, current) ==
    last' = [current |-> repr \in current, right |-> repr.type = TypeFor(a)]

(* A fresh copy is served without asking.                                      *)
Hit(c, a, copy) ==
    /\ stage[c] = "idle"
    /\ Matches(copy, a) /\ now < copy.until
    /\ Judge(a, copy.repr, {Current(a)})
    /\ UNCHANGED <<now, content, promised, stored, call, seen>>

(* Otherwise, or on a reload, the call goes on with the tags of what is kept   *)
(* under its URL.                                                              *)
Tagged(a) ==
    {[etag |-> copy.etag, repr |-> copy.repr] : copy \in {k \in stored : SameUrl(k, a)}}

Forward(c, a) ==
    /\ stage[c] = "idle"
    /\ stage' = [stage EXCEPT ![c] = "asking"]
    /\ ask' = [ask EXCEPT ![c] = a]
    /\ sent' = [sent EXCEPT ![c] = now]
    /\ held' = [held EXCEPT ![c] = Tagged(a)]
    /\ seen' = [seen EXCEPT ![c] = {Current(a)}]
    /\ UNCHANGED <<now, content, promised, stored, resp, last>>

-------------------------------------------------------------------------------
(* The server. *)

(* Faulty variant: a pure result is immutable at its URL.                      *)
CacheControlImmutable(expiry) ==
    [store |-> expiry.kind # "Always",
     maxAge |-> IF expiry.kind = "Never" THEN MaxTime
                ELSE IF expiry.kind = "At" /\ expiry.at > now
                THEN (expiry.at - now) \div Second ELSE 0]

(* `cache_control`: no-store, or a max-age of whole seconds, 0 for `no-cache`. *)
CacheControl(expiry) ==
    [store |-> expiry.kind # "Always",
     maxAge |-> IF expiry.kind = "At" /\ expiry.at > now
                THEN (expiry.at - now) \div Second ELSE 0]

(* Faulty variant: the tag of the bytes alone.                                 *)
EtagOfBytes(repr) == <<Default, repr.bytes>>

(* `etag_of`: the content address covers the type and the bytes.               *)
EtagOf(repr) == <<repr.type, repr.bytes>>

IfNoneMatchHits(tags, etag) == etag \in tags

(* `source_resp` of what the kernel resolved, for a call that lists `tags`.    *)
SourceResp(tags, repr, expiry) ==
    LET fresh == IfNoneMatchHits(tags, EtagOf(repr))
    IN  [status |-> IF fresh THEN 304 ELSE 200,
         repr |-> IF fresh THEN None ELSE repr,
         control |-> CacheControl(expiry),
         etag |-> EtagOf(repr),
         vary |-> TRUE]

Answer(c, expiry) ==
    /\ stage[c] = "asking"
    /\ resp' = [resp EXCEPT ![c] =
        SourceResp({tagged.etag : tagged \in held[c]}, Current(ask[c]), expiry)]
    /\ promised' = (IF expiry.kind = "At" /\ expiry.at > promised
                    THEN expiry.at ELSE promised)
    /\ stage' = [stage EXCEPT ![c] = "answering"]
    /\ UNCHANGED <<now, content, stored, ask, sent, held, seen, last>>

-------------------------------------------------------------------------------
(* The answer reaches the cache. Its age counts from when the call was sent.   *)
Until(c) ==
    IF resp[c].control.maxAge = 0 THEN 0 ELSE sent[c] + resp[c].control.maxAge * Second

CopyOf(c) ==
    [as |-> ask[c].as, accept |-> ask[c].accept, vary |-> resp[c].vary,
     repr |-> resp[c].repr, etag |-> resp[c].etag, until |-> Until(c)]

Ends(c) ==
    /\ stage' = [stage EXCEPT ![c] = "idle"]
    /\ ask' = [ask EXCEPT ![c] = None]
    /\ sent' = [sent EXCEPT ![c] = 0]
    /\ held' = [held EXCEPT ![c] = {}]
    /\ resp' = [resp EXCEPT ![c] = None]
    /\ seen' = [seen EXCEPT ![c] = {}]
    /\ UNCHANGED <<now, content, promised>>

(* `error_resp` is never stored, and confirms nothing.                         *)
AnswerError(c) ==
    /\ stage[c] = "asking"
    /\ Ends(c)
    /\ UNCHANGED <<stored, last>>

Receive(c) ==
    /\ stage[c] = "answering" /\ resp[c].status = 200
    /\ Ends(c)
    /\ Judge(ask[c], resp[c].repr, seen[c])
    /\ stored' = {copy \in stored : ~Matches(copy, ask[c])} \cup
                 (IF resp[c].control.store THEN {CopyOf(c)} ELSE {})

(* A 304 names the copy it confirms by its tag, among those the call held, and *)
(* renews every copy of that tag the cache still has under the URL.            *)
Confirmed(copy, c) == SameUrl(copy, ask[c]) /\ copy.etag = resp[c].etag

ReceiveConfirmation(c) ==
    /\ stage[c] = "answering" /\ resp[c].status = 304
    /\ Ends(c)
    /\ \E tagged \in held[c] :
        tagged.etag = resp[c].etag /\ Judge(ask[c], tagged.repr, seen[c])
    /\ stored' = {copy \in stored : ~Confirmed(copy, c)} \cup
                 (IF resp[c].control.store
                  THEN {[copy EXCEPT !.until = Until(c)] :
                            copy \in {k \in stored : Confirmed(k, c)}}
                  ELSE {})

Next ==
    \/ \E new \in [Types -> Bytes] : Change(new)
    \/ Tick
    \/ \E c \in Clients, a \in Asks :
        (\E copy \in stored : Hit(c, a, copy)) \/ Forward(c, a)
    \/ \E c \in Clients :
        \/ \E expiry \in Expiries : Answer(c, expiry)
        \/ AnswerError(c) \/ Receive(c) \/ ReceiveConfirmation(c)

Spec == Init /\ [][Next]_vars

-------------------------------------------------------------------------------
(* Every variable keeps its type. *)
TypeOK ==
    /\ now \in 0..MaxTime
    /\ content \in [Types -> Bytes]
    /\ promised \in Deadlines \cup {0}
    /\ stored \subseteq Copies
    /\ stage \in [Clients -> {"idle", "asking", "answering"}]
    /\ ask \in [Clients -> Asks \cup {None}]
    /\ sent \in [Clients -> 0..MaxTime]
    /\ held \in [Clients -> SUBSET [etag : Etags, repr : Reprs]]
    /\ resp \in [Clients -> Resps \cup {None}]
    /\ seen \in [Clients -> SUBSET Reprs]
    /\ last \in [current : BOOLEAN, right : BOOLEAN]

(* Whatever the cache kept, for whom and from when, a client is given only     *)
(* what was current at some moment of its own call: a copy is served unasked   *)
(* only while the kernel's deadline holds it, and otherwise only confirmed.    *)
NeverStale == last.current

(* A client is given the face that its own URL and Accept header choose, never *)
(* one another client's copy happened to be of.                                *)
RightFace == last.right
===============================================================================

-------------------------- MODULE RevalidationProofs ---------------------------
(* Theorems of Revalidation, for any types, headers, clients and deadlines.    *)
EXTENDS Revalidation, NaturalsInduction, TLAPS

(* What a tag is the address of. *)
ReprOf(etag) == [type |-> etag[1], bytes |-> etag[2]]

(* What a face of the resource holds now. *)
IsCurrent(repr) == repr.bytes = content[repr.type]

(* A copy bears the tag of what it is, and is of the face its own call chose.  *)
CopiesNamed ==
    \A copy \in stored :
        /\ copy.vary /\ copy.repr = ReprOf(copy.etag)
        /\ copy.repr.type = TypeFor([as |-> copy.as, accept |-> copy.accept])

(* A copy is fresh only as long as the kernel promised, so it is current.      *)
FreshIsCurrent ==
    \A copy \in stored :
        copy.until <= promised /\ (now < copy.until => IsCurrent(copy.repr))

(* A call under way: what it holds is named by its tags, and what is current   *)
(* has been seen.                                                              *)
CallNamed(c) ==
    /\ \A tagged \in held[c] : tagged.repr = ReprOf(tagged.etag)
    /\ stage[c] # "idle" => Current(ask[c]) \in seen[c] /\ sent[c] <= now

(* An answer on its way: it names what the call has seen, of the face it chose,*)
(* and what it lets a cache keep is current for as long as that.               *)
AnswerNamed(c) ==
    stage[c] = "answering" =>
        /\ resp[c].vary
        /\ ReprOf(resp[c].etag) \in seen[c] /\ resp[c].etag[1] = TypeFor(ask[c])
        /\ resp[c].status = 200 => resp[c].repr = ReprOf(resp[c].etag)
        /\ Until(c) <= promised
        /\ now < Until(c) => IsCurrent(ReprOf(resp[c].etag))

Honest ==
    CopiesNamed /\ FreshIsCurrent /\ \A c \in Clients : CallNamed(c) /\ AnswerNamed(c)

-------------------------------------------------------------------------------
(* Every call has a face, and the resource holds something under it.           *)
LEMMA Faces ==
    ASSUME NEW a \in Asks, content \in [Types -> Bytes]
    PROVE  TypeFor(a) \in Types /\ Current(a) \in Reprs
<1>1. AcceptFace(a.accept) \in Types \cup {None}
  BY DEF AcceptFace
<1>2. As(a) \in Types \cup {None}
  BY <1>1, TypesAssumption DEF As, Asks
<1>3. TypeFor(a) \in Types
  BY <1>2, TypesAssumption DEF TypeFor
<1> QED BY <1>3 DEF Current, Reprs

(* Whole seconds are never longer than the ticks they are cut from.            *)
LEMMA WholeSeconds ==
    ASSUME NEW ticks \in Nat
    PROVE  ticks \div Second \in Nat /\ (ticks \div Second) * Second <= ticks
BY TimeAssumption

(* What may be kept is kept until the deadline at most.                        *)
LEMMA Kept ==
    ASSUME NEW expiry \in Expiries, now \in Nat
    PROVE  /\ CacheControl(expiry) \in Controls
           /\ CacheControl(expiry).maxAge # 0 =>
                expiry.kind = "At" /\ now + CacheControl(expiry).maxAge * Second <= expiry.at
<1>1. expiry.kind \in {"Always", "Never", "At"} /\ expiry.at \in Nat
  <2>1. CASE expiry \in [kind : {"Always", "Never"}, at : {0}]
    BY <2>1
  <2>2. CASE expiry \in [kind : {"At"}, at : Deadlines]
    BY <2>2, TimeAssumption
  <2> QED BY <2>1, <2>2 DEF Expiries
<1>2. CASE expiry.kind = "At" /\ expiry.at > now
  <2>1. expiry.at - now \in Nat
    BY <1>1, <1>2
  <2> DEFINE age == (expiry.at - now) \div Second
  <2>2. age \in Nat /\ age * Second <= expiry.at - now
    BY <2>1, WholeSeconds
  <2>3. CacheControl(expiry) = [store |-> expiry.kind # "Always", maxAge |-> age]
    BY <1>2 DEF CacheControl
  <2> HIDE DEF age
  <2>4. age * Second \in Nat
    BY <2>2, TimeAssumption
  <2> QED BY <1>1, <1>2, <2>2, <2>3, <2>4 DEF Controls
<1>3. CASE ~ (expiry.kind = "At" /\ expiry.at > now)
  BY <1>3 DEF CacheControl, Controls
<1> QED BY <1>2, <1>3
-------------------------------------------------------------------------------
(* A call under way has something asked, and an answer something answered.     *)
InCall ==
    \A c \in Clients :
        /\ stage[c] # "idle" => ask[c] \in Asks
        /\ stage[c] = "answering" =>
                resp[c] \in Resps /\ (resp[c].status = 200 => resp[c].repr \in Reprs)

(* What is judged is judged with a yes or a no. *)
LEMMA Judged ==
    ASSUME NEW a, NEW repr, NEW current, Judge(a, repr, current)
    PROVE  last' \in [current : BOOLEAN, right : BOOLEAN]
<1>1. (repr \in current) \in BOOLEAN /\ (repr.type = TypeFor(a)) \in BOOLEAN
  OBVIOUS
<1> QED BY <1>1 DEF Judge

(* What a client gets ends its call. *)
LEMMA Ended ==
    ASSUME TypeOK, InCall, NEW c \in Clients, Ends(c), stored' \subseteq Copies,
           last' \in [current : BOOLEAN, right : BOOLEAN]
    PROVE  TypeOK' /\ InCall'
<1>1. TypeOK'
  BY TimeAssumption DEF Ends, TypeOK
<1>2. InCall'
  BY DEF Ends, TypeOK, InCall
<1> QED BY <1>1, <1>2

(* Every variable keeps its type. *)
LEMMA Typed == Spec => [](TypeOK /\ InCall)
<1>1. Init => TypeOK /\ InCall
  BY TimeAssumption DEF Init, TypeOK, InCall
<1>2. TypeOK /\ InCall /\ [Next]_vars => TypeOK' /\ InCall'
  <2> SUFFICES ASSUME TypeOK, InCall, [Next]_vars PROVE TypeOK' /\ InCall'
    OBVIOUS
  <2>1. ASSUME NEW new \in [Types -> Bytes], Change(new) PROVE TypeOK' /\ InCall'
    <3>1. ASSUME NEW c \in Clients
          PROVE  (IF stage[c] # "idle"
                  THEN seen[c] \cup {[type |-> TypeFor(ask[c]), bytes |-> new[TypeFor(ask[c])]]}
                  ELSE seen[c]) \in SUBSET Reprs
      <4>1. stage[c] # "idle" => TypeFor(ask[c]) \in Types
        BY Faces DEF TypeOK, InCall
      <4> QED BY <4>1 DEF TypeOK, Reprs
    <3>2. seen' \in [Clients -> SUBSET Reprs]
      BY <2>1, <3>1 DEF Change
    <3> QED BY <2>1, <3>2 DEF Change, call, TypeOK, InCall
  <2>2. CASE Tick
    BY <2>2, TimeAssumption DEF Tick, call, TypeOK, InCall
  <2>3. ASSUME NEW c \in Clients, NEW a \in Asks, NEW copy \in stored, Hit(c, a, copy)
        PROVE  TypeOK' /\ InCall'
    BY <2>3 DEF Hit, Judge, call, TypeOK, InCall
  <2>4. ASSUME NEW c \in Clients, NEW a \in Asks, Forward(c, a) PROVE TypeOK' /\ InCall'
    <3>1. Current(a) \in Reprs
      BY Faces DEF TypeOK
    <3>2. Tagged(a) \subseteq [etag : Etags, repr : Reprs]
      BY DEF Tagged, Copies, TypeOK
    <3>3. TypeOK'
      BY <2>4, <3>1, <3>2 DEF Forward, TypeOK
    <3>4. InCall'
      BY <2>4 DEF Forward, TypeOK, InCall
    <3> QED BY <3>3, <3>4
  <2>5. ASSUME NEW c \in Clients, NEW expiry \in Expiries, Answer(c, expiry)
        PROVE  TypeOK' /\ InCall'
    <3> DEFINE sends == SourceResp({tagged.etag : tagged \in held[c]}, Current(ask[c]), expiry)
    <3>1. ask[c] \in Asks
      BY <2>5 DEF Answer, InCall
    <3>2. Current(ask[c]) \in Reprs /\ EtagOf(Current(ask[c])) \in Etags
      BY <3>1, Faces DEF TypeOK, EtagOf, Etags, Reprs
    <3>3. CacheControl(expiry) \in Controls
      BY Kept, TimeAssumption DEF TypeOK
    <3>4. sends \in Resps /\ (sends.status = 200 => sends.repr \in Reprs)
      BY <3>2, <3>3 DEF SourceResp, Resps
    <3>5. promised' \in Deadlines \cup {0}
      <4>1. expiry.kind = "At" => expiry.at \in Deadlines
        BY DEF Expiries
      <4> QED BY <2>5, <4>1 DEF Answer, TypeOK
    <3>6. /\ resp' = [resp EXCEPT ![c] = sends] /\ stage' = [stage EXCEPT ![c] = "answering"]
          /\ UNCHANGED <<now, content, stored, ask, sent, held, seen, last>>
      BY <2>5 DEF Answer
    <3> HIDE DEF sends
    <3>7. TypeOK'
      BY <3>4, <3>5, <3>6 DEF TypeOK
    <3>8. InCall'
      BY <3>1, <3>4, <3>6 DEF TypeOK, InCall
    <3> QED BY <3>7, <3>8
  <2>6. ASSUME NEW c \in Clients, AnswerError(c) PROVE TypeOK' /\ InCall'
    BY <2>6, Ended DEF AnswerError, TypeOK
  <2>7. ASSUME NEW c \in Clients, Receive(c) \/ ReceiveConfirmation(c) PROVE TypeOK' /\ InCall'
    <3>1. /\ ask[c] \in Asks /\ resp[c] \in Resps
          /\ resp[c].status = 200 => resp[c].repr \in Reprs
      BY <2>7 DEF Receive, ReceiveConfirmation, InCall
    <3>2. Until(c) \in Nat
      <4>1. resp[c].control.maxAge \in Nat /\ sent[c] \in Nat
        BY <3>1, TimeAssumption DEF Resps, Controls, TypeOK
      <4>2. resp[c].control.maxAge * Second \in Nat
        BY <4>1, TimeAssumption
      <4> QED BY <4>1, <4>2 DEF Until
    <3>3. resp[c].status = 200 => CopyOf(c) \in Copies
      <4>1. ask[c].as \in Types \cup {None} /\ ask[c].accept \in Accepts
        BY <3>1, TypesAssumption DEF Asks
      <4>2. resp[c].vary \in BOOLEAN /\ resp[c].etag \in Etags
        BY <3>1 DEF Resps
      <4> QED BY <3>1, <3>2, <4>1, <4>2 DEF CopyOf, Copies
    <3>4. \A copy \in stored : [copy EXCEPT !.until = Until(c)] \in Copies
      BY <3>2 DEF Copies, TypeOK
    <3>5. stored' \subseteq Copies
      BY <2>7, <3>3, <3>4 DEF Receive, ReceiveConfirmation, TypeOK
    <3>6. last' \in [current : BOOLEAN, right : BOOLEAN]
      BY <2>7, Judged DEF Receive, ReceiveConfirmation
    <3> QED BY <2>7, <3>5, <3>6, Ended DEF Receive, ReceiveConfirmation
  <2>8. CASE UNCHANGED vars
    BY <2>8 DEF vars, call, TypeOK, InCall
  <2> QED BY <2>1, <2>2, <2>3, <2>4, <2>5, <2>6, <2>7, <2>8 DEF Next
<1> QED BY <1>1, <1>2, PTL DEF Spec

(* Every variable keeps its type, with a call's own between its two ends.      *)
THEOREM TypeCorrect == Spec => []TypeOK
BY Typed, PTL
-------------------------------------------------------------------------------
(* Another call's step leaves a call as honest as it was.                      *)
LEMMA Bystander ==
    ASSUME TypeOK, InCall, NEW d \in Clients, CallNamed(d), AnswerNamed(d),
           promised' \in Nat, promised' >= promised, UNCHANGED <<now, content>>,
           stage'[d] = stage[d], ask'[d] = ask[d], sent'[d] = sent[d],
           held'[d] = held[d], resp'[d] = resp[d], seen'[d] = seen[d]
    PROVE  CallNamed(d)' /\ AnswerNamed(d)'
<1>1. Until(d)' = Until(d)
  BY DEF Until
<1>2. stage[d] = "answering" => Until(d) \in Nat
  <2> SUFFICES ASSUME stage[d] = "answering" PROVE Until(d) \in Nat
    OBVIOUS
  <2>1. resp[d].control.maxAge \in Nat /\ sent[d] \in Nat
    BY TimeAssumption DEF InCall, Resps, Controls, TypeOK
  <2>2. resp[d].control.maxAge * Second \in Nat
    BY <2>1, TimeAssumption
  <2> QED BY <2>1, <2>2 DEF Until
<1>3. promised \in Nat
  BY TimeAssumption DEF TypeOK
<1>4. CallNamed(d)'
  BY DEF CallNamed, Current
<1>5. AnswerNamed(d)'
  BY <1>1, <1>2, <1>3 DEF AnswerNamed, IsCurrent
<1> QED BY <1>4, <1>5

(* The clock and a change of the resource make nothing dishonest: what is      *)
(* fresh was promised, so it did not change.                                   *)
LEMMA WorldHonest ==
    ASSUME TypeOK, InCall, Honest,
           Tick \/ \E new \in [Types -> Bytes] : Change(new)
    PROVE  Honest'
<1>1. promised \in Nat /\ now \in Nat /\ promised' = promised /\ now' \in Nat /\ now' >= now
  BY TimeAssumption DEF TypeOK, Tick, Change
<1>2. content' = content \/ now' >= promised
  BY DEF Tick, Change
<1>3. /\ stored' = stored
      /\ stage' = stage /\ ask' = ask /\ sent' = sent /\ held' = held /\ resp' = resp
  BY DEF Tick, Change, call
<1>4. CopiesNamed'
  BY <1>3 DEF Honest, CopiesNamed
<1>5. FreshIsCurrent'
  <2> SUFFICES ASSUME NEW copy \in stored
               PROVE  copy.until <= promised /\ (now' < copy.until => IsCurrent(copy.repr)')
    BY <1>1, <1>3 DEF FreshIsCurrent
  <2>1. copy.until \in Nat
    BY DEF TypeOK, Copies
  <2> QED BY <1>1, <1>2, <2>1 DEF Honest, FreshIsCurrent, IsCurrent
<1>6. ASSUME NEW c \in Clients PROVE CallNamed(c)' /\ AnswerNamed(c)'
  <2>1. seen[c] \subseteq seen'[c] /\ (stage[c] # "idle" => Current(ask[c])' \in seen'[c])
    <3>1. CASE Tick
      BY <3>1 DEF Tick, call, Honest, CallNamed, Current
    <3>2. ASSUME NEW new \in [Types -> Bytes], Change(new)
          PROVE  seen[c] \subseteq seen'[c] /\ (stage[c] # "idle" => Current(ask[c])' \in seen'[c])
      <4>1. /\ content' = new /\ ask' = ask
            /\ seen'[c] = IF stage[c] # "idle"
                THEN seen[c] \cup {[type |-> TypeFor(ask[c]), bytes |-> new[TypeFor(ask[c])]]}
                ELSE seen[c]
        BY <3>2 DEF Change, call
      <4> QED BY <4>1 DEF Current
    <3> QED BY <3>1, <3>2
  <2>2. CallNamed(c) /\ AnswerNamed(c)
    BY DEF Honest
  <2>3. CallNamed(c)'
    <3>1. sent[c] \in Nat
      BY TimeAssumption DEF TypeOK
    <3> QED BY <1>1, <1>3, <2>1, <2>2, <3>1 DEF CallNamed
  <2>4. AnswerNamed(c)'
    <3> SUFFICES ASSUME stage[c] = "answering"
                 PROVE  now' < Until(c) => IsCurrent(ReprOf(resp[c].etag))'
      BY <1>1, <1>3, <2>1, <2>2 DEF AnswerNamed, Until
    <3>1. resp[c].control.maxAge \in Nat /\ sent[c] \in Nat
      BY TimeAssumption DEF InCall, Resps, Controls, TypeOK
    <3>2. resp[c].control.maxAge * Second \in Nat
      BY <3>1, TimeAssumption
    <3>3. Until(c) \in Nat
      BY <3>1, <3>2 DEF Until
    <3> QED BY <1>1, <1>2, <1>3, <2>2, <3>3 DEF AnswerNamed, IsCurrent
  <2> QED BY <2>3, <2>4
<1> QED BY <1>4, <1>5, <1>6 DEF Honest

(* The server's answer is honest: its tag names what is current, and what it   *)
(* lets be kept was promised.                                                  *)
LEMMA AnswerHonest ==
    ASSUME TypeOK, InCall, Honest, NEW c \in Clients, NEW expiry \in Expiries, Answer(c, expiry)
    PROVE  Honest'
<1> DEFINE sends == SourceResp({tagged.etag : tagged \in held[c]}, Current(ask[c]), expiry)
<1>1. /\ stage[c] = "asking" /\ resp' = [resp EXCEPT ![c] = sends]
      /\ promised' = IF expiry.kind = "At" /\ expiry.at > promised THEN expiry.at ELSE promised
      /\ stage' = [stage EXCEPT ![c] = "answering"]
      /\ UNCHANGED <<now, content, stored, ask, sent, held, seen>>
  BY DEF Answer
<1>2. promised \in Nat /\ now \in Nat /\ sent[c] \in Nat
  BY TimeAssumption DEF TypeOK
<1>3. expiry.kind = "At" => expiry.at \in Nat
  BY TimeAssumption DEF Expiries
<1>4. promised' \in Nat /\ promised' >= promised /\ (expiry.kind = "At" => promised' >= expiry.at)
  BY <1>1, <1>2, <1>3
<1>5. CopiesNamed' /\ FreshIsCurrent'
  <2>1. \A copy \in stored : copy.until \in Nat
    BY DEF TypeOK, Copies
  <2> QED BY <1>1, <1>2, <1>4, <2>1 DEF Honest, CopiesNamed, FreshIsCurrent, IsCurrent
<1>6. CallNamed(c)'
  BY <1>1 DEF Honest, CallNamed, Current, TypeOK
<1>7. AnswerNamed(c)'
  <2>1. /\ sends.vary /\ sends.etag = EtagOf(Current(ask[c])) /\ sends.control = CacheControl(expiry)
        /\ sends.status = 200 => sends.repr = Current(ask[c])
    BY DEF SourceResp
  <2>2. /\ ReprOf(EtagOf(Current(ask[c]))) = Current(ask[c])
        /\ EtagOf(Current(ask[c]))[1] = TypeFor(ask[c]) /\ IsCurrent(Current(ask[c]))
    BY DEF ReprOf, EtagOf, Current, IsCurrent
  <2>3. Current(ask[c]) \in seen[c] /\ sent[c] <= now
    BY <1>1 DEF Honest, CallNamed
  <2>4. resp'[c] = sends
    BY <1>1 DEF TypeOK
  <2> HIDE DEF sends
  <2>5. Until(c)' <= promised'
    <3>1. Until(c)' = IF CacheControl(expiry).maxAge = 0 THEN 0
                      ELSE sent[c] + CacheControl(expiry).maxAge * Second
      BY <1>1, <2>1, <2>4 DEF Until
    <3>2. CASE CacheControl(expiry).maxAge = 0
      BY <3>1, <3>2, <1>4
    <3>3. CASE CacheControl(expiry).maxAge # 0
      <4>1. /\ CacheControl(expiry).maxAge \in Nat /\ expiry.kind = "At"
            /\ now + CacheControl(expiry).maxAge * Second <= expiry.at
        BY <3>3, <1>2, Kept DEF Controls
      <4>2. CacheControl(expiry).maxAge * Second \in Nat
        BY <4>1, TimeAssumption
      <4> QED BY <3>1, <3>3, <4>1, <4>2, <1>2, <1>3, <1>4, <2>3
    <3> QED BY <3>2, <3>3
  <2>6. IsCurrent(Current(ask[c]))'
    BY <1>1, <2>2 DEF IsCurrent, Current
  <2>7. Current(ask[c])' = Current(ask[c])
    BY <1>1 DEF Current
  <2>8. IsCurrent(ReprOf(resp[c].etag))'
    BY <1>1, <2>1, <2>2, <2>4 DEF IsCurrent, ReprOf
  <2> QED BY <1>1, <2>1, <2>2, <2>3, <2>4, <2>5, <2>8 DEF AnswerNamed
<1>8. ASSUME NEW d \in Clients, d # c PROVE CallNamed(d)' /\ AnswerNamed(d)'
  <2>1. stage'[d] = stage[d] /\ resp'[d] = resp[d]
    BY <1>1, <1>8 DEF TypeOK
  <2> QED BY <1>1, <1>4, <1>8, <2>1, Bystander DEF Honest
<1> QED BY <1>5, <1>6, <1>7, <1>8 DEF Honest
-------------------------------------------------------------------------------
(* Sent on, a call lists the tags of copies that bear them.                    *)
LEMMA ForwardHonest ==
    ASSUME TypeOK, InCall, Honest, NEW c \in Clients, NEW a \in Asks, Forward(c, a)
    PROVE  Honest'
<1>1. /\ stage' = [stage EXCEPT ![c] = "asking"] /\ ask' = [ask EXCEPT ![c] = a]
      /\ sent' = [sent EXCEPT ![c] = now] /\ held' = [held EXCEPT ![c] = Tagged(a)]
      /\ seen' = [seen EXCEPT ![c] = {Current(a)}]
      /\ UNCHANGED <<now, content, promised, stored, resp>>
  BY DEF Forward
<1>2. promised \in Nat /\ now \in Nat
  BY TimeAssumption DEF TypeOK
<1>3. CopiesNamed' /\ FreshIsCurrent'
  BY <1>1 DEF Honest, CopiesNamed, FreshIsCurrent, IsCurrent
<1>4. CallNamed(c)'
  <2>1. held'[c] = Tagged(a) /\ ask'[c] = a /\ sent'[c] = now /\ seen'[c] = {Current(a)}
    BY <1>1 DEF TypeOK
  <2>2. ASSUME NEW tagged \in Tagged(a) PROVE tagged.repr = ReprOf(tagged.etag)
    <3>1. PICK copy \in stored : tagged = [etag |-> copy.etag, repr |-> copy.repr]
      BY DEF Tagged
    <3>2. tagged.etag = copy.etag /\ tagged.repr = copy.repr
      BY <3>1
    <3>3. copy.repr = ReprOf(copy.etag)
      BY DEF Honest, CopiesNamed
    <3> QED BY <3>2, <3>3
  <2>3. Current(ask[c])' = Current(a)
    BY <1>1, <2>1 DEF Current
  <2>4. \A tagged \in held'[c] : tagged.repr = ReprOf(tagged.etag)
    BY <2>1, <2>2
  <2>5. Current(ask[c])' \in seen'[c] /\ sent'[c] <= now'
    BY <1>1, <1>2, <2>1, <2>3
  <2> QED BY <2>4, <2>5 DEF CallNamed, ReprOf
<1>5. AnswerNamed(c)'
  BY <1>1 DEF AnswerNamed, TypeOK
<1>6. ASSUME NEW d \in Clients, d # c PROVE CallNamed(d)' /\ AnswerNamed(d)'
  <2>1. /\ stage'[d] = stage[d] /\ ask'[d] = ask[d] /\ sent'[d] = sent[d]
        /\ held'[d] = held[d] /\ resp'[d] = resp[d] /\ seen'[d] = seen[d]
    BY <1>1, <1>6 DEF TypeOK
  <2>2. CallNamed(d) /\ AnswerNamed(d)
    BY DEF Honest
  <2>3. promised' \in Nat /\ promised' >= promised
    BY <1>1, <1>2
  <2> QED BY <1>1, <2>1, <2>2, <2>3, Bystander
<1> QED BY <1>3, <1>4, <1>5, <1>6 DEF Honest

(* A call that ends leaves the others as they were.                            *)
LEMMA EndHonest ==
    ASSUME TypeOK, InCall, Honest, NEW c \in Clients, Ends(c), CopiesNamed', FreshIsCurrent'
    PROVE  Honest'
<1>1. promised \in Nat /\ promised' = promised /\ UNCHANGED <<now, content>>
  BY TimeAssumption DEF TypeOK, Ends
<1>2. CallNamed(c)' /\ AnswerNamed(c)'
  <2>1. stage'[c] = "idle" /\ held'[c] = {}
    BY DEF Ends, TypeOK
  <2> QED BY <2>1 DEF CallNamed, AnswerNamed
<1>3. ASSUME NEW d \in Clients, d # c PROVE CallNamed(d)' /\ AnswerNamed(d)'
  <2>1. /\ stage'[d] = stage[d] /\ ask'[d] = ask[d] /\ sent'[d] = sent[d]
        /\ held'[d] = held[d] /\ resp'[d] = resp[d] /\ seen'[d] = seen[d]
    BY <1>3 DEF Ends, TypeOK
  <2> QED BY <1>1, <2>1, Bystander DEF Honest
<1> QED BY <1>2, <1>3 DEF Honest

(* What a 200 leaves behind is a copy of what it carried.                      *)
LEMMA ReceiveHonest ==
    ASSUME TypeOK, InCall, Honest, NEW c \in Clients, Receive(c)
    PROVE  Honest'
<1>1. AnswerNamed(c) /\ stage[c] = "answering" /\ resp[c].status = 200 /\ Ends(c)
      /\ UNCHANGED <<now, content, promised>>
  BY DEF Receive, Ends, Honest
<1>2. \A copy \in stored' : copy \in stored \/ copy = CopyOf(c)
  BY DEF Receive
<1>3. CopyOf(c).vary /\ CopyOf(c).repr = ReprOf(CopyOf(c).etag)
      /\ CopyOf(c).repr.type = TypeFor([as |-> CopyOf(c).as, accept |-> CopyOf(c).accept])
  <2>1. CopyOf(c).vary /\ CopyOf(c).repr = ReprOf(CopyOf(c).etag)
    BY <1>1 DEF AnswerNamed, CopyOf
  <2>2. CopyOf(c).repr.type = TypeFor(ask[c])
    BY <1>1 DEF AnswerNamed, CopyOf, ReprOf
  <2>3. TypeFor([as |-> ask[c].as, accept |-> ask[c].accept]) = TypeFor(ask[c])
    BY DEF TypeFor, As
  <2> QED BY <2>1, <2>2, <2>3 DEF CopyOf
<1>4. CopyOf(c).until <= promised /\ (now < CopyOf(c).until => IsCurrent(CopyOf(c).repr))
  BY <1>1 DEF AnswerNamed, CopyOf
<1>5. CopiesNamed'
  BY <1>2, <1>3 DEF Honest, CopiesNamed
<1>6. FreshIsCurrent'
  BY <1>1, <1>2, <1>4 DEF Honest, FreshIsCurrent, IsCurrent
<1> QED BY <1>1, <1>5, <1>6, EndHonest

(* What a 304 renews bears the tag of what is current.                         *)
LEMMA ConfirmHonest ==
    ASSUME TypeOK, InCall, Honest, NEW c \in Clients, ReceiveConfirmation(c)
    PROVE  Honest'
<1>1. AnswerNamed(c) /\ stage[c] = "answering" /\ Ends(c)
      /\ UNCHANGED <<now, content, promised>>
  BY DEF ReceiveConfirmation, Ends, Honest
<1>2. \A copy \in stored' : copy \in stored \/
          \E old \in stored : old.etag = resp[c].etag /\ copy = [old EXCEPT !.until = Until(c)]
  BY DEF ReceiveConfirmation, Confirmed
<1>3. ASSUME NEW old \in stored
      PROVE  LET copy == [old EXCEPT !.until = Until(c)]
             IN  /\ copy.until = Until(c) /\ copy.as = old.as /\ copy.accept = old.accept
                 /\ copy.vary = old.vary /\ copy.repr = old.repr /\ copy.etag = old.etag
  BY DEF TypeOK, Copies
<1>4. CopiesNamed'
  <2> SUFFICES ASSUME NEW copy \in stored'
               PROVE  copy.vary /\ copy.repr = ReprOf(copy.etag)
                      /\ copy.repr.type = TypeFor([as |-> copy.as, accept |-> copy.accept])
    BY DEF CopiesNamed, ReprOf, TypeFor, As
  <2>1. PICK old \in stored : /\ copy.vary = old.vary /\ copy.repr = old.repr
                             /\ copy.etag = old.etag
                             /\ copy.as = old.as /\ copy.accept = old.accept
    <3>1. CASE copy \in stored
      BY <3>1
    <3>2. ASSUME NEW old \in stored, copy = [old EXCEPT !.until = Until(c)]
          PROVE  \E k \in stored : /\ copy.vary = k.vary /\ copy.repr = k.repr
                                   /\ copy.etag = k.etag
                                   /\ copy.as = k.as /\ copy.accept = k.accept
      BY <3>2, <1>3
    <3> QED BY <1>2, <3>1, <3>2
  <2> QED BY <2>1 DEF Honest, CopiesNamed
<1>5. FreshIsCurrent'
  <2> SUFFICES ASSUME NEW copy \in stored'
               PROVE  copy.until <= promised /\ (now < copy.until => IsCurrent(copy.repr))
    BY <1>1 DEF FreshIsCurrent, IsCurrent
  <2>1. CASE copy \in stored
    BY <2>1 DEF Honest, FreshIsCurrent
  <2>2. ASSUME NEW old \in stored, old.etag = resp[c].etag, copy = [old EXCEPT !.until = Until(c)]
        PROVE  copy.until <= promised /\ (now < copy.until => IsCurrent(copy.repr))
    <3>1. old.repr = ReprOf(resp[c].etag)
      BY <2>2 DEF Honest, CopiesNamed
    <3>2. copy.until = Until(c) /\ copy.repr = old.repr
      BY <2>2, <1>3
    <3> QED BY <3>1, <3>2, <1>1 DEF AnswerNamed
  <2> QED BY <1>2, <2>1, <2>2
<1> QED BY <1>1, <1>4, <1>5, EndHonest

(* The cache and the calls stay honest. *)
LEMMA AlwaysHonest == Spec => []Honest
<1>1. Init => Honest
  BY DEF Init, Honest, CopiesNamed, FreshIsCurrent, CallNamed, AnswerNamed
<1>2. TypeOK /\ InCall /\ Honest /\ [Next]_vars => Honest'
  <2> SUFFICES ASSUME TypeOK, InCall, Honest, [Next]_vars PROVE Honest'
    OBVIOUS
  <2>1. CASE Tick \/ \E new \in [Types -> Bytes] : Change(new)
    BY <2>1, WorldHonest
  <2>2. ASSUME NEW c \in Clients, NEW a \in Asks, NEW copy \in stored, Hit(c, a, copy)
        PROVE  Honest'
    BY <2>2 DEF Hit, call, Honest, CopiesNamed, FreshIsCurrent, CallNamed, AnswerNamed,
                IsCurrent, Current, Until
  <2>3. ASSUME NEW c \in Clients, NEW a \in Asks, Forward(c, a) PROVE Honest'
    BY <2>3, ForwardHonest
  <2>4. ASSUME NEW c \in Clients, NEW expiry \in Expiries, Answer(c, expiry) PROVE Honest'
    BY <2>4, AnswerHonest
  <2>5. ASSUME NEW c \in Clients, AnswerError(c) PROVE Honest'
    <3>1. Ends(c) /\ UNCHANGED <<now, content, promised, stored>>
      BY <2>5 DEF AnswerError, Ends
    <3>2. CopiesNamed' /\ FreshIsCurrent'
      BY <3>1 DEF Honest, CopiesNamed, FreshIsCurrent, IsCurrent
    <3> QED BY <3>1, <3>2, EndHonest
  <2>6. ASSUME NEW c \in Clients, Receive(c) \/ ReceiveConfirmation(c) PROVE Honest'
    BY <2>6, ReceiveHonest, ConfirmHonest
  <2>7. CASE UNCHANGED vars
    BY <2>7 DEF vars, call, Honest, CopiesNamed, FreshIsCurrent, CallNamed, AnswerNamed,
                IsCurrent, Current, Until
  <2> QED BY <2>1, <2>2, <2>3, <2>4, <2>5, <2>6, <2>7 DEF Next
<1> QED BY <1>1, <1>2, Typed, PTL DEF Spec

(* What was given last was current during its call, and of the right face.     *)
Right == last.current /\ last.right

LEMMA JudgedRight ==
    ASSUME NEW a, NEW repr, NEW current, Judge(a, repr, current),
           repr \in current, repr.type = TypeFor(a)
    PROVE  Right'
<1>1. (repr \in current) = TRUE /\ (repr.type = TypeFor(a)) = TRUE
  OBVIOUS
<1>2. last' = [current |-> TRUE, right |-> TRUE]
  BY <1>1 DEF Judge
<1> QED BY <1>2 DEF Right

(* What is given is current and of the right face, whatever it is given from.  *)
LEMMA GivenRight == TypeOK /\ InCall /\ Honest /\ Right /\ [Next]_vars => Right'
<1> SUFFICES ASSUME TypeOK, InCall, Honest, Right, [Next]_vars PROVE Right'
  OBVIOUS
<1>1. ASSUME NEW c \in Clients, NEW a \in Asks, NEW copy \in stored, Hit(c, a, copy)
      PROVE  Right'
  <2>1. copy.vary /\ copy.as = a.as /\ copy.accept = a.accept
    BY <1>1 DEF Hit, Matches, SameUrl, Honest, CopiesNamed
  <2>2. TypeFor([as |-> copy.as, accept |-> copy.accept]) = TypeFor(a)
    BY <2>1 DEF TypeFor, As
  <2>3. copy.repr = ReprOf(copy.etag) /\ copy.repr.type = TypeFor(a)
    BY <2>2 DEF Honest, CopiesNamed
  <2>4. IsCurrent(copy.repr)
    BY <1>1 DEF Hit, Honest, FreshIsCurrent
  <2>5. copy.repr = Current(a)
    BY <2>3, <2>4 DEF ReprOf, IsCurrent, Current
  <2> QED BY <1>1, <2>3, <2>5, JudgedRight DEF Hit
<1>2. ASSUME NEW c \in Clients, Receive(c) PROVE Right'
  <2>1. AnswerNamed(c) /\ stage[c] = "answering" /\ resp[c].status = 200
        /\ Judge(ask[c], resp[c].repr, seen[c])
    BY <1>2 DEF Receive, Honest
  <2>2. resp[c].repr \in seen[c] /\ resp[c].repr.type = TypeFor(ask[c])
    BY <2>1 DEF AnswerNamed, ReprOf
  <2> QED BY <2>1, <2>2, JudgedRight
<1>3. ASSUME NEW c \in Clients, ReceiveConfirmation(c) PROVE Right'
  <2>1. AnswerNamed(c) /\ CallNamed(c) /\ stage[c] = "answering"
    BY <1>3 DEF ReceiveConfirmation, Honest
  <2>2. PICK tagged \in held[c] :
            tagged.etag = resp[c].etag /\ Judge(ask[c], tagged.repr, seen[c])
    BY <1>3 DEF ReceiveConfirmation
  <2>3. tagged.repr = ReprOf(resp[c].etag)
    BY <2>1, <2>2 DEF CallNamed
  <2>4. tagged.repr \in seen[c] /\ tagged.repr.type = TypeFor(ask[c])
    BY <2>1, <2>3 DEF AnswerNamed, ReprOf
  <2> QED BY <2>2, <2>4, JudgedRight
<1>4. ASSUME last' = last PROVE Right'
  BY <1>4 DEF Right
<1> QED BY <1>1, <1>2, <1>3, <1>4 DEF Next, Change, Tick, Forward, Answer, AnswerError, vars

LEMMA AlwaysRight == Spec => []Right
<1>1. Init => Right
  BY DEF Init, Right
<1> QED BY <1>1, GivenRight, Typed, AlwaysHonest, PTL DEF Spec

(* A client is given only what was current during its call.                    *)
THEOREM NeverEverStale == Spec => []NeverStale
<1>1. Right => NeverStale
  BY DEF Right, NeverStale
<1> QED BY <1>1, AlwaysRight, PTL

(* A client is given the face that its own URL and Accept header choose.       *)
THEOREM AlwaysRightFace == Spec => []RightFace
<1>1. Right => RightFace
  BY DEF Right, RightFace
<1> QED BY <1>1, AlwaysRight, PTL
===============================================================================

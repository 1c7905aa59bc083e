------------------------------ MODULE ShellProofs ------------------------------
(* Theorems of Shell, for any views and any number of deeds.                   *)
EXTENDS Shell, SequenceTheorems, TLAPS

(* One load of the body is in flight at a time, and one is held back only      *)
(* behind it.                                                                  *)
OneLoad ==
    /\ queued # None => Loading
    /\ \A r, s \in flight : r.from = s.from /\ r.from # "control" => r = s

(* Until the first view is in, nothing is named, pressed or focused.           *)
Unopened ==
    first => /\ named = None /\ shown \in {"loading", "note", "missing"} /\ focus = "page"
             /\ \A r \in flight : r.from # "control"

(* A 404 asks for nothing. *)
Silent == shown = "missing" => flight = {}

LoadShows == \A r \in flight : r.from = "load" => shown # "note"

(* The view of the address is on its way. *)
PopPending ==
    \/ queued # None /\ queued.view = Here.view
    \/ \E r \in flight : r.from = "popstate" /\ r.view = Here.view
LoadPending == \E r \in flight : r.from = "load" /\ r.view = Here.view

(* The page is titled with the view of the address. *)
Names(url) == named # None /\ named.view = url.view

(* The address is the view named, or its view is on its way, or it was refused:*)
(* what InStep says of a page at rest, of every page but a 404.                *)
OnTheWay ==
    IF shown = "missing" THEN TRUE ELSE
    IF first
    THEN /\ Loading => PopPending \/ (failed /\ topNote)
         /\ PopPending \/ LoadPending \/ (failed /\ (topNote \/ shown = "note"))
    ELSE Names(Here) \/ PopPending \/ (failed /\ topNote)

(* No address, no request and no load held back names a view by an escaped     *)
(* word, where the session did not begin at one.                               *)
Unescaped ==
    entries[1].spelling \in {"own", "other"} =>
        /\ \A i \in DOMAIN entries : entries[i].spelling \in {"own", "other"}
        /\ \A r \in flight : r.escaped = FALSE
        /\ queued # None => queued.escaped = FALSE
        /\ shown # "missing"

(* What is still to be spoken ends with the refusal owed, if its control was   *)
(* on the page, and nothing is spoken or to be spoken where none is owed.      *)
LastOwed ==
    IF owed = None THEN spoken = None /\ timers = <<>>
    ELSE owed.attached /\ timers # <<>> => timers[Len(timers)] = owed.view

-------------------------------------------------------------------------------
(* What the history is once a view is pushed after the entry shown.            *)
LEMMA Pushed ==
    ASSUME entries \in Seq(Urls), pos \in DOMAIN entries, NEW url \in Urls
    PROVE  LET new == Append(SubSeq(entries, 1, pos), url)
           IN  /\ new \in Seq(Urls) /\ Len(new) = pos + 1 /\ new[pos + 1] = url
               /\ \A i \in 1..pos : new[i] = entries[i]
<1>1. pos \in 1..Len(entries)
  OBVIOUS
<1>2. /\ SubSeq(entries, 1, pos) \in Seq(Urls) /\ Len(SubSeq(entries, 1, pos)) = pos
      /\ \A i \in 1..pos : SubSeq(entries, 1, pos)[i] = entries[i]
  BY <1>1, SubSeqProperties
<1> QED BY <1>2, <1>1, AppendProperties

(* An entry is a page URL, and names a view. *)
LEMMA Entry ==
    ASSUME entries \in Seq(Urls), NEW p \in DOMAIN entries
    PROVE  /\ entries[p] \in Urls /\ entries[p].view \in Views
           /\ WordOf(entries[p]) \in Words /\ WordOf(entries[p]).view = entries[p].view
           /\ WordOf(entries[p]) # None
<1>1. p \in 1..Len(entries) /\ entries[p] \in Urls
  OBVIOUS
<1>2. entries[p].view \in Views
  BY <1>1 DEF Urls
<1>3. WordOf(entries[p]) \in Words /\ WordOf(entries[p]).view = entries[p].view
  BY <1>2 DEF WordOf, Words
<1> QED BY <1>1, <1>2, <1>3, NoneAssumption

(* What `viewOf` writes is a page URL of the view.                             *)
LEMMA Written ==
    ASSUME NEW r \in Requests, r.view # Form
    PROVE  /\ Word(r) \in Words /\ Word(r).view = r.view /\ Word(r) # None
           /\ UrlOf(Word(r)) \in Urls /\ UrlOf(Word(r)).view = r.view
           /\ r.escaped = FALSE => UrlOf(Word(r)).spelling = "own"
<1>1. r.view \in Views /\ r.escaped \in BOOLEAN
  BY DEF Requests
<1>2. Word(r) \in Words /\ Word(r).view = r.view /\ Word(r).escaped = r.escaped
  BY <1>1 DEF Word, Words
<1> QED BY <1>1, <1>2, NoneAssumption DEF UrlOf, Urls

(* What asks is a request, of its word. *)
LEMMA Asked ==
    /\ \A w \in Words, from \in {"load", "popstate"} :
            /\ Asks(from, w) \in Requests /\ Asks(from, w).from = from
            /\ Asks(from, w).view = w.view /\ Asks(from, w).escaped = w.escaped
    /\ \A v \in Views \cup {Form} :
            /\ Asks("control", Plain(v)) \in Requests
            /\ Asks("control", Plain(v)).from = "control"
            /\ Asks("control", Plain(v)).escaped = FALSE
    /\ \A v \in Views : Plain(v) \in Words /\ Plain(v).view = v /\ Plain(v).escaped = FALSE
BY DEF Asks, Plain, Words, Requests

(* The region's own load, if the page has one, is of the view of the address.  *)
LEMMA Opens ==
    ASSUME NEW url \in Urls
    PROVE  /\ OwnLoad(url) \subseteq Requests
           /\ \A r, s \in OwnLoad(url) : r = s
           /\ \A r \in OwnLoad(url) :
                r.from = "load" /\ r.view = url.view /\ r.escaped = FALSE
           /\ IF Found(url) THEN OwnLoad(url) # {} /\ Opened(url) = "loading"
              ELSE OwnLoad(url) = {} /\ Opened(url) = "missing"
<1>1. url.view \in Views
  BY DEF Urls
<1> QED BY <1>1, Asked DEF OwnLoad, Opened

(* A request that ends leaves requests behind, and so does a swap.             *)
LEMMA Leftover ==
    ASSUME TypeOK, NEW r \in flight
    PROVE  /\ Remaining(r) \subseteq Requests /\ Released(r) \in Words \cup {None}
           /\ Detached(Remaining(r)) \subseteq Requests
<1>1. Remaining(r) \subseteq Requests
  BY Asked DEF TypeOK, Remaining
<1>2. ASSUME NEW q \in Requests
      PROVE  (IF q.from = "control" THEN [q EXCEPT !.attached = FALSE] ELSE q) \in Requests
  BY DEF Requests
<1> QED BY <1>1, <1>2 DEF TypeOK, Released, Detached

(* Every variable of the page keeps its type. *)
THEOREM TypeCorrect == Spec => []TypeOK
<1>1. Init => TypeOK
  <2> SUFFICES ASSUME Init PROVE TypeOK
    OBVIOUS
  <2>1. PICK url \in Urls : entries = <<url>>
    BY DEF Init
  <2>2. entries \in Seq(Urls) /\ Len(entries) = 1 /\ entries[1] \in Urls
    BY <2>1
  <2>3. Here \in Urls
    BY <2>2 DEF Init, Here
  <2>4. flight \subseteq Requests /\ shown \in {"loading", "missing"}
    BY <2>3, Opens DEF Init
  <2>5. timers \in Seq(Views \cup {Form})
    BY DEF Init
  <2>6. pos \in DOMAIN entries /\ deeds \in 0..MaxDeeds
    BY <2>2, DeedsAssumption DEF Init
  <2> QED BY <2>2, <2>4, <2>5, <2>6 DEF Init, TypeOK
<1>2. TypeOK /\ [Next]_vars => TypeOK'
  <2> SUFFICES ASSUME TypeOK, [Next]_vars PROVE TypeOK'
    OBVIOUS
  <2> USE DEF TypeOK
  <2>h. Here \in Urls /\ Here.view \in Views
    BY Entry DEF Here
  <2>1. ASSUME NEW v \in Views \cup {Form}, Press(v) PROVE TypeOK'
    <3> QED BY <2>1, Asked, DeedsAssumption DEF Press, Does, address, notes
  <2>2. CASE Reload
    <3>1. <<>> \in Seq(Views \cup {Form})
      OBVIOUS
    <3>2. deeds' \in 0..MaxDeeds
      BY <2>2, DeedsAssumption DEF Reload, Does
    <3>3. flight' \subseteq Requests /\ shown' \in {"loading", "missing"}
      BY <2>2, <2>h, Opens DEF Reload, FreshPage
    <3> QED BY <2>2, <3>1, <3>2, <3>3 DEF Reload, FreshPage, Does, address
  <2>3. ASSUME NEW p \in DOMAIN entries,
               GoHome(p) \/ GoLoads(p) \/ GoQueues(p) \/ GoUnscripted(p)
        PROVE  TypeOK'
    <3>1. WordOf(entries[p]) \in Words
      BY Entry
    <3>2. deeds' \in 0..MaxDeeds
      BY <2>3, DeedsAssumption DEF GoHome, GoLoads, GoQueues, GoUnscripted, GoTo, Does
    <3>3. flight' \subseteq Requests /\ queued' \in Words \cup {None}
      BY <2>3, <3>1, Asked DEF GoHome, GoLoads, GoQueues, GoUnscripted, GoTo, net
    <3>4. /\ pos' = p /\ failed' = FALSE
          /\ UNCHANGED <<entries, page, notes>>
      BY <2>3 DEF GoHome, GoLoads, GoQueues, GoUnscripted, GoTo
    <3>5. entries' \in Seq(Urls) /\ pos' \in DOMAIN entries' /\ failed' \in BOOLEAN
      BY <3>4
    <3>6. UNCHANGED <<named, shown, first, focus, disabled, topNote, spoken, timers, owed>>
      BY <3>4 DEF page, notes
    <3> QED BY <3>2, <3>3, <3>5, <3>6
  <2>4. ASSUME NEW r \in flight, ShowView(r) \/ ShowResult(r) PROVE TypeOK'
    <3>1. r.view \in Views \cup {Form} /\ r.from \in {"load", "popstate", "control"}
      BY DEF Requests
    <3>2. /\ flight' \subseteq Requests /\ queued' \in Words \cup {None}
          /\ focus' \in {"page", "control", "heading", "lost"}
      BY <2>4, Leftover DEF ShowView, ShowResult, Swap, FocusAfter, Unfocused
    <3>3. entries' \in Seq(Urls) /\ pos' \in DOMAIN entries'
      <4>1. CASE UNCHANGED address
        BY <4>1 DEF address
      <4>2. CASE /\ r.view # Form
                 /\ entries' = Append(SubSeq(entries, 1, pos), UrlOf(Word(r)))
                 /\ pos' = pos + 1
        <5>1. UrlOf(Word(r)) \in Urls
          BY <4>2, Written
        <5> QED BY <5>1, <4>2, Pushed
      <4> QED BY <2>4, <4>1, <4>2 DEF ShowView, ShowResult
    <3>4. named' \in Words \cup {None}
      BY <2>4, Written DEF ShowView, ShowResult
    <3> QED BY <2>4, <3>1, <3>2, <3>3, <3>4 DEF ShowView, ShowResult, Swap, notes
  <2>5. ASSUME NEW r \in flight, NEW forbidden \in BOOLEAN,
               RefuseLoad(r) \/ RefusePopstate(r) \/ RefuseDetached(r) \/ RefuseControl(r, forbidden)
        PROVE  TypeOK'
    <3>1. r.view \in Views \cup {Form}
      BY DEF Requests
    <3>2. /\ Remaining(r) \subseteq Requests /\ Released(r) \in Words \cup {None}
          /\ Detached(Remaining(r)) \subseteq Requests
      BY Leftover
    <3>3. Append(timers, r.view) \in Seq(Views \cup {Form})
      BY <3>1
    <3>4. UNCHANGED address /\ UNCHANGED <<named, first, deeds>>
      BY <2>5 DEF RefuseLoad, RefusePopstate, RefuseDetached, RefuseControl, Refuse
    <3>5. /\ flight' \subseteq Requests /\ queued' \in Words \cup {None} /\ failed' \in BOOLEAN
          /\ owed' \in Requests \cup {None}
      BY <2>5, <3>2 DEF RefuseLoad, RefusePopstate, RefuseDetached, RefuseControl, Refuse
    <3>6. /\ shown' \in Views \cup {"loading", "note", "result", "missing"}
          /\ focus' \in {"page", "control", "heading", "lost"}
          /\ disabled' \subseteq Views \cup {Form}
      BY <2>5, <3>1 DEF RefuseLoad, RefusePopstate, RefuseDetached, RefuseControl, Unfocused
    <3>7. /\ topNote' \in BOOLEAN /\ spoken' \in Views \cup {Form, None}
          /\ timers' \in Seq(Views \cup {Form})
      BY <2>5, <3>1, <3>3 DEF RefuseLoad, RefusePopstate, RefuseDetached, RefuseControl,
            Announce, notes
    <3> QED BY <3>4, <3>5, <3>6, <3>7 DEF address
  <2>6. CASE Speak
    BY <2>6 DEF Speak, address, page, net
  <2>7. CASE UNCHANGED vars
    BY <2>7 DEF vars, address, page, net, notes
  <2> QED BY <2>1, <2>2, <2>3, <2>4, <2>5, <2>6, <2>7 DEF Next
<1> QED BY <1>1, <1>2, PTL DEF Spec

-------------------------------------------------------------------------------
(* Once no timer is left the region says the last refusal of what was asked    *)
(* through something that is still on the page: the timers fire in order, and  *)
(* the last of them is for it; and a load's own refusal sets none.             *)
THEOREM AlwaysSpokenIsAsked == Spec => []SpokenIsAsked
<1> DEFINE Inv == SpokenIsAsked /\ LastOwed
<1>1. Init => Inv
  BY DEF Init, SpokenIsAsked, LastOwed
<1>2. TypeOK /\ Inv /\ [Next]_vars => Inv'
  <2> SUFFICES ASSUME TypeOK, Inv, [Next]_vars PROVE Inv'
    OBVIOUS
  <2> USE DEF SpokenIsAsked, LastOwed
  <2>1. CASE UNCHANGED <<spoken, timers, owed>>
    BY <2>1
  <2>2. CASE spoken' = None /\ timers' = <<>> /\ owed' = None
    BY <2>2
  <2>3. ASSUME NEW r \in flight, timers' = Append(timers, r.view), owed' = r PROVE Inv'
    <3>1. r.view \in Views \cup {Form} /\ r # None
      BY NoneAssumption DEF TypeOK, Requests
    <3>2. timers' # <<>> /\ timers'[Len(timers')] = r.view
      BY <2>3, <3>1, AppendProperties DEF TypeOK
    <3> QED BY <3>1, <3>2, <2>3
  <2>4. ASSUME NEW r \in flight, ~r.attached, owed' = r, UNCHANGED <<spoken, timers>> PROVE Inv'
    <3>1. r # None
      BY NoneAssumption DEF TypeOK
    <3> QED BY <3>1, <2>4
  <2>5. CASE Speak
    <3>1. timers' = Tail(timers) /\ spoken' = Head(timers) /\ owed' = owed /\ timers # <<>>
      BY <2>5 DEF Speak
    <3>2. /\ Len(timers) \in Nat /\ Len(timers) # 0 /\ Len(timers') = Len(timers) - 1
          /\ Head(timers) = timers[1]
          /\ \A i \in 1..Len(timers') : timers'[i] = timers[i + 1]
      BY <3>1, HeadTailProperties DEF TypeOK
    <3>3. CASE Len(timers) = 1
      <4>1. timers' = <<>>
        BY <3>1, <3>2, <3>3, EmptySeq, HeadTailProperties DEF TypeOK
      <4>2. owed # None /\ (owed.attached => spoken' = owed.view)
        BY <3>1, <3>2, <3>3
      <4> QED BY <4>1, <4>2, <3>1
    <3>4. CASE Len(timers) # 1
      <4>1. Len(timers') \in 1..Len(timers') /\ Len(timers') + 1 = Len(timers)
        BY <3>2, <3>4
      <4>2. timers'[Len(timers')] = timers[Len(timers)] /\ timers' # <<>>
        BY <4>1, <3>2, EmptySeq
      <4> QED BY <4>2, <3>1
    <3> QED BY <3>3, <3>4
  <2>6. \/ UNCHANGED <<spoken, timers, owed>>
        \/ spoken' = None /\ timers' = <<>> /\ owed' = None
        \/ Speak
        \/ \E r \in flight : timers' = Append(timers, r.view) /\ owed' = r
        \/ \E r \in flight : ~r.attached /\ owed' = r /\ UNCHANGED <<spoken, timers>>
    <3>1. ASSUME NEW r \in flight, NEW forbidden \in BOOLEAN,
                 RefusePopstate(r) \/ RefuseControl(r, forbidden)
          PROVE  timers' = Append(timers, r.view) /\ owed' = r
      BY <3>1 DEF RefusePopstate, RefuseControl, Refuse, Announce
    <3>2. ASSUME NEW r \in flight, RefuseDetached(r)
          PROVE  ~r.attached /\ owed' = r /\ UNCHANGED <<spoken, timers>>
      <4>1. r.from # "load"
        BY <3>2 DEF RefuseDetached, TypeOK, Requests
      <4> QED BY <3>2, <4>1 DEF RefuseDetached, Refuse
    <3>3. ASSUME NEW r \in flight, RefuseLoad(r) PROVE UNCHANGED <<spoken, timers, owed>>
      BY <3>3 DEF RefuseLoad, Refuse
    <3>4. CASE \/ \E v \in Views \cup {Form} : Press(v)
               \/ \E p \in DOMAIN entries :
                    GoHome(p) \/ GoLoads(p) \/ GoQueues(p) \/ GoUnscripted(p)
               \/ \E r \in flight : ShowView(r) \/ ShowResult(r)
               \/ UNCHANGED vars
      BY <3>4 DEF vars, notes, Press, GoHome, GoLoads, GoQueues, GoUnscripted, GoTo,
              ShowView, ShowResult, Swap
    <3>5. CASE Reload
      BY <3>5 DEF Reload, FreshPage
    <3> QED BY <3>1, <3>2, <3>3, <3>4, <3>5 DEF Next
  <2> QED BY <2>1, <2>2, <2>3, <2>4, <2>5, <2>6
<1> QED BY <1>1, <1>2, TypeCorrect, PTL DEF Spec

-------------------------------------------------------------------------------
(* What is in flight once r has ended: of the requests that are not controls,  *)
(* the others and the one that was held back.                                  *)
Held == Asks("popstate", queued)
Releases(r) == r.from = "popstate" /\ queued # None

LEMMA AfterEnd ==
    ASSUME TypeOK, NEW r \in flight, NEW left \in {Remaining(r), Detached(Remaining(r))}
    PROVE  /\ \A q \in left : q.from # "control" => (q \in flight /\ q # r) \/ (Releases(r) /\ q = Held)
           /\ \A q \in flight : q # r /\ q.from # "control" => q \in left
           /\ Releases(r) => Held \in left
           /\ (\E q \in left : q.from = "control") => \E q \in flight : q.from = "control"
<1>1. Held.from # "control" /\ Held.from = "popstate"
  BY DEF Held, Asks
<1>2. Remaining(r) = (flight \ {r}) \cup (IF Releases(r) THEN {Held} ELSE {})
  BY DEF Remaining, Releases, Held
<1>3. CASE left = Remaining(r)
  BY <1>1, <1>2, <1>3
<1>4. CASE left = Detached(Remaining(r))
  <2>1. ASSUME NEW q \in Remaining(r), q.from = "control"
        PROVE  [q EXCEPT !.attached = FALSE].from = "control"
    <3>1. q \in Requests
      BY Leftover
    <3> QED BY <3>1, <2>1 DEF Requests
  <2>2. ASSUME NEW q \in left
        PROVE  \/ q.from # "control" /\ q \in Remaining(r)
               \/ q.from = "control" /\ \E p \in Remaining(r) : p.from = "control"
    <3>1. PICK p \in Remaining(r) :
              q = IF p.from = "control" THEN [p EXCEPT !.attached = FALSE] ELSE p
      BY <1>4 DEF Detached
    <3> QED BY <3>1, <2>1
  <2>3. \A q \in Remaining(r) : q.from # "control" => q \in left
    BY <1>4 DEF Detached
  <2> QED BY <1>1, <1>2, <2>2, <2>3
<1> QED BY <1>3, <1>4

(* A swap leaves what Detached(Remaining(r)) says, a refusal one of the two.   *)
LEMMA Ends ==
    ASSUME NEW r \in flight, NEW forbidden \in BOOLEAN,
           \/ ShowView(r) \/ ShowResult(r) \/ RefuseLoad(r) \/ RefusePopstate(r)
           \/ RefuseDetached(r) \/ RefuseControl(r, forbidden)
    PROVE  flight' \in {Remaining(r), Detached(Remaining(r))} /\ queued' = Released(r)
BY DEF ShowView, ShowResult, Swap, RefuseLoad, RefusePopstate, RefuseDetached, RefuseControl,
       Refuse

Opening == OneLoad /\ Unopened /\ LoadShows /\ Silent

(* The facts about the requests in flight that the address relies on.          *)
LEMMA AlwaysOpening == Spec => []Opening
<1>1. Init => Opening
  <2> SUFFICES ASSUME Init PROVE Opening
    OBVIOUS
  <2>1. Here \in Urls
    BY DEF Init, Here
  <2> QED BY <2>1, Opens DEF Init, Opening, OneLoad, Unopened, LoadShows, Silent
<1>2. TypeOK /\ Opening /\ [Next]_vars => Opening'
  <2> SUFFICES ASSUME TypeOK, Opening, [Next]_vars PROVE Opening'
    OBVIOUS
  <2> USE DEF Opening, OneLoad, Unopened, LoadShows, Silent, Loading
  <2>1. ASSUME NEW v \in Views \cup {Form}, Press(v) PROVE Opening'
    <3>1. ~first
      <4>1. shown \in Views /\ named' = named
        BY <2>1 DEF Press
      <4> QED BY <4>1, NamesAssumption DEF TypeOK
    <3>2. shown # "missing"
      <4>1. shown \in Views
        BY <2>1 DEF Press
      <4> QED BY <4>1, NamesAssumption
    <3> QED BY <2>1, <3>1, <3>2, Asked DEF Press
  <2>2. CASE Reload
    <3>1. Here \in Urls
      BY Entry DEF TypeOK, Here
    <3>2. /\ named' = None /\ shown' = Opened(Here) /\ focus' = "page"
          /\ queued' = None /\ flight' = OwnLoad(Here)
      BY <2>2 DEF Reload, FreshPage
    <3>3. \A r \in flight' : r.from = "load"
      BY <3>1, <3>2, Opens
    <3>4. OneLoad' /\ Unopened'
      <4>1. \A r, s \in flight' : r = s
        BY <3>2, Zenon DEF OwnLoad
      <4>2. OneLoad'
        BY <3>2, <4>1
      <4>3. shown' \in {"loading", "note", "missing"}
        BY <3>1, <3>2, Opens
      <4>4. Unopened'
        BY <3>2, <3>3, <4>3
      <4> QED BY <4>2, <4>4
    <3>5. LoadShows' /\ Silent'
      BY <3>1, <3>2, Opens
    <3> QED BY <3>4, <3>5
  <2>3. ASSUME NEW p \in DOMAIN entries,
               GoHome(p) \/ GoLoads(p) \/ GoQueues(p) \/ GoUnscripted(p)
        PROVE  Opening'
    <3> DEFINE asks == Asks("popstate", WordOf(entries[p]))
    <3>1. UNCHANGED page
      BY <2>3 DEF GoHome, GoLoads, GoQueues, GoUnscripted, GoTo
    <3>2. asks.from = "popstate"
      BY DEF Asks
    <3>3. \/ flight' = flight /\ (queued' = queued \/ Loading)
          \/ /\ flight' = flight \cup {asks} /\ ~Loading /\ queued' = queued
             /\ shown # "missing"
      BY <2>3 DEF GoHome, GoLoads, GoQueues, GoUnscripted, net
    <3> HIDE DEF asks
    <3> QED BY <3>1, <3>2, <3>3 DEF page
  <2>4. ASSUME NEW r \in flight, NEW forbidden \in BOOLEAN,
               \/ ShowView(r) \/ ShowResult(r) \/ RefuseLoad(r) \/ RefusePopstate(r)
               \/ RefuseDetached(r) \/ RefuseControl(r, forbidden)
        PROVE  Opening'
    <3> DEFINE left == flight'
    <3>1. left \in {Remaining(r), Detached(Remaining(r))} /\ queued' = Released(r)
      BY <2>4, Ends
    <3>2. /\ \A q \in left : q.from # "control" => (q \in flight /\ q # r) \/ (Releases(r) /\ q = Held)
          /\ \A q \in flight : q # r /\ q.from # "control" => q \in left
          /\ Releases(r) => Held \in left
          /\ (\E q \in left : q.from = "control") => \E q \in flight : q.from = "control"
      BY <3>1, AfterEnd
    <3>3. OneLoad'
      <4>1. queued' # None => \E q \in left : q.from = "popstate"
        BY <3>1, <3>2 DEF Released
      <4>2. ASSUME NEW q \in left, NEW s \in left, q.from = s.from, q.from # "control"
            PROVE  q = s
        <5>1. /\ (q \in flight /\ q # r) \/ (Releases(r) /\ q = Held)
              /\ (s \in flight /\ s # r) \/ (Releases(r) /\ s = Held)
          BY <3>2, <4>2
        <5>2. Releases(r) => r.from = "popstate" /\ Held.from = "popstate"
          BY DEF Releases, Held, Asks
        <5> QED BY <5>1, <5>2, <4>2
      <4> QED BY <4>1, <4>2
    <3>4. r.from \in {"load", "popstate", "control"}
      BY DEF TypeOK, Requests
    <3>5. first' => first /\ named' = named /\ (shown' = shown \/ shown' = "note")
      BY <2>4 DEF ShowView, ShowResult, Swap, RefuseLoad, RefusePopstate, RefuseDetached,
            RefuseControl, Refuse
    <3>6. first' => focus' = "page"
      BY <2>4, <3>5 DEF ShowView, ShowResult, Swap, RefuseLoad, RefusePopstate, RefuseDetached,
            RefuseControl, Refuse, Unfocused
    <3>7. Unopened'
      BY <3>2, <3>5, <3>6
    <3>8. LoadShows'
      <4>1. ASSUME NEW q \in left, q.from = "load" PROVE q \in flight /\ q # r
        BY <3>2, <4>1 DEF Held, Asks
      <4>2. CASE RefuseLoad(r)
        BY <4>1, <4>2 DEF RefuseLoad
      <4>3. CASE ~ RefuseLoad(r)
        <5>1. shown' = shown \/ shown' # "note"
          <6>1. r.view # Form => r.view # "note"
            BY NamesAssumption DEF TypeOK, Requests
          <6> QED BY <2>4, <4>3, <6>1 DEF ShowView, ShowResult, Swap, RefusePopstate,
                  RefuseDetached, RefuseControl
        <5> QED BY <5>1, <4>1
      <4> QED BY <4>2, <4>3
    <3>9. Silent'
      <4>1. shown # "missing" /\ (r.view # Form => r.view # "missing")
        BY NamesAssumption DEF TypeOK, Requests
      <4> QED BY <2>4, <4>1 DEF ShowView, ShowResult, Swap, RefuseLoad, RefusePopstate,
              RefuseDetached, RefuseControl
    <3> QED BY <3>3, <3>7, <3>8, <3>9
  <2>5. CASE Speak \/ UNCHANGED vars
    BY <2>5 DEF Speak, vars, page, net
  <2> QED BY <2>1, <2>2, <2>3, <2>4, <2>5 DEF Next
<1> QED BY <1>1, <1>2, TypeCorrect, PTL DEF Spec

(* A control that has the focus loses it only to the note of the page's load:  *)
(* every swap but the first moves it to the heading, and before the first      *)
(* nothing is there to have it.                                                *)
THEOREM FocusAlwaysKept == Spec => []FocusKept
<1>1. Init => FocusKept
  BY DEF Init, FocusKept
<1>2. TypeOK /\ Opening /\ FocusKept /\ [Next]_vars => FocusKept'
  <2> SUFFICES ASSUME TypeOK, Opening, FocusKept, [Next]_vars PROVE FocusKept'
    OBVIOUS
  <2>1. first => focus = "page"
    BY DEF Opening, Unopened
  <2>2. ASSUME NEW r \in flight, NEW forbidden \in BOOLEAN,
               \/ ShowView(r) \/ ShowResult(r) \/ RefuseLoad(r) \/ RefusePopstate(r)
               \/ RefuseDetached(r) \/ RefuseControl(r, forbidden)
        PROVE  FocusKept'
    BY <2>1, <2>2 DEF FocusKept, ShowView, ShowResult, Swap, FocusAfter, Unfocused,
       RefuseLoad, RefusePopstate, RefuseDetached, RefuseControl
  <2>3. CASE \/ \E v \in Views \cup {Form} : Press(v)
             \/ Reload \/ Speak \/ UNCHANGED vars
             \/ \E p \in DOMAIN entries :
                    GoHome(p) \/ GoLoads(p) \/ GoQueues(p) \/ GoUnscripted(p)
    BY <2>3 DEF FocusKept, Press, Reload, FreshPage, GoHome, GoLoads, GoQueues, GoUnscripted,
       GoTo, Speak, vars, page
  <2> QED BY <2>2, <2>3 DEF Next
<1> QED BY <1>1, <1>2, TypeCorrect, AlwaysOpening, PTL DEF Spec

-------------------------------------------------------------------------------
(* A view that is on its way stays so until its own request ends.              *)
LEMMA StillPending ==
    ASSUME TypeOK, Opening, PopPending, NEW r \in flight,
           r.from = "popstate" => r.view # Here.view,
           NEW left \in {Remaining(r), Detached(Remaining(r))}
    PROVE  \/ Released(r) # None /\ Released(r).view = Here.view
           \/ \E q \in left : q.from = "popstate" /\ q.view = Here.view
<1>1. /\ \A q \in flight : q # r /\ q.from # "control" => q \in left
      /\ Releases(r) => Held \in left
  BY AfterEnd
<1>3. CASE queued # None /\ queued.view = Here.view
  <2>1. CASE r.from = "popstate"
    BY <1>1, <1>3, <2>1 DEF Releases, Held, Asks
  <2>2. CASE r.from # "popstate"
    BY <1>3, <2>2 DEF Released
  <2> QED BY <2>1, <2>2
<1>4. CASE \E q \in flight : q.from = "popstate" /\ q.view = Here.view
  BY <1>1, <1>4
<1> QED BY <1>3, <1>4 DEF PopPending

(* The address is named, on its way or refused, whatever ends in what order.   *)
LEMMA AlwaysOnTheWay == Spec => []OnTheWay
<1>1. Init => OnTheWay
  <2> SUFFICES ASSUME Init PROVE OnTheWay
    OBVIOUS
  <2>1. Here \in Urls
    BY DEF Init, Here
  <2> QED BY <2>1, Opens DEF Init, OnTheWay, LoadPending, Loading
<1>2. TypeOK /\ Opening /\ OnTheWay /\ [Next]_vars => OnTheWay'
  <2> SUFFICES ASSUME TypeOK, Opening, OnTheWay, [Next]_vars PROVE OnTheWay'
    OBVIOUS
  <2> USE DEF OnTheWay, Names, PopPending, LoadPending, Loading
  <2>1. ASSUME NEW v \in Views \cup {Form}, Press(v) PROVE OnTheWay'
    <3>1. ~first
      <4>1. shown \in Views
        BY <2>1 DEF Press
      <4> QED BY <4>1, NamesAssumption DEF Opening, Unopened
    <3>2. /\ Here' = Here /\ named' = named /\ first' = first /\ queued' = queued
          /\ flight \subseteq flight' /\ failed' = failed /\ topNote' = topNote /\ shown' = shown
      BY <2>1 DEF Press, Here, address, notes
    <3> QED BY <3>1, <3>2
  <2>2. CASE Reload
    <3>1. /\ first' /\ Here' = Here /\ queued' = None
          /\ flight' = OwnLoad(Here) /\ shown' = Opened(Here)
      BY <2>2 DEF Reload, FreshPage, Here, address
    <3>2. Here \in Urls
      BY Entry DEF TypeOK, Here
    <3> QED BY <3>1, <3>2, Opens
  <2>3. ASSUME NEW p \in DOMAIN entries, GoHome(p) PROVE OnTheWay'
    <3>1. /\ named # None /\ Here' = entries[p] /\ named' = named /\ first' = first
          /\ entries[p].view = named.view /\ shown' = shown
      BY <2>3 DEF GoHome, GoTo, AtHome, UrlOf, Here, page
    <3>2. ~first
      BY <3>1 DEF Opening, Unopened
    <3> QED BY <3>1, <3>2
  <2>4. ASSUME NEW p \in DOMAIN entries, GoLoads(p) \/ GoQueues(p) PROVE OnTheWay'
    <3>1. Here' = entries[p]
      BY <2>4 DEF GoLoads, GoQueues, GoTo, Here
    <3>2. \/ queued' = WordOf(entries[p])
          \/ Asks("popstate", WordOf(entries[p])) \in flight'
      BY <2>4 DEF GoLoads, GoQueues
    <3>3. PopPending'
      BY <3>1, <3>2, Entry, Asked DEF TypeOK
    <3> QED BY <3>3
  <2>m. ASSUME NEW p \in DOMAIN entries, GoUnscripted(p) PROVE OnTheWay'
    BY <2>m DEF GoUnscripted, GoTo, page
  <2>r. ASSUME NEW r \in flight 
        PROVE  r.from \in {"load", "popstate", "control"} /\ shown # "missing"
    BY DEF TypeOK, Requests, Opening, Silent
  <2>5. ASSUME NEW r \in flight, ShowView(r) PROVE OnTheWay'
    <3>1. first' = FALSE /\ named' = Word(r) /\ queued' = Released(r) /\ flight' = Detached(Remaining(r))
          /\ failed' = failed /\ topNote' = topNote
      BY <2>5 DEF ShowView, Swap, notes
    <3>w. /\ Word(r).view = r.view /\ Word(r) # None
          /\ UrlOf(Word(r)) \in Urls /\ UrlOf(Word(r)).view = r.view
      BY <2>5, Written DEF ShowView, TypeOK
    <3>2. CASE Pushes(r)
      <4>1. /\ entries' = Append(SubSeq(entries, 1, pos), UrlOf(Word(r)))
            /\ pos' = pos + 1
        BY <2>5, <3>2 DEF ShowView
      <4>3. Here' = UrlOf(Word(r))
        BY <4>1, <3>w, Pushed DEF TypeOK, Here
      <4> QED BY <3>1, <3>w, <4>3
    <3>3. CASE ~ Pushes(r)
      <4>1. Here' = Here
        BY <2>5, <3>3 DEF ShowView, address, Here
      <4>2. CASE r.view = Here.view
        BY <3>1, <3>w, <4>1, <4>2
      <4>3. CASE r.view # Here.view
        <5>1. first /\ r.from # "control"
          <6>1. first
            BY <3>3, <3>w, <4>3 DEF Pushes
          <6> QED BY <6>1 DEF Opening, Unopened
        <5>2. PopPending \/ (failed /\ topNote)
          <6>1. CASE r.from = "popstate"
            BY <6>1, <5>1, <2>r
          <6>2. CASE r.from = "load"
            BY <6>2, <5>1, <4>3, <2>r DEF Opening, OneLoad, LoadShows
          <6> QED BY <6>1, <6>2, <5>1, <2>r
        <5>3. PopPending => PopPending'
          BY <3>1, <4>1, <4>3, StillPending
        <5> QED BY <3>1, <5>2, <5>3
      <4> QED BY <4>2, <4>3
    <3> QED BY <3>2, <3>3
  <2>6. ASSUME NEW r \in flight, NEW forbidden \in BOOLEAN,
               ShowResult(r) \/ RefuseDetached(r) \/ RefuseControl(r, forbidden)
        PROVE  OnTheWay'
    <3>1. r.from = "control"
      BY <2>6, NamesAssumption
      DEF ShowResult, RefuseDetached, RefuseControl, TypeOK, Requests
    <3>2. ~first
      BY <3>1 DEF Opening, Unopened
    <3>3. first' = FALSE /\ named' = named /\ Here' = Here /\ topNote' = topNote /\ (failed => failed')
      <4>1. UNCHANGED address /\ UNCHANGED named /\ topNote' = topNote /\ (failed => failed')
        <5>1. CASE ShowResult(r)
          BY <5>1 DEF ShowResult, Swap, notes, address
        <5>2. CASE RefuseDetached(r)
          BY <5>2 DEF RefuseDetached, Refuse, notes, address
        <5>3. CASE RefuseControl(r, forbidden)
          BY <5>3 DEF RefuseControl, Refuse, address
        <5> QED BY <2>6, <5>1, <5>2, <5>3
      <4>2. first' = FALSE
        BY <2>6, <3>2 DEF ShowResult, Swap, RefuseDetached, RefuseControl, Refuse, TypeOK
      <4> QED BY <4>1, <4>2 DEF address, Here
    <3>4. PopPending => PopPending'
      BY <2>6, <3>1, <3>3, Ends, StillPending
    <3> QED BY <2>r, <3>2, <3>3, <3>4
  <2>7. ASSUME NEW r \in flight, RefuseLoad(r) PROVE OnTheWay'
    <3>1. r.from = "load" /\ first' = first /\ named' = named /\ Here' = Here /\ topNote' = topNote
          /\ failed' = (failed \/ r.view = Here.view) /\ shown' = "note"
      BY <2>7 DEF RefuseLoad, Refuse, address, notes, Here
    <3>2. flight' = Detached(Remaining(r)) /\ queued' = Released(r)
      BY <2>7 DEF RefuseLoad, Refuse
    <3>3. PopPending => PopPending'
      BY <3>1, <3>2, StillPending
    <3>4. Loading' => Loading
      BY <3>1, <3>2, AfterEnd DEF Releases
    <3>5. LoadPending => r.view = Here.view
      BY <3>1 DEF Opening, OneLoad
    <3> QED BY <2>r, <3>1, <3>3, <3>4, <3>5
  <2>8. ASSUME NEW r \in flight, RefusePopstate(r) PROVE OnTheWay'
    <3>1. r.from = "popstate" /\ first' = first /\ named' = named /\ Here' = Here /\ topNote' = TRUE
          /\ failed' = (failed \/ r.view = Here.view)
      BY <2>8 DEF RefusePopstate, Refuse, address, Here
    <3>2. flight' = Remaining(r) /\ queued' = Released(r)
      BY <2>8 DEF RefusePopstate, Refuse
    <3>3. r.view # Here.view /\ PopPending => PopPending'
      BY <3>1, <3>2, StillPending
    <3> QED BY <2>r, <3>1, <3>3
  <2>9. CASE Speak \/ UNCHANGED vars
    BY <2>9 DEF Speak, vars, address, page, net, notes, Here
  <2> QED BY <2>1, <2>2, <2>3, <2>4, <2>m, <2>5, <2>6, <2>7, <2>8, <2>9 DEF Next
<1> QED BY <1>1, <1>2, TypeCorrect, AlwaysOpening, PTL DEF Spec

(* Once every answer is in, the address bar names the view that is named, or   *)
(* its load was refused and the page says so. InStep is not inductive: it says *)
(* nothing of a page whose answers are still on their way; OnTheWay does.      *)
THEOREM AlwaysInStep == Spec => []InStep
<1>1. TypeOK /\ Opening /\ OnTheWay => InStep
  <2> SUFFICES ASSUME TypeOK, Opening, OnTheWay, AtRest PROVE InStep
    BY DEF InStep
  <2>1. ~ PopPending /\ ~ LoadPending
    <3>1. queued = None
      BY DEF Opening, OneLoad, Loading, AtRest
    <3> QED BY <3>1 DEF PopPending, LoadPending, AtRest
  <2> QED BY <2>1 DEF OnTheWay, Names, InStep
<1> QED BY <1>1, TypeCorrect, AlwaysOpening, AlwaysOnTheWay, PTL

-------------------------------------------------------------------------------
(* No escaped word comes into a session that did not begin at one: what        *)
(* `viewOf` makes of a plain word is a URL that popstate makes it of again.    *)
LEMMA AlwaysUnescaped == Spec => []Unescaped
<1>1. Init => Unescaped
  <2> SUFFICES ASSUME Init PROVE Unescaped
    OBVIOUS
  <2>1. PICK url \in Urls : entries = <<url>>
    BY DEF Init
  <2>2. Here = url /\ DOMAIN entries = {1} /\ entries[1] = url
    BY <2>1 DEF Init, Here
  <2>3. /\ flight = OwnLoad(url) /\ shown = Opened(url) /\ queued = None
        /\ \A i \in DOMAIN entries : entries[i] = url
    BY <2>2 DEF Init
  <2>4. url.spelling \in {"own", "other"} => Found(url)
    BY DEF Found
  <2>5. \A r \in flight : r.escaped = FALSE
    BY <2>3, Opens
  <2>6. Found(url) => shown # "missing"
    BY <2>3, Opens
  <2> QED BY <2>2, <2>3, <2>4, <2>5, <2>6 DEF Unescaped
<1>2. TypeOK /\ Unescaped /\ [Next]_vars => Unescaped'
  <2> SUFFICES ASSUME TypeOK, Unescaped, [Next]_vars, entries'[1].spelling \in {"own", "other"}
               PROVE  Unescaped'
    BY DEF Unescaped
  <2> DEFINE Ok(url) == url.spelling \in {"own", "other"}
  <2>0. 1 \in DOMAIN entries /\ pos \in 1..Len(entries) /\ DOMAIN entries = 1..Len(entries)
    BY DEF TypeOK
  <2>1. CASE /\ entries' = entries /\ shown' # "missing"
             /\ \A q \in flight' : q \in flight \/ q.escaped = FALSE
             /\ queued' = None \/ queued' = queued \/ queued'.escaped = FALSE
    BY <2>1 DEF Unescaped
  <2>2. ASSUME NEW v \in Views \cup {Form}, Press(v) PROVE Unescaped'
    BY <2>1, <2>2, Asked DEF Press, address, Unescaped
  <2>3. CASE Reload
    <3>1. Here \in Urls /\ Ok(Here) /\ entries' = entries
      BY <2>0, <2>3, Entry DEF TypeOK, Unescaped, Here, Reload, address
    <3>2. Found(Here)
      BY <3>1 DEF Found
    <3> QED BY <2>1, <2>3, <3>1, <3>2, Opens DEF Reload, FreshPage
  <2>4. ASSUME NEW p \in DOMAIN entries,
               GoHome(p) \/ GoLoads(p) \/ GoQueues(p) \/ GoUnscripted(p)
        PROVE  Unescaped'
    <3>1. entries' = entries /\ shown' = shown
      BY <2>4 DEF GoHome, GoLoads, GoQueues, GoUnscripted, GoTo, page
    <3>2. Ok(entries[p]) /\ shown # "missing"
      BY <3>1 DEF Unescaped
    <3>3. WordOf(entries[p]).escaped = FALSE
      <4>1. (entries[p].spelling \in {"escaped", "twice"}) = FALSE
        BY <3>2
      <4>2. WordOf(entries[p]).escaped = (entries[p].spelling \in {"escaped", "twice"})
        BY DEF WordOf
      <4> QED BY <4>1, <4>2
    <3>4. WordOf(entries[p]) \in Words
      BY Entry DEF TypeOK
    <3>5. \/ UNCHANGED net
          \/ queued' = queued /\ flight' = flight \cup {Asks("popstate", WordOf(entries[p]))}
          \/ flight' = flight /\ queued' = WordOf(entries[p])
      BY <2>4 DEF GoHome, GoLoads, GoQueues, GoUnscripted
    <3>6. Asks("popstate", WordOf(entries[p])).escaped = FALSE
      BY <3>3, <3>4, Asked
    <3>7. \A q \in flight' : q \in flight \/ q.escaped = FALSE
      BY <3>5, <3>6 DEF net
    <3>8. queued' = queued \/ queued'.escaped = FALSE
      BY <3>3, <3>5 DEF net
    <3> QED BY <2>1, <3>1, <3>2, <3>7, <3>8
  <2>5. ASSUME NEW r \in flight, NEW forbidden \in BOOLEAN,
               \/ ShowView(r) \/ ShowResult(r) \/ RefuseLoad(r) \/ RefusePopstate(r)
               \/ RefuseDetached(r) \/ RefuseControl(r, forbidden)
        PROVE  Unescaped'
    <3>1. entries'[1] = entries[1]
      <4>1. CASE ShowView(r) /\ Pushes(r)
        <5>1. UrlOf(Word(r)) \in Urls
          BY <4>1, Written DEF ShowView, TypeOK
        <5>2. entries' = Append(SubSeq(entries, 1, pos), UrlOf(Word(r)))
          BY <4>1 DEF ShowView
        <5>3. \A i \in 1..pos : entries'[i] = entries[i]
          BY <5>1, <5>2, Pushed DEF TypeOK
        <5> QED BY <2>0, <5>3
      <4>2. CASE ~ (ShowView(r) /\ Pushes(r))
        BY <2>5, <4>2 DEF ShowView, ShowResult, RefuseLoad, RefusePopstate, RefuseDetached,
           RefuseControl, Refuse, address
      <4> QED BY <4>1, <4>2
    <3>2. /\ \A i \in DOMAIN entries : Ok(entries[i])
          /\ \A q \in flight : q.escaped = FALSE
          /\ queued # None => queued.escaped = FALSE
          /\ shown # "missing"
      BY <3>1 DEF Unescaped
    <3>3. \A q \in Remaining(r) : q.escaped = FALSE
      BY <3>2 DEF Remaining, Asks
    <3>4. ASSUME NEW q \in Remaining(r)
          PROVE  (IF q.from = "control" THEN [q EXCEPT !.attached = FALSE] ELSE q).escaped = FALSE
      <4>1. q \in Requests
        BY Leftover
      <4> QED BY <3>3, <4>1 DEF Requests
    <3>5. \A q \in flight' : q.escaped = FALSE
      <4>1. \A q \in Detached(Remaining(r)) : q.escaped = FALSE
        BY <3>4 DEF Detached
      <4> QED BY <2>5, <3>3, <4>1, Ends
    <3>6. queued' # None => queued'.escaped = FALSE
      BY <2>5, <3>2, Ends DEF Released
    <3>7. shown' # "missing"
      <4>1. r.view # Form => r.view # "missing"
        BY NamesAssumption DEF TypeOK, Requests
      <4> QED BY <2>5, <3>2, <4>1 DEF ShowView, ShowResult, Swap, RefuseLoad, RefusePopstate,
              RefuseDetached, RefuseControl
    <3>8. \A i \in DOMAIN entries' : Ok(entries'[i])
      <4>1. CASE entries' = entries
        BY <3>2, <4>1
      <4>2. CASE ShowView(r) /\ Pushes(r)
        <5>1. UrlOf(Word(r)) \in Urls /\ UrlOf(Word(r)).spelling = "own"
          BY <3>2, <4>2, Written DEF ShowView, TypeOK
        <5>2. entries' = Append(SubSeq(entries, 1, pos), UrlOf(Word(r)))
          BY <4>2 DEF ShowView
        <5> DEFINE url == UrlOf(Word(r))
        <5> HIDE DEF url
        <5>3. /\ DOMAIN entries' = 1..pos + 1 /\ entries'[pos + 1] = url
              /\ \A i \in 1..pos : entries'[i] = entries[i]
          BY <5>1, <5>2, Pushed DEF TypeOK, url
        <5>4. \A i \in 1..pos + 1 : i = pos + 1 \/ (i \in 1..pos /\ i \in DOMAIN entries)
          BY <2>0
        <5> QED BY <3>2, <5>1, <5>3, <5>4 DEF url
      <4> QED BY <2>5, <4>1, <4>2 DEF ShowView, ShowResult, RefuseLoad, RefusePopstate,
              RefuseDetached, RefuseControl, Refuse, address
    <3> QED BY <3>5, <3>6, <3>7, <3>8 DEF Unescaped
  <2>6. CASE Speak \/ UNCHANGED vars
    BY <2>6 DEF Speak, vars, address, page, net, Unescaped
  <2> QED BY <2>2, <2>3, <2>4, <2>5, <2>6 DEF Next
<1> QED BY <1>1, <1>2, TypeCorrect, PTL DEF Spec

(* A reload of a page at rest asks for what is read, where the session began   *)
(* at an address with no colon escaped.                                        *)
THEOREM ReloadAlwaysOpens == Spec => []ReloadOpens
<1>1. TypeOK /\ Unescaped /\ InStep => ReloadOpens
  <2> SUFFICES ASSUME TypeOK, Unescaped, InStep, AtRest, ~failed,
                      entries[1].spelling \in {"own", "other"}
               PROVE  OwnLoad(Here) = {Asks("load", Plain(named.view))}
    BY DEF ReloadOpens
  <2>1. named.view = Here.view
    BY DEF InStep, Unescaped
  <2>2. Found(Here)
    BY DEF TypeOK, Unescaped, Here, Found
  <2> QED BY <2>1, <2>2 DEF OwnLoad
<1> QED BY <1>1, TypeCorrect, AlwaysUnescaped, AlwaysInStep, PTL
===============================================================================

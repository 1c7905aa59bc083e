-------------------------------- MODULE Shell ---------------------------------
(* serve.rs SHELL_JS on the page of `browse_shell`: views swapped into one     *)
(* region, the address bar and the title kept beside them, and refusals noted. *)
(* The browser's session history and htmx (assets/htmx.min.js) are external.   *)
EXTENDS Integers, Sequences, FiniteSets

CONSTANTS
    Views,      \* the views: a resource with its arguments
    Form,       \* what a form asks for, which is no view
    None,       \* nothing
    MaxDeeds    \* bound: what the person does

ASSUME NamesAssumption ==
    /\ None \notin Views \cup {Form} /\ Form \notin Views
    /\ Views \cap {"loading", "note", "result", "missing"} = {}
ASSUME DeedsAssumption == MaxDeeds \in Nat

(* The word a read names its view by: plain, or with its colons as "%3A".      *)
Words == [view : Views, escaped : BOOLEAN]
Plain(view) == [view |-> view, escaped |-> FALSE]

(* A page URL spells a view as `viewOf` does, with more than a view ("other",  *)
(* an `as=`), with its colons escaped, or with that escaped in turn ("%253A"). *)
Urls == [view : Views, spelling : {"own", "other", "escaped", "twice"}]

(* Faulty variant: encodeURIComponent, which escapes a colon too.              *)
UrlOfComponent(word) ==
    [view |-> word.view, spelling |-> IF word.escaped THEN "twice" ELSE "escaped"]

(* `viewOf`: encodeURI leaves a colon and escapes a percent sign.              *)
UrlOf(word) ==
    [view |-> word.view, spelling |-> IF word.escaped THEN "twice" ELSE "own"]

(* popstate: decodeURI makes "%25" a percent sign and leaves "%3A" as it is.   *)
WordOf(url) ==
    [view |-> url.view, escaped |-> url.spelling \in {"escaped", "twice"}]

(* `browse_shell`: the path, decoded once, is the name of a urn:.              *)
Found(url) == url.spelling # "twice"

(* Who asked, as htmx has it: the region's own load, the body on popstate, or  *)
(* a control in the region, which a swap takes off the page.                   *)
Requests ==
    [from : {"load", "popstate"}, view : Views, escaped : BOOLEAN, attached : {TRUE}] \cup
    [from : {"control"}, view : Views \cup {Form}, escaped : {FALSE}, attached : BOOLEAN]

ASSUME NoneAssumption == None \notin Words \cup Requests

VARIABLES
    entries,   \* the session history this document belongs to, oldest first
    pos,       \* the entry the address bar shows
    named,     \* the word of the title, the h1 and data-view-url, or None
    shown,     \* what is in the region: a view, "loading", "note" or "result";
               \* "missing" where the page is a 404, with no region and no script
    first,     \* the script's `first`
    flight,    \* requests to be answered
    queued,    \* the word htmx holds back until the body's request ends, or None
    focus,     \* "page", "control" (in the region), "heading" or "lost"
    disabled,  \* what the controls a 403 disabled ask for
    topNote,   \* a refusal stands at the top of the page
    spoken,    \* the status region: whose refusal it tells, or None
    timers,    \* the refusals still to be spoken, oldest first
    deeds,     \* what the person has done, counted for the bound
    failed,    \* history: the load of the address was refused
    owed       \* history: the last request of the person's that was refused, or None

address == <<entries, pos>>
page == <<named, shown, first, focus, disabled>>
net == <<flight, queued>>
notes == <<topNote, spoken, timers, owed>>
vars == <<address, page, net, notes, deeds, failed>>

Here == entries[pos]

Asks(from, word) ==
    [from |-> from, view |-> word.view, escaped |-> word.escaped, attached |-> TRUE]

(* The region's own load, of the view its URL names: `view_args` carries every *)
(* argument but `as`, which is no part of a view.                              *)
OwnLoad(url) == IF Found(url) THEN {Asks("load", Plain(url.view))} ELSE {}

(* What the server answers a page URL with: the shell, or a 404.               *)
Opened(url) == IF Found(url) THEN "loading" ELSE "missing"

(* `browse_shell`: a fresh document.                                           *)
FreshPage(url) ==
    /\ named' = None
    /\ shown' = Opened(url)
    /\ first' = TRUE
    /\ flight' = OwnLoad(url)
    /\ queued' = None
    /\ focus' = "page"
    /\ disabled' = {}
    /\ topNote' = FALSE
    /\ spoken' = None
    /\ timers' = <<>>
    /\ failed' = FALSE
    /\ owed' = None

Init ==
    /\ entries \in {<<url>> : url \in Urls}
    /\ pos = 1
    /\ named = None
    /\ shown = Opened(Here)
    /\ first = TRUE
    /\ flight = OwnLoad(Here)
    /\ queued = None
    /\ focus = "page"
    /\ disabled = {}
    /\ topNote = FALSE
    /\ spoken = None
    /\ timers = <<>>
    /\ deeds = 0
    /\ failed = FALSE
    /\ owed = None

-------------------------------------------------------------------------------
(* The person. *)
Does ==
    /\ deeds < MaxDeeds
    /\ deeds' = deeds + 1

(* A control of the view shown: a link to a view, or a form. A control has one *)
(* request at a time.                                                          *)
Press(v) ==
    /\ Does
    /\ shown \in Views
    /\ v \notin disabled
    /\ \A r \in flight : r.from = "control" => r.view # v
    /\ flight' = flight \cup {Asks("control", Plain(v))}
    /\ focus' = "control"
    /\ UNCHANGED <<address, named, shown, first, disabled, queued, notes, failed>>

Reload ==
    /\ Does
    /\ FreshPage(Here)
    /\ UNCHANGED address

(* Back, Forward or a jump in the session history; popstate follows.           *)
GoTo(p) ==
    /\ p # pos
    /\ pos' = p
    /\ Does
    /\ failed' = FALSE
    /\ UNCHANGED <<entries, page, notes>>

(* Faulty variant: the view of a URL the script wrote is never loaded again.   *)
AtHomeIfOwn(url) == url.spelling = "own"

(* popstate returns early where data-view-url is the address.                  *)
AtHome(url) == named # None /\ url = UrlOf(named)

GoHome(p) ==
    /\ shown # "missing"
    /\ AtHome(entries[p])
    /\ GoTo(p)
    /\ UNCHANGED net

(* A 404 page has no script: the address moves, and nothing else.              *)
GoUnscripted(p) ==
    /\ shown = "missing"
    /\ GoTo(p)
    /\ UNCHANGED net

Loading == \E r \in flight : r.from = "popstate"

(* `htmx.ajax` with no source asks as the body.                                *)
GoLoads(p) ==
    /\ shown # "missing"
    /\ ~AtHome(entries[p])
    /\ ~Loading
    /\ GoTo(p)
    /\ flight' = flight \cup {Asks("popstate", WordOf(entries[p]))}
    /\ UNCHANGED queued

(* An element with a request of its own in flight keeps the last of the others.*)
GoQueues(p) ==
    /\ ~AtHome(entries[p])
    /\ Loading
    /\ GoTo(p)
    /\ queued' = WordOf(entries[p])
    /\ UNCHANGED flight

-------------------------------------------------------------------------------
(* A request ends; the body's makes way for the one held back.                 *)
Remaining(r) ==
    (flight \ {r}) \cup
    (IF r.from = "popstate" /\ queued # None
     THEN {Asks("popstate", queued)} ELSE {})

Released(r) == IF r.from = "popstate" THEN None ELSE queued

(* New content takes the controls of the old off the page.                     *)
Detached(requests) ==
    {IF r.from = "control" THEN [r EXCEPT !.attached = FALSE] ELSE r : r \in requests}

(* `viewOf` of what was asked. *)
Word(r) == [view |-> r.view, escaped |-> r.escaped]

(* Does `afterSwap` push this view's URL?                                      *)
Pushes(r) == ~first /\ Here # UrlOf(Word(r))

(* Old content leaves the page, and a control in it loses the focus.           *)
Unfocused == IF focus = "control" THEN "lost" ELSE focus

(* Faulty variant: the heading is focused only with a new address.             *)
FocusAfterPush(r) == IF r.view # Form /\ Pushes(r) THEN "heading" ELSE Unfocused

(* Where `afterSwap` leaves the focus: the heading, but for the first view,    *)
(* which moves nothing.                                                        *)
FocusAfter(r) == IF first THEN Unfocused ELSE "heading"

(* What every swap into the region does. *)
Swap(r, content) ==
    /\ r \in flight
    /\ flight' = Detached(Remaining(r))
    /\ queued' = Released(r)
    /\ shown' = content
    /\ focus' = FocusAfter(r)
    /\ first' = FALSE
    /\ disabled' = {}
    /\ UNCHANGED <<notes, deeds, failed>>

(* `afterSwap` of a /k/source read: the title, the h1 and data-view-url follow,*)
(* and the address does, as a new entry past which nothing is left.            *)
ShowView(r) ==
    /\ r.view # Form
    /\ Swap(r, r.view)
    /\ named' = Word(r)
    /\ IF Pushes(r)
       THEN /\ entries' = Append(SubSeq(entries, 1, pos), UrlOf(Word(r)))
            /\ pos' = pos + 1
       ELSE UNCHANGED address

(* `afterSwap` of a form's answer: no view, so neither names nor address move. *)
ShowResult(r) ==
    /\ r.view = Form
    /\ Swap(r, "result")
    /\ UNCHANGED <<address, named>>

-------------------------------------------------------------------------------
(* `announce`: the region is emptied, and filled a beat later.                 *)
Announce(r) ==
    /\ spoken' = None
    /\ timers' = Append(timers, r.view)

Speak ==
    /\ timers # <<>>
    /\ spoken' = Head(timers)
    /\ timers' = Tail(timers)
    /\ UNCHANGED <<address, page, net, topNote, owed, deeds, failed>>

(* The address is left without its view, if that is what was refused.          *)
Refuse(r) ==
    /\ r \in flight
    /\ queued' = Released(r)
    /\ owed' = (IF r.from = "load" THEN owed ELSE r)
    /\ failed' = (failed \/ (r.from # "control" /\ r.view = Here.view))
    /\ UNCHANGED <<address, named, first, deeds>>

(* Faulty variant: the refusal of a part that loads itself is said aloud.      *)
RefuseLoadAloud(r) ==
    /\ r.from = "load"
    /\ Refuse(r)
    /\ flight' = Detached(Remaining(r))
    /\ shown' = "note"
    /\ focus' = Unfocused
    /\ disabled' = {}
    /\ Announce(r)
    /\ UNCHANGED topNote

(* `note` for the region's own load: it takes the place of the content, and is *)
(* not said aloud.                                                             *)
RefuseLoad(r) ==
    /\ r.from = "load"
    /\ Refuse(r)
    /\ flight' = Detached(Remaining(r))
    /\ shown' = "note"
    /\ focus' = Unfocused
    /\ disabled' = {}
    /\ UNCHANGED <<topNote, spoken, timers>>

(* `note` outside the region: at the top of the page, where it stays.          *)
RefusePopstate(r) ==
    /\ r.from = "popstate"
    /\ Refuse(r)
    /\ flight' = Remaining(r)
    /\ topNote' = TRUE
    /\ Announce(r)
    /\ UNCHANGED <<shown, focus, disabled>>

(* `note` beside a control, which a 403 disables; the browser then takes the   *)
(* focus off it.                                                               *)
RefuseControl(r, forbidden) ==
    /\ r.from = "control" /\ r.attached
    /\ Refuse(r)
    /\ flight' = Remaining(r)
    /\ disabled' = disabled \cup (IF forbidden THEN {r.view} ELSE {})
    /\ focus' = (IF forbidden /\ focus = "control" THEN "page" ELSE focus)
    /\ Announce(r)
    /\ UNCHANGED <<shown, topNote>>

(* A control that is off the page has no document to tell: nothing is noted.   *)
RefuseDetached(r) ==
    /\ ~r.attached
    /\ Refuse(r)
    /\ flight' = Remaining(r)
    /\ UNCHANGED <<shown, focus, disabled, topNote, spoken, timers>>

Next ==
    \/ \E v \in Views \cup {Form} : Press(v)
    \/ Reload
    \/ \E p \in DOMAIN entries : GoHome(p) \/ GoLoads(p) \/ GoQueues(p) \/ GoUnscripted(p)
    \/ \E r \in flight :
        \/ ShowView(r) \/ ShowResult(r)
        \/ RefuseLoad(r) \/ RefusePopstate(r) \/ RefuseDetached(r)
        \/ \E forbidden \in BOOLEAN : RefuseControl(r, forbidden)
    \/ Speak

Spec == Init /\ [][Next]_vars

-------------------------------------------------------------------------------
(* Every variable keeps its type, and the address is an entry of the history.  *)
TypeOK ==
    /\ entries \in Seq(Urls) /\ pos \in DOMAIN entries
    /\ named \in Words \cup {None}
    /\ shown \in Views \cup {"loading", "note", "result", "missing"}
    /\ first \in BOOLEAN
    /\ flight \subseteq Requests
    /\ queued \in Words \cup {None}
    /\ focus \in {"page", "control", "heading", "lost"}
    /\ disabled \subseteq Views \cup {Form}
    /\ topNote \in BOOLEAN
    /\ spoken \in Views \cup {Form, None}
    /\ timers \in Seq(Views \cup {Form})
    /\ deeds \in 0..MaxDeeds
    /\ failed \in BOOLEAN
    /\ owed \in Requests \cup {None}

AtRest == flight = {}

(* Once every answer is in, in whatever order, the address bar spells the view *)
(* that the title, the heading and data-view-url name; or the load of that     *)
(* address was refused and the page says so; or the page is the server's 404.  *)
InStep == AtRest => \/ named # None /\ named.view = Here.view
                    \/ failed /\ (topNote \/ shown = "note")
                    \/ shown = "missing"

(* serve.rs:979 has a reload, Back or a shared link open the view shown, the   *)
(* script having written it into the address. It does where the session began  *)
(* at an address with no colon escaped, in whatever order Back, Forward,       *)
(* presses and answers went. Where it began at an escaped one it need not:     *)
(* Back to that pushes "%253A", which a reload finds to be a 404.              *)
ReloadOpens ==
    AtRest /\ ~failed /\ entries[1].spelling \in {"own", "other"}
        => OwnLoad(Here) = {Asks("load", Plain(named.view))}

(* A swap takes the focused control off the page and the focus goes to the     *)
(* heading, never to the body (SC 2.4.3); only the note of the page's own load *)
(* can take the place of a control that has it.                                *)
FocusKept == focus = "lost" => shown = "note"

(* Once no timer is left, the status region says the last refusal of what the  *)
(* person asked for, even where two fell within a beat, and never that of a    *)
(* part that loads itself. The exception, against serve.rs:1135 ("say WHY"):   *)
(* a refusal that comes when its control has been swapped off the page is not  *)
(* said, and the region is left with what it said before.                      *)
SpokenIsAsked ==
    timers = <<>> => IF owed = None THEN spoken = None
                     ELSE owed.attached => spoken = owed.view
===============================================================================

------------------------------- MODULE Respond --------------------------------
(* serve.rs `respond`: what one request may make of the kernel. Two gates      *)
(* stand before every route (the read-only gate and the origin gate), the      *)
(* routes choose the verb, and two entrances lead to the one write route: POST *)
(* of an annotation's IRI, and the /k/ adapter's `sink`. The kernel and the    *)
(* cli library's OriginCheck are external.                                     *)
EXTENDS Integers

CONSTANTS
    Plain,     \* argument names other than the piped body's two
    MaxPairs   \* bound: pairs in a form

ASSUME PlainAssumption == Plain \cap {"content", "content-type"} = {}

ASSUME PairsAssumption == MaxPairs \in Nat

Names == Plain \cup {"content", "content-type"}
Methods == {"GET", "HEAD", "POST", "OPTIONS", "PUT"}
Pages == {"/", "/htmx.min.js", "/browse.css", "/sparql"}

(* What an IRI in a path can be to the gates: the bare mint, a slug under it,  *)
(* a name that only begins like it, another urn:, another IRI, or no IRI.      *)
Family == {"urn:iki:annotation", "urn:iki:annotation:1"}
Urns == Family \cup {"urn:iki:annotationx", "urn:repo:list"}
Iris == Urns \cup {"http://elsewhere"}
Targets == Iris \cup {"no iri"}

(* Where a path leads. A /k/ command is its verb word and IRI; "missing" is a  *)
(* command too short to have both, "ragged" one with an argument that is not   *)
(* k=v.                                                                        *)
Paths ==
    [route : Pages, word : {""}, target : {""}]
    \cup [route : {"/meta/", "/browse/", "/{uri}"}, word : {""}, target : Targets]
    \cup [route : {"/k/"}, word : {"source", "sink", "eval", "ragged"}, target : Targets]
    \cup [route : {"/k/"}, word : {"missing"}, target : {""}]

(* A form's pairs in order. One whose name or value has a bad escape or is not *)
(* UTF-8 once decoded, or whose name is empty, does not read.                  *)
Forms == UNION {[1 .. n -> [name : Names, reads : BOOLEAN]] : n \in 0 .. MaxPairs}

(* The body: nothing, a form, a form that is not UTF-8, text, or bytes that    *)
(* are not UTF-8; `typed` when a Content-Type comes with it.                   *)
Payloads ==
    [kind : {"none"}, form : {<<>>}, typed : {FALSE}]
    \cup [kind : {"form"}, form : Forms, typed : {TRUE}]
    \cup [kind : {"bad form"}, form : {<<>>}, typed : {TRUE}]
    \cup [kind : {"text", "bytes"}, form : {<<>>}, typed : BOOLEAN]

(* Who started the request and the headers that tell: a page of this door, a   *)
(* page of another origin in a browser that sends Origin or Sec-Fetch-Site or  *)
(* replays a credential of its own accord, or a tool that is no browser.       *)
Senders ==
    {s \in [who : {"door page", "foreign page", "tool"},
            origin : {"door", "foreign", "absent"},
            site : {"same-origin", "cross-site", "absent"},
            ambient : BOOLEAN] :
        \/ /\ s.who = "door page"
           /\ s.origin # "foreign" /\ s.site = "same-origin"
        \/ /\ s.who = "foreign page"
           /\ s.origin # "door" /\ s.site # "same-origin"
           /\ s.origin = "foreign" \/ s.site = "cross-site" \/ s.ambient
        \/ /\ s.who = "tool"
           /\ s.origin = "absent" /\ s.site = "absent"}

(* `line` is the set of arguments the URL names: the pairs of the query that   *)
(* read, or a command's k=v tokens.                                            *)
Requests ==
    [method : Methods, path : Paths, line : SUBSET Names, sender : Senders,
     payload : {p \in Payloads : p.kind = "none"}]
    \cup [method : {"POST", "PUT"}, path : Paths, line : SUBSET Names,
          sender : Senders, payload : Payloads]

Verbs == {"Source", "Exists", "Meta", "Sink"}
Answers == [status : {200, 304, 400, 403, 404, 405, 409, 500, 503, 504},
            allow : BOOLEAN, body : BOOLEAN]

VARIABLES
    posture,   \* "LocalOwner" or "ReadOnly", derived from the bound address
    phase,     \* "dispatching", "asking" (the kernel) or "answered"
    req,       \* the parsed request
    asked,     \* the kernel requests issued for it
    resp       \* the answer, once there is one

vars == <<posture, phase, req, asked, resp>>

(* A parsed request reaches `respond`. A connection carries one request, and   *)
(* requests share nothing in here, so a behaviour is one request's.            *)
Init ==
    /\ posture \in {"LocalOwner", "ReadOnly"}
    /\ phase = "dispatching"
    /\ req \in Requests
    /\ asked = {}
    /\ resp = [status |-> 200, allow |-> FALSE, body |-> TRUE]

-------------------------------------------------------------------------------
Answer(status, allow, body) ==
    /\ phase' = "answered"
    /\ resp' = [status |-> status, allow |-> allow, body |-> body]
    /\ UNCHANGED <<posture, req>>

(* A refusal before the kernel is asked; only some of them name `Allow`.       *)
Refuse(status, allow) == Answer(status, allow, TRUE) /\ UNCHANGED asked

(* `Face::issue`: the one door to the kernel.                                  *)
Ask(verb, target, args) ==
    /\ phase' = "asking"
    /\ asked' = asked \cup {[verb |-> verb, target |-> target, args |-> args]}
    /\ UNCHANGED <<posture, req, resp>>

(* Where an argument's value is from: the URL, the piped body, the header of   *)
(* its type, or the i-th pair of the form.                                     *)
Line == <<"line", 0>>
Body == <<"body", 0>>
Header == <<"header", 0>>
Pair(i) == <<"form", i>>

Given(names, from) == [n \in names |-> from]

NoArgs == Given({}, Line)

(* The arguments of `late` over those of `early`: late wins on collision.      *)
Merged(early, late) ==
    [n \in DOMAIN early \cup DOMAIN late |-> IF n \in DOMAIN late THEN late[n] ELSE early[n]]

(* Faulty variant: the gate stands before the direct route and not before /k/. *)
ReadOnlyRefusesDirect ==
    /\ posture = "ReadOnly"
    /\ req.path.route = "/{uri}"
    /\ req.method \notin {"GET", "HEAD"}

(* The read-only gate: only reads, and queries by POST /sparql, pass.          *)
ReadOnlyRefuses ==
    /\ posture = "ReadOnly"
    /\ req.method \notin {"GET", "HEAD"}
    /\ ~(req.method = "POST" /\ req.path.route = "/sparql")

(* Faulty variant: no Origin is taken for no browser.                          *)
OriginRefusesNamedOnly ==
    /\ req.method \notin {"GET", "HEAD", "OPTIONS"}
    /\ req.sender.origin = "foreign"

(* OriginCheck: a present Origin must be this door's; with none, a present     *)
(* Sec-Fetch-Site must be same-origin; with neither, no ambient credential.    *)
OriginRefuses ==
    /\ req.method \notin {"GET", "HEAD", "OPTIONS"}
    /\ \/ req.sender.origin = "foreign"
       \/ req.sender.origin = "absent" /\ req.sender.site = "cross-site"
       \/ /\ req.sender.origin = "absent" /\ req.sender.site = "absent"
          /\ req.sender.ambient

GateReadOnly ==
    /\ phase = "dispatching"
    /\ ReadOnlyRefuses
    /\ Refuse(403, TRUE)

GateOrigin ==
    /\ phase = "dispatching"
    /\ ~ReadOnlyRefuses /\ OriginRefuses
    /\ Refuse(403, FALSE)

Routed(route) ==
    /\ phase = "dispatching"
    /\ ~ReadOnlyRefuses /\ ~OriginRefuses
    /\ req.path.route = route

-------------------------------------------------------------------------------
(* The index asks for the repository list; the assets are the same bytes for   *)
(* every method.                                                               *)
Index == Routed("/") /\ Ask("Source", "urn:repo:list", NoArgs)

HtmxJs == Routed("/htmx.min.js") /\ Answer(200, FALSE, TRUE) /\ UNCHANGED asked

Asset ==
    /\ Routed("/browse.css")
    /\ \E status \in {200, 304} : Answer(status, FALSE, status # 304)
    /\ UNCHANGED asked

(* /sparql: a query, whose form decides the endpoint; an update or no query at *)
(* all is refused, and the editor page may show without one.                   *)
Sparql ==
    /\ Routed("/sparql")
    /\ IF req.method \notin {"GET", "POST"} THEN Refuse(405, TRUE)
       ELSE \/ Refuse(400, FALSE)
            \/ /\ req.payload.kind \notin {"bad form", "bytes"}
               /\ \/ Ask("Source", "urn:sparql:select", NoArgs)
                  \/ Answer(200, FALSE, TRUE) /\ UNCHANGED asked

Browse ==
    /\ Routed("/browse/")
    /\ IF req.path.target \notin Urns THEN Refuse(404, FALSE)
       ELSE \E status \in {200, 400} : Answer(status, FALSE, TRUE) /\ UNCHANGED asked

Meta ==
    /\ Routed("/meta/")
    /\ IF req.method # "GET" THEN Refuse(405, TRUE)
       ELSE IF req.path.target \notin Urns THEN Refuse(404, FALSE)
       ELSE Ask("Meta", req.path.target, Given(req.line, Line))

-------------------------------------------------------------------------------
(* Faulty variant: the family test forgets its colon.                          *)
PostAllowedByPrefix(target) ==
    target \in Family \cup {"urn:iki:annotationx"}

(* `post_allowed`: the annotation family, across a colon.                      *)
PostAllowed(target) == target \in Family

Piped == req.payload.kind \in {"text", "bytes"}

(* `parse_query`: a pair that does not read is dropped, without a word. *)
Read(form) == {i \in DOMAIN form : form[i].reads}

(* Each pair takes the place of an earlier one of its name. *)
Last(form, name) ==
    CHOOSE i \in Read(form) :
        form[i].name = name /\ \A j \in Read(form) : form[j].name = name => j <= i

FormArgs(form) ==
    [name \in {form[i].name : i \in Read(form)} |-> Pair(Last(form, name))]

(* Faulty variant: the form is read and nothing else.                          *)
BodyArgsFormOnly == FormArgs(req.payload.form)

(* What the body adds: a form's fields, or the piped `content` with its        *)
(* Content-Type.                                                               *)
BodyArgs ==
    IF ~Piped THEN FormArgs(req.payload.form)
    ELSE Merged(Given({"content"}, Body),
                Given(IF req.payload.typed THEN {"content-type"} ELSE {}, Header))

(* `post`: the query's arguments, the body winning on collision.               *)
PostArgs == Merged(Given(req.line, Line), BodyArgs)

(* `k_command`: the command's arguments; a piped body takes the place of both  *)
(* `content` and `content-type`.                                               *)
SinkArgs ==
    Merged(Given(IF Piped THEN req.line \ {"content", "content-type"} ELSE req.line, Line),
           BodyArgs)

(* A resource's own route: what the method makes of a urn:.                    *)
Resource(method) ==
    /\ Routed("/{uri}")
    /\ req.path.target \in Urns
    /\ req.method = method

NoResource == Routed("/{uri}") /\ req.path.target \notin Urns /\ Refuse(404, FALSE)

Get == Resource("GET") /\ Ask("Source", req.path.target, Given(req.line, Line))

Head == Resource("HEAD") /\ Ask("Exists", req.path.target, NoArgs)

Post ==
    /\ Resource("POST")
    /\ IF ~PostAllowed(req.path.target) THEN Refuse(405, TRUE)
       ELSE IF req.payload.kind = "bad form" THEN Refuse(400, FALSE)
       ELSE Ask("Sink", req.path.target, PostArgs)

NoMethod == (Resource("OPTIONS") \/ Resource("PUT")) /\ Refuse(405, TRUE)

(* The /k/ adapter: GET source and POST sink, and nothing else. Its arguments  *)
(* are text, so bytes are refused here.                                        *)
Malformed == req.path.word \in {"missing", "ragged"} \/ req.path.target \notin Iris

Command(method, word) ==
    /\ Routed("/k/")
    /\ ~Malformed
    /\ req.method = method /\ req.path.word = word

NoCommand == Routed("/k/") /\ Malformed /\ Refuse(400, FALSE)

SourceCommand ==
    Command("GET", "source") /\ Ask("Source", req.path.target, Given(req.line, Line))

SinkCommand ==
    /\ Command("POST", "sink")
    /\ IF ~PostAllowed(req.path.target) THEN Refuse(405, FALSE)
       ELSE IF req.payload.kind \in {"bad form", "bytes"} THEN Refuse(400, FALSE)
       ELSE Ask("Sink", req.path.target, SinkArgs)

OtherCommand ==
    /\ Routed("/k/") /\ ~Malformed
    /\ <<req.method, req.path.word>> \notin {<<"GET", "source">>, <<"POST", "sink">>}
    /\ Refuse(405, FALSE)

-------------------------------------------------------------------------------
(* Faulty variant: a conflict is a failed precondition.                        *)
ErrorsPrecondition == {400, 403, 404, 412, 500, 503, 504}

(* `status_of`: what the kernel's errors, or a HEAD's `false`, come out as.     *)
Errors == {400, 403, 404, 409, 500, 503, 504}

(* Faulty variant: a write's answer is revalidated like a read's.              *)
RevalidatedAll == Verbs

(* The verbs whose representation goes through `source_resp`.                  *)
Revalidated == {"Source", "Meta"}

(* The kernel answers. The index shows what it has without the list; a HEAD is *)
(* answered with no body; a Source or Meta the client holds already is a 304.  *)
Project ==
    /\ phase = "asking"
    /\ \E a \in asked, status \in {200, 304} \cup Errors :
        /\ CASE req.path.route = "/" -> status = 200
             [] a.verb \in Revalidated -> TRUE
             [] OTHER -> status # 304
        /\ Answer(status, FALSE, status # 304 /\ a.verb # "Exists")
    /\ UNCHANGED asked

Next ==
    \/ GateReadOnly \/ GateOrigin
    \/ Index \/ HtmxJs \/ Asset \/ Sparql \/ Browse \/ Meta
    \/ NoResource \/ Get \/ Head \/ Post \/ NoMethod
    \/ NoCommand \/ SourceCommand \/ SinkCommand \/ OtherCommand
    \/ Project

Spec == Init /\ [][Next]_vars

-------------------------------------------------------------------------------
Values == {Line, Body, Header} \cup {Pair(i) : i \in 1 .. MaxPairs}

Kernel == [verb : Verbs, target : Iris \cup {"urn:sparql:select"},
           args : UNION {[names -> Values] : names \in SUBSET Names}]

TypeOK ==
    /\ posture \in {"LocalOwner", "ReadOnly"}
    /\ phase \in {"dispatching", "asking", "answered"}
    /\ req \in Requests
    /\ asked \subseteq Kernel
    /\ resp \in Answers

Sinks == {a \in asked : a.verb = "Sink"}

(* Beyond loopback no request whatever becomes a Sink: the surface is gone,    *)
(* not guarded route by route (serve.rs Posture::ReadOnly).                    *)
OffLoopbackNeverSinks == posture = "ReadOnly" => Sinks = {}

(* No request a page of another origin started becomes a Sink, by either       *)
(* entrance and whatever its browser tells (serve.rs `origin_refusal`).        *)
ForeignPagesNeverSink == req.sender.who = "foreign page" => Sinks = {}

(* The one write route: both entrances reach the annotation family and nothing *)
(* beyond it, and only by POST (serve.rs `post`, `k_command`).                 *)
OneWriteRoute == \A a \in Sinks : a.target \in Family /\ req.method = "POST"

(* What can be read of a body that was accepted reaches the Sink, by both      *)
(* entrances and whatever the line names: of the pairs that read, the last of  *)
(* each name, or the piped content under its own type. So the line overrides   *)
(* no field that reads. What does not read, and all but the last of a name, is *)
(* lost without a word (serve.rs:399, "dropped rather than misread"), for all  *)
(* that serve.rs:907 says, "A bound must refuse rather than truncate".         *)
BodyReachesTheSink ==
    \A a \in Sinks :
        /\ \A i \in DOMAIN req.payload.form :
             LET pair == req.payload.form[i]
             IN  /\ pair.reads
                 /\ \A j \in DOMAIN req.payload.form : j > i => req.payload.form[j] # pair
                 => pair.name \in DOMAIN a.args /\ a.args[pair.name] = Pair(i)
        /\ Piped => "content" \in DOMAIN a.args /\ a.args["content"] = Body
        /\ Piped /\ req.payload.typed =>
             "content-type" \in DOMAIN a.args /\ a.args["content-type"] = Header

(* A method refused with 405 has asked nothing of the kernel (README.md:303,   *)
(* "before the kernel is asked"), and a 304 answers only what was asked.       *)
RefusedUnasked ==
    phase = "answered" =>
        /\ resp.status = 405 => asked = {}
        /\ resp.status = 304 => \A a \in asked : a.verb \in {"Source", "Meta"}

(* The two entrances of the one write route read a request's body and its      *)
(* arguments alike ("exactly as in `post`", serve.rs:896).                     *)
EntrancesAgree == \A a \in Sinks : a.args = PostArgs

(* "HEAD and 304-family responses send headers only" (serve.rs:292).           *)
HeadSendsHeadersOnly ==
    phase = "answered" /\ (req.method = "HEAD" \/ resp.status = 304) => ~resp.body
===============================================================================

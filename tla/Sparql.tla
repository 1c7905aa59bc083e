-------------------------------- MODULE Sparql ---------------------------------
(* sparql.rs: the /sparql face. A request's arguments are merged, the lexer    *)
(* picks the query's form, the kernel is asked under the form's name, and the  *)
(* html face is a page whose form and links ask again. A text is a sequence of *)
(* characters in which a word counts as one. The browser and the kernel are    *)
(* external.                                                                   *)
EXTENDS Integers, Sequences, FiniteSetsExt, SequencesExt

CONSTANTS
    None,
    Default,     \* the text a page shows when none was given
    Graphs,      \* graph names
    Requests,    \* the requests that reach the face
    MaxClicks    \* how often the page is used

ReadForms == {"SELECT", "ASK", "CONSTRUCT", "DESCRIBE"}

(* The media types: the page, the results types, the RDF ones, and any other.  *)
Results == {"json", "xml", "csv", "tsv"}
Rdf == {"turtle", "n-triples"}
Types == {"html"} \cup Results \cup Rdf

VARIABLES
    phase,     \* "received", "merged", "asking", "answered"
    req,       \* the request
    args,      \* its arguments once merged
    asked,     \* what the kernel was asked for it, or None
    resp,      \* its status, whether it names Allow, and the page if it is one
    clicks,    \* how often a page of the chain was used
    written,   \* history: the text this chain began with, as it was sent, or None
    narrowed   \* history: the graphs its first request named

vars == <<phase, req, args, asked, resp, clicks, written, narrowed>>

-------------------------------------------------------------------------------
(* `tokenize`. *)
Quote == "\""
LineEnds == {"\r", "\n"}
WhiteSpace == {" "} \cup LineEnds            \* what SPARQL takes for one
Space == WhiteSpace \cup {"NBSP"}            \* what char::is_whitespace does
Delimiters == Space \cup {"#", "<", Quote}

(* The first place from i on that holds one of `stops`, or past the end.       *)
Reach(text, i, stops) ==
    Min({j \in i..Len(text) : text[j] \in stops} \cup {Len(text) + 1})

(* A quote closes the string opened at i unless an odd run of backslashes, all *)
(* inside the string, leads up to it.                                          *)
Closes(text, i, j) ==
    /\ text[j] = Quote
    /\ LET run == j - 1 - Max({k \in i..j - 1 : text[k] # "\\"}) IN run % 2 = 0

TokenEnd(text, i) ==
    CASE text[i] = "<" -> Min({Reach(text, i + 1, {">"}), Len(text)})
      [] text[i] = Quote ->
            Min({j \in i + 1..Len(text) : Closes(text, i, j)} \cup {Len(text)})
      [] OTHER -> Reach(text, i, Delimiters) - 1

Tokenize(text) ==
    LET From[i \in 1..Len(text) + 1] ==
            IF i > Len(text) THEN <<>>
            ELSE IF text[i] \in Space THEN From[i + 1]
            ELSE IF text[i] = "#"
                 THEN From[Min({Reach(text, i, {"\n"}), Len(text)}) + 1]
                 ELSE <<SubSeq(text, i, TokenEnd(text, i))>> \o From[TokenEnd(text, i) + 1]
    IN  From[1]

(* Faulty variant: only the name of a prefix is skipped.                       *)
QueryFormShort(text) ==
    LET tokens == Tokenize(text)
        At[i \in 1..Len(tokens) + 3] ==
            IF i > Len(tokens) THEN "none"
            ELSE IF tokens[i] \in {<<"PREFIX">>, <<"BASE">>} THEN At[i + 2]
            ELSE IF tokens[i] \in {<<form>> : form \in ReadForms} THEN tokens[i][1] ELSE "none"
    IN  At[1]

(* `query_form`: the prologue is skipped, and the next token is a read form or *)
(* the query is refused.                                                       *)
QueryForm(text) ==
    LET tokens == Tokenize(text)
        At[i \in 1..Len(tokens) + 3] ==
            IF i > Len(tokens) THEN "none"
            ELSE IF tokens[i] = <<"PREFIX">> THEN At[i + 3]
            ELSE IF tokens[i] = <<"BASE">> THEN At[i + 2]
            ELSE IF tokens[i] \in {<<form>> : form \in ReadForms} THEN tokens[i][1] ELSE "none"
    IN  At[1]

(* What the SPARQL grammar makes of a text, which it reads by what it expects  *)
(* next: a declaration or the query's own word, the name that a PREFIX binds,  *)
(* or an IRI. Either line end ends a comment. A text whose declarations break  *)
(* off, or that has a space the grammar has not, is malformed, and "none" is   *)
(* one in which no read form stands apart after them.                          *)
FormOf(text) ==
    LET Alone(i) == i = Len(text) \/ text[i + 1] \in Delimiters
        Reading[i \in 1..Len(text) + 1] == [expected \in {"query", "name", "iri"} |->
            IF i > Len(text) THEN IF expected = "query" THEN "none" ELSE "malformed"
            ELSE IF text[i] \in WhiteSpace THEN Reading[i + 1][expected]
            ELSE IF text[i] \in Space THEN "malformed"
            ELSE IF text[i] = "#"
                 THEN Reading[Min({Reach(text, i, LineEnds), Len(text)}) + 1][expected]
            ELSE IF expected = "iri"
                 THEN IF text[i] = "<" /\ Reach(text, i, {">"}) <= Len(text)
                      THEN Reading[Reach(text, i, {">"}) + 1]["query"] ELSE "malformed"
            ELSE IF expected = "name"
                 THEN IF text[i] \notin Delimiters /\ text[Reach(text, i, Delimiters) - 1] = ":"
                      THEN Reading[Reach(text, i, Delimiters)]["iri"] ELSE "malformed"
            ELSE IF text[i] = "PREFIX" /\ Alone(i) THEN Reading[i + 1]["name"]
            ELSE IF text[i] = "BASE" /\ Alone(i) THEN Reading[i + 1]["iri"]
            ELSE IF text[i] \in ReadForms /\ Alone(i) THEN text[i] ELSE "none"]
    IN  Reading[1]["query"]

(* A carriage return that a newline follows.                                   *)
CRLF(text, i) == text[i] = "\r" /\ i < Len(text) /\ text[i + 1] = "\n"
Bare(text) == \E i \in DOMAIN text : text[i] = "\r" /\ ~ CRLF(text, i)

(* A carriage return on its own ends a comment for the grammar and not for the *)
(* lexer, and something of the text is left for them to part over.             *)
CutShort(text) ==
    \E hash \in DOMAIN text, cr \in 1..Len(text) - 1 :
        /\ text[hash] = "#" /\ hash < cr /\ text[cr] = "\r" /\ ~ CRLF(text, cr)
        /\ \A j \in hash..cr : text[j] # "\n"

-------------------------------------------------------------------------------
(* Faulty variant: each body field replaces what came before it under its name.*)
MergeByPair(r) ==
    IF r.method = "POST" /\ r.kind = "form"
    THEN [name \in DOMAIN r.url |->
            IF r.body[name] # <<>> THEN <<Last(r.body[name])>> ELSE r.url[name]]
    ELSE IF r.method = "POST" /\ r.kind = "raw"
    THEN [r.url EXCEPT !.query = r.body.query]
    ELSE r.url

(* Body fields replace the URL's by name, all of them kept; a raw body is the  *)
(* query and replaces no other name.                                           *)
Merge(r) ==
    IF r.method = "POST" /\ r.kind = "form"
    THEN [name \in DOMAIN r.url |->
            IF r.body[name] # <<>> THEN r.body[name] ELSE r.url[name]]
    ELSE IF r.method = "POST" /\ r.kind = "raw"
    THEN [r.url EXCEPT !.query = r.body.query]
    ELSE r.url

(* A sequence without the elements of `dropped`. *)
Without(s, dropped) ==
    LET Kept[i \in 0..Len(s)] ==
            IF i = 0 THEN <<>>
            ELSE IF s[i] \in dropped THEN Kept[i - 1] ELSE Append(Kept[i - 1], s[i])
    IN  Kept[Len(s)]

(* A form submission's line ends, and the face's undoing of them.              *)
Submitted(text) ==
    FlattenSeq([i \in DOMAIN text |->
        IF text[i] = "\n" THEN <<"\r", "\n">> ELSE <<text[i]>>])
Received(text) ==
    FlattenSeq([i \in DOMAIN text |-> IF CRLF(text, i) THEN <<>> ELSE <<text[i]>>])

IsBlank(text) == \A i \in DOMAIN text : text[i] \in Space

(* The first `query`, if it is not blank. *)
Query(a) ==
    IF a.query = <<>> \/ IsBlank(Received(a.query[1])) THEN None ELSE Received(a.query[1])

(* `graphs`: every one named, in order, blanks dropped.                        *)
Named(graph) == Without(graph, {""})

(* The first item of an Accept header that is one of `types`.                  *)
FirstOf(accept, types) ==
    LET known == {i \in DOMAIN accept : accept[i] \in types}
    IN  IF known = {} THEN None ELSE accept[Min(known)]

(* `accept_result_type`: the first type it knows.                              *)
AcceptResultType(accept) == FirstOf(accept, Types)

(* What an endpoint of a form can answer in.                                   *)
Family(form) == IF form \in {"CONSTRUCT", "DESCRIBE"} THEN Rdf ELSE Results

(* Faulty variant: the first type known, whatever the form.                    *)
AcceptForAnyForm(accept, form) == AcceptResultType(accept)

(* `accept_for_form`: the first type known that the form can answer in.        *)
AcceptForForm(accept, form) == FirstOf(accept, Family(form))

(* What the page has executed, so that it can render it.                       *)
PageAs(form) ==
    CASE form = "SELECT" -> "tsv" [] form = "ASK" -> "csv" [] OTHER -> None

-------------------------------------------------------------------------------
(* Texts of any characters, the line ends named for the prover's sake.         *)
Texts == Seq(STRING \cup LineEnds)

(* Arguments by name, each a sequence: no code looks at the order of two names.*)
Arguments == [query : Seq(Texts), as : Seq(Types), graph : Seq(Graphs \cup {""})]

ASSUME DefaultAssumption ==
    /\ Default \in Texts /\ ~ IsBlank(Default)
    /\ \A i \in DOMAIN Default : Default[i] # "\r"
ASSUME NoneAssumption ==
    None \notin Types \cup Texts \cup [form : ReadForms, query : Texts, as : Types \cup {None},
                           graphs : Seq(Graphs)]
ASSUME RequestsAssumption == \A r \in Requests :
    /\ r.method \in {"GET", "POST", "HEAD"}
    /\ r.kind \in {"none", "form", "bad-form", "raw", "bad-raw"}
    /\ r.kind = "raw" => /\ Len(r.body.query) = 1
                         /\ r.body.as = <<>> /\ r.body.graph = <<>>
    /\ r.url \in Arguments /\ r.body \in Arguments
    /\ r.accept \in Seq(STRING)

-------------------------------------------------------------------------------
NoAnswer == [status |-> 0, allow |-> FALSE, page |-> None]

(* What a chain is about, by its first request: its query and its graphs.      *)
Starts(r) ==
    LET by == IF r.method = "POST" /\ r.kind \in {"form", "raw"} THEN r.body ELSE r.url
        query == IF by.query # <<>> THEN by.query ELSE r.url.query
    IN  [query |-> IF query = <<>> \/ IsBlank(query[1]) THEN None ELSE query[1],
         graphs |-> Named(IF by.graph # <<>> THEN by.graph ELSE r.url.graph)]

Init ==
    /\ phase = "received"
    /\ req \in Requests
    /\ args = req.url
    /\ asked = None
    /\ resp = NoAnswer
    /\ clicks = 0
    /\ written = Starts(req).query
    /\ narrowed = Starts(req).graphs

Answer(status, allow, page) ==
    /\ phase' = "answered"
    /\ resp' = [status |-> status, allow |-> allow, page |-> page]

Request == <<req, clicks, written, narrowed>>

RefuseMethod ==
    /\ phase = "received"
    /\ req.method \notin {"GET", "POST"}
    /\ Answer(405, TRUE, None)
    /\ UNCHANGED <<args, asked, Request>>

(* A form or a raw body that is not UTF-8. *)
RefuseBody ==
    /\ phase = "received"
    /\ req.method = "POST" /\ req.kind \in {"bad-form", "bad-raw"}
    /\ Answer(400, FALSE, None)
    /\ UNCHANGED <<args, asked, Request>>

MergeArgs ==
    /\ phase = "received"
    /\ req.method \in {"GET", "POST"}
    /\ req.method = "POST" => req.kind \notin {"bad-form", "bad-raw"}
    /\ args' = Merge(req)
    /\ phase' = "merged"
    /\ UNCHANGED <<asked, resp, Request>>

(* The form that runs: "none" where the query is missing, blank or no read.    *)
ReadForm == IF Query(args) = None THEN "none" ELSE QueryForm(Query(args))

WantsPage == args.as = <<>> /\ AcceptResultType(req.accept) = "html"

(* Faulty variant: no newline is written. *)
WrittenBare(text) == text

(* The textarea of a page: a newline is written before a text that begins with *)
(* one, since the HTML parser makes one of every line end, then drops a first. *)
Written(text) == IF text # <<>> /\ text[1] = "\n" THEN <<"\n">> \o text ELSE text
Lined(text) ==
    FlattenSeq([i \in DOMAIN text |->
        IF CRLF(text, i) THEN <<>> ELSE IF text[i] = "\r" THEN <<"\n">> ELSE <<text[i]>>])
Parsed(html) ==
    LET lines == Lined(html) IN IF lines # <<>> /\ lines[1] = "\n" THEN Tail(lines) ELSE lines

(* `editor_page`: the query of its links, that of its textarea, and its graphs,*)
(* which travel with both.                                                     *)
Page ==
    LET q == IF Query(args) = None THEN Default ELSE Query(args)
    IN  [query |-> q, box |-> Parsed(Written(q)), graphs |-> Named(args.graph)]

(* The page of no query, or of one with no form to run, asks nothing.          *)
ShowPage ==
    /\ phase = "merged"
    /\ WantsPage
    /\ ReadForm = "none"
    /\ Answer(200, FALSE, Page)
    /\ UNCHANGED <<args, asked, Request>>

(* `execute`: one `graph` argument for all the graphs.                         *)
Execute(as) ==
    /\ asked' = [form |-> ReadForm, query |-> Query(args),
                 as |-> as, graphs |-> Named(args.graph)]
    /\ phase' = "asking"
    /\ UNCHANGED <<args, resp, Request>>

RunPage ==
    /\ phase = "merged"
    /\ WantsPage
    /\ ReadForm # "none"
    /\ Execute(PageAs(ReadForm))

(* No query, or no read form: update forms among them. *)
RefuseQuery ==
    /\ phase = "merged"
    /\ ~WantsPage
    /\ ReadForm = "none"
    /\ Answer(400, FALSE, None)
    /\ UNCHANGED <<args, asked, Request>>

RunRaw ==
    /\ phase = "merged"
    /\ ~WantsPage
    /\ ReadForm # "none"
    /\ Execute(IF args.as # <<>> THEN args.as[1]
               ELSE AcceptForForm(req.accept, ReadForm))

(* The endpoint answers, refuses a type of the other family, or fails for any  *)
(* reason of its own; a page is a page all the same.                           *)
KernelAnswers ==
    /\ phase = "asking"
    /\ \E status \in {200, 304, 400, 403, 404, 500, 503} :
        /\ asked.as \notin Family(asked.form) \cup {None} => status = 400
        /\ IF WantsPage THEN Answer(200, FALSE, Page) ELSE Answer(status, FALSE, None)
    /\ UNCHANGED <<args, asked, Request>>

-------------------------------------------------------------------------------
(* The page is used: a browser asks again, for what the chain is about, or for *)
(* the default that a page of no query shows.                                  *)
Shown == IF written = None THEN Default ELSE written

Asks(query, as, graphs) ==
    /\ phase = "answered" /\ resp.page # None
    /\ clicks < MaxClicks
    /\ clicks' = clicks + 1
    /\ phase' = "received"
    /\ req' = [method |-> "GET", kind |-> "none", accept |-> <<"html">>, body |-> req.body,
               url |-> [query |-> <<query>>, as |-> as, graph |-> graphs]]
    /\ args' = req'.url
    /\ asked' = None
    /\ resp' = NoAnswer

(* Run: the form's hidden fields and its textarea, as it stands.               *)
Run ==
    /\ Asks(Submitted(resp.page.box), <<>>, resp.page.graphs)
    /\ written' = Shown
    /\ UNCHANGED narrowed

(* Run after the person typed another query. *)
RunEdited(q) ==
    /\ Asks(Submitted(q), <<>>, resp.page.graphs)
    /\ written' = q
    /\ UNCHANGED narrowed

(* The raw links beside the query the page was asked for.                      *)
FollowRaw(type) ==
    /\ Asks(resp.page.query, <<type>>, resp.page.graphs)
    /\ written' = Shown
    /\ UNCHANGED narrowed

(* A sample in the sidebar, which starts over: its link names no graph.        *)
FollowSample(q) ==
    /\ Asks(q, <<>>, <<>>)
    /\ written' = q
    /\ narrowed' = <<>>

Next ==
    \/ RefuseMethod \/ RefuseBody \/ MergeArgs
    \/ ShowPage \/ RunPage \/ RefuseQuery \/ RunRaw \/ KernelAnswers
    \/ Run \/ RunEdited(Default) \/ FollowSample(Default)
    \/ \E type \in {"json", "csv"} : FollowRaw(type)

Spec == Init /\ [][Next]_vars

-------------------------------------------------------------------------------
Served == req.method \in {"GET", "POST"} /\ (req.method = "POST" => req.kind \notin {"bad-form", "bad-raw"})

(* Whatever comments, prefixes, IRIs and line ends stand before it, the kernel *)
(* is asked under the form the grammar gives the query, an update form never   *)
(* among them; and a query of a read form whose word stands apart is not       *)
(* refused for its form. It is said of every text but those in which a comment *)
(* is ended by a carriage return on its own, which the lexer reads past.       *)
FormOfTheQuery ==
    /\ asked # None =>
           /\ asked.form \in ReadForms
           /\ CutShort(asked.query) \/ FormOf(asked.query) \in {asked.form, "malformed"}
    /\ phase = "answered" /\ Served /\ Query(args) # None =>
           \/ CutShort(Query(args))
           \/ FormOf(Query(args)) \in ReadForms => asked # None

(* The set of graphs a chain of requests began with is the one every query of  *)
(* it runs over, through bodies that replace the URL's, the page's hidden      *)
(* fields and its links: none lost, none added, never the default dataset.     *)
NarrowingTravels == asked # None => asked.graphs = narrowed

(* The query run is the one written, by URL, form or raw body, and again after *)
(* a page has carried it through its textarea or its links: to the character,  *)
(* its line ends made newlines. Of one with a carriage return on its own, that *)
(* the face keeps and the textarea does not, all but the line ends is kept.    *)
QueryTravels ==
    asked # None =>
        /\ ~ Bare(written) => asked.query = Received(written)
        /\ Without(asked.query, LineEnds) = Without(written, LineEnds)

(* A client that spells no `as` is asked for, from its Accept header, a type   *)
(* that the form of its query can be answered in, if it lists one.             *)
Answerable ==
    asked # None /\ args.as = <<>> =>
        /\ asked.as \in Family(asked.form) \cup {None}
        /\ asked.as = None /\ ~WantsPage =>
            \A i \in DOMAIN req.accept : req.accept[i] \notin Family(asked.form)
===============================================================================

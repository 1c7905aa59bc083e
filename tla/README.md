# A TLA+ verification project for ikigai-web

ikigai-web is an HTTP server over an ikigai kernel whose whole space is a set of
remote peers mounted over Unix sockets. It listens on one address, reads one
request per connection, lets two gates and a router decide what to ask of the
kernel, and asks it under one capability. The modules here model the parts of
`src/src` that keep state or decide, TLC checks them on small instances, and
TLAPS proves the central properties for every value of the constants.

## The system

| Part | Source | State | Operations | Hard because of |
|---|---|---|---|---|
| Accept loop, error table, backoff | `serve.rs` `serve_until_error`, `accept.rs` | the `Backoff` struct, the sleep it is in | accept, classify, `failed`, `succeeded` | descriptors run out while connections queue; a dead listener hides behind a full table; an episode interleaves with skips and successes |
| Connection | `serve.rs` `handle`, `read_request`, `write_response` | the buffer, the read budget | read head, read body, refuse, time out, write | the network cuts the stream anywhere; silence, early close, sizes at the limits |
| Routing and write gates | `serve.rs` `respond` and its handlers | none but the request in hand; the posture is fixed at start | two gates, then a route each | many routes, two entrances to one write, refusals that must precede the kernel |
| Lazy mounts | `mounts.rs` `LazyIpcResolver` | the kept resolver, behind a mutex | `issue`, `issue_as`, `is_cached`, `entries` | calls race for the first dial, the peer comes and goes |
| SPARQL face and editor page | `sparql.rs` | none but the request; the page carries a query and its graphs | merge arguments, pick the form and the type, execute, render | a lexer decides what is read-only; a query goes through a page and comes back |
| Mount composition | `mounts.rs` `compose_space` | the order of the spaces | parse, dial the eager ones, sort | the longest prefix must win |
| Startup | `main.rs`, `config.rs`, `ceiling.rs` | flags and configuration | precedence, refusals, bind | the refusals are made before and after the bind |
| Revalidation | `serve.rs` `get`, `cache_control`, `etag_of`, `source_resp` | the copies caches keep by its headers | 200 or 304 | several faces at one URL, a resource that changes while answers travel |
| Browse shell | `serve.rs` `browse_shell`, `view_args`, `SHELL_JS` | address bar, title, view, focus, the status region | load, follow, Back, refuse, announce | answers out of order in a browser, timers |

A connection taken by the **accept loop** becomes a task that runs
**Connection**; what that reads whole goes to **Respond**; the kernel resolves
what Respond asks through the mounts, of which a `prefer` mount is
**LazyMount**. The parts share little: descriptors tie connections to the accept
loop, and the mutex of a mount ties the requests that reach it to each other.
Beyond the server, what **Revalidation** and **Shell** answer for is what others do
with its answers: caches that keep them, a browser that shows them late.

## Modules

### Door and AcceptLoop

`Door` is what a caller of `serve_until_error` is promised: connections are
taken from the front of the queue, exhaustion makes the door struggle but never
close, and only a dead listener lets it go. `AcceptLoop` is the code, and
implements it: `door` is read off the loop and `Backoff::next`.

One action per outcome of `listener.accept()` (`AcceptWouldBlock`, `AcceptOk`,
`AcceptSkip`, `AcceptBackOff`, `AcceptFatal`) and `Wake` for the end of the
sleep. Around it, external: clients arriving, handlers finishing, the rest of
the process taking and freeing descriptors, the listener dying, and what
accept(2) may answer, which includes Linux reserving the descriptor before it
looks at the listener (`accept.rs` says so, and `tests/accept_exhaustion.rs`
shows it). tokio clears its readiness only when accept would block. `log` and `seen` are history: the lines printed, and the episode as an
onlooker counts it.

Two things the model makes plain. An episode ends only with a successful accept:
a skipped connection, or descriptors that become free with nobody connecting,
leaves it open. And the waits slept are exactly those reported, because the
struct sums what it hands out and the loop sleeps all of it.

### Connection

Bytes are counted, not looked at. A client's stream is the length of its head,
the length it declares, how much it sends before it falls silent, and whether
the head parses. Each read takes any part of what was sent, so every way of
cutting the stream is a behaviour; what the code does between two awaits is one
step. `Tick` is the clock of `READ_BUDGET`. A missing or unreadable
Content-Length is a declared 0, as in the code: such a body is dropped. An empty
path makes `respond` panic at `&req.path[1..]`, and the client gets no answer.

### Respond

What one request may make of the kernel, from the parsed request to the answer.
Requests share nothing in `respond`, so a behaviour is one request's. Paths,
senders and bodies are the classes the gates and handlers tell apart. Arguments
are functions from names to where the value came from (the line, the body, the
Content-Type header, the i-th pair of the form): the kernel's arguments are a map,
so the `retain` and `push` of the code come to `Merged`. A form is its pairs in
order; `Read` keeps those that `parse_query` can decode, and `FormArgs` the last of
each name. OriginCheck is another crate and is modelled
from what `origin_refusal` says of it. A foreign page is one whose browser sends
Origin or Sec-Fetch-Site, or else replays a credential; a browser that does none
of the three cannot be told from `curl`, and the rule admits it.

### LazyMount

Any number of calls, each in its own task, over one peer, which this process finds
up, down or `barred` (up, and yet not to be connected to: no descriptor left, a path
without permission, a handshake that fails), since `get` makes Unavailable of every
error of `connect`. `get` looks under the
mutex, dials outside it and stores under it again. `is_cached` holds the guard to
the end of its `match`, so the model keeps the mutex across the call to the
resolver (`Probe`, `ProbeEnds`). Calls that race for the first dial each store
what they dialled and use their own; the last one stored stays. `issue`, `issue_as` and `entries` differ in what
they pass on and not in what they do to the mount, so they are one kind of call. That
`issue_as` passes the capability on is one line of code and no property.

### Compose and Startup

`Compose` is `compose_space`: one action for each arm of the match over the
lines, `EagerRefused` for a dial that fails, and `Order` for the stable sort and
the chain it leads to. The sort is stated by its result, the one order of the
places in which a longer prefix comes first and an earlier line before an equally
long one. A line stands for its kind and its prefix; the target matters only in
whether its peer answers, which is nondeterministic. `AnsweredAt` is `Fallback`:
the first space that claims the IRI.

`Startup` is `main`: an action for each flag, then one for each thing the main
thread works out, in its order (the file, the mount lines, the address, the
ceiling, the refusal), then the composition, the bind and `serve`. It extends
`Compose`: in the stage `dialling` its steps are those of `ComposeNext`, over the
lines that were given, so a socket opens only after a real composition. `caller` is `main`, or `library`: a program that calls
`serve_until_error` with whatever listener and ceiling it likes, which the code's
comments say must be refused all the same. `typed` is history: the arguments as
an onlooker reads them, against which the flags' precedence is stated. A value
that parses stands for what it parses to, any other is `Malformed`; the file
holds, for each key, the sequence of its lines, so `value_for` and `values_for`
differ as they do in the code. A `ceiling` of `{}` stands for `unset`, which no
scoped ceiling can be confused with, since `Ceiling::scoped` refuses to be empty.

### Sparql

One chain of requests: a request, its answer, and what a person does next with
the page if it is one. A text is a sequence of characters in which a word counts
as one, so the lexer is modelled whole (comments, IRIs with a `#` or a word in
them, strings with escaped quotes) and no word is spelled out. `Tokenize` and
`QueryForm` are recursive functions. What a query *is* says `FormOf`, which reads a
text as the SPARQL grammar does, by what it expects next, and cuts no tokens;
`FormOfTheQuery` compares the two. They differ on purpose: to the grammar a carriage
return and a newline each end a comment, and only a few characters are white space;
to the lexer only a newline ends a comment, and white space is what
`char::is_whitespace` says ("NBSP" stands for the rest of it). `CutShort` names the
texts on which that matters. `MCSparql` has TLC check `FormOf` against queries it
renders from the grammar, whose form is known because they were made of it. The merge of the arguments works on sequences,
since `graph` may be repeated; the order of different names is looked at by no
code. `Written` and `Parsed` are the newline that `editor_page` adds and the one the
HTML parser drops, once it has made every line end a newline (`Lined`); `Submitted` is
the form's carriage returns, and `Received` the code's `replace("\r\n", "\n")`, which
leaves a carriage return on its own where it is (`Bare`). `written` and `narrowed` are history: the query and the graphs the
person last asked with.

`query_form` wants the form's word apart from what follows: `ASK{...}` and
`SELECT*...` are refused, and `FormOf` says "none" of them. Of a text whose
declarations break off it says "malformed", and the code may take it for any form. A sample in the sidebar
names no graph, so it starts the narrowing over. The text of a page's textarea is
what `html_text` of the query parses back to; escaping is left out, and `html_text` and
`url_segment`, of another crate, are taken to pass a carriage return on.

### Revalidation

`source_resp` before a cache that clients share (a browser's own is the case of one
client). The server's part is `AcceptFace`, `As`, `CacheControl`, `EtagOf` and
`SourceResp`; the rest is what RFC 9110 and 9111 let a cache do with it, and marked
external. A face is a type and its bytes, and two faces may hold the same bytes.
The resource changes at any moment at which no deadline the kernel gave still
holds, also while a call or its answer is on its way, so what is right to give a
client is what was current *at some moment of its call* (`seen`). The clock has
several ticks in a second, because `cache_control` rounds down and an off-by-a-part
would be staleness; a copy's age counts from when the call was sent. An answer of
`no-store` takes the copy it matches away. `IfNoneMatchHits` leaves out `*`, which no
client or cache here sends. Representations from mounts arrive with the expiry
`Always`, so deadlines and `Never` are met only by what is resolved locally; the model
has all three.

### Shell

The document of `browse_shell` and its script. A view is a resource with its
arguments; an address names a view in one of four spellings: as `viewOf` writes it,
with more than the view ("other": an `as=`, which `view_args` drops), with its colons
as `%3A` ("escaped"), or with those escaped in turn ("twice"). Three conversions meet
there: the server decodes a path once, `decodeURI` of popstate leaves `%3A` as it is,
and `encodeURI` of `viewOf` makes `%253A` of it. `WordOf`, `UrlOf` and `Found` are
what each does. A page at an address spelled "twice" is a 404 without the script, and
a jump in its history moves the address alone (`GoUnscripted`). `flight` holds the requests
that are not answered yet, each answered or refused at any time. External are the
browser's session history and the parts of htmx (`assets/htmx.min.js`) that decide
orders: an element with a request in flight keeps the last of those that follow
(`GoQueues`), `htmx.ajax` without a source asks as the body, a control that a swap
took off the page still swaps its own answer in, and its refusal reaches no
listener. `failed` and `owed` are history: that the address's load was refused, and
the last request of the person's that was, whether or not anyone was told. Only
swaps into the region are modelled: `afterSwap` returns early on any other target. A
control that a 403 disabled while it had the focus leaves it nowhere in particular,
which the model calls `page`.

What the model makes plain, none of it against a promise of the code: Back then
Forward before the first view answers leaves a late answer that pushes an entry of
its own, so the entries ahead are lost though title and address stay in step; Back to
an address spelled otherwise than `viewOf` spells it loads the same view and pushes it
again in `viewOf`'s spelling, so that Back need not lead elsewhere; and the page's own load pushes when the answer to a
popstate came first.

## What the runs show

| Run | Instance | Shows |
|---|---|---|
| `accept` | 4 connections, 3 descriptors, waits 10..1000 ms, episodes of up to 10 failures, errors of every class, aborting limit; fair loop (19 k states) | episode bookkeeping, its two log lines, the schedule, what may end the loop; a queue moves or its episode never ends, death shows, `Door` is implemented |
| `connection` | limits 5 and 2, reads of 5 and 2, budget 2, streams up to 13 bytes (541 k states) | verdict, memory and time for every cut of every stream |
| `respond` | one argument name beside `content` and `content-type`, forms of up to 2 pairs that read or do not, both postures, all request classes (2.1 M states) | what may become a write, and with which arguments; that a refusal asks nothing |
| `mount` | 3 calls, 3 dials, a peer that goes out of reach twice; fair calls (110 k states) | meaning of a 503, who dials, who holds the mutex, no call waits for ever on the mutex |
| `compose` | up to 4 lines, 4 prefixes of which two nest and one is longer than both, any peer refusing | no line is lost, the most specific mount answers |
| `startup` | 1 loopback and 1 other address, 2 scopes, 2 arguments, 540 files (509 k states) | what a socket that opens may be, serve and hold |
| `sparql` | 2 graphs, every rendering of a prologue of up to two declarations, every line end, every spelling of the arguments, two uses of the page (80 k states) | the kernel is asked the query written, under its form, over its graphs, in a type it can answer |
| `revalidation` | 2 clients (symmetric), 2 faces, 2 contents (symmetric), 2 Accept headers, 2 ticks to a second, a clock of 2 (1.2 M states) | nothing stale and nothing of another face is given |
| `shell` | 3 views (symmetric) and a form, 4 spellings, 5 deeds (491 k states) | address, what a reload opens, focus and speech, whatever the order of the answers |
| `entrances`, `head_body`, `half_read` | as above | the disagreements below |

**Bounds.** Ten failures pass the cap of the waits (10 ms doubled seven times
exceeds 1 s), and the unit test of `accept.rs` lists as many. Three descriptors
let the table be full of connections, of other descriptors, and of both. In
`connection` a head can be within the limit, above it by less than a read (where the cut
decides), and above it by more; a body can be over its limit by more than a read. In `mount`
three calls are two that race for the dial and one that comes after; the peer may
start in any state, so two departures put it out of reach before, between and after
the dials. In `respond` two pairs are two of one name, two of different names, and one
that reads beside one that does not.
`MaxFailures`, `MaxBytes`, `MaxPairs`, `MaxDials`, `MaxCuts`, `MaxLines`, `MaxArgs`, `MaxTime`,
`Deadlines`, `MaxClicks` and `MaxDeeds` are the only bounds in guards or inputs. In `compose` four
lines hold two fronting lines of one length beside a third and an alias, in every order. In `startup` two arguments are a flag
and its rival, a flag given again, two scopes, or a mount and a flag, and a file
has every combination of none, one or two lines of each key, good or malformed;
the proofs hold for any number of arguments and any file.
`MaxDials` is the number of calls, so it cuts nothing. In `sparql` a page is used
twice, so that a page that came from a page is used too; two graphs
tell a set from its first and its last member. In `revalidation` a clock of two
ticks holds the moments before a deadline, at it, and within its last second; two
clients are one that stores and one that is served, in either order; no URL of the
instance has an `as=` of its own, which `AlwaysRightFace` covers. In `shell` five
deeds are two views, a Back, a Forward and one more while all of it is unanswered,
and three views tell the one shown, the one addressed and the one late.

**Symmetry** permutes clients and contents in `revalidation` and views in `shell`;
both check invariants only. The runs with liveness use none.

**Deadlock** is checked where the system should never stop: in `AcceptLoop`,
whose listener may be idle but whose environment always has a step. A connection,
a request, a call, a start and a chain of queries end, and a clock and a person's
deeds are bounded, so the others allow it.

**Fairness.** `AcceptLoop`: weak fairness of the loop alone, since the runtime
polls a ready task and fires its timers. Nothing is assumed of clients, handlers
or descriptors: the code bounds neither `respond` nor the write, and a handler may
keep its descriptor for ever. So `DeathShows` is said of a time after which
descriptors stay free, and `QueueMoves` has for its other outcome an episode that
reaches `MaxFailures`, since an error may recur at every retry without end, free
descriptors or not: the code never leaves a queue without a next retry, and promises
no more. `LazyMount`: weak fairness of the steps in which a call waits for the mutex
alone (`Get`, `Store`, `Probe`). A dial, an answer and the probe's answer are the peer's,
under no timeout, and nothing is fair about them; that none is awaited for ever is the
premise of `EveryCallEnds`, which then says that the mutex starves nobody. A peer that
stays silent does block a mount whose `is_cached` is asking it.

### Disagreements between the code and its words

- `EntrancesAgree` (`entrances`): `/k/sink` with a piped body that has no
  Content-Type drops the command's `content-type`, where a direct POST keeps the
  query's; the comments of `k_command` call the rule the same and its one
  difference a refusal.
- `HeadSendsHeadersOnly` (`head_body`): only a resource's own HEAD and a 304
  leave the body out; HEAD of `/`, an asset, `/browse/` or any refusal sends one.
- `NeverHalfRead` (`half_read`): a config with two `web.bind` lines that differ is
  served by the first, though `resolve_bind` is said never to half-read a config
  that cannot mean one thing.

Beside these, and with no run of their own; each is stated in the property named:

- `read_request` looks for the head's end before its length (serve.rs:316-321), so a
  head up to one read longer than `MAX_HEAD`, the "Largest accepted request head"
  (serve.rs:24), is served or refused as the network cuts it (`VerdictOfTheStream`).
- A form's pair that does not decode, and all but the last of one name, is lost without
  a word (serve.rs:398-409, 806-809), where `k_command` says "A bound must refuse
  rather than truncate" (serve.rs:907) (`BodyReachesTheSink`).
- A carriage return on its own ends a comment in SPARQL and not in `tokenize`
  (sparql.rs:237-242): of `# c\rINSERT ...\nSELECT` the lexer sees the select, so an
  update is asked of a read endpoint, against "rejected loudly at the face"
  (sparql.rs:30) and serve.rs:607; and `# c\rSELECT ...` is refused
  (`FormOfTheQuery`, by `CutShort`). The endpoint is asked by `Verb::Source` in any case.
  And the textarea makes a newline of it, so that a query run again from the page is
  not to the character the one written (`QueryTravels`, by `Bare`).
- Back to an address with an escaped colon pushes `/browse/urn%253A...`, whose reload
  is a 404, against "a reload, Back or a shared link opens that view"
  (serve.rs:979) (`ReloadOpens`).
- A refusal that arrives when its control has been swapped off the page is neither
  noted nor said, against "say WHY when an affordance is refused" (serve.rs:1135)
  (`SpokenIsAsked`).
- The comment on `SHELL_JS` has Back and Forward load the view for the URL, and a Forward
  overtaken by a late answer finds its entry gone; and the table in the repository's
  README promises `Allow` on every 405, and the 405s of the `/k/` adapter carry none.

## What is proved

Eight modules of theorems, each for every value of the constants that the named
assumptions admit.

- **AcceptLoopProofs.** `TypeCorrect`, `EpisodeAlwaysConsistent`,
  `EpisodeAlwaysReported`, `AlwaysOnSchedule`, `OnlyDeathEverEnds` and the refinement
  `LoopImplementsDoor`. The property about the log is not inductive by itself: it
  needs, in every state, that the totals in the struct equal what the onlooker
  saw, up to the sleep in progress, and that an episode is open exactly when the
  onlooker says so. `AlwaysOnSchedule` gives the wait after any number of failures
  in closed form: `Uncapped` is the floor doubled, and one more failure is one more
  doubling, below the ceiling and at it. `QueueAlwaysWatched` is the part of
  `QueueMoves` that needs no fairness: a queue at a live listener is never left to a
  loop that waits for a readiness already spent. Assumed: 0 < floor <= ceiling, and that a live listener with
  a free descriptor never answers with a dead one's errno.
- **ConnectionProofs.** `TypeCorrect`, `VerdictAlwaysOfTheStream`, `BufferAlwaysBounded`,
  `ReadingAlwaysBounded`. The invariant adds how far reading can have got in each
  phase: less than the whole head while in the head, less than the whole body
  while in the body, and `age + left = Budget`. What is served or refused is the
  stream's own verdict for every cut, but in the band of one read above `MAX_HEAD`,
  which the theorem names and bounds. Assumed: the limits are naturals
  and a read takes at least a byte.
- **RespondProofs.** `TypeCorrect`, `OffLoopbackNeverEverSinks`, `ForeignPagesNeverEverSink`,
  `OneWriteRouteOnly`, `BodyAlwaysReachesTheSink`, `AlwaysRefusedUnasked`, for any
  set of argument names.
  The invariant `Accountable` says of every Sink issued that its request passed
  both gates and came by one of the two entrances, with that entrance's
  arguments; that the body wins then follows from `LateWins`, and that a form's last
  pair that reads wins among its own from what `Last` chooses.
  `Sound` adds to the types that nothing is asked before a route is chosen and that a
  request asks one thing at most.
- **LazyMountProofs.** `TypeCorrect`, `UnavailableAlwaysMeansUnreachable`,
  `DialsOnlyUntilOneIsKept`, `ProbesAlwaysTakeTurns`, for any number of calls, dials
  and departures; the last is what `EveryCallEnds` rests on beside
  fairness: a mutex that is held is held by a probe that still asks. Needed beside the properties: an active call has noted a peer
  that is out of reach, and once a call has begun with a resolver kept, one stays kept.

- **StartupProofs**, about `Compose` alone: `ComposeTypeCorrect`,
  `AlwaysWholeOrNothing`, `MostSpecificAlwaysAnswers`, for any prefixes, lengths and
  claims and any number of lines. The invariant says that the two lists hold, in the
  lines' order, exactly the lines taken, and that what is dialled is what their kinds
  ask; the sorted order is a permutation, so the chain keeps them all. Only their
  types are assumed of `Claims` and `Length`: that a longer prefix is the more
  specific one is what the names mean, not something the order needs.
- **StartupProofs**, about a whole start: `TypeCorrect`,
  `RootNeverServedBeyondLoopback`, `SocketAlwaysAdmitted`, `EveryMountAlwaysServed`,
  `MostSpecificAlwaysServes`, `ExposureAlwaysSpelled`, `CeilingAlwaysSpelled`,
  `ContradictionOpensNothing`, for any addresses, scopes, files and arguments. The
  invariant says what is settled once the start is past each stage (`Settled`),
  that the socket is on the address that was resolved (`Bound`), that the flags
  hold what was typed (`FlagsTyped`), that a served face was admitted (`Faced`), and
  that in its own stage the composition's invariant holds (`Mounted`): its step lemmas
  are cited as they are, so that what is proved of `compose_space` alone is proved of
  it inside a start. Assumed: 127.0.0.1 is a loopback address, and the markers for
  missing and malformed values are no values.
- **SparqlProofs.** `LexerRight`: of every text, of any length, `query_form` finds the
  form that the grammar gives it, unless the text is malformed or a lone carriage
  return cuts a comment of it short. Then
  `FormAlwaysOfTheQuery`, `NarrowingAlwaysTravels`, `QueryAlwaysTravels`,
  `AlwaysAnswerable`, for any requests and graphs and any number of uses of the page.
  `SparqlInv` says that the query and graphs are those the chain is about wherever
  they are on their way: in the arguments once merged, in what was asked, and in the
  page's box and fields; the lemmas below it are that `replace` undoes
  a form's carriage returns (`SubmittedReceived`) where the text had none of its own, and keeps all but the
  line ends where it had, that the newline a page adds is the one the
  parser drops (`BoxText`), and that a merge keeps what `Starts` reads (`StartsCarried`).
  Assumed: the text shown by default is not blank and has no carriage returns, and
  `None` is no type, no text and no question. Of the texts of requests nothing is
  assumed but that they are sequences.

- **RevalidationProofs.** `TypeCorrect`, `NeverEverStale`, `AlwaysRightFace`, for
  any types, headers, clients, seconds and deadlines. The properties speak of the
  last answer only; `Honest` says of everything in between why the next one will be
  right: each copy is named by its own tag and is of the face its URL and header
  choose (`CopiesNamed`); a copy is fresh only as long as the kernel promised, and so
  is current (`FreshIsCurrent`); what a call holds and what is on its way to it are
  named likewise, and the answer was current during the call (`CallNamed`,
  `AnswerNamed`). A tag that covers the type as well as the bytes is what carries a
  304 from one header to another.
- **ShellProofs.** `TypeCorrect`, `AlwaysInStep`, `ReloadAlwaysOpens`,
  `FocusAlwaysKept`, `AlwaysSpokenIsAsked`, for any views and any number of deeds.
  `InStep` speaks of a page at rest; `OnTheWay` strengthens it to every page: the
  address is the view named, or its view is in flight or held back behind the
  body's request, or its load was refused and the page says so, or it is a 404.
  `Opening` and `OneLoad` say what can be in flight at once. `ReloadAlwaysOpens` rests on
  `InStep` and on `Unescaped`: no address, request or load held back names a view by
  an escaped word unless the session began at one, since what `viewOf` writes of a
  plain word popstate reads as one. `LastOwed` says of the timers what
  `SpokenIsAsked` says when none is left.

**Induction over data.** What a recursive function computes of every text, or after
any number of failures, needs induction, and the library's induction theorems take an
operator as a parameter, which no prover here can instantiate. These proofs take the least
counterexample instead: a set of naturals that is not empty has a least member
(`Least`, from `WFMin` and `NatLessThanWellFounded`), and no member of the set of
counterexamples is least (`Upward`, `Downward`). That a recursive definition defines
anything is proved likewise (`Recursion`, `RecursionDown`, `DoublingsExist`): partial
solutions exist up to each n, agree with each other, and make a whole one.

**Only model-checked.** `QueueMoves`, `DeathShows` and `EveryCallEnds`, being
liveness under fairness. Every invariant and action property that a run checks is
also proved.

## What is not modelled

The bytes of pages, representations and headers, percent-decoding but for the two
places that turn on it (a form's pairs, an address's colons), and the layout
of the index and editor pages (tables, highlighting, samples' wording): nothing
checked here tells them apart. What may be forwarded by `view_args` and what is
refused there: a page that is refused runs no script. Inside other crates, the
kernel, the IPC transport and OriginCheck, except as `src` uses them. A resolver
that panics under the mount's mutex and poisons it. `LazyIpcResolver::transport`,
a label. Of the start: port numbers, the path of the config file, and what makes
an address, a scope or a mount line parse. Whether a refusal survives the reset
that follows when unread bytes are dropped: `Connection` lets an answer be lost.

## Plan

Every part with state of its own is modelled. What would add most next:

1. **Server**: AcceptLoop with Connection, sharing descriptors, to say how long a
   client can hold one: bounded while it is read, not bounded while it is
   answered.
2. **Shell** over **Revalidation**: a Back that is answered from the browser's own
   cache.

------------------------------ MODULE Connection ------------------------------
(* One accepted connection, from `handle` in serve.rs: read one request within *)
(* the limits and the time budget, respond, write, close. Bytes are counted,   *)
(* not looked at: a read returns some of the bytes the client has sent, and    *)
(* the head is complete once `head` of them are in.                            *)
EXTENDS Integers

CONSTANTS
    MaxHead,    \* MAX_HEAD
    HeadChunk,  \* the most one read of the head takes (4096)
    MaxBody,    \* MAX_BODY
    BodyChunk,  \* the most one read of the body takes (8192)
    Budget,     \* READ_BUDGET, in ticks of the clock
    MaxBytes    \* bound: the longest head, declared length and stream of a client

(* The blank line that ends a head. *)
BlankLine == 4

ASSUME LimitsAssumption ==
    /\ MaxHead \in Nat /\ MaxBody \in Nat /\ Budget \in Nat /\ MaxBytes \in Nat
    /\ HeadChunk \in Nat \ {0} /\ BodyChunk \in Nat \ {0}

(* What a client does: its head, blank line included, the length it declares    *)
(* (0 when there is no readable Content-Length), the bytes it sends before it  *)
(* falls silent, and whether the head is one the parser takes, one it does not *)
(* (bad UTF-8, no target, a bad escape), or one whose path is empty.           *)
Streams == [head : BlankLine .. MaxBytes, length : 0 .. MaxBytes, sends : 0 .. MaxBytes,
            kind : {"good", "garbled", "pathless"}]

VARIABLES
    stream,  \* this client's stream
    phase,   \* "head", "body" (awaiting a read), "responding", "writing", "closed"
    got,     \* bytes read off the socket
    body,    \* bytes of body given to `respond`
    left,    \* ticks before the read times out
    status,  \* the response's status, 0 before there is a response
    age,     \* history: ticks since the connection was accepted, while it is read
    told     \* history: the status the client received, 0 when none

vars == <<stream, phase, got, body, left, status, age, told>>

Reading == phase \in {"head", "body"}

-------------------------------------------------------------------------------
Init ==
    /\ stream \in Streams
    /\ phase = "head"
    /\ got = 0 /\ body = 0
    /\ left = Budget /\ age = 0
    /\ status = 0 /\ told = 0

(* Faulty variant: every refusal comes out as an error of the server's.        *)
RefuseAs500(s) ==
    /\ phase' = "writing"
    /\ status' = 500
    /\ UNCHANGED body

(* error_resp: the request is refused without being served. *)
Refuse(s) ==
    /\ phase' = "writing"
    /\ status' = s
    /\ UNCHANGED body

Await(p) ==
    /\ phase' = p
    /\ UNCHANGED <<status, body>>

(* Faulty variant: a full body is not cut at the declared length.              *)
ServeUncut(g) ==
    /\ phase' = "responding"
    /\ body' = g - stream.head
    /\ UNCHANGED status

(* `body.truncate(content_length)` *)
Serve(g) ==
    /\ phase' = "responding"
    /\ body' = stream.length
    /\ UNCHANGED status

(* The body loop, with g bytes read in all. *)
BodyWith(g) ==
    IF g - stream.head < stream.length THEN Await("body") ELSE Serve(g)

(* Faulty variant: the declared length is not limited.                         *)
ParseUnlimited(g) ==
    IF stream.kind = "garbled" THEN Refuse(400) ELSE BodyWith(g)

(* The head is in: parse it, then look at the length it declares. *)
Parse(g) ==
    IF stream.kind = "garbled" THEN Refuse(400)
    ELSE IF stream.length > MaxBody THEN Refuse(413)
    ELSE BodyWith(g)

(* Faulty variant: a long head is read on for ever.                            *)
HeadWithUnlimited(g) ==
    IF g >= stream.head THEN Parse(g) ELSE Await("head")

(* The head loop, with g bytes read in all: the end is looked for before the   *)
(* length is.                                                                  *)
HeadWith(g) ==
    IF g >= stream.head THEN Parse(g)
    ELSE IF g > MaxHead THEN Refuse(431) ELSE Await("head")

-------------------------------------------------------------------------------
(* A read that returns n bytes; what follows it, up to the next await, is one  *)
(* step with it.                                                               *)
ReadHead(n) ==
    /\ phase = "head"
    /\ n <= HeadChunk
    /\ n <= stream.sends - got
    /\ got' = got + n
    /\ HeadWith(got + n)
    /\ UNCHANGED <<stream, left, age, told>>

(* Faulty variant: every chunk of body renews the budget.                      *)
ReadBodyRenewing(n) ==
    /\ phase = "body"
    /\ n <= BodyChunk
    /\ n <= stream.sends - got
    /\ got' = got + n
    /\ left' = Budget
    /\ BodyWith(got + n)
    /\ UNCHANGED <<stream, age, told>>

ReadBody(n) ==
    /\ phase = "body"
    /\ n <= BodyChunk
    /\ n <= stream.sends - got
    /\ got' = got + n
    /\ BodyWith(got + n)
    /\ UNCHANGED <<stream, left, age, told>>

(* The client closed or reset its side: a read returns 0, or an error. It may  *)
(* do so before it has sent all it meant to.                                   *)
ReadEnds ==
    /\ Reading
    /\ Refuse(400)
    /\ UNCHANGED <<stream, got, left, age, told>>

Tick ==
    /\ Reading
    /\ left > 0
    /\ left' = left - 1
    /\ age' = age + 1
    /\ UNCHANGED <<stream, phase, got, body, status, told>>

ReadTimesOut ==
    /\ Reading
    /\ left = 0
    /\ Refuse(408)
    /\ UNCHANGED <<stream, got, left, age, told>>

(* `respond` answers with a status of its own. An empty path that passes the   *)
(* gates makes `&req.path[1..]` panic instead: the task ends and the           *)
(* connection closes with nothing said.                                        *)
Respond ==
    /\ phase = "responding"
    /\ phase' = "writing"
    /\ status' = 200
    /\ UNCHANGED <<stream, got, body, left, age, told>>

Panic ==
    /\ phase = "responding"
    /\ stream.kind = "pathless"
    /\ phase' = "closed"
    /\ UNCHANGED <<stream, got, body, left, status, age, told>>

(* write_response, then the stream is dropped; or the client is gone. *)
Write ==
    /\ phase = "writing"
    /\ phase' = "closed"
    /\ told' \in {status, 0}
    /\ UNCHANGED <<stream, got, body, left, status, age>>

Next ==
    \/ \E n \in 1 .. HeadChunk : ReadHead(n)
    \/ \E n \in 1 .. BodyChunk : ReadBody(n)
    \/ ReadEnds \/ Tick \/ ReadTimesOut
    \/ Respond \/ Panic \/ Write

Spec == Init /\ [][Next]_vars

-------------------------------------------------------------------------------
TypeOK ==
    /\ stream \in Streams
    /\ phase \in {"head", "body", "responding", "writing", "closed"}
    /\ got \in 0 .. stream.sends
    /\ body \in Nat
    /\ left \in 0 .. Budget
    /\ status \in {0, 200, 400, 408, 413, 431}
    /\ age \in Nat
    /\ told \in {0, status}

Served == phase = "responding" \/ status = 200

(* What the stream deserves once it is in, by the code's limits on a head that *)
(* parses and on the length it declares.                                       *)
Verdict ==
    IF stream.kind = "garbled" THEN 400
    ELSE IF stream.length > MaxBody THEN 413 ELSE 200

(* All that the verdict is about is in. *)
Whole == stream.head + (IF Verdict = 200 THEN stream.length ELSE 0) <= got

(* `read_request` keeps to the stream's verdict however the network cuts the   *)
(* stream into reads: a request is served only if it deserves to be and all of *)
(* it is in, with exactly the body it declared; one that is whole is never     *)
(* refused but as it deserves; no head is refused for its size within MAX_HEAD *)
(* nor read to its end more than one read above it. Between those two the cut  *)
(* decides: the end is looked for before the length is (serve.rs:316-321), so  *)
(* MAX_HEAD is not "Largest accepted request head" (serve.rs:24).              *)
VerdictOfTheStream ==
    /\ Served => Verdict = 200 /\ Whole /\ body = stream.length
    /\ status = 413 => Verdict = 413 /\ Whole
    /\ status \in {400, 408} => Verdict = 400 \/ ~ Whole
    /\ status = 431 => stream.head > MaxHead /\ got < stream.head
    /\ stream.head > MaxHead + HeadChunk => got < stream.head

(* No client makes one connection hold more than one read above a limit        *)
(* (serve.rs MAX_HEAD, MAX_BODY), whatever it sends and declares: the head is  *)
(* in with what one read brought of it, or the body is within its own limit    *)
(* and one read.                                                               *)
BufferBounded ==
    \/ got <= MaxHead + HeadChunk
    \/ stream.head <= MaxHead + HeadChunk /\ got - stream.head < MaxBody + BodyChunk

(* However the client spreads its bytes, a connection is never read for longer *)
(* than READ_BUDGET (serve.rs `handle`): a byte now and then buys no time.     *)
ReadingBounded == age <= Budget
===============================================================================

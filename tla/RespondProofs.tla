----------------------------- MODULE RespondProofs -----------------------------
(* Theorems of Respond, for every choice of argument names: which requests can *)
(* become a Sink. One inductive invariant, Accountable, says of every Sink     *)
(* issued that its request passed both gates and came by one of the two        *)
(* entrances, with the arguments that entrance builds.                         *)
EXTENDS Respond, WellFoundedInduction, TLAPS

Direct(a) == req.path.route = "/{uri}" /\ a.args = PostArgs
Piping(a) == req.path.route = "/k/" /\ req.path.word = "sink" /\ a.args = SinkArgs

Accountable ==
    /\ \A a \in Sinks :
        /\ ~ ReadOnlyRefuses /\ ~ OriginRefuses
        /\ req.method = "POST" /\ req.path.route # "/sparql"
        /\ a.target \in Family
        /\ Direct(a) \/ Piping(a)
    /\ phase = "dispatching" => asked = {}

Inv == req \in Requests /\ Accountable

(* A step that issues no Sink, and does not go back to dispatching, keeps      *)
(* every Sink accounted for.                                                   *)
LEMMA NoNewSink ==
    ASSUME Accountable, UNCHANGED <<posture, req>>, phase' # "dispatching",
           \A a \in asked' : a.verb = "Sink" => a \in asked
    PROVE  Accountable'
BY DEF Accountable, Sinks, Direct, Piping, PostArgs, SinkArgs, BodyArgs, Piped, Given,
       ReadOnlyRefuses, OriginRefuses

(* The merge of two lines of arguments: the later one is in it unchanged.      *)
LEMMA LateWins ==
    ASSUME NEW early, NEW late, NEW n \in DOMAIN late
    PROVE  n \in DOMAIN Merged(early, late) /\ Merged(early, late)[n] = late[n]
BY DEF Merged

(* The Sink an entrance issues past both gates is accounted for.               *)
LEMMA NewSink ==
    ASSUME Accountable, phase = "dispatching", NEW target \in Family, NEW args,
           ~ ReadOnlyRefuses, ~ OriginRefuses,
           req.method = "POST", req.path.route # "/sparql",
           \/ req.path.route = "/{uri}" /\ args = PostArgs
           \/ req.path.route = "/k/" /\ req.path.word = "sink" /\ args = SinkArgs,
           Ask("Sink", target, args)
    PROVE  Accountable'
<1> DEFINE new == [verb |-> "Sink", target |-> target, args |-> args]
<1>1. asked' = {new} /\ phase' = "asking" /\ UNCHANGED <<posture, req>>
  BY DEF Accountable, Ask
<1>2. Sinks' = {new}
  <2>1. new.verb = "Sink"
    OBVIOUS
  <2> HIDE DEF new
  <2> QED BY <1>1, <2>1 DEF Sinks
<1>3. new.target = target /\ new.args = args
  OBVIOUS
<1> HIDE DEF new
<1>4. (Direct(new) \/ Piping(new))'
  BY <1>1, <1>3 DEF Direct, Piping, PostArgs, SinkArgs, BodyArgs, Piped, Given
<1> QED BY <1>1, <1>2, <1>3, <1>4 DEF Accountable, ReadOnlyRefuses, OriginRefuses

LEMMA Initially == Init => Inv
BY DEF Init, Inv, Accountable, Sinks

LEMMA Step == Inv /\ [Next]_vars => Inv'
<1> SUFFICES ASSUME Inv, [Next]_vars PROVE Inv'
  OBVIOUS
<1> USE DEF Inv
<1>1. CASE UNCHANGED vars
  BY <1>1 DEF vars, Accountable, Sinks, Direct, Piping, PostArgs, SinkArgs, BodyArgs, Piped,
              Given, ReadOnlyRefuses, OriginRefuses
<1>2. CASE GateReadOnly
  BY <1>2, NoNewSink DEF GateReadOnly, Refuse, Answer
<1>3. CASE GateOrigin
  BY <1>3, NoNewSink DEF GateOrigin, Refuse, Answer
<1>4. CASE Index
  BY <1>4, NoNewSink DEF Index, Ask
<1>5. CASE HtmxJs \/ Asset
  BY <1>5, NoNewSink DEF HtmxJs, Asset, Answer
<1>6. CASE Sparql
  <2>1. CASE Ask("Source", "urn:sparql:select", NoArgs)
    BY <2>1, NoNewSink DEF Ask
  <2>2. CASE Refuse(405, TRUE)
    BY <2>2, NoNewSink DEF Refuse, Answer
  <2>3. CASE Refuse(400, FALSE)
    BY <2>3, NoNewSink DEF Refuse, Answer
  <2>4. CASE Answer(200, FALSE, TRUE) /\ UNCHANGED asked
    BY <2>4, NoNewSink DEF Answer
  <2> QED
    BY <1>6, <2>1, <2>2, <2>3, <2>4 DEF Sparql
<1>7. CASE Browse
  BY <1>7, NoNewSink DEF Browse, Refuse, Answer
<1>8. CASE Meta
  BY <1>8, NoNewSink DEF Meta, Refuse, Answer, Ask
<1>9. CASE NoResource \/ NoMethod \/ NoCommand \/ OtherCommand
  BY <1>9, NoNewSink DEF NoResource, NoMethod, NoCommand, OtherCommand, Refuse, Answer
<1>10. CASE Get \/ Head \/ SourceCommand
  BY <1>10, NoNewSink DEF Get, Head, SourceCommand, Ask
<1>11. CASE Post
  <2>1. CASE Refuse(405, TRUE)
    BY <2>1, NoNewSink DEF Refuse, Answer
  <2>3. CASE Refuse(400, FALSE)
    BY <2>3, NoNewSink DEF Refuse, Answer
  <2>2. CASE PostAllowed(req.path.target) /\ Ask("Sink", req.path.target, PostArgs)
    BY <1>11, <2>2, NewSink DEF Post, Resource, Routed, PostAllowed, Ask
  <2> QED
    BY <1>11, <2>1, <2>2, <2>3 DEF Post
<1>12. CASE SinkCommand
  <2>1. CASE Refuse(405, FALSE)
    BY <2>1, NoNewSink DEF Refuse, Answer
  <2>3. CASE Refuse(400, FALSE)
    BY <2>3, NoNewSink DEF Refuse, Answer
  <2>2. CASE PostAllowed(req.path.target) /\ Ask("Sink", req.path.target, SinkArgs)
    BY <1>12, <2>2, NewSink DEF SinkCommand, Command, Routed, PostAllowed, Ask
  <2> QED
    BY <1>12, <2>1, <2>2, <2>3 DEF SinkCommand
<1>13. CASE Project
  BY <1>13, NoNewSink DEF Project, Answer
<1> QED BY <1>1, <1>2, <1>3, <1>4, <1>5, <1>6, <1>7, <1>8, <1>9, <1>10, <1>11, <1>12, <1>13
        DEF Next

LEMMA Invariant == Spec => []Inv
BY Initially, Step, PTL DEF Spec

(* Beyond loopback no request becomes a Sink, whatever it is and whatever      *)
(* route it takes (serve.rs Posture::ReadOnly).                                *)
THEOREM OffLoopbackNeverEverSinks == Spec => []OffLoopbackNeverSinks
<1>1. Inv => OffLoopbackNeverSinks
  BY DEF Inv, Accountable, OffLoopbackNeverSinks, ReadOnlyRefuses
<1> QED BY <1>1, Invariant, PTL

(* No request that a page of another origin started becomes a Sink, given that *)
(* its browser tells or replays one of the things OriginCheck reads.           *)
THEOREM ForeignPagesNeverEverSink == Spec => []ForeignPagesNeverSink
<1>1. Inv => ForeignPagesNeverSink
  <2> SUFFICES ASSUME Inv, req.sender.who = "foreign page", NEW a \in Sinks PROVE FALSE
    BY DEF ForeignPagesNeverSink
  <2>1. req.sender \in Senders
    BY DEF Inv, Requests
  <2> QED BY <2>1 DEF Inv, Accountable, OriginRefuses, Senders
<1> QED BY <1>1, Invariant, PTL

(* Both entrances lead to the annotation family alone, and only by POST.       *)
THEOREM OneWriteRouteOnly == Spec => []OneWriteRoute
<1>1. Inv => OneWriteRoute
  BY DEF Inv, Accountable, OneWriteRoute
<1> QED BY <1>1, Invariant, PTL

-------------------------------------------------------------------------------
(* The form. A set of places has a last one. *)
LEMMA Greatest ==
    ASSUME NEW n \in Nat, NEW T \in SUBSET (1 .. n), T # {}
    PROVE  \E i \in T : \A j \in T : j <= i
<1> DEFINE R == {p \in Nat \X Nat : p[1] < p[2]}
           D == {n - i : i \in T}
<1>1. IsWellFoundedOn(R, Nat)
  BY NatLessThanWellFounded, Zenon DEF OpToRel
<1>2. D \in SUBSET Nat /\ D # {}
  OBVIOUS
<1>3. PICK d \in D : \A m \in D : ~ (<<m, d>> \in R)
  <2> HIDE DEF R, D
  <2> QED BY <1>1, <1>2, WFMin
<1>4. PICK i \in T : d = n - i
  OBVIOUS
<1>5. ASSUME NEW j \in T PROVE j <= i
  <2>1. n - j \in D /\ ~ (<<n - j, n - i>> \in R)
    BY <1>3, <1>4
  <2>2. i \in 1 .. n /\ j \in 1 .. n /\ n - j \in Nat /\ n - i \in Nat
    BY <1>4
  <2> QED BY <2>1, <2>2
<1> QED BY <1>5

LEMMA FormShape ==
    ASSUME req \in Requests
    PROVE  req.payload.form \in Forms
<1>1. req.payload.form = <<>> \/ req.payload.form \in Forms
  BY DEF Requests, Payloads
<1>2. <<>> \in [1 .. 0 -> [name : Names, reads : BOOLEAN]]
  OBVIOUS
<1>3. 0 \in 0 .. MaxPairs
  BY PairsAssumption
<1>4. <<>> \in Forms
  BY <1>2, <1>3, Zenon DEF Forms
<1> QED BY <1>1, <1>4

(* Of the pairs of one name that read, Last takes the last. *)
LEMMA LastIsLast ==
    ASSUME NEW form \in Forms, NEW i \in Read(form)
    PROVE  LET name == form[i].name
           IN  /\ Last(form, name) \in Read(form) /\ form[Last(form, name)].name = name
               /\ \A j \in Read(form) : form[j].name = name => j <= Last(form, name)
<1> DEFINE name == form[i].name
           T == {j \in Read(form) : form[j].name = name}
<1>1. PICK n \in 0 .. MaxPairs : form \in [1 .. n -> [name : Names, reads : BOOLEAN]]
  BY DEF Forms
<1>2. n \in Nat /\ T \in SUBSET (1 .. n) /\ T # {}
  BY <1>1, PairsAssumption DEF Read
<1>3. PICK k \in T : \A j \in T : j <= k
  <2> HIDE DEF T
  <2> QED BY <1>2, Greatest
<1>4. \E m \in Read(form) : /\ form[m].name = name
                           /\ \A j \in Read(form) : form[j].name = name => j <= m
  BY <1>3
<1> HIDE DEF name, T
<1>5. /\ Last(form, name) \in Read(form) /\ form[Last(form, name)].name = name
      /\ \A j \in Read(form) : form[j].name = name => j <= Last(form, name)
  BY <1>4 DEF Last
<1> QED BY <1>5 DEF name

(* A pair that reads, and is not repeated, gives its name its value. *)
LEMMA LastStands ==
    ASSUME NEW form \in Forms, NEW i \in DOMAIN form, form[i].reads,
           \A j \in DOMAIN form : j > i => form[j] # form[i]
    PROVE  form[i].name \in DOMAIN FormArgs(form) /\ FormArgs(form)[form[i].name] = Pair(i)
<1> DEFINE last == Last(form, form[i].name)
<1>1. PICK n \in 0 .. MaxPairs : form \in [1 .. n -> [name : Names, reads : BOOLEAN]]
  BY DEF Forms
<1>2. i \in Read(form)
  BY DEF Read
<1>3. last \in Read(form) /\ form[last].name = form[i].name /\ i <= last
  BY <1>2, LastIsLast
<1>4. form[i].name \in DOMAIN FormArgs(form) /\ FormArgs(form)[form[i].name] = Pair(last)
  BY <1>2 DEF FormArgs
<1> HIDE DEF last
<1>5. last \in 1 .. n /\ i \in 1 .. n /\ form[last].reads /\ n \in Nat
  BY <1>1, <1>2, <1>3, PairsAssumption DEF Read
<1>6. form[last] = form[i]
  BY <1>1, <1>3, <1>5
<1>7. last = i
  BY <1>1, <1>3, <1>5, <1>6
<1> QED BY <1>4, <1>7

(* Whatever the line and the body name, what can be read of the body reaches   *)
(* the Sink by both entrances (serve.rs `post`, `k_command`, `parse_query`):   *)
(* the last pair that reads of each name, or the piped content with its type.  *)
THEOREM BodyAlwaysReachesTheSink == Spec => []BodyReachesTheSink
<1>1. Inv => BodyReachesTheSink
  <2> SUFFICES ASSUME Inv, NEW a \in Sinks PROVE BodyReachesTheSink!(a)
    BY DEF BodyReachesTheSink
  <2>1. PICK early : a.args = Merged(early, BodyArgs)
    BY DEF Inv, Accountable, Direct, Piping, PostArgs, SinkArgs
  <2>2. \A n \in DOMAIN BodyArgs : n \in DOMAIN a.args /\ a.args[n] = BodyArgs[n]
    BY <2>1, LateWins
  <2>3. ASSUME NEW i \in DOMAIN req.payload.form, req.payload.form[i].reads,
               \A j \in DOMAIN req.payload.form :
                   j > i => req.payload.form[j] # req.payload.form[i]
        PROVE  LET name == req.payload.form[i].name
               IN  name \in DOMAIN a.args /\ a.args[name] = Pair(i)
    <3>1. req.payload.kind = "form" \/ req.payload.form = <<>>
      BY DEF Inv, Requests, Payloads
    <3>2. ~ Piped
      BY <2>3, <3>1 DEF Piped
    <3>3. BodyArgs = FormArgs(req.payload.form)
      BY <3>2 DEF BodyArgs
    <3>4. req.payload.form \in Forms
      BY FormShape DEF Inv
    <3> QED BY <2>2, <2>3, <3>3, <3>4, LastStands
  <2>4. Piped => "content" \in DOMAIN BodyArgs /\ BodyArgs["content"] = Body
    BY DEF BodyArgs, Merged, Given
  <2>5. Piped /\ req.payload.typed =>
            "content-type" \in DOMAIN BodyArgs /\ BodyArgs["content-type"] = Header
    BY DEF BodyArgs, Merged, Given
  <2> QED BY <2>2, <2>3, <2>4, <2>5
<1> QED BY <1>1, Invariant, PTL
-------------------------------------------------------------------------------
(* What is asked and answered: typed, nothing before a route is chosen, and no *)
(* refused method asked for.                                                   *)
Sound ==
    /\ TypeOK /\ RefusedUnasked
    /\ phase = "dispatching" => asked = {}
    /\ \A a, b \in asked : a = b

(* An answer given before the kernel is asked. *)
LEMMA AnswerSound ==
    ASSUME Sound, phase = "dispatching", phase' = "answered", resp' \in Answers,
           UNCHANGED <<posture, req, asked>>
    PROVE  Sound'
BY DEF Sound, TypeOK, RefusedUnasked

(* A request put to the kernel, with the arguments of some names.              *)
LEMMA AskSound ==
    ASSUME Sound, phase = "dispatching", NEW verb \in Verbs, NEW target \in Iris \cup {"urn:sparql:select"},
           NEW names \in SUBSET Names, NEW args \in [names -> Values],
           Ask(verb, target, args)
    PROVE  Sound'
<1> DEFINE new == [verb |-> verb, target |-> target, args |-> args]
<1>1. args \in UNION {[some -> Values] : some \in SUBSET Names}
  OBVIOUS
<1>2. new \in Kernel
  BY <1>1 DEF Kernel
<1>3. phase' = "asking" /\ asked' = {new} /\ UNCHANGED <<posture, req, resp>>
  BY DEF Ask, Sound
<1> HIDE DEF new
<1> QED BY <1>2, <1>3 DEF Sound, TypeOK, RefusedUnasked

(* The arguments a line or a body gives are named by names.                    *)
LEMMA GivenTyped ==
    ASSUME NEW names \in SUBSET Names, NEW from \in Values
    PROVE  Given(names, from) \in [names -> Values]
BY DEF Given

LEMMA MergedTyped ==
    ASSUME NEW some \in SUBSET Names, NEW others \in SUBSET Names,
           NEW early \in [some -> Values],
           NEW late \in [others -> Values]
    PROVE  /\ some \cup others \in SUBSET Names
           /\ Merged(early, late) \in [some \cup others -> Values]
BY DEF Merged

LEMMA BodyTyped ==
    ASSUME req \in Requests
    PROVE  \E names \in SUBSET Names : BodyArgs \in [names -> Values]
<1>0. Body \in Values /\ Header \in Values
  BY DEF Values
<1>1. req.payload.form \in Forms
  BY FormShape
<1>2. CASE ~ Piped
  <2> DEFINE form == req.payload.form
             names == {form[i].name : i \in Read(form)}
  <2>1. PICK n \in 0 .. MaxPairs : form \in [1 .. n -> [name : Names, reads : BOOLEAN]]
    BY <1>1 DEF Forms
  <2>2. BodyArgs = [name \in names |-> Pair(Last(form, name))]
    BY <1>2 DEF BodyArgs, FormArgs
  <2>3. form \in Forms
    BY <1>1
  <2> HIDE DEF form
  <2>4. names \in SUBSET Names
    BY <2>1 DEF Read
  <2>5. ASSUME NEW name \in names PROVE Pair(Last(form, name)) \in Values
    <3>1. PICK i \in Read(form) : name = form[i].name
      OBVIOUS
    <3>2. Last(form, name) \in Read(form)
      BY <2>3, <3>1, LastIsLast
    <3>3. Last(form, name) \in 1 .. MaxPairs
      BY <2>1, <3>2, PairsAssumption DEF Read
    <3> QED BY <3>3 DEF Values
  <2> HIDE DEF names
  <2>6. BodyArgs \in [names -> Values]
    BY <2>2, <2>5
  <2> QED BY <2>4, <2>6
<1>3. CASE Piped
  <2> DEFINE typed == IF req.payload.typed THEN {"content-type"} ELSE {}
  <2>1. {"content"} \in SUBSET Names /\ typed \in SUBSET Names
    BY DEF Names
  <2>2. BodyArgs = Merged(Given({"content"}, Body), Given(typed, Header))
    BY <1>3 DEF BodyArgs
  <2> HIDE DEF typed
  <2>3. /\ Given({"content"}, Body) \in [{"content"} -> Values]
        /\ Given(typed, Header) \in [typed -> Values]
    BY <1>0, <2>1, GivenTyped
  <2> QED BY <2>1, <2>2, <2>3, MergedTyped
<1> QED BY <1>2, <1>3

LEMMA SinkTyped ==
    ASSUME req \in Requests, NEW names \in SUBSET Names
    PROVE  \E some \in SUBSET Names :
             Merged(Given(names, Line), BodyArgs) \in [some -> Values]
<1>1. Given(names, Line) \in [names -> Values]
  BY GivenTyped DEF Values
<1>2. PICK others \in SUBSET Names : BodyArgs \in [others -> Values]
  BY BodyTyped
<1> QED BY <1>1, <1>2, MergedTyped

LEMMA SoundStep == Sound /\ [Next]_vars => Sound'
<1> SUFFICES ASSUME Sound, [Next]_vars PROVE Sound'
  OBVIOUS
<1>a. /\ req \in Requests /\ req.line \in SUBSET Names /\ req.path.target \in Targets \cup {""}
  <2>1. req \in Requests
    BY DEF Sound, TypeOK
  <2> QED BY <2>1 DEF Requests, Paths
<1>b. NoArgs \in [{} -> Values]
      /\ Given(req.line, Line) \in [req.line -> Values]
  BY <1>a, GivenTyped DEF NoArgs, Values
<1>1. CASE UNCHANGED vars
  BY <1>1 DEF vars, Sound, TypeOK, RefusedUnasked
<1>2. CASE GateReadOnly
  BY <1>2, AnswerSound DEF Refuse, Answer, Answers, GateReadOnly
<1>3. CASE GateOrigin
  BY <1>3, AnswerSound DEF Refuse, Answer, Answers, GateOrigin
<1>4. CASE Index
  BY <1>4, <1>b, AskSound DEF Index, Routed, Verbs, Iris, Urns
<1>5. CASE HtmxJs
  BY <1>5, AnswerSound DEF HtmxJs, Routed, Answer, Answers
<1>6. CASE Asset
  <2>1. PICK status \in {200, 304} : Answer(status, FALSE, status # 304)
    BY <1>6 DEF Asset
  <2>2. resp' = [status |-> status, allow |-> FALSE, body |-> status # 304]
    BY <2>1 DEF Answer
  <2>3. resp' \in Answers
    <3>1. (status # 304) \in BOOLEAN
      OBVIOUS
    <3> QED BY <2>2, <3>1 DEF Answers
  <2> QED BY <1>6, <2>1, <2>3, AnswerSound DEF Asset, Routed, Answer
<1>7. CASE Sparql
  <2>1. CASE Ask("Source", "urn:sparql:select", NoArgs)
    BY <2>1, <1>7, <1>b, AskSound DEF Verbs, Sparql, Routed
  <2>2. CASE Answer(200, FALSE, TRUE) /\ UNCHANGED asked
    BY <2>2, <1>7, AnswerSound DEF Sparql, Routed, Answer, Answers
  <2>3. phase = "dispatching"
    BY <1>7 DEF Sparql, Routed
  <2>4. CASE Refuse(405, TRUE)
    BY <2>3, <2>4, AnswerSound DEF Refuse, Answer, Answers
  <2>5. CASE Refuse(400, FALSE)
    BY <2>3, <2>5, AnswerSound DEF Refuse, Answer, Answers
  <2> QED BY <1>7, <2>1, <2>2, <2>4, <2>5 DEF Sparql
<1>8. CASE Browse
  <2>1. CASE \E status \in {200, 400} : Answer(status, FALSE, TRUE) /\ UNCHANGED asked
    BY <2>1, <1>8, AnswerSound DEF Browse, Routed, Answer, Answers
  <2>2. CASE Refuse(404, FALSE)
    BY <2>2, <1>8, AnswerSound DEF Refuse, Answer, Answers, Browse, Routed
  <2> QED BY <1>8, <2>1, <2>2 DEF Browse
<1>9. CASE Meta
  <2>1. CASE req.path.target \in Urns /\ Ask("Meta", req.path.target, Given(req.line, Line))
    BY <2>1, <1>9, <1>a, <1>b, AskSound DEF Meta, Routed, Verbs, Iris
  <2>2. phase = "dispatching"
    BY <1>9 DEF Meta, Routed
  <2>3. CASE Refuse(405, TRUE)
    BY <2>2, <2>3, AnswerSound DEF Refuse, Answer, Answers
  <2>4. CASE Refuse(404, FALSE)
    BY <2>2, <2>4, AnswerSound DEF Refuse, Answer, Answers
  <2> QED BY <1>9, <2>1, <2>3, <2>4 DEF Meta
<1>10. CASE NoResource
  <2>1. phase = "dispatching" /\ Refuse(404, FALSE)
    BY <1>10 DEF NoResource, Routed
  <2> QED BY <2>1, AnswerSound DEF Refuse, Answer, Answers
<1>11. CASE NoMethod
  <2>1. phase = "dispatching" /\ Refuse(405, TRUE)
    BY <1>11 DEF NoMethod, Resource, Routed
  <2> QED BY <2>1, AnswerSound DEF Refuse, Answer, Answers
<1>12. CASE NoCommand
  <2>1. phase = "dispatching" /\ Refuse(400, FALSE)
    BY <1>12 DEF NoCommand, Routed
  <2> QED BY <2>1, AnswerSound DEF Refuse, Answer, Answers
<1>13. CASE OtherCommand
  <2>1. phase = "dispatching" /\ Refuse(405, FALSE)
    BY <1>13 DEF OtherCommand, Routed
  <2> QED BY <2>1, AnswerSound DEF Refuse, Answer, Answers
<1>14. CASE Get
  BY <1>14, <1>a, <1>b, AskSound DEF Get, Resource, Routed, Verbs, Iris
<1>15. CASE Head
  BY <1>15, <1>b, AskSound DEF Head, Resource, Routed, Verbs, Iris
<1>16. CASE SourceCommand
  BY <1>16, <1>a, <1>b, AskSound DEF SourceCommand, Command, Routed, Malformed, Verbs
<1>17. CASE Post
  <2>1. CASE req.path.target \in Iris /\ Ask("Sink", req.path.target, PostArgs)
    <3>1. PICK names \in SUBSET Names : PostArgs \in [names -> Values]
      BY <1>a, SinkTyped DEF PostArgs
    <3> QED BY <2>1, <1>17, <3>1, AskSound DEF Post, Resource, Routed, Verbs
  <2>2. phase = "dispatching"
    BY <1>17 DEF Post, Resource, Routed
  <2>3. CASE Refuse(405, TRUE)
    BY <2>2, <2>3, AnswerSound DEF Refuse, Answer, Answers
  <2>4. CASE Refuse(400, FALSE)
    BY <2>2, <2>4, AnswerSound DEF Refuse, Answer, Answers
  <2> QED BY <1>17, <2>1, <2>3, <2>4 DEF Post, Resource, Iris
<1>18. CASE SinkCommand
  <2>1. CASE req.path.target \in Iris /\ Ask("Sink", req.path.target, SinkArgs)
    <3> DEFINE line == IF Piped THEN req.line \ {"content", "content-type"} ELSE req.line
    <3>1. line \in SUBSET Names
      BY <1>a
    <3>2. SinkArgs = Merged(Given(line, Line), BodyArgs)
      BY DEF SinkArgs
    <3> HIDE DEF line
    <3>3. PICK names \in SUBSET Names : SinkArgs \in [names -> Values]
      BY <1>a, <3>1, <3>2, SinkTyped
    <3> QED BY <2>1, <1>18, <3>3, AskSound DEF SinkCommand, Command, Routed, Verbs
  <2>2. phase = "dispatching"
    BY <1>18 DEF SinkCommand, Command, Routed
  <2>3. CASE Refuse(405, FALSE)
    BY <2>2, <2>3, AnswerSound DEF Refuse, Answer, Answers
  <2>4. CASE Refuse(400, FALSE)
    BY <2>2, <2>4, AnswerSound DEF Refuse, Answer, Answers
  <2> QED BY <1>18, <2>1, <2>3, <2>4 DEF SinkCommand, Command, Malformed
<1>19. CASE Project
  <2>1. PICK a \in asked, status \in {200, 304} \cup Errors :
            /\ CASE req.path.route = "/" -> status = 200
                 [] a.verb \in Revalidated -> TRUE
                 [] OTHER -> status # 304
            /\ Answer(status, FALSE, status # 304 /\ a.verb # "Exists")
    BY <1>19 DEF Project
  <2>2. /\ phase' = "answered" /\ resp'.status = status /\ UNCHANGED <<posture, req, asked>>
        /\ resp' = [status |-> status, allow |-> FALSE, body |-> status # 304 /\ a.verb # "Exists"]
    BY <1>19, <2>1 DEF Project, Answer
  <2>3. resp' \in Answers
    <3>1. (status # 304 /\ a.verb # "Exists") \in BOOLEAN
      OBVIOUS
    <3> QED BY <2>2, <3>1 DEF Answers, Errors
  <2>4. status # 405 /\ (status = 304 => a.verb \in {"Source", "Meta"})
    BY <2>1 DEF Errors, Revalidated
  <2>5. RefusedUnasked'
    BY <2>2, <2>4 DEF RefusedUnasked, Sound
  <2> QED BY <2>2, <2>3, <2>5 DEF Sound, TypeOK
<1> QED BY <1>1, <1>2, <1>3, <1>4, <1>5, <1>6, <1>7, <1>8, <1>9, <1>10, <1>11, <1>12,
           <1>13, <1>14, <1>15, <1>16, <1>17, <1>18, <1>19
        DEF Next

LEMMA AlwaysSound == Spec => []Sound
<1>1. Init => Sound
  BY DEF Init, Sound, TypeOK, RefusedUnasked, Kernel, Answers
<1> QED BY <1>1, SoundStep, PTL DEF Spec

(* Every variable keeps its type: what the kernel is asked among it.           *)
THEOREM TypeCorrect == Spec => []TypeOK
<1>1. Sound => TypeOK
  BY DEF Sound
<1> QED BY <1>1, AlwaysSound, PTL

(* A method refused with 405 asked nothing of the kernel.                      *)
THEOREM AlwaysRefusedUnasked == Spec => []RefusedUnasked
<1>1. Sound => RefusedUnasked
  BY DEF Sound
<1> QED BY <1>1, AlwaysSound, PTL
===============================================================================

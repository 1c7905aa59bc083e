------------------------------- MODULE MCSparql -------------------------------
(* An instance of Sparql: queries rendered from the grammar, each by a plain   *)
(* GET, and a few of them by every way a request can spell its arguments.      *)
EXTENDS Sparql, TLC

Comment == <<"#", "<", "INSERT", "\n">>
Ended == <<"#", "INSERT", "\r", "\n">>
Gaps == {<<" ">>, Comment}
TightGaps == Gaps \cup {<<>>}
Iris == {<<"<", "x", ">">>, <<"<", "x", "#", "INSERT", ">">>}
Names == {<<"p", ":">>, <<"SELECT", ":">>}

PrefixDecls(gaps, tight) ==
    {<<"PREFIX">> \o a \o name \o b \o iri :
        a \in gaps, name \in Names, b \in tight, iri \in Iris}
BaseDecls(tight) == {<<"BASE">> \o a \o iri : a \in tight, iri \in Iris}

Prologues ==
    {<<>>, <<"\n">>, <<"\r">>, Comment, Ended}
    \cup {d \o a : d \in PrefixDecls(Gaps, TightGaps) \cup BaseDecls(TightGaps), a \in TightGaps}
    \cup {d \o a \o e \o <<" ">> : d, e \in PrefixDecls({<<" ">>}, {<<>>}) \cup BaseDecls({<<>>}),
                                a \in TightGaps}

Words == ReadForms \cup {"INSERT", "WITH", "junk"}
Apart == {<<" ", "INSERT">>, <<"<", "x", ">">>, <<"\"", "\\", "\"", "<", "\"">>, Comment}

Rendered(prologue, word, rest) == prologue \o <<word>> \o rest
Plain(word) == <<word, " ", "x">>

MCDefault == Plain("SELECT")
Leading == <<"\n", "CONSTRUCT", "\n", "x">>
Lone == <<"\r", "ASK", "\r", "\r", "\n", "x">>
Blanks == {<<>>, <<"\n", " ">>, <<"\r", "NBSP">>, Comment}
Broken ==
    {<<"PREFIX">> \o rest : rest \in {<<>>, <<" ", "p", ":", "SELECT">>, <<"<", "x", ">", "ASK">>}}
    \cup {<<"NBSP", "SELECT", "NBSP", "x">>}
CutTexts ==
    {<<"#", "\r", "INSERT", " ", "x", "\n", "SELECT", " ", "x">>, <<"#", "x", "\r", "ASK", "\n">>}

(* The reference reads the grammar's renderings as what they were made from.   *)
ASSUME FormOfRendered ==
    /\ \A p \in Prologues, word \in Words, rest \in Apart :
          FormOf(Rendered(p, word, rest)) = IF word \in ReadForms THEN word ELSE "none"
    /\ \A text \in Blanks : FormOf(text) \in {"none", "malformed"}
    /\ \A text \in Broken : FormOf(text) = "malformed"
    /\ \A text \in CutTexts : CutShort(text) /\ FormOf(text) # QueryForm(text)

MCQueries ==
    {Rendered(p, word, rest) : p \in Prologues, word \in Words, rest \in Apart}
    \cup {<<word, "{">> : word \in Words} \cup Blanks \cup Broken
    \cup CutTexts \cup {MCDefault, Leading, Lone, Plain("INSERT")}

NoArgs == [query |-> <<>>, as |-> <<>>, graph |-> <<>>]
Gets == {[method |-> "GET", kind |-> "none", accept |-> <<>>, body |-> NoArgs,
          url |-> [NoArgs EXCEPT !.query = <<q>>]] : q \in MCQueries}

Few == {Leading, Lone, Plain("INSERT"), <<"\n", " ">>}
Args(queries) ==
    [query : queries, as : {<<>>, <<"csv">>},
     graph : {<<>>, <<"g1">>, <<"", "g1">>, <<"g1", "g2">>}]
UrlArgs == Args({<<>>, <<MCDefault>>})
BodyArgs ==
    {[kind |-> "form", body |-> a] :
        a \in Args({<<>>, <<Leading, MCDefault>>} \cup {<<q>> : q \in Few})}
    \cup {[kind |-> "raw", body |-> [NoArgs EXCEPT !.query = <<q>>]] : q \in Few}
    \cup {[kind |-> kind, body |-> NoArgs] : kind \in {"none", "bad-form", "bad-raw"}}
Accepted == {<<>>, <<"html">>, <<"json">>, <<"turtle", "json">>, <<"json", "turtle">>,
             <<"html", "json">>, <<"json", "html">>, <<"other", "turtle">>}

Asking(methods, bodies) ==
    {[method |-> m, kind |-> b.kind, accept |-> a, body |-> b.body, url |-> u] :
        m \in methods, b \in bodies, a \in Accepted, u \in UrlArgs}
MCRequests ==
    Gets \cup Asking({"POST"}, BodyArgs) \cup
    Asking({"GET", "HEAD"}, {[kind |-> "none", body |-> NoArgs]})
===============================================================================

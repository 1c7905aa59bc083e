--------------------------- MODULE ConnectionProofs ---------------------------
(* Proofs about Connection, for every limit, chunk size and budget.            *)
EXTENDS Connection, TLAPS

(* What the reads have established so far, in each phase. The clock's account  *)
(* (age + left) is what makes ReadingBounded inductive; the phase of a read    *)
(* that is still awaited is what makes the verdict and the buffer's bound so.  *)
Progress ==
    /\ age + left = Budget
    /\ phase = "head" => got < stream.head \/ got = 0
    /\ phase = "head" => got <= MaxHead
    /\ phase = "body" =>
        /\ stream.kind # "garbled" /\ stream.length <= MaxBody
        /\ stream.head <= got /\ stream.head <= MaxHead + HeadChunk
        /\ got - stream.head < stream.length
    /\ Reading => status = 0
    /\ phase = "responding" => status = 0

Inv == TypeOK /\ Progress /\ VerdictOfTheStream /\ BufferBounded

(* The pieces of TypeOK the arithmetic below needs. *)
LEMMA Numbers ==
    ASSUME TypeOK
    PROVE  /\ stream.head \in Nat /\ stream.head > 0
           /\ stream.length \in Nat /\ stream.sends \in Nat
           /\ got \in Nat /\ left \in Nat /\ age \in Nat
BY LimitsAssumption DEF TypeOK, Streams, BlankLine

LEMMA InitInv == Init => Inv
<1> SUFFICES ASSUME Init PROVE Inv
  OBVIOUS
<1>1. TypeOK
  BY LimitsAssumption DEF Init, TypeOK, Streams
<1>2. stream.head \in Nat /\ stream.length \in Nat /\ stream.head > 0
  BY <1>1, Numbers
<1>3. Progress /\ VerdictOfTheStream /\ BufferBounded
  BY <1>2, LimitsAssumption
  DEF Init, Progress, VerdictOfTheStream, BufferBounded, Served, Verdict, Whole, Reading
<1> QED BY <1>1, <1>3 DEF Inv

(* A read of n bytes, decided by HeadWith or BodyWith on all that is in. *)
LEMMA ReadHeadKeeps ==
    ASSUME Inv, NEW n \in 1 .. HeadChunk, ReadHead(n)
    PROVE  Inv'
<1> DEFINE g == got + n
<1>1. /\ phase = "head" /\ n <= HeadChunk /\ n <= stream.sends - got /\ got' = g
      /\ HeadWith(g) /\ UNCHANGED <<stream, left, age, told>>
  BY DEF ReadHead
<1>2. TypeOK /\ Progress /\ VerdictOfTheStream /\ BufferBounded
  BY DEF Inv
<1>3. /\ stream.head \in Nat /\ stream.head > 0 /\ stream.length \in Nat
      /\ stream.sends \in Nat /\ got \in Nat
  BY <1>2, Numbers
<1>4. /\ g \in Nat /\ g <= stream.sends /\ g > 0 /\ status = 0
      /\ got <= MaxHead /\ age + left = Budget
      /\ got < stream.head \/ got = 0
  BY <1>1, <1>2, <1>3, LimitsAssumption DEF Progress, Reading
<1>5. told = 0
  BY <1>2, <1>4 DEF TypeOK
<1>6. g <= MaxHead + HeadChunk
  BY <1>1, <1>3, <1>4, LimitsAssumption
<1>7. g - stream.head < HeadChunk
  BY <1>1, <1>3, <1>4, LimitsAssumption
<1> HIDE DEF g
<1>8. CASE Await("head") /\ g < stream.head /\ g <= MaxHead
  BY <1>1, <1>2, <1>3, <1>4, <1>6, <1>7, <1>8, LimitsAssumption
  DEF Await, Inv, TypeOK, Progress, VerdictOfTheStream, BufferBounded, Served, Verdict, Whole, Reading
<1>9. CASE Refuse(431) /\ g < stream.head /\ g > MaxHead
  BY <1>1, <1>2, <1>3, <1>4, <1>5, <1>6, <1>7, <1>9, LimitsAssumption
  DEF Refuse, Inv, TypeOK, Progress, VerdictOfTheStream, BufferBounded, Served, Verdict, Whole, Reading
<1>10. CASE Refuse(400) /\ stream.kind = "garbled"
  BY <1>1, <1>2, <1>3, <1>4, <1>5, <1>6, <1>7, <1>10, LimitsAssumption
  DEF Refuse, Inv, TypeOK, Progress, VerdictOfTheStream, BufferBounded, Served, Verdict, Whole, Reading
<1>11. CASE /\ Refuse(413) /\ stream.head <= g /\ stream.length > MaxBody
            /\ stream.kind # "garbled"
  BY <1>1, <1>2, <1>3, <1>4, <1>5, <1>6, <1>7, <1>11, LimitsAssumption
  DEF Refuse, Inv, TypeOK, Progress, VerdictOfTheStream, BufferBounded, Served, Verdict, Whole, Reading
<1>12. CASE /\ Await("body") /\ stream.head <= g /\ g - stream.head < stream.length
            /\ stream.kind # "garbled" /\ stream.length <= MaxBody
  BY <1>1, <1>2, <1>3, <1>4, <1>6, <1>7, <1>12, LimitsAssumption
  DEF Await, Inv, TypeOK, Progress, VerdictOfTheStream, BufferBounded, Served, Verdict, Whole, Reading
<1>13. CASE /\ Serve(g) /\ stream.head <= g /\ ~ (g - stream.head < stream.length)
            /\ stream.kind # "garbled" /\ stream.length <= MaxBody
  BY <1>1, <1>2, <1>3, <1>4, <1>6, <1>7, <1>13, LimitsAssumption
  DEF Serve, Inv, TypeOK, Progress, VerdictOfTheStream, BufferBounded, Served, Verdict, Whole, Reading
<1> QED
  BY <1>1, <1>3, <1>4, <1>8, <1>9, <1>10, <1>11, <1>12, <1>13, LimitsAssumption
  DEF HeadWith, Parse, BodyWith

LEMMA ReadBodyKeeps ==
    ASSUME Inv, NEW n \in 1 .. BodyChunk, ReadBody(n)
    PROVE  Inv'
<1> DEFINE g == got + n
<1>1. /\ phase = "body" /\ n <= BodyChunk /\ n <= stream.sends - got /\ got' = g
      /\ BodyWith(g) /\ UNCHANGED <<stream, left, age, told>>
  BY DEF ReadBody
<1>2. TypeOK /\ Progress /\ VerdictOfTheStream /\ BufferBounded
  BY DEF Inv
<1>3. /\ stream.head \in Nat /\ stream.head > 0 /\ stream.length \in Nat
      /\ stream.sends \in Nat /\ got \in Nat
  BY <1>2, Numbers
<1>4. /\ g \in Nat /\ g <= stream.sends /\ g > 0 /\ status = 0
      /\ stream.kind # "garbled" /\ stream.length <= MaxBody /\ age + left = Budget
      /\ stream.head <= got /\ stream.head <= MaxHead + HeadChunk
      /\ got - stream.head < stream.length
  BY <1>1, <1>2, <1>3, LimitsAssumption DEF Progress, Reading
<1>5. g - stream.head < MaxBody + BodyChunk /\ stream.head <= g
  BY <1>1, <1>3, <1>4, LimitsAssumption
<1> HIDE DEF g
<1>6. CASE Await("body") /\ g - stream.head < stream.length
  BY <1>1, <1>2, <1>3, <1>4, <1>5, <1>6, LimitsAssumption
  DEF Await, Inv, TypeOK, Progress, VerdictOfTheStream, BufferBounded, Served, Verdict, Whole, Reading
<1>7. CASE Serve(g) /\ ~ (g - stream.head < stream.length)
  BY <1>1, <1>2, <1>3, <1>4, <1>5, <1>7, LimitsAssumption
  DEF Serve, Inv, TypeOK, Progress, VerdictOfTheStream, BufferBounded, Served, Verdict, Whole, Reading
<1> QED BY <1>1, <1>6, <1>7 DEF BodyWith

(* A read that ends or times out, and the steps after reading. *)
LEMMA RestKeeps ==
    ASSUME Inv, ReadEnds \/ Tick \/ ReadTimesOut \/ Respond \/ Panic \/ Write
    PROVE  Inv'
<1>1. TypeOK /\ Progress /\ VerdictOfTheStream /\ BufferBounded
  BY DEF Inv
<1>2. /\ stream.head \in Nat /\ stream.head > 0 /\ stream.length \in Nat
      /\ stream.sends \in Nat /\ got \in Nat /\ left \in Nat /\ age \in Nat
  BY <1>1, Numbers
<1> USE DEF Inv, TypeOK, Progress, VerdictOfTheStream, BufferBounded, Served, Verdict, Whole, Reading
<1>3. CASE ReadEnds
  BY <1>1, <1>2, <1>3, LimitsAssumption DEF ReadEnds, Refuse
<1>4. CASE Tick
  BY <1>1, <1>2, <1>4, LimitsAssumption DEF Tick
<1>5. CASE ReadTimesOut
  BY <1>1, <1>2, <1>5, LimitsAssumption DEF ReadTimesOut, Refuse
<1>6. CASE Respond
  BY <1>1, <1>2, <1>6, LimitsAssumption DEF Respond
<1>7. CASE Panic
  BY <1>1, <1>2, <1>7, LimitsAssumption DEF Panic
<1>8. CASE Write
  BY <1>1, <1>2, <1>8, LimitsAssumption DEF Write
<1> QED BY <1>3, <1>4, <1>5, <1>6, <1>7, <1>8

LEMMA InvAlways == Spec => []Inv
<1>1. Inv /\ [Next]_vars => Inv'
  <2>1. Inv /\ Next => Inv'
    BY ReadHeadKeeps, ReadBodyKeeps, RestKeeps DEF Next
  <2>2. Inv /\ UNCHANGED vars => Inv'
    BY DEF Inv, TypeOK, Progress, VerdictOfTheStream, BufferBounded, Served, Verdict,
       Whole, Reading, vars
  <2> QED BY <2>1, <2>2
<1> QED BY InitInv, <1>1, PTL DEF Spec

-------------------------------------------------------------------------------
(* Every variable of a connection keeps its type, the response one of the      *)
(* statuses the code names.                                                    *)
THEOREM TypeCorrect == Spec => []TypeOK
<1>1. Inv => TypeOK
  BY DEF Inv
<1> QED BY <1>1, InvAlways, PTL

(* However the network cuts a stream into reads, `read_request` keeps to the    *)
(* verdict the stream deserves; only a head above MAX_HEAD by no more than one *)
(* read may be read or refused as it was cut.                                  *)
THEOREM VerdictAlwaysOfTheStream == Spec => []VerdictOfTheStream
<1>1. Inv => VerdictOfTheStream
  BY DEF Inv
<1> QED BY <1>1, InvAlways, PTL

(* What one connection holds stays within one read above a limit (serve.rs     *)
(* MAX_HEAD, MAX_BODY).                                                        *)
THEOREM BufferAlwaysBounded == Spec => []BufferBounded
<1>1. Inv => BufferBounded
  BY DEF Inv
<1> QED BY <1>1, InvAlways, PTL

(* No connection is read for longer than READ_BUDGET (serve.rs `handle`). *)
THEOREM ReadingAlwaysBounded == Spec => []ReadingBounded
<1>1. Inv => ReadingBounded
  <2> SUFFICES ASSUME Inv PROVE ReadingBounded
    OBVIOUS
  <2>1. left \in Nat /\ age \in Nat /\ age + left = Budget
    BY Numbers DEF Inv, Progress
  <2> QED BY <2>1, LimitsAssumption DEF ReadingBounded
<1> QED BY <1>1, InvAlways, PTL
===============================================================================

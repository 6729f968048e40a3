--------------------------- MODULE RpcChannelProofs ---------------------------
(***************************************************************************)
(* The channel's inductive invariant and what follows from it for every    *)
(* number of requests: the types, PendingIsOpen, AnswersInOrder, and that   *)
(* RpcChannel implements RequestContract.                                  *)
(*                                                                         *)
(* None of these is inductive alone.  The argument is that a line moves    *)
(* along one conveyor, writeBuf -> toServer -> handling -> toClient, whose *)
(* ids decrease strictly from the client's write end to its read end       *)
(* (Conveyor): an id is therefore in at most one place, so its handler     *)
(* runs at most once.  Progress says what is known of an id from its       *)
(* place, and Located that an open request has a place while the process   *)
(* lives.                                                                  *)
(***************************************************************************)
EXTENDS RpcChannel, Integers, TLAPS

-----------------------------------------------------------------------------
(* Sequences, in terms of the set of their elements (Range, of the module   *)
(* Functions): the proofs about queues and key orders speak of sets.       *)

\* The elements grow strictly from head to tail.
Increasing(s) == \A j, k \in DOMAIN s : j < k => s[j] < s[k]

\* The same for a sequence of records, by their field id.
IncreasingIds(s) == \A j, k \in DOMAIN s : j < k => s[j].id < s[k].id

\* The elements of a sequence over S are in S.
LEMMA RangeType ==
  ASSUME NEW S, NEW s \in Seq(S)
  PROVE  \A x \in Range(s) : x \in S
  BY DEF Range

\* Appending adds one element at the end and keeps the others in place.
LEMMA AppendElement ==
  ASSUME NEW S, NEW s \in Seq(S), NEW e \in S
  PROVE  /\ Append(s, e) \in Seq(S)
         /\ Len(Append(s, e)) = Len(s) + 1
         /\ DOMAIN Append(s, e) = 1..(Len(s) + 1)
         /\ \A k \in 1..Len(s) : Append(s, e)[k] = s[k]
         /\ Append(s, e)[Len(s) + 1] = e
  OBVIOUS

\* Appending adds exactly the new element to the set of elements.
LEMMA AppendRange ==
  ASSUME NEW S, NEW s \in Seq(S), NEW e \in S
  PROVE  Range(Append(s, e)) = Range(s) \cup {e}
<1>1. DOMAIN s = 1..Len(s)
  OBVIOUS
<1>2. Range(Append(s, e)) \subseteq Range(s) \cup {e}
  BY <1>1, AppendElement DEF Range
<1>3. ASSUME NEW x \in Range(s) PROVE x \in Range(Append(s, e))
  <2>1. PICK k \in 1..Len(s) : x = s[k]
    BY <1>1, <1>3 DEF Range
  <2>2. k \in DOMAIN Append(s, e) /\ Append(s, e)[k] = x
    BY <2>1, AppendElement
  <2> QED BY <2>2 DEF Range
<1>4. e \in Range(Append(s, e))
  <2>1. Len(s) + 1 \in DOMAIN Append(s, e) /\ Append(s, e)[Len(s) + 1] = e
    BY AppendElement
  <2> QED BY <2>1 DEF Range
<1> QED BY <1>2, <1>3, <1>4

\* The tail of a non-empty sequence is the sequence shifted by one.
LEMMA TailElement ==
  ASSUME NEW S, NEW s \in Seq(S), s # <<>>
  PROVE  /\ Len(s) \in Nat \ {0}
         /\ Head(s) = s[1] /\ Head(s) \in S
         /\ Tail(s) \in Seq(S)
         /\ DOMAIN Tail(s) = 1..(Len(s) - 1)
         /\ \A k \in 1..(Len(s) - 1) : Tail(s)[k] = s[k + 1]
  OBVIOUS

\* Taking the head splits the set of elements.
LEMMA TailRange ==
  ASSUME NEW S, NEW s \in Seq(S), s # <<>>
  PROVE  Range(s) = {Head(s)} \cup Range(Tail(s))
<1>1. DOMAIN s = 1..Len(s)
  OBVIOUS
<1>2. Head(s) \in Range(s)
  BY <1>1, TailElement DEF Range
<1>3. Range(Tail(s)) \subseteq Range(s)
  BY <1>1, TailElement DEF Range
<1>4. ASSUME NEW x \in Range(s), x # Head(s) PROVE x \in Range(Tail(s))
  <2>1. PICK k \in 1..Len(s) : x = s[k]
    BY <1>1, <1>4 DEF Range
  <2>2. k # 1
    BY <2>1, <1>4, TailElement
  <2>3. k - 1 \in DOMAIN Tail(s) /\ Tail(s)[k - 1] = x
    BY <2>1, <2>2, TailElement
  <2> QED BY <2>3 DEF Range
<1> QED BY <1>2, <1>3, <1>4

\* An increasing sequence stays increasing when a larger element is appended.
LEMMA AppendIncreasing ==
  ASSUME NEW S, NEW s \in Seq(S), NEW e \in S, Increasing(s),
         \A x \in Range(s) : x < e
  PROVE  Increasing(Append(s, e))
<1>1. DOMAIN s = 1..Len(s)
  OBVIOUS
<1>2. SUFFICES ASSUME NEW j \in 1..(Len(s) + 1), NEW k \in 1..(Len(s) + 1),
                      j < k
               PROVE  Append(s, e)[j] < Append(s, e)[k]
  BY AppendElement DEF Increasing
<1>3. j \in 1..Len(s) /\ Append(s, e)[j] = s[j] /\ s[j] \in Range(s)
  BY <1>1, <1>2, AppendElement DEF Range
<1>4. CASE k = Len(s) + 1
  BY <1>3, <1>4, AppendElement
<1>5. CASE k \in 1..Len(s)
  BY <1>1, <1>2, <1>3, <1>5, AppendElement DEF Increasing
<1> QED BY <1>2, <1>4, <1>5

\* The head of an increasing sequence is below the rest, which is increasing.
LEMMA TailIncreasing ==
  ASSUME NEW S, NEW s \in Seq(S), s # <<>>, Increasing(s)
  PROVE  /\ Increasing(Tail(s))
         /\ \A x \in Range(Tail(s)) : Head(s) < x
<1>1. DOMAIN s = 1..Len(s)
  OBVIOUS
<1>2. Increasing(Tail(s))
  BY <1>1, TailElement DEF Increasing
<1>3. ASSUME NEW x \in Range(Tail(s)) PROVE Head(s) < x
  <2>1. PICK k \in 1..(Len(s) - 1) : x = s[k + 1]
    BY <1>3, TailElement DEF Range
  <2> QED BY <2>1, <1>1, TailElement DEF Increasing
<1> QED BY <1>2, <1>3

\* AppendIncreasing for records ordered by id.
LEMMA AppendIncreasingIds ==
  ASSUME NEW S, NEW s \in Seq(S), NEW e \in S, IncreasingIds(s),
         \A x \in Range(s) : x.id < e.id
  PROVE  IncreasingIds(Append(s, e))
<1>1. DOMAIN s = 1..Len(s)
  OBVIOUS
<1>2. SUFFICES ASSUME NEW j \in 1..(Len(s) + 1), NEW k \in 1..(Len(s) + 1),
                      j < k
               PROVE  Append(s, e)[j].id < Append(s, e)[k].id
  BY AppendElement DEF IncreasingIds
<1>3. j \in 1..Len(s) /\ Append(s, e)[j] = s[j] /\ s[j] \in Range(s)
  BY <1>1, <1>2, AppendElement DEF Range
<1>4. CASE k = Len(s) + 1
  BY <1>3, <1>4, AppendElement
<1>5. CASE k \in 1..Len(s)
  BY <1>1, <1>2, <1>3, <1>5, AppendElement DEF IncreasingIds
<1> QED BY <1>2, <1>4, <1>5

\* TailIncreasing for records ordered by id.
LEMMA TailIncreasingIds ==
  ASSUME NEW S, NEW s \in Seq(S), s # <<>>, IncreasingIds(s)
  PROVE  /\ IncreasingIds(Tail(s))
         /\ \A x \in Range(Tail(s)) : Head(s).id < x.id
<1>1. DOMAIN s = 1..Len(s)
  OBVIOUS
<1>2. IncreasingIds(Tail(s))
  BY <1>1, TailElement DEF IncreasingIds
<1>3. ASSUME NEW x \in Range(Tail(s)) PROVE Head(s).id < x.id
  <2>1. PICK k \in 1..(Len(s) - 1) : x = s[k + 1]
    BY <1>3, TailElement DEF Range
  <2> QED BY <2>1, <1>1, TailElement DEF IncreasingIds
<1> QED BY <1>2, <1>3

-----------------------------------------------------------------------------
(* The inductive invariant                                                 *)

\* Ids decrease from the write end of the conveyor to the read end.
Conveyor ==
  /\ Increasing(writeBuf) /\ Increasing(toServer) /\ IncreasingIds(toClient)
  /\ handling < nextId
  /\ \A w \in Range(writeBuf) :
       /\ handling < w /\ w < nextId
       /\ \A s \in Range(toServer) : s < w
       /\ \A c \in Range(toClient) : c.id < w
  /\ \A s \in Range(toServer) :
       /\ handling < s /\ s < nextId
       /\ \A c \in Range(toClient) : c.id < s
  /\ \A c \in Range(toClient) :
       /\ c.id < nextId
       /\ handling # None => c.id < handling

\* A request on the conveyor can only be waited for or aborted.
Travelling(i) == outcome[i] \in {"open", "aborted"}

\* What the place of a request says about its promise and its handler.
Progress ==
  /\ \A i \in Ids : outcome[i] = "idle" <=> nextId <= i
  /\ \A i \in Ids : nextId <= i => ran[i] = 0
  /\ \A i \in Range(writeBuf) \cup Range(toServer) :
       Travelling(i) /\ ran[i] = 0
  /\ handling # None => Travelling(handling) /\ ran[handling] = 1
  /\ \A c \in Range(toClient) :
       /\ Travelling(c.id)
       /\ ran[c.id] = (IF c.kind = "MethodNotFound" THEN 0 ELSE 1)

\* While the process lives an open request is on the conveyor; when it is
\* dead, what is left to read still comes before whatever was lost.
Located ==
  /\ \A i \in Ids : outcome[i] = "open" /\ alive =>
       \/ i \in Range(writeBuf) \cup Range(toServer) \cup {handling}
       \/ \E c \in Range(toClient) : c.id = i
  /\ ~alive => handling = None /\ toServer = <<>>
  /\ \A i \in Ids : outcome[i] = "open" =>
       \A c \in Range(toClient) : i < c.id =>
         \E d \in Range(toClient) : d.id = i

\* The inductive invariant of the channel: types, the pending map, the order
\* of the answers, and the conveyor they rest on.
IndInv == /\ TypeOK /\ Conveyor /\ Progress /\ Located
          /\ OpenArePending /\ AnswersInOrder
-----------------------------------------------------------------------------

\* The ids on the conveyor, and the responses, have their types.
LEMMA ConveyorTypes ==
  ASSUME TypeOK
  PROVE  /\ \A x \in Range(writeBuf) \cup Range(toServer) : x \in Ids
         /\ \A c \in Range(toClient) : c \in Response /\ c.id \in Ids
<1>1. \A x \in Range(writeBuf) \cup Range(toServer) : x \in Ids
  BY RangeType DEF TypeOK
<1>2. \A c \in Range(toClient) : c \in Response
  BY RangeType DEF TypeOK
<1> QED BY <1>1, <1>2 DEF Response

\* The invariant holds before the first request.
LEMMA InitInv == Init => IndInv
<1> SUFFICES ASSUME Init PROVE IndInv
  OBVIOUS
<1>1. TypeOK
  BY MaxRequestsAssumption DEF Init, TypeOK, Ids, None, Outcomes
<1>2. Range(writeBuf) = {} /\ Range(toServer) = {} /\ Range(toClient) = {}
  BY DEF Init, Range
<1>3. Conveyor
  BY <1>2 DEF Init, Conveyor, Increasing, IncreasingIds, None
<1>4. Progress
  BY <1>2 DEF Init, Progress, Ids, None
<1>5. Located /\ OpenArePending /\ AnswersInOrder
  BY <1>2 DEF Init, Located, OpenArePending, AnswersInOrder, ServerAnswers
<1> QED BY <1>1, <1>3, <1>4, <1>5 DEF IndInv

\* A new request enters the conveyor at its write end.
LEMMA RequestInv == IndInv /\ Request => IndInv'
<1> SUFFICES ASSUME IndInv, Request PROVE IndInv'
  OBVIOUS
<1> USE DEF IndInv
<1>1. /\ TypeOK' /\ nextId \in Ids
      /\ Range(writeBuf') = Range(writeBuf) \cup {nextId}
  <2>1. nextId \in Ids /\ writeBuf \in Seq(Ids) /\ writeBuf' = Append(writeBuf, nextId)
    BY DEF Request, TypeOK
  <2>2. writeBuf' \in Seq(Ids) /\ Range(writeBuf') = Range(writeBuf) \cup {nextId}
    BY <2>1, AppendElement, AppendRange
  <2> QED BY <2>1, <2>2, MaxRequestsAssumption DEF Request, TypeOK, Ids, Outcomes
<1>2. Increasing(writeBuf')
  BY <1>1, AppendIncreasing DEF Request, Conveyor, TypeOK
<1>3. Conveyor'
  BY <1>1, <1>2, ConveyorTypes DEF Request, Conveyor, TypeOK, Ids, None
<1>4. Progress'
  <2>1. nextId \notin Range(writeBuf) \cup Range(toServer) /\ nextId # handling
        /\ \A c \in Range(toClient) : c.id # nextId
    BY ConveyorTypes DEF Conveyor, TypeOK, Ids, None
  <2> QED BY <1>1, <2>1, ConveyorTypes DEF Request, Progress, Travelling, TypeOK, Ids, None
<1>5. Located'
  BY <1>1, ConveyorTypes DEF Request, Located, Conveyor, TypeOK, Ids, None
<1>6. OpenArePending'
  BY <1>1 DEF Request, OpenArePending, TypeOK
<1>7. AnswersInOrder'
  BY <1>1 DEF Request, AnswersInOrder, Progress, TypeOK, Ids, ServerAnswers
<1> QED BY <1>1, <1>3, <1>4, <1>5, <1>6, <1>7

\* A request whose signal is already aborted only uses up an id.
LEMMA PreAbortedInv == IndInv /\ RequestPreAborted => IndInv'
<1> SUFFICES ASSUME IndInv, RequestPreAborted PROVE IndInv'
  OBVIOUS
<1> USE DEF IndInv
<1>1. TypeOK' /\ nextId \in Ids
  BY MaxRequestsAssumption DEF RequestPreAborted, TypeOK, Ids, Outcomes, pipes
<1>2. Conveyor'
  BY <1>1, ConveyorTypes DEF RequestPreAborted, Conveyor, TypeOK, Ids, None, pipes
<1>3. Progress'
  <2>1. nextId \notin Range(writeBuf) \cup Range(toServer) /\ nextId # handling
        /\ \A c \in Range(toClient) : c.id # nextId
    BY ConveyorTypes DEF Conveyor, TypeOK, Ids, None
  <2> QED BY <1>1, <2>1, ConveyorTypes
          DEF RequestPreAborted, Progress, Travelling, TypeOK, Ids, None, pipes
<1>4. Located'
  BY <1>1 DEF RequestPreAborted, Located, TypeOK, pipes
<1>5. OpenArePending' /\ AnswersInOrder'
  BY <1>1 DEF RequestPreAborted, OpenArePending, AnswersInOrder, Progress,
              TypeOK, Ids, ServerAnswers
<1> QED BY <1>1, <1>2, <1>3, <1>4, <1>5

\* An abort leaves the line where it is: it may still be answered, in vain.
LEMMA AbortInv == ASSUME NEW i \in Ids PROVE IndInv /\ Abort(i) => IndInv'
<1> SUFFICES ASSUME IndInv, Abort(i) PROVE IndInv'
  OBVIOUS
<1> USE DEF IndInv, Abort, Settle
<1>1. TypeOK'
  BY DEF TypeOK, Outcomes, pipes
<1>2. Conveyor'
  BY DEF Conveyor, pipes
<1>3. Progress'
  BY ConveyorTypes DEF Progress, Travelling, TypeOK, Ids, None, pipes
<1>4. Located'
  BY DEF Located, TypeOK, pipes
<1>5. OpenArePending' /\ AnswersInOrder'
  BY DEF OpenArePending, AnswersInOrder, TypeOK, ServerAnswers
<1> QED BY <1>1, <1>2, <1>3, <1>4, <1>5
\* A line Node could not write leaves the conveyor; its promise is rejected.
LEMMA WriteErrorInv == IndInv /\ WriteError => IndInv'
<1> SUFFICES ASSUME IndInv, WriteError PROVE IndInv'
  OBVIOUS
<1> DEFINE h == Head(writeBuf)
<1> USE DEF IndInv, WriteError, Settle
<1>1. /\ h \in Ids /\ writeBuf' \in Seq(Ids) /\ Increasing(writeBuf')
      /\ Range(writeBuf) = {h} \cup Range(writeBuf')
      /\ \A w \in Range(writeBuf') : h < w
  BY TailElement, TailRange, TailIncreasing DEF TypeOK, Conveyor
<1>2. TypeOK'
  BY <1>1 DEF TypeOK, Outcomes
<1>3. Conveyor'
  BY <1>1 DEF Conveyor
<1>4. Progress'
  <2>1. \A w \in Range(writeBuf') \cup Range(toServer) : w # h
    BY <1>1, ConveyorTypes DEF Conveyor, TypeOK, Ids
  <2>2. h # handling /\ h < nextId /\ \A c \in Range(toClient) : c.id # h
    BY <1>1, ConveyorTypes DEF Conveyor, TypeOK, Ids, None
  <2> QED BY <1>1, <2>1, <2>2, ConveyorTypes
          DEF Progress, Travelling, TypeOK, Ids, None
<1>5. Located'
  BY <1>1, ConveyorTypes DEF Located, TypeOK
<1>6. OpenArePending' /\ AnswersInOrder'
  BY <1>1 DEF OpenArePending, AnswersInOrder, TypeOK, ServerAnswers
<1> QED BY <1>2, <1>3, <1>4, <1>5, <1>6

\* The client takes a response: no earlier request is still open, and a
\* response to an aborted request changes nothing.
LEMMA OnLineInv == IndInv /\ OnLine => IndInv'
<1> SUFFICES ASSUME IndInv, OnLine PROVE IndInv'
  OBVIOUS
<1> DEFINE h == Head(toClient)
<1> USE DEF IndInv
<1>1. /\ h \in Response /\ toClient' \in Seq(Response)
      /\ IncreasingIds(toClient')
      /\ Range(toClient) = {h} \cup Range(toClient')
      /\ \A c \in Range(toClient') : h.id < c.id
  BY TailElement, TailRange, TailIncreasingIds DEF TypeOK, Conveyor, OnLine
<1>2. h.id \in Ids /\ h.kind \in ServerAnswers
  BY <1>1 DEF Response
<1>3. /\ UNCHANGED <<nextId, writeBuf, toServer, handling, ran, alive>>
      /\ pending' = pending \ {h.id}
      /\ outcome' = [outcome EXCEPT ![h.id] =
                       IF @ = "open" THEN h.kind ELSE @]
  <2>1. CASE h.id \in pending
    BY <2>1 DEF OnLine, Settle
  <2>2. CASE h.id \notin pending
    BY <2>2, <1>2 DEF OnLine, OpenArePending, TypeOK
  <2> QED BY <2>1, <2>2
<1>4. TypeOK'
  BY <1>1, <1>2, <1>3 DEF TypeOK, Outcomes
<1>5. Conveyor'
  BY <1>1, <1>3 DEF Conveyor
<1>6. Progress'
  <2>1. \A w \in Range(writeBuf) \cup Range(toServer) : w # h.id
    BY <1>1, <1>2, ConveyorTypes DEF Conveyor, TypeOK, Ids
  <2>2. /\ handling # None => h.id # handling
        /\ h.id < nextId /\ \A c \in Range(toClient') : c.id # h.id
    BY <1>1, <1>2, ConveyorTypes DEF Conveyor, TypeOK, Ids, None
  <2> QED BY <1>1, <1>2, <1>3, <2>1, <2>2, ConveyorTypes
          DEF Progress, Travelling, TypeOK, Ids, None, ServerAnswers
<1>7. Located'
  BY <1>1, <1>2, <1>3, ConveyorTypes DEF Located, TypeOK, ServerAnswers, Ids
<1>8. OpenArePending'
  BY <1>2, <1>3 DEF OpenArePending, TypeOK, ServerAnswers
<1>9. AnswersInOrder'
  <2>1. \A i \in Ids : i < h.id => outcome[i] # "open"
    BY <1>1, <1>2, ConveyorTypes DEF Located, Ids
  <2> QED BY <1>2, <1>3, <2>1 DEF AnswersInOrder, TypeOK, ServerAnswers
<1> QED BY <1>4, <1>5, <1>6, <1>7, <1>8, <1>9

\* A line moves from Node's buffer to the sidecar's stdin.
LEMMA FlushWriteInv == IndInv /\ FlushWrite => IndInv'
<1> SUFFICES ASSUME IndInv, FlushWrite PROVE IndInv'
  OBVIOUS
<1> DEFINE h == Head(writeBuf)
<1> USE DEF IndInv, FlushWrite, clientVars
<1>1. /\ h \in Ids /\ writeBuf' \in Seq(Ids) /\ Increasing(writeBuf')
      /\ Range(writeBuf) = {h} \cup Range(writeBuf')
      /\ \A w \in Range(writeBuf') : h < w
  BY TailElement, TailRange, TailIncreasing DEF TypeOK, Conveyor
<1>2. /\ toServer' \in Seq(Ids) /\ Increasing(toServer')
      /\ Range(toServer') = Range(toServer) \cup {h}
  <2>1. toServer \in Seq(Ids) /\ toServer' = Append(toServer, h)
    BY DEF TypeOK
  <2>2. Increasing(toServer) /\ \A s \in Range(toServer) : s < h
    BY <1>1 DEF Conveyor
  <2>3. toServer' \in Seq(Ids) /\ Range(toServer') = Range(toServer) \cup {h}
    BY <1>1, <2>1, AppendElement, AppendRange
  <2>4. Increasing(toServer')
    BY <1>1, <2>1, <2>2, AppendIncreasing
  <2> QED BY <2>3, <2>4
<1>3. TypeOK'
  BY <1>1, <1>2 DEF TypeOK
<1>4. Conveyor'
  BY <1>1, <1>2 DEF Conveyor
<1>5. Progress'
  BY <1>1, <1>2 DEF Progress, Travelling
<1>6. Located'
  BY <1>1, <1>2, ConveyorTypes DEF Located, TypeOK
<1>7. OpenArePending' /\ AnswersInOrder'
  BY DEF OpenArePending, AnswersInOrder
<1> QED BY <1>3, <1>4, <1>5, <1>6, <1>7

\* The process dies with what it had not answered.
LEMMA CrashInv == IndInv /\ Crash => IndInv'
<1> SUFFICES ASSUME IndInv, Crash PROVE IndInv'
  OBVIOUS
<1> USE DEF IndInv, Crash, clientVars
<1>1. Range(toServer') = {} /\ Increasing(toServer')
  BY DEF Range, Increasing
<1>2. TypeOK'
  <2>1. toServer' \in Seq(Ids)
    OBVIOUS
  <2> QED BY <2>1 DEF TypeOK
<1>3. Conveyor'
  <2>1. \A w \in Range(writeBuf) : None < w
    BY ConveyorTypes DEF Ids, None
  <2> QED BY <1>1, <2>1 DEF Conveyor, TypeOK, Ids, None
<1>4. Progress' /\ Located'
  BY <1>1 DEF Progress, Travelling, Located
<1>5. OpenArePending' /\ AnswersInOrder'
  BY DEF OpenArePending, AnswersInOrder
<1> QED BY <1>2, <1>3, <1>4, <1>5
\* What reading a line does to stdin: the smallest id leaves it.
LEMMA ReadLine ==
  ASSUME IndInv, toServer # <<>>, toServer' = Tail(toServer)
  PROVE  /\ Head(toServer) \in Ids /\ toServer' \in Seq(Ids)
         /\ Increasing(toServer')
         /\ Range(toServer) = {Head(toServer)} \cup Range(toServer')
         /\ \A s \in Range(toServer') : Head(toServer) < s
  BY TailElement, TailRange, TailIncreasing DEF IndInv, TypeOK, Conveyor

\* What a response does to stdout, when its id is above all that are there.
LEMMA RespondOrder ==
  ASSUME IndInv, NEW i \in Ids, NEW kind \in ServerAnswers, Respond(i, kind),
         \A c \in Range(toClient) : c.id < i
  PROVE  /\ toClient' \in Seq(Response) /\ IncreasingIds(toClient')
         /\ Range(toClient') = Range(toClient) \cup {[id |-> i, kind |-> kind]}
<1> DEFINE r == [id |-> i, kind |-> kind]
<1>1. r \in Response /\ toClient \in Seq(Response) /\ IncreasingIds(toClient)
  BY DEF Response, IndInv, TypeOK, Conveyor
<1>2. toClient' = Append(toClient, r)
  BY DEF Respond
<1> HIDE DEF r
<1>3. toClient' \in Seq(Response) /\ Range(toClient') = Range(toClient) \cup {r}
  BY <1>1, <1>2, AppendElement, AppendRange
<1>4. IncreasingIds(toClient')
  <2>1. \A c \in Range(toClient) : c.id < r.id
    BY DEF r
  <2> QED BY <1>1, <1>2, <2>1, AppendIncreasingIds
<1> QED BY <1>3, <1>4 DEF r

\* A line whose method is unknown goes from stdin to stdout.
LEMMA ReadUnknownInv == IndInv /\ ReadUnknownMethod => IndInv'
<1> SUFFICES ASSUME IndInv, ReadUnknownMethod PROVE IndInv'
  OBVIOUS
<1> DEFINE h == Head(toServer)
           r == [id |-> h, kind |-> "MethodNotFound"]
<1>1. /\ h \in Ids /\ toServer' \in Seq(Ids) /\ Increasing(toServer')
      /\ Range(toServer) = {h} \cup Range(toServer')
      /\ \A s \in Range(toServer') : h < s
  BY ReadLine DEF ReadUnknownMethod
<1>2. \A c \in Range(toClient) : c.id < h
  BY <1>1 DEF IndInv, Conveyor
<1>3. /\ toClient' \in Seq(Response) /\ IncreasingIds(toClient')
      /\ Range(toClient') = Range(toClient) \cup {r}
  BY <1>1, <1>2, RespondOrder DEF ReadUnknownMethod, ServerAnswers
<1>4. r.id = h /\ r.kind = "MethodNotFound"
  OBVIOUS
<1> HIDE DEF h, r
<1> USE DEF IndInv, ReadUnknownMethod, clientVars
<1>5. TypeOK'
  BY <1>1, <1>3 DEF TypeOK
<1>6. Conveyor'
  BY <1>1, <1>2, <1>3, <1>4 DEF Conveyor
<1>7. Progress'
  BY <1>1, <1>3, <1>4 DEF Progress, Travelling
<1>8. Located'
  <2>1. \A i \in Ids : outcome[i] = "open" /\ i < h =>
          \E c \in Range(toClient) : c.id = i
    <3>1. \A i \in Range(writeBuf) \cup Range(toServer') : h < i
      BY <1>1 DEF Conveyor
    <3>2. \A i \in Range(writeBuf) \cup Range(toServer) : ~(i < h)
      BY <1>1, <3>1, ConveyorTypes DEF Ids
    <3> QED BY <3>2 DEF Located, Ids, None
  <2> QED BY <1>1, <1>3, <1>4, <2>1, ConveyorTypes DEF Located, TypeOK
<1>9. OpenArePending' /\ AnswersInOrder'
  BY DEF OpenArePending, AnswersInOrder
<1> QED BY <1>5, <1>6, <1>7, <1>8, <1>9

\* A line goes from stdin to its handler.
LEMMA EnterHandlerInv == IndInv /\ EnterHandler => IndInv'
<1> SUFFICES ASSUME IndInv, EnterHandler PROVE IndInv'
  OBVIOUS
<1> DEFINE h == Head(toServer)
<1>1. /\ h \in Ids /\ toServer' \in Seq(Ids) /\ Increasing(toServer')
      /\ Range(toServer) = {h} \cup Range(toServer')
      /\ \A s \in Range(toServer') : h < s
  BY ReadLine DEF EnterHandler
<1> USE DEF IndInv, EnterHandler, clientVars
<1>2. TypeOK'
  BY <1>1 DEF TypeOK
<1>3. Conveyor'
  BY <1>1 DEF Conveyor
<1>4. Progress'
  <2>1. h < nextId /\ \A c \in Range(toClient) : c.id # h
    BY <1>1, ConveyorTypes DEF Conveyor, TypeOK, Ids
  <2>2. \A i \in Range(writeBuf) \cup Range(toServer') : i # h
    <3>1. \A i \in Range(writeBuf) : h < i
      BY <1>1 DEF Conveyor
    <3> QED BY <1>1, <3>1, ConveyorTypes DEF Ids
  <2> QED BY <1>1, <2>1, <2>2, ConveyorTypes
          DEF Progress, Travelling, TypeOK, Ids, None
<1>5. Located'
  BY <1>1 DEF Located, Ids, None
<1>6. OpenArePending' /\ AnswersInOrder'
  BY DEF OpenArePending, AnswersInOrder
<1> QED BY <1>2, <1>3, <1>4, <1>5, <1>6

\* A handler's answer goes to stdout.
LEMMA LeaveHandlerInv ==
  ASSUME NEW kind \in {"result", "InternalError"}
  PROVE  IndInv /\ LeaveHandler(kind) => IndInv'
<1> SUFFICES ASSUME IndInv, LeaveHandler(kind) PROVE IndInv'
  OBVIOUS
<1> DEFINE h == handling
           r == [id |-> h, kind |-> kind]
<1>1. h \in Ids /\ h # None /\ kind \in ServerAnswers
  BY DEF IndInv, TypeOK, LeaveHandler, None, ServerAnswers
<1>2. \A c \in Range(toClient) : c.id < h
  BY <1>1 DEF IndInv, Conveyor
<1>3. /\ toClient' \in Seq(Response) /\ IncreasingIds(toClient')
      /\ Range(toClient') = Range(toClient) \cup {r}
  BY <1>1, <1>2, RespondOrder DEF LeaveHandler
<1>4. r.id = h /\ r.kind = kind
  OBVIOUS
<1> HIDE DEF r
<1> USE DEF IndInv, LeaveHandler, clientVars
<1>5. TypeOK'
  BY <1>1, <1>3 DEF TypeOK
<1>6. Conveyor'
  BY <1>1, <1>2, <1>3, <1>4, ConveyorTypes, SMTT(30)
     DEF Conveyor, TypeOK, Ids, None
<1>7. Progress'
  BY <1>1, <1>3, <1>4 DEF Progress, Travelling, None
<1>8. Located'
  <2>1. \A i \in Ids : outcome[i] = "open" /\ i < h =>
          \E c \in Range(toClient) : c.id = i
    BY <1>1, ConveyorTypes, SMTT(30)
       DEF Located, Conveyor, TypeOK, Ids, None
  <2> QED BY <1>1, <1>3, <1>4, <2>1, ConveyorTypes, SMTT(30)
       DEF Located, TypeOK, Ids, None
<1>9. OpenArePending' /\ AnswersInOrder'
  BY DEF OpenArePending, AnswersInOrder
<1> QED BY <1>5, <1>6, <1>7, <1>8, <1>9

\* Every step keeps the invariant.
LEMMA NextInv == IndInv /\ [Next]_vars => IndInv'
<1> SUFFICES ASSUME IndInv, [Next]_vars PROVE IndInv'
  OBVIOUS
<1>1. CASE Request            BY <1>1, RequestInv
<1>2. CASE RequestPreAborted  BY <1>2, PreAbortedInv
<1>3. ASSUME NEW i \in Ids, Abort(i) PROVE IndInv'
  BY <1>3, AbortInv
<1>4. CASE WriteError         BY <1>4, WriteErrorInv
<1>5. CASE OnLine             BY <1>5, OnLineInv
<1>6. CASE FlushWrite         BY <1>6, FlushWriteInv
<1>7. CASE Crash              BY <1>7, CrashInv
<1>8. CASE ReadUnknownMethod  BY <1>8, ReadUnknownInv
<1>9. CASE EnterHandler       BY <1>9, EnterHandlerInv
<1>10. ASSUME NEW kind \in {"result", "InternalError"}, LeaveHandler(kind)
       PROVE IndInv'
  BY <1>10, LeaveHandlerInv
<1>11. CASE UNCHANGED vars
  BY <1>11 DEF IndInv, TypeOK, Conveyor, Progress, Travelling, Located,
               OpenArePending, AnswersInOrder, vars, clientVars, pipes
<1> QED BY <1>1, <1>2, <1>3, <1>4, <1>5, <1>6, <1>7, <1>8, <1>9, <1>10, <1>11
        DEF Next

\* IndInv holds in every reachable state, for every number of requests.
THEOREM InvariantHolds == Spec => []IndInv
  BY InitInv, NextInv, PTL DEF Spec

\* The channel's state is always well typed.
THEOREM TypeCorrect == Spec => []TypeOK
<1>1. IndInv => TypeOK
  BY DEF IndInv
<1> QED BY <1>1, InvariantHolds, PTL

\* _pending always holds exactly the unsettled promises (client.ts:35-89).
THEOREM PendingCorrect == Spec => []PendingIsOpen
<1>1. IndInv => PendingIsOpen
  BY DEF IndInv, PendingIsOpen
<1> QED BY <1>1, InvariantHolds, PTL

\* When a request is answered no earlier one is waiting (server.cpp:21-32).
THEOREM AnswerOrder == Spec => []AnswersInOrder
<1>1. IndInv => AnswersInOrder
  BY DEF IndInv
<1> QED BY <1>1, InvariantHolds, PTL

-----------------------------------------------------------------------------

\* Every step of the channel is a step of the contract, or none at all.
LEMMA StepImplements ==
  ASSUME IndInv, [Next]_vars PROVE [Contract!Next]_Contract!vars
<1> USE DEF Contract!Next, Contract!vars
<1>1. CASE Request
  <2>1. nextId \in Ids /\ Contract!Issue(nextId)
    BY <1>1 DEF Request, Contract!Issue, IndInv, Progress, Ids
  <2> QED BY <2>1
<1>2. CASE RequestPreAborted
  <2>1. nextId \in Ids /\ Contract!Decline(nextId)
    BY <1>2 DEF RequestPreAborted, Contract!Decline, IndInv, Progress, Ids
  <2> QED BY <2>1
<1>3. ASSUME NEW i \in Ids, Abort(i) PROVE [Contract!Next]_Contract!vars
  <2>1. CASE outcome[i] = "open"
    BY <1>3, <2>1 DEF Abort, Settle, Contract!Abort, IndInv, TypeOK
  <2>2. CASE outcome[i] # "open"
    BY <1>3, <2>2 DEF Abort, Settle, IndInv, TypeOK
  <2> QED BY <2>1, <2>2
<1>4. CASE WriteError
  <2> DEFINE h == Head(writeBuf)
  <2>1. h \in Ids /\ h \in Range(writeBuf)
    BY <1>4, TailElement, TailRange DEF WriteError, IndInv, TypeOK
  <2>2. CASE outcome[h] = "open"
    <3>1. Contract!FailWrite(h)
      BY <1>4, <2>1, <2>2
      DEF WriteError, Settle, Contract!FailWrite, IndInv, TypeOK, Progress
    <3> QED BY <2>1, <3>1
  <2>3. CASE outcome[h] # "open"
    BY <1>4, <2>1, <2>3 DEF WriteError, Settle, IndInv, TypeOK
  <2> QED BY <2>2, <2>3
<1>5. CASE OnLine
  <2> DEFINE h == Head(toClient)
  <2>1. h \in Range(toClient) /\ h.id \in Ids /\ h.kind \in ServerAnswers
    <3>1. toClient # <<>> /\ toClient \in Seq(Response)
      BY <1>5 DEF OnLine, IndInv, TypeOK
    <3>2. h \in Range(toClient) /\ h \in Response
      BY <3>1, TailElement, TailRange
    <3> QED BY <3>2 DEF Response
  <2>2. CASE h.id \in pending
    <3>1. outcome[h.id] = "open"
      BY <2>2 DEF IndInv, OpenArePending
    <3>2. Contract!Answer(h.id, h.kind)
      BY <1>5, <2>1, <2>2, <3>1
      DEF OnLine, Settle, Contract!Answer, IndInv, TypeOK, Progress
    <3> QED BY <2>1, <3>2 DEF Contract!Answers, ServerAnswers
  <2>3. CASE h.id \notin pending
    BY <1>5, <2>3 DEF OnLine
  <2> QED BY <2>2, <2>3
<1>6. CASE EnterHandler
  <2> DEFINE h == Head(toServer)
  <2>1. h \in Ids /\ h \in Range(toServer)
    BY <1>6, TailElement, TailRange DEF EnterHandler, IndInv, TypeOK
  <2>2. ran[h] = 0 /\ outcome[h] \in {"open", "aborted"}
    BY <2>1 DEF IndInv, Progress, Travelling
  <2>3. UNCHANGED outcome /\ ran' = [ran EXCEPT ![h] = 1]
    BY <1>6, <2>1, <2>2 DEF EnterHandler, clientVars, IndInv, TypeOK
  <2>4. Contract!Run(h)
    BY <2>2, <2>3 DEF Contract!Run
  <2> QED BY <2>1, <2>4
<1>7. ASSUME \/ FlushWrite \/ Crash \/ ReadUnknownMethod
             \/ \E kind \in {"result", "InternalError"} : LeaveHandler(kind)
             \/ UNCHANGED vars
      PROVE  UNCHANGED Contract!vars
  BY <1>7 DEF FlushWrite, Crash, ReadUnknownMethod, LeaveHandler, vars,
              clientVars
<1> QED BY <1>1, <1>2, <1>3, <1>4, <1>5, <1>6, <1>7 DEF Next

\* The channel implements the request contract: whatever aborts, write errors
\* and a crash do, a handler runs at most once per request and the promise
\* settles at most once with a truthful outcome.
THEOREM Implements == Spec => ImplementsContract
<1>1. Init => Contract!Init
  BY DEF Init, Contract!Init
<1>2. IndInv /\ [Next]_vars => [Contract!Next]_Contract!vars
  BY StepImplements
<1> QED BY <1>1, <1>2, InvariantHolds, PTL
        DEF Spec, ImplementsContract, Contract!Spec
=============================================================================

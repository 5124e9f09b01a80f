------------------------- MODULE JsonRpcServer_proofs -------------------------
(***************************************************************************)
(* Proofs about JsonRpcServer, for any number of workers, any scripts of   *)
(* the client and any number of progress notifications: the answers of     *)
(* handlers do not tear each other apart in the stream, and every message  *)
(* of the client is served once.                                           *)
(***************************************************************************)
EXTENDS JsonRpcServer, FiniteSetTheorems, TLAPS

\* A thread holds the mutex exactly while it is between the two pieces of an answer.
MutexOfTheAnswering ==
  /\ \A t \in begun : outbox[t] # <<>>
  /\ \A t \in Threads : response_mutex_ = t <=> t \in begun /\ locked(Head(outbox[t]))

\* Piece i is the last one of the stream that belongs to an answer.
LastAnswer(i) == OfAnswer(i) /\ \A j \in i + 1 .. Len(stream) : ~OfAnswer(j)

\* While the mutex is held, this is the header of the answer its holder is writing ...
HeaderOfTheHolder ==
  \A t \in Threads : response_mutex_ = t =>
    \E i \in 1 .. Len(stream) :
      LastAnswer(i) /\ stream[i] = Piece(Head(outbox[t]), "header")

\* ... and while it is free, the last answer is complete.
CompleteWhenFree ==
  response_mutex_ = None =>
    \A i \in 1 .. Len(stream) : LastAnswer(i) => stream[i].part = "content"

IInv ==
  /\ TypeOK
  /\ MutexOfTheAnswering
  /\ HeaderOfTheHolder
  /\ CompleteWhenFree
  /\ AnswersWhole

LEMMA NobodyIsNoThread == None \notin Threads
BY ConstantsAssumption DEF Threads, None

LEMMA InitInvariant == Init => IInv
<1> SUFFICES ASSUME Init PROVE IInv
  OBVIOUS
<1>1. /\ stream = <<>> /\ stream \in Seq(Pieces) /\ 1 .. Len(stream) = {}
      /\ begun = {} /\ response_mutex_ = None
  BY DEF Init
<1>2. /\ outbox \in [Threads -> Seq(Messages)]
      /\ read \in 0 .. Len(script)
  BY ScriptsAssumption DEF Init
<1>3. TypeOK
  BY <1>1, <1>2 DEF Init, TypeOK
<1>4. MutexOfTheAnswering /\ HeaderOfTheHolder
  BY <1>1, NobodyIsNoThread DEF MutexOfTheAnswering, HeaderOfTheHolder
<1>5. CompleteWhenFree /\ AnswersWhole
  BY <1>1 DEF CompleteWhenFree, AnswersWhole
<1> QED
  BY <1>3, <1>4, <1>5 DEF IInv

(***************************************************************************)
(* Steps that write nothing.                                               *)
(***************************************************************************)

\* Nothing is written, and a thread gets new messages only when it has none.
LEMMA QuietStep ==
  ASSUME IInv, TypeOK',
         UNCHANGED <<begun, response_mutex_, stream>>,
         \A t \in Threads : outbox[t] # <<>> => outbox'[t] = outbox[t]
  PROVE  IInv'
<1>1. \A t \in begun : t \in Threads /\ outbox[t] # <<>> /\ outbox'[t] = outbox[t]
  BY DEF IInv, TypeOK, MutexOfTheAnswering
<1>2. MutexOfTheAnswering'
  BY <1>1 DEF IInv, MutexOfTheAnswering
<1>3. HeaderOfTheHolder'
  <2> SUFFICES ASSUME NEW t \in Threads, response_mutex_ = t
               PROVE  \E i \in 1 .. Len(stream) :
                        LastAnswer(i) /\ stream[i] = Piece(Head(outbox'[t]), "header")
    BY DEF HeaderOfTheHolder, LastAnswer, OfAnswer, Piece
  <2>1. t \in begun
    BY DEF IInv, MutexOfTheAnswering
  <2> QED
    BY <1>1, <2>1 DEF IInv, HeaderOfTheHolder
<1>4. CompleteWhenFree' /\ AnswersWhole'
  BY DEF IInv, CompleteWhenFree, AnswersWhole, LastAnswer, LastOfAnswers, OfAnswer
<1> QED
  BY <1>2, <1>3, <1>4 DEF IInv

\* What a handler is about to write.
LEMMA OutboxesOfHandlers ==
  ASSUME NEW n \in Nat, NEW count \in Nat, NEW outcome \in {"result", "error", "escape"}
  PROVE  Progress(n, count) \o answers(n, outcome) \in Seq(Messages)
<1>1. About(n, "progress") \in Messages /\ About(n, outcome) \in Messages
  BY DEF About, Messages
<1>2. Progress(n, count) \in Seq(Messages)
  BY <1>1 DEF Progress
<1>3. answers(n, outcome) \in Seq(Messages)
  <2>1. <<>> \in Seq(Messages) /\ <<About(n, outcome)>> \in Seq(Messages)
    BY <1>1
  <2>2. answers(n, outcome) \in {<<>>, <<About(n, outcome)>>}
    BY DEF answers
  <2> QED
    BY <2>1, <2>2
<1> QED
  BY <1>2, <1>3

\* The main thread reads the next message, or only counts it, with a task for the pool.
LEMMA ReadingTypes ==
  ASSUME TypeOK, NEW kinds, ReadNext(kinds)
  PROVE  /\ outbox["main"] = <<>> /\ read' = read + 1 /\ read' \in Nat
         /\ script' = script => read' \in 0 .. Len(script')
         /\ queue \subseteq 1 .. read' /\ read' \in 1 .. read'
         /\ "main" \in Threads
BY ScriptsAssumption DEF TypeOK, ReadNext, Threads

LEMMA QuietActions ==
  ASSUME IInv, MainThread \/ \E w \in Workers : Worker(w)
  PROVE  IInv'
<1>1. TypeOK /\ "main" \in Threads /\ Workers \subseteq Threads
  BY DEF IInv, Threads
<1>2. CASE ReadUndispatchable
  <2>1. /\ outbox' = [outbox EXCEPT !["main"] = <<About(read + 1, "refusal")>>]
        /\ UNCHANGED <<script, pc, queue, begun, response_mutex_, is_shutting_down_, stream>>
        /\ ReadNext(Undispatchable)
    BY <1>2 DEF ReadUndispatchable
  <2>2. /\ outbox["main"] = <<>> /\ read' = read + 1 /\ read' \in Nat
        /\ read' \in 0 .. Len(script') /\ queue \subseteq 1 .. read'
    BY <1>1, <2>1, ReadingTypes
  <2>3. <<About(read + 1, "refusal")>> \in Seq(Messages)
    BY <2>2 DEF About, Messages
  <2>4. TypeOK'
    BY <1>1, <2>1, <2>2, <2>3 DEF TypeOK
  <2>5. \A t \in Threads : outbox[t] # <<>> => outbox'[t] = outbox[t]
    BY <1>1, <2>1, <2>2 DEF TypeOK
  <2> QED
    BY <2>1, <2>4, <2>5, QuietStep
<1>3. CASE ReadSerialRequest
  <2> DEFINE answer == <<About(read + 1, "result")>>
             box == IF stdio /\ script[read + 1] = "shutdown"
                    THEN <<About(read + 1, "print")>> \o answer ELSE answer
  <2>1. /\ outbox' = [outbox EXCEPT !["main"] = box]
        /\ is_shutting_down_' \in BOOLEAN
        /\ UNCHANGED <<script, pc, queue, begun, response_mutex_, stream>>
        /\ ReadNext({"initialize", "shutdown"})
    BY <1>1, <1>3 DEF ReadSerialRequest, TypeOK
  <2>2. /\ outbox["main"] = <<>> /\ read' = read + 1 /\ read' \in Nat
        /\ read' \in 0 .. Len(script') /\ queue \subseteq 1 .. read'
    BY <1>1, <2>1, ReadingTypes
  <2>3. answer \in Seq(Messages) /\ <<About(read + 1, "print")>> \in Seq(Messages)
    BY <2>2 DEF About, Messages
  <2> HIDE DEF answer
  <2>4. box \in Seq(Messages)
    BY <2>3
  <2> HIDE DEF box
  <2>5. TypeOK'
    BY <1>1, <2>1, <2>2, <2>4 DEF TypeOK
  <2>6. \A t \in Threads : outbox[t] # <<>> => outbox'[t] = outbox[t]
    BY <1>1, <2>1, <2>2 DEF TypeOK
  <2> QED
    BY <2>1, <2>5, <2>6, QuietStep
<1>4. CASE ReadScheduled
  <2>1. /\ queue' = queue \cup {read + 1}
        /\ UNCHANGED <<script, pc, outbox, begun, response_mutex_, is_shutting_down_, stream>>
        /\ ReadNext(Scheduled)
    BY <1>4 DEF ReadScheduled
  <2>2. /\ read' \in 0 .. Len(script') /\ queue' \subseteq 1 .. read'
    BY <1>1, <2>1, ReadingTypes
  <2>3. TypeOK'
    BY <1>1, <2>1, <2>2 DEF TypeOK
  <2> QED
    BY <2>1, <2>3, QuietStep
<1>5. CASE ReadFatal \/ ReadSerialNotification \/ ReadExit
  <2>1. /\ pc' \in {"serving", "draining", "ended", "died"}
        /\ UNCHANGED <<script, queue, outbox, begun, response_mutex_, is_shutting_down_, stream>>
        /\ \E kinds \in {Fatal, {"serial notification"}, {"exit"}} : ReadNext(kinds)
    BY <1>1, <1>5 DEF ReadFatal, ReadSerialNotification, ReadExit, TypeOK
  <2>2. read' \in 0 .. Len(script') /\ queue' \subseteq 1 .. read'
    BY <1>1, <2>1, ReadingTypes
  <2>3. TypeOK'
    BY <1>1, <2>1, <2>2 DEF TypeOK
  <2> QED
    BY <2>1, <2>3, QuietStep
<1>6. CASE Stop \/ \E w \in Workers : Escape(w)
  <2>1. /\ pc' \in {"serving", "draining", "ended", "died"}
        /\ UNCHANGED <<script, read, queue, outbox, begun, response_mutex_, is_shutting_down_, stream>>
    BY <1>6 DEF Stop, Escape
  <2>2. TypeOK'
    BY <1>1, <2>1 DEF TypeOK
  <2> QED
    BY <2>1, <2>2, QuietStep
<1>7. ASSUME NEW w \in Workers, NEW n \in queue, Start(w, n) PROVE IInv'
  <2>1. PICK count \in 0 .. MaxProgress, outcome \in Outcomes :
          outbox' = [outbox EXCEPT ![w] = Progress(n, count) \o answers(n, outcome)]
    BY <1>7 DEF Start
  <2> DEFINE box == Progress(n, count) \o answers(n, outcome)
  <2>2. n \in Nat /\ count \in Nat /\ outcome \in {"result", "error", "escape"}
    BY <1>1, ConstantsAssumption, OutcomesAssumption DEF TypeOK
  <2>3. box \in Seq(Messages)
    BY <2>2, OutboxesOfHandlers
  <2>4. outbox' = [outbox EXCEPT ![w] = box]
    BY <2>1
  <2> HIDE DEF box
  <2>5. /\ outbox[w] = <<>>
        /\ queue' = queue \ {n}
        /\ UNCHANGED <<script, read, pc, begun, response_mutex_, is_shutting_down_, stream>>
    BY <1>7 DEF Start
  <2>6. TypeOK'
    BY <1>1, <2>3, <2>4, <2>5 DEF TypeOK
  <2>7. \A t \in Threads : outbox[t] # <<>> => outbox'[t] = outbox[t]
    BY <1>1, <2>4, <2>5 DEF TypeOK
  <2> QED
    BY <2>5, <2>6, <2>7, QuietStep
<1> QED
  BY <1>2, <1>3, <1>4, <1>5, <1>6, <1>7 DEF MainThread, Worker

(***************************************************************************)
(* The stream after another piece.                                         *)
(***************************************************************************)

LEMMA AppendedPiece ==
  ASSUME TypeOK, NEW m \in Messages, NEW p \in {"header", "content"},
         stream' = Append(stream, Piece(m, p)),
         NEW n, n = Len(stream)
  PROVE  /\ n \in Nat
         /\ stream' \in Seq(Pieces) /\ Len(stream') = n + 1
         /\ \A i \in 1 .. n : stream'[i] = stream[i]
         /\ stream'[n + 1] = Piece(m, p)
         /\ OfAnswer(n + 1)' <=> locked(m)
         /\ \A i \in 1 .. n : OfAnswer(i)' <=> OfAnswer(i)
<1>1. stream \in Seq(Pieces) /\ n \in Nat
  BY DEF TypeOK
<1>2. Piece(m, p) \in Pieces /\ Piece(m, p).message = m
  BY DEF Piece, Pieces
<1>3. /\ stream' \in Seq(Pieces) /\ Len(stream') = n + 1
      /\ \A i \in 1 .. n : stream'[i] = stream[i]
      /\ stream'[n + 1] = Piece(m, p)
  BY <1>1, <1>2
<1>4. OfAnswer(n + 1)' <=> locked(m)
  BY <1>2, <1>3 DEF OfAnswer, locked
<1>5. \A i \in 1 .. n : OfAnswer(i)' <=> OfAnswer(i)
  BY <1>3 DEF OfAnswer
<1> QED
  BY <1>1, <1>3, <1>4, <1>5

\* Which of the pieces is the last that belongs to an answer.
LEMMA LastAnswers ==
  ASSUME TypeOK, NEW m \in Messages, NEW p \in {"header", "content"},
         stream' = Append(stream, Piece(m, p)),
         NEW n, n = Len(stream)
  PROVE  /\ locked(m) => /\ LastAnswer(n + 1)'
                         /\ \A i \in 1 .. n : ~LastAnswer(i)'
         /\ ~locked(m) => /\ ~LastAnswer(n + 1)'
                          /\ \A i \in 1 .. n : LastAnswer(i)' <=> LastAnswer(i)
         /\ \A i \in 1 .. n : LastOfAnswers(i, n + 1)' <=> LastAnswer(i)
<1>1. /\ Len(stream') = n + 1 /\ n \in Nat
      /\ OfAnswer(n + 1)' <=> locked(m)
      /\ \A i \in 1 .. n : OfAnswer(i)' <=> OfAnswer(i)
  BY AppendedPiece
<1>2. ASSUME NEW i \in 1 .. n PROVE LastOfAnswers(i, n + 1)' <=> LastAnswer(i)
  <2>1. (n + 1) - 1 = n /\ \A j \in i + 1 .. n : j \in 1 .. n
    BY <1>1
  <2> QED
    BY <1>1, <2>1 DEF LastOfAnswers, LastAnswer
<1>3. ASSUME NEW i \in 1 .. n
      PROVE  LastAnswer(i)' <=> LastAnswer(i) /\ ~OfAnswer(n + 1)'
  <2>1. i + 1 .. n + 1 = (i + 1 .. n) \cup {n + 1} /\ \A j \in i + 1 .. n : j \in 1 .. n
    BY <1>1
  <2>2. LastAnswer(i)' <=> OfAnswer(i)' /\ \A j \in i + 1 .. n + 1 : ~OfAnswer(j)'
    BY <1>1 DEF LastAnswer
  <2>3. LastAnswer(i) <=> OfAnswer(i)' /\ \A j \in i + 1 .. n : ~OfAnswer(j)'
    BY <1>1, <2>1 DEF LastAnswer
  <2> QED
    BY <2>1, <2>2, <2>3
<1>4. LastAnswer(n + 1)' <=> OfAnswer(n + 1)'
  <2>1. (n + 1) + 1 .. n + 1 = {}
    BY <1>1
  <2> QED
    BY <1>1, <2>1 DEF LastAnswer
<1> QED
  BY <1>1, <1>2, <1>3, <1>4

\* There is only one last piece.
LEMMA OneLastAnswer ==
  ASSUME TypeOK, NEW i \in 1 .. Len(stream), NEW j \in 1 .. Len(stream),
         LastAnswer(i), LastAnswer(j)
  PROVE  i = j
<1>1. Len(stream) \in Nat
  BY DEF TypeOK
<1>2. ~(i < j) /\ ~(j < i)
  BY <1>1 DEF LastAnswer
<1> QED
  BY <1>1, <1>2

\* What AnswersWhole says of piece k.
WholeAt(k) ==
  /\ stream[k].part = "content" =>
       \E i \in 1 .. k - 1 : /\ LastOfAnswers(i, k)
                             /\ stream[i] = Piece(stream[k].message, "header")
  /\ \A i \in 1 .. k - 1 : LastOfAnswers(i, k) /\ stream[i].part = "header" =>
       stream[k] = Piece(stream[i].message, "content")

\* The pieces that were there stay whole, so that only the new one is in question.
LEMMA OldPiecesWhole ==
  ASSUME TypeOK, AnswersWhole, NEW m \in Messages, NEW p \in {"header", "content"},
         stream' = Append(stream, Piece(m, p)),
         NEW n, n = Len(stream),
         locked(m) => WholeAt(n + 1)'
  PROVE  AnswersWhole'
<1>1. /\ Len(stream') = n + 1 /\ n \in Nat
      /\ OfAnswer(n + 1)' <=> locked(m)
      /\ \A i \in 1 .. n : stream'[i] = stream[i]
      /\ \A i \in 1 .. n : OfAnswer(i)' <=> OfAnswer(i)
  BY AppendedPiece
<1>2. ASSUME NEW k \in 1 .. n, OfAnswer(k)' PROVE WholeAt(k)'
  <2>1. /\ stream'[k] = stream[k] /\ OfAnswer(k)
        /\ \A i \in 1 .. k - 1 : i \in 1 .. n /\ stream'[i] = stream[i]
    BY <1>1, <1>2
  <2>2. ASSUME NEW i \in 1 .. k - 1 PROVE LastOfAnswers(i, k)' <=> LastOfAnswers(i, k)
    <3>1. \A j \in i + 1 .. k - 1 : j \in 1 .. n
      BY <1>1
    <3> QED
      BY <1>1, <2>1, <3>1 DEF LastOfAnswers
  <2>3. WholeAt(k)
    BY <1>1, <2>1 DEF AnswersWhole, WholeAt
  <2> QED
    BY <2>1, <2>2, <2>3 DEF WholeAt, Piece
<1>3. \A k \in 1 .. n + 1 : k \in 1 .. n \/ k = n + 1
  BY <1>1
<1>4. \A k \in 1 .. Len(stream') : OfAnswer(k)' => WholeAt(k)'
  BY <1>1, <1>2, <1>3
<1> QED
  BY <1>4 DEF AnswersWhole, WholeAt

(***************************************************************************)
(* Steps that write.                                                       *)
(***************************************************************************)

\* A piece that belongs to no answer comes between the others and changes nothing.
LEMMA OtherPieces ==
  ASSUME IInv, NEW m \in Messages, NEW p \in {"header", "content"}, ~locked(m),
         stream' = Append(stream, Piece(m, p)),
         response_mutex_' = response_mutex_,
         \A u \in Threads : response_mutex_ = u => Head(outbox'[u]) = Head(outbox[u])
  PROVE  HeaderOfTheHolder' /\ CompleteWhenFree' /\ AnswersWhole'
<1>1. PICK k : k = Len(stream)
  OBVIOUS
<1>2. TypeOK /\ HeaderOfTheHolder /\ CompleteWhenFree /\ AnswersWhole
  BY DEF IInv
<1>3. /\ k \in Nat /\ Len(stream') = k + 1
      /\ \A i \in 1 .. k : stream'[i] = stream[i]
  BY <1>1, <1>2, AppendedPiece
<1>4. /\ ~LastAnswer(k + 1)'
      /\ \A i \in 1 .. k : LastAnswer(i)' <=> LastAnswer(i)
  BY <1>1, <1>2, LastAnswers
<1>5. \A i \in 1 .. k + 1 : i \in 1 .. k \/ i = k + 1
  BY <1>3
<1>6. HeaderOfTheHolder'
  <2> SUFFICES ASSUME NEW u \in Threads, response_mutex_' = u
               PROVE  \E i \in 1 .. Len(stream') :
                        LastAnswer(i)' /\ stream'[i] = Piece(Head(outbox'[u]), "header")
    BY DEF HeaderOfTheHolder, Piece
  <2>1. PICK i \in 1 .. k : LastAnswer(i) /\ stream[i] = Piece(Head(outbox[u]), "header")
    BY <1>1, <1>2 DEF HeaderOfTheHolder
  <2>2. i \in 1 .. Len(stream') /\ LastAnswer(i)' /\ stream'[i] = Piece(Head(outbox'[u]), "header")
    BY <1>3, <1>4, <2>1
  <2> QED
    BY <2>2
<1>7. CompleteWhenFree'
  BY <1>1, <1>2, <1>3, <1>4, <1>5 DEF CompleteWhenFree
<1>8. AnswersWhole'
  BY <1>1, <1>2, OldPiecesWhole
<1> QED
  BY <1>6, <1>7, <1>8

\* What is next for thread t to write.
LEMMA NextMessage ==
  ASSUME TypeOK, NEW t \in Threads, outbox[t] # <<>>
  PROVE  Head(outbox[t]) \in Messages /\ Tail(outbox[t]) \in Seq(Messages)
BY DEF TypeOK

LEMMA WriteHeaderStep ==
  ASSUME IInv, NEW t \in Threads, WriteHeader(t)
  PROVE  IInv'
<1> DEFINE m == Head(outbox[t])
<1>1. /\ outbox[t] # <<>> /\ t \notin begun
      /\ locked(m) => response_mutex_ = None
      /\ response_mutex_' = IF locked(m) THEN t ELSE response_mutex_
      /\ stream' = Append(stream, Piece(m, "header"))
      /\ begun' = begun \cup {t}
      /\ UNCHANGED <<script, read, pc, queue, outbox, is_shutting_down_>>
  BY DEF WriteHeader
<1>2. /\ TypeOK /\ MutexOfTheAnswering /\ HeaderOfTheHolder
      /\ CompleteWhenFree /\ AnswersWhole /\ None \notin Threads
  BY NobodyIsNoThread DEF IInv
<1>3. m \in Messages
  BY <1>1, <1>2, NextMessage
<1> HIDE DEF m
<1>4. PICK n : n = Len(stream)
  OBVIOUS
<1>5. /\ n \in Nat /\ stream' \in Seq(Pieces) /\ Len(stream') = n + 1
      /\ \A i \in 1 .. n : stream'[i] = stream[i]
      /\ stream'[n + 1] = Piece(m, "header")
  BY <1>1, <1>2, <1>3, <1>4, AppendedPiece
<1>6. TypeOK'
  BY <1>1, <1>2, <1>5 DEF TypeOK
<1>7. MutexOfTheAnswering'
  <2>1. \A u \in begun' : outbox'[u] # <<>>
    BY <1>1, <1>2 DEF MutexOfTheAnswering
  <2>2. ASSUME NEW u \in Threads
        PROVE  response_mutex_' = u <=> u \in begun' /\ locked(Head(outbox'[u]))
    <3>1. response_mutex_ = u <=> u \in begun /\ locked(Head(outbox[u]))
      BY <1>2 DEF MutexOfTheAnswering
    <3>2. CASE u = t
      BY <1>1, <3>1, <3>2 DEF m
    <3>3. CASE u # t
      BY <1>1, <1>2, <3>1, <3>3
    <3> QED
      BY <3>2, <3>3
  <2>3. \A u \in Threads : response_mutex_' = u <=> u \in begun' /\ locked(Head(outbox'[u]))
    BY <2>2
  <2> QED
    BY <2>1, <2>3 DEF MutexOfTheAnswering, locked
<1>8. CASE locked(m)
  <2>1. response_mutex_ = None /\ response_mutex_' = t
    BY <1>1, <1>8
  <2>2. LastAnswer(n + 1)' /\ \A i \in 1 .. n : LastOfAnswers(i, n + 1)' <=> LastAnswer(i)
    BY <1>1, <1>2, <1>3, <1>4, <1>8, LastAnswers
  <2>3. HeaderOfTheHolder'
    <3>1. n + 1 \in 1 .. Len(stream') /\ stream'[n + 1] = Piece(Head(outbox'[t]), "header")
      BY <1>1, <1>5 DEF m
    <3>2. \E i \in 1 .. Len(stream') :
            LastAnswer(i)' /\ stream'[i] = Piece(Head(outbox'[t]), "header")
      BY <2>2, <3>1
    <3> QED
      BY <2>1, <3>2 DEF HeaderOfTheHolder, Piece
  <2>4. CompleteWhenFree'
    BY <1>2, <2>1 DEF CompleteWhenFree
  <2>5. WholeAt(n + 1)'
    <3>1. ASSUME NEW i \in 1 .. n, LastOfAnswers(i, n + 1)' PROVE stream'[i].part = "content"
      BY <1>2, <1>4, <1>5, <2>1, <2>2, <3>1 DEF CompleteWhenFree
    <3>2. stream'[n + 1].part = "header" /\ (n + 1) - 1 = n
      BY <1>5 DEF Piece
    <3> QED
      BY <3>1, <3>2 DEF WholeAt
  <2>6. AnswersWhole'
    BY <1>1, <1>2, <1>3, <1>4, <2>5, OldPiecesWhole
  <2> QED
    BY <1>6, <1>7, <2>3, <2>4, <2>6 DEF IInv
<1>9. CASE ~locked(m)
  <2>1. HeaderOfTheHolder' /\ CompleteWhenFree' /\ AnswersWhole'
    BY <1>1, <1>3, <1>9, OtherPieces
  <2> QED
    BY <1>6, <1>7, <2>1 DEF IInv
<1> QED
  BY <1>8, <1>9

LEMMA WriteContentStep ==
  ASSUME IInv, NEW t \in Threads, WriteContent(t)
  PROVE  IInv'
<1> DEFINE m == Head(outbox[t])
<1>1. /\ t \in begun
      /\ stream' = Append(stream, Piece(m, "content"))
      /\ outbox' = [outbox EXCEPT ![t] = Tail(outbox[t])]
      /\ begun' = begun \ {t}
      /\ response_mutex_' = IF locked(m) THEN None ELSE response_mutex_
      /\ UNCHANGED <<script, read, pc, queue, is_shutting_down_>>
  BY DEF WriteContent
<1>2. /\ TypeOK /\ MutexOfTheAnswering /\ HeaderOfTheHolder
      /\ CompleteWhenFree /\ AnswersWhole /\ None \notin Threads
  BY NobodyIsNoThread DEF IInv
<1>3. m \in Messages /\ Tail(outbox[t]) \in Seq(Messages)
  BY <1>1, <1>2, NextMessage DEF MutexOfTheAnswering
<1>4. response_mutex_ = t <=> locked(m)
  BY <1>1, <1>2 DEF MutexOfTheAnswering
<1>5. PICK n : n = Len(stream)
  OBVIOUS
<1>6. \A u \in Threads : u # t => outbox'[u] = outbox[u]
  BY <1>1, <1>2 DEF TypeOK
<1> HIDE DEF m
<1>7. /\ n \in Nat /\ stream' \in Seq(Pieces) /\ Len(stream') = n + 1
      /\ \A i \in 1 .. n : stream'[i] = stream[i]
      /\ stream'[n + 1] = Piece(m, "content")
  BY <1>1, <1>2, <1>3, <1>5, AppendedPiece
<1>8. TypeOK'
  BY <1>1, <1>2, <1>3, <1>7 DEF TypeOK
<1>9. MutexOfTheAnswering'
  <2>1. \A u \in begun' : outbox'[u] # <<>>
    BY <1>1, <1>2, <1>6 DEF MutexOfTheAnswering, TypeOK
  <2>2. ASSUME NEW u \in Threads
        PROVE  response_mutex_' = u <=> u \in begun' /\ locked(Head(outbox'[u]))
    <3>1. response_mutex_ = u <=> u \in begun /\ locked(Head(outbox[u]))
      BY <1>2 DEF MutexOfTheAnswering
    <3>2. CASE u = t
      BY <1>1, <1>2, <1>4, <3>2
    <3>3. CASE u # t
      BY <1>1, <1>2, <1>4, <1>6, <3>1, <3>3
    <3> QED
      BY <3>2, <3>3
  <2>3. \A u \in Threads : response_mutex_' = u <=> u \in begun' /\ locked(Head(outbox'[u]))
    BY <2>2
  <2> QED
    BY <2>1, <2>3 DEF MutexOfTheAnswering, locked
<1>10. CASE locked(m)
  <2>1. response_mutex_ = t /\ response_mutex_' = None
    BY <1>1, <1>4, <1>10
  <2>2. PICK h \in 1 .. n : LastAnswer(h) /\ stream[h] = Piece(m, "header")
    BY <1>2, <1>5, <2>1 DEF HeaderOfTheHolder, m
  <2>3. /\ \A i \in 1 .. n : ~LastAnswer(i)'
        /\ \A i \in 1 .. n : LastOfAnswers(i, n + 1)' <=> LastAnswer(i)
    BY <1>1, <1>2, <1>3, <1>5, <1>10, LastAnswers
  <2>4. HeaderOfTheHolder'
    BY <1>2, <2>1 DEF HeaderOfTheHolder
  <2>5. CompleteWhenFree'
    <3>1. \A i \in 1 .. n + 1 : i \in 1 .. n \/ i = n + 1
      BY <1>7
    <3>2. stream'[n + 1].part = "content"
      BY <1>7 DEF Piece
    <3>3. \A i \in 1 .. Len(stream') : LastAnswer(i)' => stream'[i].part = "content"
      BY <1>7, <2>3, <3>1, <3>2
    <3> QED
      BY <3>3 DEF CompleteWhenFree
  <2>6. WholeAt(n + 1)'
    <3>1. /\ LastOfAnswers(h, n + 1)' /\ stream'[h] = Piece(m, "header")
          /\ stream'[n + 1].message = m /\ stream'[h].message = m
          /\ (n + 1) - 1 = n
      BY <1>7, <2>2, <2>3 DEF Piece
    <3>2. ASSUME NEW i \in 1 .. n, LastOfAnswers(i, n + 1)' PROVE i = h
      BY <1>2, <1>5, <2>2, <2>3, <3>2, OneLastAnswer
    <3>3. \E i \in 1 .. n : /\ LastOfAnswers(i, n + 1)'
                            /\ stream'[i] = Piece(stream'[n + 1].message, "header")
      BY <3>1
    <3>4. \A i \in 1 .. n : LastOfAnswers(i, n + 1)' /\ stream'[i].part = "header" =>
            stream'[n + 1] = Piece(stream'[i].message, "content")
      BY <1>7, <3>1, <3>2
    <3> QED
      BY <3>1, <3>3, <3>4 DEF WholeAt, Piece
  <2>7. AnswersWhole'
    BY <1>1, <1>2, <1>3, <1>5, <2>6, OldPiecesWhole
  <2> QED
    BY <1>8, <1>9, <2>4, <2>5, <2>7 DEF IInv
<1>11. CASE ~locked(m)
  <2>1. response_mutex_' = response_mutex_
    BY <1>1, <1>11
  <2>2. \A u \in Threads : response_mutex_ = u => Head(outbox'[u]) = Head(outbox[u])
    BY <1>4, <1>6, <1>11
  <2>3. HeaderOfTheHolder' /\ CompleteWhenFree' /\ AnswersWhole'
    BY <1>1, <1>3, <1>11, <2>1, <2>2, OtherPieces
  <2> QED
    BY <1>8, <1>9, <2>3 DEF IInv
<1> QED
  BY <1>10, <1>11

LEMMA NextInvariant == IInv /\ [Next]_vars => IInv'
<1> SUFFICES ASSUME IInv, [Next]_vars PROVE IInv'
  OBVIOUS
<1>1. CASE MainThread \/ \E w \in Workers : Worker(w)
  BY <1>1, QuietActions
<1>2. CASE \E t \in Threads : Writer(t)
  BY <1>2, WriteHeaderStep, WriteContentStep DEF Writer
<1>3. CASE UNCHANGED vars
  <2>1. TypeOK'
    BY <1>3 DEF vars, IInv, TypeOK
  <2> QED
    BY <1>3, <2>1, QuietStep DEF vars
<1> QED
  BY <1>1, <1>2, <1>3 DEF Next

\* The invariant is inductive: mutex, boxes and stream agree in every reachable state.
THEOREM InductiveInvariant == Spec => []IInv
BY InitInvariant, NextInvariant, PTL DEF Spec

\* Variables keep their types, whatever the client sends and however handlers end.
THEOREM TypeCorrect == Spec => []TypeOK
<1>1. IInv => TypeOK
  BY DEF IInv
<1> QED
  BY <1>1, InductiveInvariant, PTL

\* The answers of handlers do not tear each other apart, with any number of workers that
\* answer and report progress at once (response_mutex_ in jsonrpc/server.cpp).
THEOREM AnswersNotTorn == Spec => []AnswersWhole
<1>1. IInv => AnswersWhole
  BY DEF IInv
<1> QED
  BY <1>1, InductiveInvariant, PTL

(***************************************************************************)
(* Every message of the client is served once.  A message that was read    *)
(* and asks for an answer is in exactly one of three places: it waits in   *)
(* the queue, some thread has messages about it to write, or its answer is *)
(* in the stream.                                                          *)
(***************************************************************************)

AsksForAnswer(kind) == kind \in Calls \cup Undispatchable

\* What a thread has to write about message n, which is of this kind: everything but
\* the last is progress or a print, and the last, if n asks for an answer, is the right
\* answer (or an exception on its way to nobody).
BoxFor(box, n, kind) ==
  LET last == box[Len(box)].what
  IN  /\ \A i \in 1 .. Len(box) : box[i].n = n
      /\ \A i \in 1 .. Len(box) : i # Len(box) => box[i].what \in {"progress", "print"}
      /\ last = "refusal" => kind \in Undispatchable
      /\ last = "result" => kind \in Calls
      /\ last = "error" => kind \in Scheduled
      /\ AsksForAnswer(kind) => last \in {"result", "error", "refusal", "escape"}

\* The message of the client that thread t is writing about.
Subject(t) == outbox[t][1].n
Serves(t, n) == outbox[t] # <<>> /\ Subject(t) = n

BoxesOfRead ==
  /\ \A n \in queue : script[n] \in Scheduled
  /\ \A t \in Threads : outbox[t] # <<>> =>
       Subject(t) \in 1 .. read /\ BoxFor(outbox[t], Subject(t), script[Subject(t)])

\* Nobody writes what escapes.
EscapesUnwritten == \A t \in begun : outbox[t] # <<>> /\ Head(outbox[t]).what # "escape"

\* A message is in one place only.
InOnePlace ==
  /\ \A t, u \in Threads, n \in 1 .. read : Serves(t, n) /\ Serves(u, n) => t = u
  /\ \A t \in Threads, n \in queue : ~Serves(t, n)
  /\ \A n \in 1 .. read : Answered(n) # {} => n \notin queue /\ \A t \in Threads : ~Serves(t, n)

\* And it is in some place.
NothingForgotten ==
  \A n \in 1 .. read : AsksForAnswer(script[n]) =>
    n \in queue \/ Answered(n) # {} \/ \E t \in Threads : Serves(t, n)

\* When serve() has returned there is nothing left to write.
EndedEmpty ==
  /\ pc \in {"draining", "ended"} => outbox["main"] = <<>>
  /\ pc = "ended" => queue = {} /\ \A w \in Workers : outbox[w] = <<>>

\* What EachServedOnce says of the stream.
StreamOfRead == \A i \in 1 .. Len(stream) : stream[i].message.n \in 1 .. read

AnswersRight ==
  \A n \in 1 .. read :
    /\ \A i, j \in Answered(n) : i = j
    /\ \A i \in Written(n, "progress"), j \in Answered(n) : i < j
    /\ Written(n, "refusal") # {} => script[n] \in Undispatchable
    /\ Written(n, "result") # {} => script[n] \in Calls
    /\ Written(n, "error") # {} => script[n] \in Scheduled

ServedInv ==
  /\ BoxesOfRead /\ EscapesUnwritten /\ InOnePlace /\ NothingForgotten /\ EndedEmpty
  /\ StreamOfRead /\ AnswersRight

LEMMA InitServed == Init => ServedInv
<1> SUFFICES ASSUME Init PROVE ServedInv
  OBVIOUS
<1>1. /\ read = 0 /\ queue = {} /\ begun = {} /\ stream = <<>> /\ pc = "serving"
      /\ \A t \in Threads : outbox[t] = <<>>
  BY DEF Init
<1>2. 1 .. read = {} /\ 1 .. Len(stream) = {}
  BY <1>1
<1>3. BoxesOfRead /\ EscapesUnwritten
  BY <1>1 DEF BoxesOfRead, EscapesUnwritten
<1>4. InOnePlace /\ NothingForgotten
  BY <1>1, <1>2 DEF InOnePlace, NothingForgotten
<1>5. EndedEmpty /\ StreamOfRead /\ AnswersRight
  BY <1>1, <1>2 DEF EndedEmpty, StreamOfRead, AnswersRight
<1> QED
  BY <1>3, <1>4, <1>5 DEF ServedInv

\* What the answered messages are is a matter of the stream only.
LEMMA SameStream ==
  ASSUME stream' = stream
  PROVE  \A n : /\ Answered(n)' = Answered(n)
                /\ \A what : Written(n, what)' = Written(n, what)
BY DEF Answered, Written

\* A step that touches neither the stream nor what is to be served.
LEMMA NothingServed ==
  ASSUME ServedInv, UNCHANGED <<script, read, queue, outbox, begun, stream>>,
         pc' \in {"draining", "ended"} => pc' = pc
  PROVE  ServedInv'
<1>1. \A n : /\ Answered(n)' = Answered(n)
             /\ \A what : Written(n, what)' = Written(n, what)
  BY SameStream
<1>2. \A t \in Threads : /\ Subject(t)' = Subject(t)
                         /\ \A n : Serves(t, n)' <=> Serves(t, n)
  BY DEF Subject, Serves
<1>3. BoxesOfRead' /\ EscapesUnwritten'
  BY <1>2 DEF ServedInv, BoxesOfRead, EscapesUnwritten
<1>4. InOnePlace' /\ NothingForgotten'
  BY <1>1, <1>2 DEF ServedInv, InOnePlace, NothingForgotten
<1>5. EndedEmpty' /\ StreamOfRead' /\ AnswersRight'
  BY <1>1 DEF ServedInv, EndedEmpty, StreamOfRead, AnswersRight
<1> QED
  BY <1>3, <1>4, <1>5 DEF ServedInv

\* The next message is read: it goes to the queue, or the main thread has something
\* to write about it, or it asks for no answer.
LEMMA ReadServed ==
  ASSUME IInv, ServedInv, NEW n, n = read + 1, read' = n,
         UNCHANGED <<script, begun, stream>>,
         outbox["main"] = <<>>, NEW box, outbox' = [outbox EXCEPT !["main"] = box],
         box # <<>> => box[1].n = n /\ BoxFor(box, n, script[n]),
         \/ queue' = queue
         \/ queue' = queue \cup {n} /\ script[n] \in Scheduled /\ box = <<>>,
         AsksForAnswer(script[n]) => box # <<>> \/ n \in queue',
         pc' # "ended", pc' = "draining" => box = <<>>
  PROVE  ServedInv'
<1>1. /\ read \in Nat /\ queue \subseteq 1 .. read /\ "main" \in Threads
      /\ 1 .. n = (1 .. read) \cup {n} /\ n \notin 1 .. read
  BY DEF IInv, TypeOK, Threads
<1>2. \A t \in Threads : outbox'[t] = IF t = "main" THEN box ELSE outbox[t]
  BY DEF IInv, TypeOK
<1>3. ASSUME NEW t \in Threads, NEW k \in 1 .. read PROVE Serves(t, k)' <=> Serves(t, k)
  BY <1>1, <1>2 DEF Serves, Subject
<1>4. \A t \in Threads : Serves(t, n)' <=> t = "main" /\ box # <<>>
  <2>1. \A t \in Threads : ~Serves(t, n)
    BY <1>1 DEF Serves, ServedInv, BoxesOfRead
  <2> QED
    BY <1>1, <1>2, <2>1 DEF Serves, Subject
<1>5. \A k : /\ Answered(k)' = Answered(k)
             /\ \A what : Written(k, what)' = Written(k, what)
  BY SameStream
<1>6. Answered(n) = {} /\ \A what : Written(n, what) = {}
  <2>1. \A what : Written(n, what) = {}
    BY <1>1 DEF Written, About, ServedInv, StreamOfRead
  <2> QED
    BY <2>1 DEF Answered
<1>7. BoxesOfRead'
  <2>1. \A k \in queue' : script[k] \in Scheduled
    BY DEF ServedInv, BoxesOfRead
  <2>2. ASSUME NEW t \in Threads, outbox'[t] # <<>>
        PROVE  /\ outbox'[t][1].n \in 1 .. n
               /\ BoxFor(outbox'[t], outbox'[t][1].n, script[outbox'[t][1].n])
    <3>1. CASE t = "main"
      BY <1>1, <1>2, <2>2, <3>1
    <3>2. CASE t # "main"
      BY <1>1, <1>2, <2>2, <3>2 DEF ServedInv, BoxesOfRead, Subject
    <3> QED
      BY <3>1, <3>2
  <2> QED
    BY <2>1, <2>2 DEF BoxesOfRead, Subject
<1>8. EscapesUnwritten'
  <2>1. \A t \in begun : t \in Threads /\ t # "main"
    BY DEF IInv, TypeOK, ServedInv, EscapesUnwritten
  <2> QED
    BY <1>2, <2>1 DEF ServedInv, EscapesUnwritten
<1>9. InOnePlace'
  <2>1. \A t, u \in Threads, k \in 1 .. n : Serves(t, k)' /\ Serves(u, k)' => t = u
    BY <1>1, <1>3, <1>4 DEF ServedInv, InOnePlace
  <2>2. \A t \in Threads, k \in queue' : ~Serves(t, k)'
    BY <1>1, <1>3, <1>4 DEF ServedInv, InOnePlace
  <2>3. \A k \in 1 .. n : Answered(k)' # {} => k \notin queue' /\ \A t \in Threads : ~Serves(t, k)'
    BY <1>1, <1>3, <1>5, <1>6 DEF ServedInv, InOnePlace
  <2> QED
    BY <2>1, <2>2, <2>3 DEF InOnePlace
<1>10. NothingForgotten'
  <2>1. ASSUME NEW k \in 1 .. n, AsksForAnswer(script[k])
        PROVE  k \in queue' \/ Answered(k)' # {} \/ \E t \in Threads : Serves(t, k)'
    <3>1. CASE k = n
      BY <1>1, <1>4, <2>1, <3>1
    <3>2. CASE k \in 1 .. read
      BY <1>3, <1>5, <2>1, <3>2 DEF ServedInv, NothingForgotten
    <3> QED
      BY <1>1, <3>1, <3>2
  <2> QED
    BY <2>1 DEF NothingForgotten
<1>11. EndedEmpty'
  BY <1>1, <1>2 DEF EndedEmpty
<1>12. StreamOfRead'
  BY <1>1 DEF ServedInv, StreamOfRead
<1>13. AnswersRight'
  <2>1. ASSUME NEW k \in 1 .. n
        PROVE  /\ \A i, j \in Answered(k)' : i = j
               /\ \A i \in Written(k, "progress")', j \in Answered(k)' : i < j
               /\ Written(k, "refusal")' # {} => script[k] \in Undispatchable
               /\ Written(k, "result")' # {} => script[k] \in Calls
               /\ Written(k, "error")' # {} => script[k] \in Scheduled
    <3>1. CASE k = n
      BY <1>5, <1>6, <3>1
    <3>2. CASE k \in 1 .. read
      BY <1>5, <3>2 DEF ServedInv, AnswersRight
    <3> QED
      BY <1>1, <3>1, <3>2
  <2> QED
    BY <2>1 DEF AnswersRight
<1> QED
  BY <1>7, <1>8, <1>9, <1>10, <1>11, <1>12, <1>13 DEF ServedInv

\* Boxes of one and of two messages.
LEMMA SmallBoxes ==
  ASSUME NEW n, NEW kind, NEW what
  PROVE  LET one == <<About(n, what)>>
             two == <<About(n, "print")>> \o one
         IN  /\ one # <<>> /\ one[1].n = n /\ two # <<>> /\ two[1].n = n
             /\ what = "refusal" /\ kind \in Undispatchable => BoxFor(one, n, kind)
             /\ what = "result" /\ kind \in Calls => BoxFor(one, n, kind) /\ BoxFor(two, n, kind)
<1>1. ASSUME NEW first, NEW second
      PROVE  LET two == <<first>> \o <<second>>
             IN  Len(two) = 2 /\ two[1] = first /\ two[2] = second
  <2>1. <<first>> \in Seq({first, second}) /\ <<second>> \in Seq({first, second})
    OBVIOUS
  <2> QED
    BY <2>1
<1>2. /\ About(n, what).n = n /\ About(n, "print").n = n
      /\ About(n, what).what = what /\ About(n, "print").what = "print"
  BY DEF About
<1> DEFINE one == <<About(n, what)>>
           two == <<About(n, "print")>> \o one
<1>3. /\ Len(one) = 1 /\ one[1] = About(n, what) /\ \A i \in 1 .. 1 : i = 1
      /\ Len(two) = 2 /\ two[1] = About(n, "print") /\ two[2] = About(n, what)
      /\ \A i \in 1 .. 2 : i = 1 \/ i = 2
  BY <1>1
<1>4. one # <<>> /\ one[1].n = n /\ two # <<>> /\ two[1].n = n
  BY <1>2, <1>3
<1> HIDE DEF one, two
<1>5. /\ what = "refusal" /\ kind \in Undispatchable => BoxFor(one, n, kind)
      /\ what = "result" /\ kind \in Calls => BoxFor(one, n, kind)
  BY <1>2, <1>3 DEF BoxFor, AsksForAnswer, Calls, Undispatchable, Scheduled
<1>6. what = "result" /\ kind \in Calls => BoxFor(two, n, kind)
  BY <1>2, <1>3 DEF BoxFor, AsksForAnswer, Calls, Undispatchable, Scheduled
<1> QED
  BY <1>4, <1>5, <1>6 DEF one, two

LEMMA MainThreadServed ==
  ASSUME IInv, ServedInv, MainThread
  PROVE  ServedInv'
<1>1. "main" \in Threads /\ outbox \in [Threads -> Seq(Messages)]
  BY DEF IInv, TypeOK, Threads
<1>2. outbox["main"] = <<>> => outbox = [outbox EXCEPT !["main"] = <<>>]
  BY <1>1
<1>3. CASE ReadUndispatchable
  <2>1. /\ ReadNext(Undispatchable) /\ UNCHANGED <<script, pc, queue, begun, stream>>
        /\ outbox' = [outbox EXCEPT !["main"] = <<About(read + 1, "refusal")>>]
    BY <1>3 DEF ReadUndispatchable
  <2>2. /\ pc' = "serving" /\ read' = read + 1 /\ outbox["main"] = <<>>
        /\ script[read + 1] \in Undispatchable
    BY <2>1 DEF ReadNext
  <2>3. LET one == <<About(read + 1, "refusal")>>
        IN  one # <<>> /\ one[1].n = read + 1 /\ BoxFor(one, read + 1, script[read + 1])
    BY <2>2, SmallBoxes
  <2> QED
    BY <2>1, <2>2, <2>3, ReadServed
<1>4. CASE ReadSerialRequest
  <2> DEFINE answer == <<About(read + 1, "result")>>
             box == IF stdio /\ script[read + 1] = "shutdown"
                    THEN <<About(read + 1, "print")>> \o answer ELSE answer
  <2>1. /\ ReadNext({"initialize", "shutdown"}) /\ UNCHANGED <<script, pc, queue, begun, stream>>
        /\ outbox' = [outbox EXCEPT !["main"] = box]
    BY <1>4 DEF ReadSerialRequest
  <2>2. /\ pc' = "serving" /\ read' = read + 1 /\ outbox["main"] = <<>>
        /\ script[read + 1] \in Calls
    BY <2>1 DEF ReadNext, Calls
  <2>3. box # <<>> /\ box[1].n = read + 1 /\ BoxFor(box, read + 1, script[read + 1])
    BY <2>2, SmallBoxes
  <2> HIDE DEF box
  <2> QED
    BY <2>1, <2>2, <2>3, ReadServed
<1>5. CASE ReadScheduled
  <2>1. /\ ReadNext(Scheduled) /\ UNCHANGED <<script, pc, outbox, begun, stream>>
        /\ queue' = queue \cup {read + 1}
    BY <1>5 DEF ReadScheduled
  <2>2. /\ pc' = "serving" /\ read' = read + 1 /\ outbox["main"] = <<>>
        /\ script[read + 1] \in Scheduled
    BY <2>1 DEF ReadNext
  <2> QED
    BY <1>2, <2>1, <2>2, ReadServed
<1>6. CASE ReadFatal \/ ReadSerialNotification \/ ReadExit
  <2>1. /\ UNCHANGED <<script, queue, outbox, begun, stream>> /\ pc' # "ended"
        /\ ReadNext(Fatal) \/ ReadNext({"serial notification"}) \/ ReadNext({"exit"})
    BY <1>6 DEF ReadFatal, ReadSerialNotification, ReadExit, ReadNext
  <2>2. /\ read' = read + 1 /\ outbox["main"] = <<>>
        /\ ~AsksForAnswer(script[read + 1])
    BY <2>1 DEF ReadNext, AsksForAnswer, Fatal, Calls, Undispatchable
  <2> QED
    BY <1>2, <2>1, <2>2, ReadServed
<1>7. CASE Stop
  <2>1. /\ pc = "draining" /\ queue = {} /\ \A w \in Workers : outbox[w] = <<>>
        /\ UNCHANGED <<script, read, queue, outbox, begun, stream>>
    BY <1>7 DEF Stop, drained
  <2>2. EndedEmpty'
    BY <2>1 DEF ServedInv, EndedEmpty
  <2>3. \A n : /\ Answered(n)' = Answered(n)
               /\ \A what : Written(n, what)' = Written(n, what)
    BY <2>1, SameStream
  <2>4. \A t \in Threads : /\ Subject(t)' = Subject(t)
                           /\ \A n : Serves(t, n)' <=> Serves(t, n)
    BY <2>1 DEF Subject, Serves
  <2>5. BoxesOfRead' /\ EscapesUnwritten' /\ StreamOfRead'
    BY <2>1, <2>4 DEF ServedInv, BoxesOfRead, EscapesUnwritten, StreamOfRead
  <2>6. InOnePlace' /\ NothingForgotten' /\ AnswersRight'
    BY <2>1, <2>3, <2>4 DEF ServedInv, InOnePlace, NothingForgotten, AnswersRight
  <2> QED
    BY <2>2, <2>5, <2>6 DEF ServedInv
<1> QED
  BY <1>3, <1>4, <1>5, <1>6, <1>7 DEF MainThread

\* A handler leaves a box of the message it was called for, unless that is a
\* notification that worked.
LEMMA BoxOfHandler ==
  ASSUME NEW n \in Nat, NEW count \in Nat, NEW outcome \in {"result", "error", "escape"},
         script[n] \in Scheduled, script[n] = "notification" => count = 0,
         NEW box, box = Progress(n, count) \o answers(n, outcome)
  PROVE  \/ box = <<>> /\ script[n] = "notification"
         \/ box # <<>> /\ box[1].n = n /\ BoxFor(box, n, script[n])
<1>1. CASE script[n] = "notification" /\ outcome = "result"
  <2>1. Progress(n, count) = <<>> /\ answers(n, outcome) = <<>>
    BY <1>1 DEF Progress, answers
  <2> QED
    BY <1>1, <2>1
<1>2. CASE ~(script[n] = "notification" /\ outcome = "result")
  <2>1. /\ Progress(n, count) \in Seq({About(n, "progress")}) /\ Len(Progress(n, count)) = count
        /\ \A i \in 1 .. count : Progress(n, count)[i] = About(n, "progress")
    BY DEF Progress
  <2>2. answers(n, outcome) = <<About(n, outcome)>>
    BY <1>2 DEF answers
  <2>3. /\ Len(box) = count + 1 /\ box[count + 1] = About(n, outcome)
        /\ \A i \in 1 .. count : box[i] = About(n, "progress")
    BY <2>1, <2>2
  <2>4. \A i \in 1 .. Len(box) : i \in 1 .. count \/ i = count + 1
    BY <2>3
  <2>5. \A i \in 1 .. Len(box) : box[i].n = n
    <3>1. About(n, "progress").n = n /\ About(n, outcome).n = n
      BY DEF About
    <3> QED
      BY <2>3, <2>4, <3>1
  <2>6. \A i \in 1 .. Len(box) : i # Len(box) => box[i].what = "progress"
    BY <2>3, <2>4 DEF About
  <2>7. box[Len(box)].what = outcome
    BY <2>3 DEF About
  <2>8. outcome = "result" => script[n] = "request"
    BY <1>2 DEF Scheduled
  <2>9. BoxFor(box, n, script[n])
    BY <2>5, <2>6, <2>7, <2>8 DEF BoxFor, Calls, Undispatchable, AsksForAnswer
  <2>10. box # <<>> /\ box[1].n = n
    <3>1. 1 \in 1 .. Len(box)
      BY <2>3
    <3> QED
      BY <2>3, <2>5, <3>1
  <2> QED
    BY <2>9, <2>10
<1> QED
  BY <1>1, <1>2

LEMMA StartServed ==
  ASSUME IInv, ServedInv, NEW w \in Workers, NEW n \in queue, Start(w, n)
  PROVE  ServedInv'
<1>1. /\ w \in Threads /\ w # "main" /\ queue \subseteq 1 .. read /\ n \in 1 .. read /\ n \in Nat
      /\ outbox[w] = <<>> /\ pc \in {"serving", "draining"}
      /\ queue' = queue \ {n} /\ UNCHANGED <<script, read, pc, begun, stream>>
  BY ConstantsAssumption DEF Start, Running, IInv, TypeOK, Threads
<1>2. PICK count \in 0 .. MaxProgress, outcome \in Outcomes :
        /\ script[n] = "notification" => count = 0
        /\ outbox' = [outbox EXCEPT ![w] = Progress(n, count) \o answers(n, outcome)]
  BY DEF Start
<1>3. PICK box : box = Progress(n, count) \o answers(n, outcome)
  OBVIOUS
<1>4. \/ box = <<>> /\ script[n] = "notification"
      \/ box # <<>> /\ box[1].n = n /\ BoxFor(box, n, script[n])
  <2>1. script[n] \in Scheduled
    BY DEF ServedInv, BoxesOfRead
  <2>2. count \in Nat /\ outcome \in {"result", "error", "escape"}
    BY ConstantsAssumption, OutcomesAssumption
  <2>3. script[n] = "notification" => count = 0
    BY <1>2
  <2>4. \A b : b = Progress(n, count) \o answers(n, outcome) =>
          \/ b = <<>> /\ script[n] = "notification"
          \/ b # <<>> /\ b[1].n = n /\ BoxFor(b, n, script[n])
    BY <1>1, <2>1, <2>2, <2>3, BoxOfHandler
  <2> QED
    BY <1>3, <2>4
<1>5. \A t \in Threads : outbox'[t] = IF t = w THEN box ELSE outbox[t]
  BY <1>2, <1>3 DEF IInv, TypeOK
<1>6. ASSUME NEW t \in Threads, NEW k \in 1 .. read, k # n PROVE Serves(t, k)' <=> Serves(t, k)
  BY <1>1, <1>4, <1>5, <1>6 DEF Serves, Subject
<1>7. \A t \in Threads : Serves(t, n)' <=> t = w /\ box # <<>>
  <2>1. \A t \in Threads : ~Serves(t, n)
    BY DEF ServedInv, InOnePlace
  <2> QED
    BY <1>1, <1>4, <1>5, <2>1 DEF Serves, Subject
<1>8. \A k : /\ Answered(k)' = Answered(k)
             /\ \A what : Written(k, what)' = Written(k, what)
  BY <1>1, SameStream
<1>9. BoxesOfRead'
  <2>1. ASSUME NEW t \in Threads, outbox'[t] # <<>>
        PROVE  /\ outbox'[t][1].n \in 1 .. read
               /\ BoxFor(outbox'[t], outbox'[t][1].n, script[outbox'[t][1].n])
    <3>1. CASE t = w
      BY <1>1, <1>4, <1>5, <2>1, <3>1
    <3>2. CASE t # w
      BY <1>5, <2>1, <3>2 DEF ServedInv, BoxesOfRead, Subject
    <3> QED
      BY <3>1, <3>2
  <2> QED
    BY <1>1, <2>1 DEF ServedInv, BoxesOfRead, Subject
<1>10. EscapesUnwritten'
  <2>1. \A t \in begun : t \in Threads /\ t # w
    BY <1>1 DEF IInv, TypeOK, ServedInv, EscapesUnwritten
  <2> QED
    BY <1>1, <1>5, <2>1 DEF ServedInv, EscapesUnwritten
<1>11. InOnePlace'
  <2>1. Answered(n) = {}
    BY <1>1 DEF ServedInv, InOnePlace
  <2>2. \A t, u \in Threads, k \in 1 .. read : Serves(t, k)' /\ Serves(u, k)' => t = u
    BY <1>6, <1>7 DEF ServedInv, InOnePlace
  <2>3. \A t \in Threads, k \in queue' : ~Serves(t, k)'
    BY <1>1, <1>6 DEF ServedInv, InOnePlace
  <2>4. \A k \in 1 .. read : Answered(k)' # {} => k \notin queue' /\ \A t \in Threads : ~Serves(t, k)'
    BY <1>1, <1>6, <1>8, <2>1 DEF ServedInv, InOnePlace
  <2> QED
    BY <1>1, <2>2, <2>3, <2>4 DEF InOnePlace
<1>12. NothingForgotten'
  <2>1. ASSUME NEW k \in 1 .. read, AsksForAnswer(script[k])
        PROVE  k \in queue' \/ Answered(k)' # {} \/ \E t \in Threads : Serves(t, k)'
    <3>1. CASE k = n
      <4>1. script[n] # "notification"
        BY <2>1, <3>1 DEF AsksForAnswer, Calls, Undispatchable
      <4> QED
        BY <1>1, <1>4, <1>7, <3>1, <4>1
    <3>2. CASE k # n
      BY <1>1, <1>6, <1>8, <2>1, <3>2 DEF ServedInv, NothingForgotten
    <3> QED
      BY <3>1, <3>2
  <2> QED
    BY <1>1, <2>1 DEF NothingForgotten
<1>13. EndedEmpty'
  BY <1>1, <1>5 DEF ServedInv, EndedEmpty, Threads
<1>14. StreamOfRead' /\ AnswersRight'
  BY <1>1, <1>8 DEF ServedInv, StreamOfRead, AnswersRight
<1> QED
  BY <1>9, <1>10, <1>11, <1>12, <1>13, <1>14 DEF ServedInv

\* What a thread writes next, and what then is left.
LEMMA BoxAfterWriting ==
  ASSUME NEW box \in Seq(Messages), NEW n, NEW kind, box # <<>>, BoxFor(box, n, kind)
  PROVE  /\ Head(box) \in Messages /\ Head(box) = box[1] /\ Head(box).n = n
         /\ Tail(box) # <<>> => /\ Head(box).what \in {"progress", "print"}
                                /\ Tail(box)[1].n = n /\ BoxFor(Tail(box), n, kind)
         /\ Tail(box) = <<>> =>
              /\ Head(box).what = "refusal" => kind \in Undispatchable
              /\ Head(box).what = "result" => kind \in Calls
              /\ Head(box).what = "error" => kind \in Scheduled
              /\ AsksForAnswer(kind) => Head(box).what \in {"result", "error", "refusal", "escape"}
<1>1. Len(box) \in Nat \ {0} /\ Head(box) = box[1] /\ box[1] \in Messages /\ 1 \in 1 .. Len(box)
  OBVIOUS
<1>2. Head(box).n = n
  BY <1>1 DEF BoxFor
<1>3. ASSUME Tail(box) # <<>>
      PROVE  /\ Head(box).what \in {"progress", "print"}
             /\ Tail(box)[1].n = n /\ BoxFor(Tail(box), n, kind)
  <2>1. /\ Len(Tail(box)) = Len(box) - 1 /\ Len(Tail(box)) \in Nat \ {0}
        /\ \A i \in 1 .. Len(Tail(box)) : Tail(box)[i] = box[i + 1]
    <3>1. Tail(box) \in Seq(Messages) /\ Len(Tail(box)) = Len(box) - 1
      BY <1>1
    <3>2. Len(Tail(box)) \in Nat \ {0}
      BY <1>3, <3>1
    <3>3. \A i \in 1 .. Len(box) - 1 : Tail(box)[i] = box[i + 1]
      BY <1>1
    <3> QED
      BY <3>1, <3>2, <3>3
  <2>2. \A i \in 1 .. Len(Tail(box)) : /\ i + 1 \in 1 .. Len(box)
                                       /\ i + 1 = Len(box) <=> i = Len(Tail(box))
    BY <1>1, <2>1
  <2>3. /\ Len(Tail(box)) \in 1 .. Len(Tail(box)) /\ 1 \in 1 .. Len(Tail(box))
        /\ 1 # Len(box) /\ Tail(box)[Len(Tail(box))] = box[Len(box)]
    BY <1>1, <2>1
  <2>4. \A i \in 1 .. Len(Tail(box)) : Tail(box)[i].n = n
    BY <2>1, <2>2 DEF BoxFor
  <2>5. \A i \in 1 .. Len(Tail(box)) : i # Len(Tail(box)) => Tail(box)[i].what \in {"progress", "print"}
    BY <2>1, <2>2 DEF BoxFor
  <2>6. BoxFor(Tail(box), n, kind)
    BY <2>3, <2>4, <2>5 DEF BoxFor
  <2> QED
    BY <1>1, <2>3, <2>4, <2>6 DEF BoxFor
<1>4. ASSUME Tail(box) = <<>> PROVE Len(box) = 1
  <2>1. Len(Tail(box)) = Len(box) - 1
    BY <1>1
  <2> QED
    BY <1>1, <1>4, <2>1
<1> QED
  BY <1>1, <1>2, <1>3, <1>4 DEF BoxFor

\* The thread that writes is at message n of the client.
LEMMA Writing ==
  ASSUME IInv, ServedInv, NEW t \in Threads, outbox[t] # <<>>, NEW n, n = Subject(t)
  PROVE  /\ n \in 1 .. read /\ Serves(t, n) /\ Answered(n) = {} /\ n \notin queue
         /\ \A u \in Threads : u # t => ~Serves(u, n)
         /\ outbox[t] \in Seq(Messages) /\ BoxFor(outbox[t], n, script[n])
BY DEF IInv, TypeOK, ServedInv, BoxesOfRead, InOnePlace, Serves

LEMMA HeaderServed ==
  ASSUME IInv, ServedInv, NEW t \in Threads, WriteHeader(t)
  PROVE  ServedInv'
<1> DEFINE m == Head(outbox[t])
<1>1. /\ outbox[t] # <<>> /\ m.what # "escape" /\ stream' = Append(stream, Piece(m, "header"))
      /\ begun' = begun \cup {t} /\ UNCHANGED <<script, read, pc, queue, outbox>>
  BY DEF WriteHeader
<1>2. PICK n : n = Subject(t)
  OBVIOUS
<1>3. n \in 1 .. read /\ outbox[t] \in Seq(Messages) /\ BoxFor(outbox[t], n, script[n])
  BY <1>1, <1>2, Writing
<1>4. m \in Messages /\ m.n = n
  BY <1>1, <1>3, BoxAfterWriting
<1> HIDE DEF m
<1>5. PICK len : len = Len(stream)
  OBVIOUS
<1>6. /\ len \in Nat /\ Len(stream') = len + 1
      /\ \A i \in 1 .. len : stream'[i] = stream[i]
      /\ stream'[len + 1] = Piece(m, "header")
  BY <1>1, <1>4, <1>5, AppendedPiece DEF IInv
<1>7. \A i : i \in 1 .. len + 1 <=> i \in 1 .. len \/ i = len + 1
  BY <1>6
<1>8. \A k, what : Written(k, what)' = Written(k, what)
  BY <1>5, <1>6, <1>7 DEF Written, Piece, About
<1>9. \A k : Answered(k)' = Answered(k)
  BY <1>8 DEF Answered
<1>10. \A u \in Threads : /\ Subject(u)' = Subject(u)
                          /\ \A k : Serves(u, k)' <=> Serves(u, k)
  BY <1>1 DEF Subject, Serves
<1>11. BoxesOfRead' /\ EscapesUnwritten'
  BY <1>1, <1>10 DEF ServedInv, BoxesOfRead, EscapesUnwritten, m
<1>12. InOnePlace' /\ NothingForgotten'
  BY <1>1, <1>9, <1>10 DEF ServedInv, InOnePlace, NothingForgotten
<1>13. EndedEmpty' /\ AnswersRight'
  BY <1>1, <1>8, <1>9 DEF ServedInv, EndedEmpty, AnswersRight
<1>14. StreamOfRead'
  <2>1. stream'[len + 1].message.n \in 1 .. read
    BY <1>3, <1>4, <1>6 DEF Piece
  <2> QED
    BY <1>1, <1>5, <1>6, <1>7, <2>1 DEF ServedInv, StreamOfRead
<1> QED
  BY <1>11, <1>12, <1>13, <1>14 DEF ServedInv

LEMMA ContentServed ==
  ASSUME IInv, ServedInv, NEW t \in Threads, WriteContent(t)
  PROVE  ServedInv'
<1> DEFINE m == Head(outbox[t])
           rest == Tail(outbox[t])
<1>1. /\ pc \in {"serving", "draining"} /\ t \in begun
      /\ stream' = Append(stream, Piece(m, "content"))
      /\ outbox' = [outbox EXCEPT ![t] = rest]
      /\ begun' = begun \ {t} /\ UNCHANGED <<script, read, pc, queue>>
  BY DEF WriteContent, Running
<1>2. outbox[t] # <<>> /\ m.what # "escape"
  BY <1>1 DEF ServedInv, EscapesUnwritten
<1>3. PICK n : n = Subject(t)
  OBVIOUS
<1>4. /\ n \in 1 .. read /\ Serves(t, n) /\ Answered(n) = {} /\ n \notin queue
      /\ \A u \in Threads : u # t => ~Serves(u, n)
      /\ outbox[t] \in Seq(Messages) /\ BoxFor(outbox[t], n, script[n])
  BY <1>2, <1>3, Writing
<1>5. /\ m \in Messages /\ m.n = n
      /\ rest # <<>> => /\ m.what \in {"progress", "print"}
                        /\ rest[1].n = n /\ BoxFor(rest, n, script[n])
      /\ rest = <<>> =>
           /\ m.what = "refusal" => script[n] \in Undispatchable
           /\ m.what = "result" => script[n] \in Calls
           /\ m.what = "error" => script[n] \in Scheduled
           /\ AsksForAnswer(script[n]) => m.what \in {"result", "error", "refusal", "escape"}
  BY <1>2, <1>4, BoxAfterWriting
<1>6. \A u \in Threads : outbox'[u] = IF u = t THEN rest ELSE outbox[u]
  BY <1>1 DEF IInv, TypeOK
<1> HIDE DEF m, rest
<1>7. PICK len : len = Len(stream)
  OBVIOUS
<1>8. /\ len \in Nat /\ Len(stream') = len + 1
      /\ \A i \in 1 .. len : stream'[i] = stream[i]
      /\ stream'[len + 1] = Piece(m, "content")
  BY <1>1, <1>5, <1>7, AppendedPiece DEF IInv
<1>9. \A i : i \in 1 .. len + 1 <=> i \in 1 .. len \/ i = len + 1
  BY <1>8
<1>10. \A k, what : Written(k, what)' =
         Written(k, what) \cup IF k = n /\ what = m.what THEN {len + 1} ELSE {}
  <2>1. \A k, what : m = About(k, what) <=> k = n /\ what = m.what
    BY <1>5 DEF Messages, About
  <2>2. stream'[len + 1].part = "content" /\ stream'[len + 1].message = m
    BY <1>8 DEF Piece
  <2> SUFFICES ASSUME NEW k, NEW what, NEW i
               PROVE  i \in Written(k, what)' <=>
                        i \in Written(k, what) \/ (i = len + 1 /\ k = n /\ what = m.what)
    OBVIOUS
  <2>3. i \in Written(k, what)' <=>
          /\ i \in 1 .. len + 1
          /\ stream'[i].part = "content" /\ stream'[i].message = About(k, what)
    BY <1>8 DEF Written, About
  <2>4. i \in Written(k, what) <=>
          /\ i \in 1 .. len
          /\ stream[i].part = "content" /\ stream[i].message = About(k, what)
    BY <1>7 DEF Written
  <2>5. len + 1 \notin 1 .. len
    BY <1>8
  <2> QED
    BY <1>8, <1>9, <2>1, <2>2, <2>3, <2>4, <2>5
<1>11. \A k : k # n => /\ Answered(k)' = Answered(k)
                       /\ \A what : Written(k, what)' = Written(k, what)
  BY <1>10 DEF Answered
<1>12. Answered(n)' = IF m.what \in {"result", "error", "refusal"} THEN {len + 1} ELSE {}
  <2>1. Answered(n)' = Answered(n) \cup (IF m.what \in {"result", "error", "refusal"} THEN {len + 1} ELSE {})
    BY <1>10 DEF Answered
  <2> QED
    BY <1>4, <2>1
<1>13. \A u \in Threads, k \in 1 .. read :
         Serves(u, k)' <=> IF u = t THEN k = n /\ rest # <<>> ELSE Serves(u, k)
  BY <1>5, <1>6 DEF Serves, Subject
<1>14. BoxesOfRead'
  <2>1. ASSUME NEW u \in Threads, outbox'[u] # <<>>
        PROVE  /\ outbox'[u][1].n \in 1 .. read
               /\ BoxFor(outbox'[u], outbox'[u][1].n, script[outbox'[u][1].n])
    <3>1. CASE u = t
      BY <1>4, <1>5, <1>6, <2>1, <3>1
    <3>2. CASE u # t
      BY <1>6, <2>1, <3>2 DEF ServedInv, BoxesOfRead, Subject
    <3> QED
      BY <3>1, <3>2
  <2> QED
    BY <1>1, <2>1 DEF ServedInv, BoxesOfRead, Subject
<1>15. EscapesUnwritten'
  <2>1. \A u \in begun' : u \in begun /\ u \in Threads /\ u # t
    BY <1>1 DEF IInv, TypeOK
  <2> QED
    BY <1>6, <2>1 DEF ServedInv, EscapesUnwritten
<1>16. InOnePlace'
  <2>1. \A u, v \in Threads, k \in 1 .. read : Serves(u, k)' /\ Serves(v, k)' => u = v
    BY <1>4, <1>13 DEF ServedInv, InOnePlace
  <2>2. \A u \in Threads, k \in queue : ~Serves(u, k)'
    BY <1>4, <1>13 DEF ServedInv, InOnePlace, IInv, TypeOK
  <2>3. ASSUME NEW k \in 1 .. read, Answered(k)' # {}
        PROVE  k \notin queue /\ \A u \in Threads : ~Serves(u, k)'
    <3>1. CASE k = n
      <4>1. rest = <<>>
        BY <1>5, <1>12, <2>3, <3>1
      <4> QED
        BY <1>4, <1>13, <3>1, <4>1
    <3>2. CASE k # n
      BY <1>11, <1>13, <2>3, <3>2 DEF ServedInv, InOnePlace
    <3> QED
      BY <3>1, <3>2
  <2> QED
    BY <1>1, <2>1, <2>2, <2>3 DEF InOnePlace
<1>17. NothingForgotten'
  <2>1. ASSUME NEW k \in 1 .. read, AsksForAnswer(script[k])
        PROVE  k \in queue \/ Answered(k)' # {} \/ \E u \in Threads : Serves(u, k)'
    <3>1. CASE k = n
      BY <1>2, <1>5, <1>12, <1>13, <2>1, <3>1
    <3>2. CASE k # n
      <4>1. k \in queue \/ Answered(k) # {} \/ \E u \in Threads : Serves(u, k)
        BY <2>1 DEF ServedInv, NothingForgotten
      <4>2. ~Serves(t, k)
        BY <1>3, <3>2 DEF Serves
      <4> QED
        BY <1>11, <1>13, <3>2, <4>1, <4>2
    <3> QED
      BY <3>1, <3>2
  <2> QED
    BY <1>1, <2>1 DEF NothingForgotten
<1>18. EndedEmpty'
  <2>1. pc = "draining" => outbox["main"] = <<>> /\ t # "main"
    BY <1>2 DEF ServedInv, EndedEmpty
  <2> QED
    BY <1>1, <1>6, <2>1 DEF EndedEmpty, Threads
<1>19. StreamOfRead'
  <2>1. stream'[len + 1].message.n \in 1 .. read
    BY <1>4, <1>5, <1>8 DEF Piece
  <2> QED
    BY <1>1, <1>7, <1>8, <1>9, <2>1 DEF ServedInv, StreamOfRead
<1>20. AnswersRight'
  <2>1. ASSUME NEW k \in 1 .. read
        PROVE  /\ \A i, j \in Answered(k)' : i = j
               /\ \A i \in Written(k, "progress")', j \in Answered(k)' : i < j
               /\ Written(k, "refusal")' # {} => script[k] \in Undispatchable
               /\ Written(k, "result")' # {} => script[k] \in Calls
               /\ Written(k, "error")' # {} => script[k] \in Scheduled
    <3>1. CASE k # n
      BY <1>11, <3>1 DEF ServedInv, AnswersRight
    <3>2. CASE k = n
      <4>1. \A i, j \in Answered(n)' : i = j
        BY <1>12
      <4>2. ASSUME NEW i \in Written(n, "progress")', NEW j \in Answered(n)' PROVE i < j
        <5>1. j = len + 1 /\ m.what # "progress"
          BY <1>12, <4>2
        <5>2. i \in Written(n, "progress")
          BY <1>10, <4>2, <5>1
        <5>3. i \in 1 .. len
          BY <1>7, <5>2 DEF Written
        <5> QED
          BY <1>8, <5>1, <5>3
      <4>3. /\ Written(n, "refusal") = {} /\ Written(n, "result") = {} /\ Written(n, "error") = {}
        BY <1>4 DEF Answered
      <4>4. /\ Written(n, "refusal")' # {} => m.what = "refusal"
            /\ Written(n, "result")' # {} => m.what = "result"
            /\ Written(n, "error")' # {} => m.what = "error"
        BY <1>10, <4>3
      <4>5. m.what \in {"refusal", "result", "error"} => rest = <<>>
        BY <1>5
      <4> QED
        BY <1>5, <3>2, <4>1, <4>2, <4>4, <4>5
    <3> QED
      BY <3>1, <3>2
  <2> QED
    BY <1>1, <2>1 DEF AnswersRight
<1> QED
  BY <1>14, <1>15, <1>16, <1>17, <1>18, <1>19, <1>20 DEF ServedInv

LEMMA NextServed == IInv /\ ServedInv /\ [Next]_vars => ServedInv'
<1> SUFFICES ASSUME IInv, ServedInv, [Next]_vars PROVE ServedInv'
  OBVIOUS
<1>1. CASE MainThread
  BY <1>1, MainThreadServed
<1>2. ASSUME NEW w \in Workers, Worker(w) PROVE ServedInv'
  <2>1. CASE Escape(w)
    BY <2>1, NothingServed DEF Escape
  <2>2. ASSUME NEW n \in queue, Start(w, n) PROVE ServedInv'
    BY <2>2, StartServed
  <2> QED
    BY <1>2, <2>1, <2>2 DEF Worker
<1>3. ASSUME NEW t \in Threads, Writer(t) PROVE ServedInv'
  BY <1>3, HeaderServed, ContentServed DEF Writer
<1>4. CASE UNCHANGED vars
  BY <1>4, NothingServed DEF vars
<1> QED
  BY <1>1, <1>2, <1>3, <1>4 DEF Next

\* No message is answered twice, by the wrong kind of answer or out of turn, and when
\* serve() returns none has been forgotten, for any number of workers and any script.
THEOREM ServedOnce == Spec => []EachServedOnce
<1>1. IInv /\ ServedInv => EachServedOnce
  <2> SUFFICES ASSUME IInv, ServedInv PROVE EachServedOnce
    OBVIOUS
  <2>1. ASSUME NEW n \in 1 .. read PROVE Cardinality(Answered(n)) <= 1
    <3>1. CASE Answered(n) = {}
      BY <3>1, FS_EmptySet
    <3>2. CASE Answered(n) # {}
      <4>1. PICK i : i \in Answered(n)
        BY <3>2
      <4>2. Answered(n) = {i}
        BY <4>1 DEF ServedInv, AnswersRight
      <4> QED
        BY <4>2, FS_Singleton
    <3> QED
      BY <3>1, <3>2
  <2>2. ASSUME NEW n \in 1 .. read, pc = "ended", AsksForAnswer(script[n]) PROVE Answered(n) # {}
    <3>1. queue = {} /\ \A t \in Threads : outbox[t] = <<>>
      BY <2>2 DEF ServedInv, EndedEmpty, Threads
    <3> QED
      BY <2>2, <3>1 DEF ServedInv, NothingForgotten, Serves
  <2> QED
    BY <2>1, <2>2 DEF EachServedOnce, ServedInv, StreamOfRead, AnswersRight, AsksForAnswer
<1> QED
  BY <1>1, InitInvariant, NextInvariant, InitServed, NextServed, PTL DEF Spec
=============================================================================

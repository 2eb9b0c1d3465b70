-------------------------- MODULE ComputationProofs --------------------------
(***************************************************************************)
(* Proofs about what the programs compute.                                 *)
(*                                                                         *)
(* StrategyProcess, for every finite set of strategies and every file: no  *)
(* worker sends on the closed channel, a report comes only after the       *)
(* printer is through with every line, whether its writes fail or not, and *)
(* the goroutines never all wait for each other.                           *)
(*                                                                         *)
(* Algorithms, for every width of an int, every type and environment,      *)
(* every name, image and kernel: what a call yields is what the module     *)
(* says of it without the code's loops.  The loops count upwards, so that  *)
(* where one ends is the least number of a set; a recursive function       *)
(* exists, and is what its equation says, because the least number at      *)
(* which it would not be does not exist.  That principle, LeastNumber, is  *)
(* taken from the order of finite sets, and every induction is one of its  *)
(* uses: on numbers, on the sizes of sets, and on the lengths of           *)
(* sequences.                                                              *)
(*                                                                         *)
(* Next prime: a number that no divisor up to its root divides is prime.   *)
(* Next Fibonacci number: consecutive Fibonacci numbers g and l have       *)
(* g*g - g*l - l*l = 1 or -1, and no other pairs have; the loop keeps      *)
(* this, and between two such numbers there is none.  Right triangles: the *)
(* smaller leg is less than where the search ends.                         *)
(* Keys: a name is the concatenation of its words, and the rune at each    *)
(* place of it is a rune of one word; a key is the concatenation of what   *)
(* it has for each rune.                                                   *)
(* Blur: a total is linear, and over a square it is the total of the       *)
(* totals of the rows; clamped coordinates are those of the nearest pixel; *)
(* each pass adds at most half of one to the distance from the mean.       *)
(***************************************************************************)
EXTENDS StrategyProcess, Algorithms, FiniteSetTheorems, SequenceTheorems, TLAPS

------------------------------------------------------------------------------
(* The workers of lab-2 *)

\* A worker has sent a line for each integer it has read, but the one it sends.
ReadIsSent ==
    \A s \in Strategies :
        read[s] = IF worker[s] = "sending" THEN processed[s] + 1 ELSE processed[s]

\* What was sent is printed or lost, but the line in the printer's hands.
SentIsPrinted ==
    \A s \in Strategies :
        processed[s] = IF printer = "printing" /\ line = s
                       THEN printed[s] + lost[s] + 1 ELSE printed[s] + lost[s]

\* A worker that ends without an error has read a good file to its end.
EndedIsComplete ==
    \A s \in Strategies :
        worker[s] = "ended" /\ s \notin failed => read[s] = file.tokens /\ ~file.endsBadly

\* A worker puts its result in the channel once, when it ends.
ResultsAreFresh ==
    /\ \A k \in 1 .. Len(done) : worker[done[k]] = "ended" /\ done[k] \notin reported
    /\ \A j, k \in 1 .. Len(done) : done[j] = done[k] => j = k

\* The results received are those of workers that ended well, and are counted.
ReceivedIsCounted ==
    /\ \A s \in reported : worker[s] = "ended" /\ s \notin failed
    /\ \A s \in failed : worker[s] = "ended"
    /\ received = Cardinality(reported)

\* Process leaves its loop with the results of all strategies.
LoopIsComplete ==
    process \in {"received", "waiting", "succeeded"} => reported = Strategies

\* The channel of lines, the printer and Process end in this order.
EndInOrder ==
    /\ closed => process \in {"waiting", "succeeded"}
    /\ printer = "ended" => closed
    /\ process = "succeeded" => printer = "ended"

IInv ==
    /\ TypeOK
    /\ ReadIsSent
    /\ SentIsPrinted
    /\ EndedIsComplete
    /\ ResultsAreFresh
    /\ ReceivedIsCounted
    /\ LoopIsComplete
    /\ EndInOrder

------------------------------------------------------------------------------

(***************************************************************************)
(* A worker that ends and puts its result in the channel.  It cannot have  *)
(* done so before, and so the channel keeps one result per worker.         *)
(***************************************************************************)
LEMMA EndStep ==
    ASSUME IInv, NEW s \in Strategies, NEW isError \in BOOLEAN,
           worker[s] \in {"opening", "reading"},
           worker' = [worker EXCEPT ![s] = "ended"],
           PutResult(s, isError),
           ~isError => read[s] = file.tokens /\ ~file.endsBadly,
           UNCHANGED <<file, read, processed, closed, printer, line, printed, lost, received,
                       reported, process>>
    PROVE  IInv'
  <1> USE DEF IInv, PutResult
  <1>1. TypeOK'
    BY DEF TypeOK, WorkerStates
  <1>2. \A t \in Strategies : t # s => worker'[t] = worker[t]
    BY DEF TypeOK
  <1>3. worker'[s] = "ended"
    BY DEF TypeOK
  <1>4. ReadIsSent' /\ SentIsPrinted'
    BY <1>2, <1>3 DEF ReadIsSent, SentIsPrinted
  <1>5. EndedIsComplete'
    BY <1>2, <1>3 DEF EndedIsComplete
  <1>6. Len(done') = Len(done) + 1 /\ done'[Len(done) + 1] = s
        /\ \A k \in 1 .. Len(done) : done'[k] = done[k]
    BY DEF TypeOK
  <1>7. s \notin reported /\ \A k \in 1 .. Len(done) : done[k] # s
    BY DEF ResultsAreFresh, ReceivedIsCounted
  <1>8. \A k \in 1 .. Len(done) : done[k] \in Strategies
    BY DEF TypeOK
  <1>9. Len(done) \in Nat
    BY DEF TypeOK
  <1>10. ResultsAreFresh'
    BY <1>2, <1>3, <1>6, <1>7, <1>8, <1>9 DEF ResultsAreFresh
  <1>11. ReceivedIsCounted'
    BY <1>2, <1>3, <1>7 DEF ReceivedIsCounted, TypeOK
  <1>12. LoopIsComplete' /\ EndInOrder'
    BY DEF LoopIsComplete, EndInOrder
  <1>13. QED
    BY <1>1, <1>4, <1>5, <1>10, <1>11, <1>12

\* The steps of a worker that do not end it.
LEMMA WorkStep ==
    ASSUME IInv, NEW s \in Strategies, Open(s) \/ NextNumber(s) \/ Send(s)
    PROVE  IInv'
  <1> USE DEF IInv
  <1>1. worker[s] # "ended" /\ worker'[s] # "ended"
        /\ \A t \in Strategies : t # s => worker'[t] = worker[t]
    BY DEF Open, NextNumber, Send, Goto, TypeOK
  <1>2. UNCHANGED <<file, closed, printed, lost, done, failed, received, reported, process>>
    BY DEF Open, NextNumber, Send
  <1>3. ResultsAreFresh' /\ ReceivedIsCounted' /\ LoopIsComplete'
    <2>1. \A k \in 1 .. Len(done) : done[k] \in Strategies
      BY DEF TypeOK
    <2>2. QED
      BY <1>1, <1>2, <2>1 DEF ResultsAreFresh, ReceivedIsCounted, LoopIsComplete, TypeOK
  <1>4. CASE Open(s)
    BY <1>1, <1>2, <1>3, <1>4
       DEF Open, Goto, TypeOK, WorkerStates, ReadIsSent, SentIsPrinted,
           EndedIsComplete, EndInOrder
  <1>5. CASE NextNumber(s)
    <2>1. read' = [read EXCEPT ![s] = read[s] + 1] /\ read[s] < file.tokens
      BY <1>5 DEF NextNumber
    <2>2. read[s] \in Nat /\ file.tokens \in Nat
      BY DEF TypeOK, Files
    <2>3. TypeOK'
      BY <1>2, <1>5, <2>1, <2>2 DEF NextNumber, Goto, TypeOK, WorkerStates
    <2>4. ReadIsSent'
      BY <1>1, <1>5, <2>1, <2>2 DEF NextNumber, Goto, TypeOK, ReadIsSent
    <2>5. SentIsPrinted' /\ EndInOrder'
      BY <1>2, <1>5 DEF NextNumber, SentIsPrinted, EndInOrder
    <2>6. EndedIsComplete'
      BY <1>1, <1>2, <2>1 DEF EndedIsComplete, TypeOK
    <2>7. QED
      BY <1>3, <2>3, <2>4, <2>5, <2>6
  <1>6. CASE Send(s)
    <2>1. /\ processed[s] \in Nat
          /\ read[s] = processed[s] + 1
          /\ processed' = [processed EXCEPT ![s] = processed[s] + 1]
          /\ line' = s
      BY <1>6 DEF Send, Goto, ReadIsSent, TypeOK
    <2>2. processed'[s] = processed[s] + 1 /\ line' = s
      BY <2>1 DEF TypeOK
    <2>3. TypeOK'
      <3>1. processed' \in [Strategies -> 0 .. file.tokens]
        BY <2>1 DEF TypeOK
      <3>2. QED
        BY <1>2, <1>6, <2>1, <3>1 DEF Send, Goto, TypeOK, WorkerStates
    <2>4. ReadIsSent'
      BY <1>1, <1>6, <2>1 DEF Send, Goto, TypeOK, ReadIsSent
    <2>5. SentIsPrinted'
      BY <1>2, <1>6, <2>1, <2>2 DEF Send, TypeOK, SentIsPrinted
    <2>6. EndInOrder'
      BY <1>2, <1>6 DEF Send, EndInOrder
    <2>7. EndedIsComplete'
      BY <1>1, <1>2, <1>6 DEF Send, EndedIsComplete
    <2>8. QED
      BY <1>3, <2>3, <2>4, <2>5, <2>6, <2>7
  <1>7. QED
    BY <1>4, <1>5, <1>6

\* The steps of the printer.
LEMMA PrintStep ==
    ASSUME IInv, PrinterStep
    PROVE  IInv'
  <1> USE DEF IInv
  <1>1. UNCHANGED <<file, worker, read, processed, closed, line, done, failed, received,
                    reported, process>>
    BY DEF PrinterStep, PrintLine, PrintFails, PrinterEnds
  <1>2. /\ ReadIsSent' /\ EndedIsComplete' /\ ResultsAreFresh'
        /\ ReceivedIsCounted' /\ LoopIsComplete'
    BY <1>1 DEF ReadIsSent, EndedIsComplete, ResultsAreFresh, ReceivedIsCounted,
                LoopIsComplete
  <1>3. CASE PrintLine \/ PrintFails
    <2>1. line \in Strategies
      BY DEF TypeOK
    <2>2. printed[line] \in Nat /\ lost[line] \in Nat /\ file.tokens \in Nat
      BY <2>1 DEF TypeOK, Files
    <2>3. processed[line] = printed[line] + lost[line] + 1 /\ processed[line] \in 0 .. file.tokens
      BY <1>3, <2>1 DEF PrintLine, PrintFails, SentIsPrinted, TypeOK
    <2>4. \/ printed' = [printed EXCEPT ![line] = printed[line] + 1] /\ lost' = lost
          \/ lost' = [lost EXCEPT ![line] = lost[line] + 1] /\ printed' = printed
      BY <1>3 DEF PrintLine, PrintFails
    <2>5. printed[line] + 1 \in 0 .. file.tokens /\ lost[line] + 1 \in 0 .. file.tokens
      BY <2>2, <2>3
    <2>6. printer' = "receiving"
      BY <1>3 DEF PrintLine, PrintFails
    <2>7. TypeOK'
      BY <1>1, <2>4, <2>5, <2>6 DEF TypeOK
    <2>8. \A s \in Strategies \ {line} : printed'[s] = printed[s] /\ lost'[s] = lost[s]
      BY <2>4 DEF TypeOK
    <2>9. printed'[line] + lost'[line] = printed[line] + lost[line] + 1
      BY <2>1, <2>2, <2>4 DEF TypeOK
    <2>10. SentIsPrinted'
      BY <1>1, <2>3, <2>6, <2>8, <2>9 DEF SentIsPrinted
    <2>11. EndInOrder'
      BY <1>1, <1>3, <2>6 DEF PrintLine, PrintFails, EndInOrder
    <2>12. QED
      BY <1>2, <2>7, <2>10, <2>11
  <1>4. CASE PrinterEnds
    BY <1>1, <1>2, <1>4 DEF PrinterEnds, TypeOK, SentIsPrinted, EndInOrder
  <1>5. QED
    BY <1>3, <1>4 DEF PrinterStep

(***************************************************************************)
(* Process receives a result that is not an error.  It is a new one, so    *)
(* when as many have come as there are strategies, all have reported.      *)
(***************************************************************************)
LEMMA ReceiveStep ==
    ASSUME IInv, ReceiveError \/ ReceiveStat
    PROVE  IInv'
  <1> USE DEF IInv
  <1>1. PICK head \in Strategies : head = Head(done)
    BY DEF ReceiveError, ReceiveStat, TypeOK
  <1>2. /\ done \in Seq(Strategies) /\ done # <<>> /\ done' = Tail(done)
        /\ UNCHANGED <<file, worker, read, processed, closed, printer, line, printed, lost, failed>>
    BY DEF ReceiveError, ReceiveStat, TypeOK
  <1>3. head = done[1] /\ 1 \in 1 .. Len(done) /\ Len(done) \in Nat
    BY <1>1, <1>2
  <1>4. /\ done' \in Seq(Strategies)
        /\ Len(done') = Len(done) - 1
        /\ \A k \in 1 .. Len(done') : k + 1 \in 1 .. Len(done) /\ done'[k] = done[k + 1]
    BY <1>2
  <1>5. worker[head] = "ended" /\ head \notin reported
    BY <1>3 DEF ResultsAreFresh
  <1>6. ASSUME NEW k \in 1 .. Len(done')
        PROVE  worker[done'[k]] = "ended" /\ done'[k] \notin reported /\ done'[k] # head
    <2>1. k + 1 \in 1 .. Len(done) /\ done'[k] = done[k + 1] /\ k + 1 # 1
      BY <1>4
    <2>2. done[k + 1] # done[1]
      BY <1>3, <2>1 DEF ResultsAreFresh
    <2>3. QED
      BY <1>3, <2>1, <2>2 DEF ResultsAreFresh
  <1>7. ASSUME NEW j \in 1 .. Len(done'), NEW k \in 1 .. Len(done'), done'[j] = done'[k]
        PROVE  j = k
    <2>1. j + 1 = k + 1
      BY <1>4, <1>7 DEF ResultsAreFresh
    <2>2. QED
      BY <2>1
  <1>8. ReadIsSent' /\ SentIsPrinted' /\ EndedIsComplete'
    BY <1>2 DEF ReadIsSent, SentIsPrinted, EndedIsComplete
  <1>9. CASE ReceiveError
    <2>1. process = "receiving" /\ process' = "failed" /\ UNCHANGED <<received, reported>>
      BY <1>9 DEF ReceiveError
    <2>2. TypeOK'
      BY <1>2, <1>4, <2>1 DEF TypeOK, ProcessStates
    <2>3. ResultsAreFresh'
      BY <1>2, <1>6, <1>7, <2>1 DEF ResultsAreFresh
    <2>4. ReceivedIsCounted' /\ LoopIsComplete' /\ EndInOrder'
      BY <1>2, <2>1 DEF ReceivedIsCounted, LoopIsComplete, EndInOrder
    <2>5. QED
      BY <1>8, <2>2, <2>3, <2>4
  <1>10. CASE ReceiveStat
    <2>1. /\ process = "receiving"
          /\ head \notin failed
          /\ received' = received + 1
          /\ reported' = reported \cup {head}
          /\ process' \in {"receiving", "received"}
          /\ process' = "received" => received' = Cardinality(Strategies)
      BY <1>1, <1>10 DEF ReceiveStat
    <2>2. IsFiniteSet(Strategies) /\ IsFiniteSet(reported) /\ reported \in SUBSET Strategies
      BY StrategiesAssumption, FS_Subset DEF TypeOK
    <2>3. Cardinality(reported') = Cardinality(reported) + 1
      BY <1>5, <2>1, <2>2, FS_AddElement
    <2>4. received' = Cardinality(reported')
      BY <2>1, <2>3 DEF ReceivedIsCounted
    <2>5. reported' \in SUBSET Strategies
      BY <2>1, <2>2
    <2>6. Cardinality(reported') = Cardinality(Strategies) => reported' = Strategies
      BY <2>2, <2>5, FS_Subset
    <2>7. LoopIsComplete'
      BY <2>1, <2>4, <2>6 DEF LoopIsComplete
    <2>8. TypeOK'
      <3>1. received' \in Nat /\ process' \in ProcessStates
        BY <2>1 DEF TypeOK, ProcessStates
      <3>2. QED
        BY <1>2, <1>4, <2>5, <3>1 DEF TypeOK
    <2>9. ResultsAreFresh'
      BY <1>2, <1>6, <1>7, <2>1 DEF ResultsAreFresh
    <2>10. ReceivedIsCounted'
      BY <1>2, <1>5, <2>1, <2>4 DEF ReceivedIsCounted
    <2>11. EndInOrder'
      BY <1>2, <2>1 DEF EndInOrder
    <2>12. QED
      BY <1>8, <2>7, <2>8, <2>9, <2>10, <2>11
  <1>11. QED
    BY <1>9, <1>10

\* Every step preserves the invariant.
LEMMA InvariantStep == IInv /\ [Next]_vars => IInv'
  <1> SUFFICES ASSUME IInv, [Next]_vars
               PROVE  IInv'
    OBVIOUS
  <1>1. ASSUME NEW s \in Strategies, WorkerStep(s)
        PROVE  IInv'
    <2>1. CASE Open(s) \/ NextNumber(s) \/ Send(s)
      BY <2>1, WorkStep
    <2>2. CASE OpenFails(s)
      <3>1. worker[s] = "opening" /\ worker' = [worker EXCEPT ![s] = "ended"]
            /\ PutResult(s, TRUE)
            /\ UNCHANGED <<file, read, processed, closed, printer, line, printed, lost, received,
                           reported, process>>
        BY <2>2 DEF OpenFails, Goto
      <3>2. QED
        BY <3>1, EndStep
    <2>3. CASE EndOfFile(s)
      <3>1. worker[s] = "reading" /\ worker' = [worker EXCEPT ![s] = "ended"]
            /\ PutResult(s, FALSE) /\ read[s] = file.tokens /\ ~file.endsBadly
            /\ UNCHANGED <<file, read, processed, closed, printer, line, printed, lost, received,
                           reported, process>>
        BY <2>3 DEF EndOfFile, Goto
      <3>2. QED
        BY <3>1, EndStep
    <2>4. CASE ReadFails(s)
      <3>1. worker[s] = "reading" /\ worker' = [worker EXCEPT ![s] = "ended"]
            /\ PutResult(s, TRUE)
            /\ UNCHANGED <<file, read, processed, closed, printer, line, printed, lost, received,
                           reported, process>>
        BY <2>4 DEF ReadFails, Goto
      <3>2. QED
        BY <3>1, EndStep
    <2>5. QED
      BY <1>1, <2>1, <2>2, <2>3, <2>4 DEF WorkerStep
  <1>2. CASE PrinterStep
    BY <1>2, PrintStep
  <1>3. CASE ReceiveError \/ ReceiveStat
    BY <1>3, ReceiveStep
  <1>4. CASE CloseLines \/ Return
    <2>1. UNCHANGED <<file, worker, read, processed, printer, line, printed, lost, done, failed,
                      received, reported>>
      BY <1>4 DEF CloseLines, Return
    <2>2. /\ ReadIsSent' /\ SentIsPrinted' /\ EndedIsComplete'
          /\ ResultsAreFresh' /\ ReceivedIsCounted'
      BY <2>1
         DEF IInv, ReadIsSent, SentIsPrinted, EndedIsComplete,
             ResultsAreFresh, ReceivedIsCounted
    <2>3. TypeOK'
      BY <1>4, <2>1 DEF CloseLines, Return, IInv, TypeOK, ProcessStates
    <2>4. LoopIsComplete' /\ EndInOrder'
      BY <1>4, <2>1 DEF CloseLines, Return, IInv, LoopIsComplete, EndInOrder
    <2>5. QED
      BY <2>2, <2>3, <2>4 DEF IInv
  <1>5. CASE UNCHANGED vars
    BY <1>5
       DEF vars, IInv, TypeOK, ReadIsSent, SentIsPrinted, EndedIsComplete,
           ResultsAreFresh, ReceivedIsCounted, LoopIsComplete, EndInOrder
  <1>6. QED
    BY <1>1, <1>2, <1>3, <1>4, <1>5 DEF Next, ProcessStep

\* The invariant holds of every behaviour of Process.
THEOREM Invariance == Spec => []IInv
  <1>1. Init => IInv
    <2> SUFFICES ASSUME Init
                 PROVE  IInv
      OBVIOUS
    <2>1. file.tokens \in Nat /\ file \in Files
      BY MaxTokensAssumption DEF Init, Files
    <2>2. (CHOOSE s \in Strategies : TRUE) \in Strategies
      BY StrategiesAssumption
    <2>3. Len(done) = 0 /\ done \in Seq(Strategies)
      BY DEF Init
    <2>4. TypeOK
      <3>1. Zero \in [Strategies -> 0 .. file.tokens]
        BY <2>1 DEF Zero
      <3>2. line \in Strategies
        BY <2>2 DEF Init
      <3>3. QED
        BY <2>1, <2>3, <3>1, <3>2 DEF Init, TypeOK, WorkerStates, ProcessStates
    <2>5. ReadIsSent /\ SentIsPrinted /\ EndedIsComplete
      BY DEF Init, Zero, ReadIsSent, SentIsPrinted, EndedIsComplete
    <2>6. ResultsAreFresh
      BY <2>3 DEF ResultsAreFresh
    <2>7. ReceivedIsCounted
      BY FS_EmptySet DEF Init, ReceivedIsCounted
    <2>8. LoopIsComplete /\ EndInOrder
      BY DEF Init, LoopIsComplete, EndInOrder
    <2>9. QED
      BY <2>4, <2>5, <2>6, <2>7, <2>8 DEF IInv
  <1>2. QED
    BY <1>1, InvariantStep, PTL DEF Spec

(***************************************************************************)
(* Every variable has its type, for any strategies and any file: no count  *)
(* of a worker exceeds what the file holds.                                *)
(***************************************************************************)
THEOREM TypeCorrect == Spec => []TypeOK
  BY Invariance, PTL DEF IInv

(***************************************************************************)
(* No worker sends on the channel of lines after Process has closed it     *)
(* (process.go:126): the results of all workers have come by then.         *)
(***************************************************************************)
THEOREM NeverSendsAfterClose == Spec => []NoSendAfterClose
  <1>1. IInv => NoSendAfterClose
    BY DEF IInv, EndInOrder, LoopIsComplete, ReceivedIsCounted, NoSendAfterClose
  <1>2. QED
    BY <1>1, Invariance, PTL

(***************************************************************************)
(* A report means that every strategy has read the whole file without an   *)
(* error and that the printer is through with all of its lines, those that *)
(* it has written and those whose write failed without a notice            *)
(* (process.go:71); a bad file or a failed worker never leads to one.      *)
(***************************************************************************)
THEOREM ReportIsComplete == Spec => []SuccessIsComplete
  <1>1. ASSUME IInv, process \in {"received", "waiting", "succeeded"}
        PROVE  ~file.endsBadly /\ failed = {}
    <2>1. \A s \in Strategies : worker[s] = "ended" /\ s \notin failed
      BY <1>1 DEF IInv, LoopIsComplete, ReceivedIsCounted
    <2>2. QED
      BY <1>1, <2>1, StrategiesAssumption DEF IInv, TypeOK, EndedIsComplete
  <1>2. ASSUME IInv, process = "succeeded", NEW s \in Strategies
        PROVE  processed[s] = file.tokens /\ printed[s] + lost[s] = file.tokens
    <2>1. worker[s] = "ended" /\ s \notin failed
      BY <1>2 DEF IInv, LoopIsComplete, ReceivedIsCounted
    <2>2. processed[s] = file.tokens
      BY <1>2, <2>1 DEF IInv, EndedIsComplete, ReadIsSent
    <2>3. printed[s] + lost[s] = processed[s]
      BY <1>2 DEF IInv, EndInOrder, SentIsPrinted
    <2>4. QED
      BY <2>2, <2>3
  <1>3. IInv => SuccessIsComplete
    BY <1>1, <1>2 DEF SuccessIsComplete
  <1>4. QED
    BY <1>3, Invariance, PTL

\* While Process goes on receiving, it has not got all results, and no result is
\* lost: those that it has not got are on their way, or their workers not ended.
ResultsArrive ==
    /\ process = "receiving" =>
         /\ reported # Strategies
         /\ \A s \in Strategies :
               worker[s] = "ended" => s \in reported \/ \E k \in 1 .. Len(done) : done[k] = s
    /\ process = "waiting" => closed

\* The inductive step: a worker that ends puts its name in done by the same step.
LEMMA ArriveStep ==
    ASSUME IInv, IInv', ResultsArrive, [Next]_vars
    PROVE  ResultsArrive'
  <1>1. ASSUME NEW s \in Strategies, WorkerStep(s)
        PROVE  ResultsArrive'
    <2>1. UNCHANGED <<closed, reported, process>>
      BY <1>1 DEF WorkerStep, Open, OpenFails, NextNumber, Send, EndOfFile, ReadFails
    <2>2. CASE Open(s) \/ NextNumber(s) \/ Send(s)
      <3>1. done' = done /\ \A t \in Strategies : worker'[t] = "ended" => worker[t] = "ended"
        BY <2>2 DEF Open, NextNumber, Send, Goto, IInv, TypeOK
      <3> QED  BY <2>1, <3>1 DEF ResultsArrive
    <2>3. CASE OpenFails(s) \/ EndOfFile(s) \/ ReadFails(s)
      <3>1. done' = Append(done, s) /\ worker' = [worker EXCEPT ![s] = "ended"]
        BY <2>3 DEF OpenFails, EndOfFile, ReadFails, Goto, PutResult
      <3>2. /\ Len(done) \in Nat /\ Len(done') = Len(done) + 1 /\ done'[Len(done) + 1] = s
            /\ \A k \in 1 .. Len(done) : done'[k] = done[k]
        <4>1. done \in Seq(Strategies)
          BY DEF IInv, TypeOK
        <4> QED  BY <3>1, <4>1
      <3>3. ASSUME process = "receiving", NEW t \in Strategies, worker'[t] = "ended"
            PROVE  t \in reported \/ \E k \in 1 .. Len(done') : done'[k] = t
        <4>1. CASE t = s
          <5>1. Len(done) + 1 \in 1 .. Len(done')
            BY <3>2
          <5> QED  BY <3>2, <4>1, <5>1
        <4>2. CASE t # s
          <5>1. worker[t] = "ended"
            BY <3>1, <3>3, <4>2 DEF IInv, TypeOK
          <5> QED  BY <3>2, <3>3, <5>1 DEF ResultsArrive
        <4> QED  BY <4>1, <4>2
      <3> QED  BY <2>1, <3>3 DEF ResultsArrive
    <2> QED  BY <1>1, <2>2, <2>3 DEF WorkerStep
  <1>2. CASE PrinterStep
    BY <1>2 DEF PrinterStep, PrintLine, PrintFails, PrinterEnds, ResultsArrive
  <1>3. CASE ReceiveError
    BY <1>3 DEF ReceiveError, ResultsArrive
  <1>4. CASE ReceiveStat
    <2>1. /\ process = "receiving" /\ process' \in {"receiving", "received"}
          /\ process' = "receiving" => received' # Cardinality(Strategies)
          /\ reported' = reported \cup {Head(done)}
          /\ worker' = worker
      BY <1>4 DEF ReceiveStat
    <2>2. process' = "receiving" => reported' # Strategies
      BY <2>1 DEF IInv, ReceivedIsCounted
    <2>3. done \in Seq(Strategies) /\ done # <<>> /\ done' = Tail(done)
      BY <1>4 DEF ReceiveStat, IInv, TypeOK
    <2>4. /\ Len(done) \in Nat /\ Head(done) = done[1] /\ Len(done') = Len(done) - 1
          /\ \A k \in 1 .. Len(done') : done'[k] = done[k + 1]
      BY <2>3
    <2>5. ASSUME NEW s \in Strategies, worker[s] = "ended"
          PROVE  s \in reported' \/ \E k \in 1 .. Len(done') : done'[k] = s
      <3>1. CASE s \in reported
        BY <2>1, <3>1
      <3>2. ASSUME NEW k \in 1 .. Len(done), done[k] = s
            PROVE  s \in reported' \/ \E j \in 1 .. Len(done') : done'[j] = s
        <4>1. CASE k = 1
          BY <2>1, <2>4, <3>2, <4>1
        <4>2. CASE k # 1
          <5>1. k - 1 \in 1 .. Len(done') /\ done'[k - 1] = s
            BY <2>4, <3>2, <4>2
          <5> QED  BY <5>1
        <4> QED  BY <4>1, <4>2
      <3> QED  BY <2>1, <2>5, <3>1, <3>2 DEF ResultsArrive
    <2> QED  BY <2>1, <2>2, <2>5 DEF ResultsArrive
  <1>5. CASE CloseLines \/ Return \/ UNCHANGED vars
    BY <1>5 DEF CloseLines, Return, vars, ResultsArrive
  <1> QED  BY <1>1, <1>2, <1>3, <1>4, <1>5 DEF Next, ProcessStep

\* The results on their way are of different workers, none of which still runs.
LEMMA DoneHasRoom ==
    ASSUME IInv, NEW s \in Strategies, worker[s] # "ended"
    PROVE  Len(done) < Room
  <1> DEFINE Others == Strategies \ {s}
  <1>1. Len(done) \in Nat /\ done \in [1 .. Len(done) -> Strategies]
    BY DEF IInv, TypeOK
  <1>2. done \in Injection(1 .. Len(done), Others)
    <2>1. \A k \in 1 .. Len(done) : done[k] \in Others
      BY <1>1 DEF IInv, ResultsAreFresh
    <2>2. done \in [1 .. Len(done) -> Others]
      BY <1>1, <2>1
    <2>3. \A j, k \in 1 .. Len(done) : done[j] = done[k] => j = k
      BY DEF IInv, ResultsAreFresh
    <2> QED  BY <2>2, <2>3 DEF Injection, IsInjective
  <1>3. IsFiniteSet(Others) /\ Cardinality(Others) = Cardinality(Strategies) - 1
        /\ Cardinality(Strategies) \in Nat
    BY StrategiesAssumption, FS_RemoveElement, FS_CardinalityType
  <1>4. Cardinality(1 .. Len(done)) = Len(done)
    BY <1>1, FS_Interval
  <1>5. Cardinality(1 .. Len(done)) <= Cardinality(Others)
    BY <1>2, <1>3, FS_Injection
  <1> QED  BY <1>1, <1>3, <1>4, <1>5 DEF Room

(***************************************************************************)
(* For any number of strategies the workers, the printer and Process never *)
(* all wait for each other: the channel done (process.go:79) has room for  *)
(* every result, and the printer receives until the last worker has ended. *)
(***************************************************************************)
THEOREM NeverDeadlocks == Spec => []SomeoneCanRun
  <1>1. Init => ResultsArrive
    BY StrategiesAssumption DEF Init, ResultsArrive
  <1>2. ASSUME IInv, ResultsArrive, ~SomeoneCanRun
        PROVE  FALSE
    <2>1. \A s \in Strategies : worker[s] = "ended" \/ WorkerWaits(s)
      BY <1>2 DEF SomeoneCanRun
    <2>2. printer = "ended" \/ (printer = "receiving" /\ ~closed)
      BY <1>2 DEF SomeoneCanRun, PrinterWaits
    <2>3. HasReturned \/ ProcessWaits
      BY <1>2 DEF SomeoneCanRun
    <2>4. ASSUME NEW s \in Strategies
          PROVE  worker[s] = "ended"
      <3>1. SUFFICES ASSUME worker[s] # "ended"
                     PROVE  FALSE
        OBVIOUS
      <3>2. Len(done) # Room
        <4>1. Len(done) < Room /\ Room \in Nat /\ Len(done) \in Nat
          <5>1. Len(done) < Room
            BY <1>2, <3>1, DoneHasRoom
          <5>2. Room \in Nat
            BY StrategiesAssumption, FS_CardinalityType DEF Room
          <5>3. done \in Seq(Strategies)
            BY <1>2 DEF IInv, TypeOK
          <5> QED  BY <5>1, <5>2, <5>3
        <4> QED  BY <4>1
      <3>3. printer = "ended"
        BY <2>1, <2>2, <3>1, <3>2 DEF WorkerWaits
      <3> QED  BY <1>2, <3>1, <3>3 DEF IInv, EndInOrder, LoopIsComplete, ReceivedIsCounted
    <2>5. ~HasReturned
      BY <1>2, <2>4 DEF SomeoneCanRun
    <2>6. CASE process = "receiving" /\ done = <<>>
      <3>1. Strategies \subseteq reported
        BY <1>2, <2>4, <2>6 DEF ResultsArrive
      <3> QED  BY <1>2, <2>6, <3>1 DEF IInv, TypeOK, ResultsArrive
    <2>7. CASE process = "waiting" /\ printer # "ended"
      BY <1>2, <2>2, <2>7 DEF ResultsArrive
    <2> QED  BY <2>3, <2>5, <2>6, <2>7 DEF ProcessWaits
  <1>3. IInv /\ ResultsArrive => SomeoneCanRun
    BY <1>2
  <1>4. IInv /\ IInv' /\ ResultsArrive /\ [Next]_vars => ResultsArrive'
    BY ArriveStep
  <1> QED  BY Invariance, <1>1, <1>3, <1>4, PTL DEF Spec

------------------------------------------------------------------------------
(* Induction and recursion *)

(***************************************************************************)
(* The least-number principle, from the well-founded order of the finite   *)
(* sets below the numbers; it stands for every induction of this module.   *)
(***************************************************************************)
LEMMA LeastNumber ==
  ASSUME NEW S, S \subseteq Nat, S # {}
  PROVE  \E n \in S : \A m \in S : n <= m
<1> DEFINE Segments == {0 .. n : n \in S}
<1>1. IsWellFoundedOn(StrictSubsetOrdering(Nat), FiniteSubsetsOf(Nat))
  BY FS_StrictSubsetOrderingWellFounded, Zenon
<1>2. Segments \subseteq FiniteSubsetsOf(Nat)
  <2>1. ASSUME NEW n \in Nat
        PROVE  0 .. n \subseteq Nat /\ IsFiniteSet(0 .. n)
    BY FS_Interval
  <2> QED BY <2>1 DEF FiniteSubsetsOf
<1>3. PICK x \in Segments : \A y \in Segments : ~ (<<y, x>> \in StrictSubsetOrdering(Nat))
  <2>1. Segments # {}
    OBVIOUS
  <2> HIDE DEF Segments
  <2> QED BY <1>1, <1>2, <2>1, WFMin, Zenon
<1>4. PICK n \in S : x = 0 .. n
  OBVIOUS
<1>5. ASSUME NEW m \in S, m < n
      PROVE  FALSE
  <2>1. 0 .. m \in Segments
    OBVIOUS
  <2>2. <<0 .. m, 0 .. n>> \in StrictSubsetOrdering(Nat)
    BY <1>5 DEF StrictSubsetOrdering
  <2> QED BY <2>1, <2>2, <1>3, <1>4
<1> QED BY <1>5

(***************************************************************************)
(* A function on the numbers may be defined by recursion.                  *)
(***************************************************************************)
LEMMA RecursionDefines ==
  ASSUME NEW S, NEW start \in S, NEW step \in [S -> S]
  PROVE  \E f \in [Nat -> S] : \A n \in Nat : f[n] = IF n = 0 THEN start ELSE step[f[n - 1]]
<1> DEFINE Upto(n) == {g \in [0 .. n -> S] :
                        \A i \in 0 .. n : g[i] = IF i = 0 THEN start ELSE step[g[i - 1]]}
           Without == {n \in Nat : Upto(n) = {}}
           some == [n \in Nat |-> CHOOSE g \in Upto(n) : TRUE]
           f == [n \in Nat |-> some[n][n]]
<1>1. Without = {}
  <2>1. ASSUME NEW n \in Without, \A m \in Without : n <= m
        PROVE  FALSE
    <3>1. n # 0
      <4>1. [i \in 0 .. 0 |-> start] \in Upto(0)
        OBVIOUS
      <4> QED BY <4>1
    <3>2. PICK g : g \in Upto(n - 1)
      <4>1. n - 1 \in Nat /\ ~ (n <= n - 1)
        BY <3>1
      <4>2. n - 1 \notin Without
        <5> HIDE DEF Without
        <5> QED BY <2>1, <4>1
      <4> QED BY <4>1, <4>2
    <3>3. [i \in 0 .. n |-> IF i = n THEN step[g[n - 1]] ELSE g[i]] \in Upto(n)
      <4> DEFINE h == [i \in 0 .. n |-> IF i = n THEN step[g[n - 1]] ELSE g[i]]
      <4>1. h \in [0 .. n -> S]
        BY <3>1, <3>2
      <4>2. ASSUME NEW i \in 0 .. n
            PROVE  h[i] = IF i = 0 THEN start ELSE step[h[i - 1]]
        <5>1. CASE i = n
          BY <3>1, <5>1
        <5>2. CASE i < n
          <6>1. h[i] = g[i] /\ i \in 0 .. n - 1
            BY <5>2
          <6>2. i # 0 => h[i - 1] = g[i - 1]
            BY <5>2
          <6> QED BY <3>2, <6>1, <6>2
        <5> QED BY <5>1, <5>2
      <4> HIDE DEF h
      <4> QED BY <4>1, <4>2
    <3> QED BY <3>3
  <2>2. Without \subseteq Nat
    OBVIOUS
  <2> HIDE DEF Without
  <2> QED BY <2>1, <2>2, LeastNumber
<1>2. ASSUME NEW n \in Nat
      PROVE  some[n] \in Upto(n)
  BY <1>1
<1> HIDE DEF some
<1>3. ASSUME NEW n \in Nat, NEW g \in Upto(n), NEW h \in Upto(n + 1)
      PROVE  g[n] = h[n]
  <2> DEFINE Apart == {i \in 0 .. n : g[i] # h[i]}
  <2>1. ASSUME NEW i \in Apart, \A j \in Apart : i <= j
        PROVE  FALSE
    <3>1. i # 0 => g[i - 1] = h[i - 1]
      <4>1. i # 0 => i - 1 \in 0 .. n /\ ~ (i <= i - 1)
        OBVIOUS
      <4> QED BY <2>1, <4>1
    <3>2. /\ g[i] = IF i = 0 THEN start ELSE step[g[i - 1]]
          /\ h[i] = IF i = 0 THEN start ELSE step[h[i - 1]]
      OBVIOUS
    <3> QED BY <3>1, <3>2
  <2>2. Apart \subseteq Nat
    OBVIOUS
  <2>3. Apart = {}
    <3> HIDE DEF Apart
    <3> QED BY <2>1, <2>2, LeastNumber
  <2> QED BY <2>3
<1>4. f \in [Nat -> S]
  BY <1>2
<1>5. ASSUME NEW n \in Nat
      PROVE  f[n] = IF n = 0 THEN start ELSE step[f[n - 1]]
  <2>1. n # 0 => n - 1 \in Nat /\ n = (n - 1) + 1
    OBVIOUS
  <2>2. n # 0 => some[n - 1][n - 1] = some[n][n - 1]
    <3> HIDE DEF Upto
    <3> QED BY <1>2, <1>3, <2>1
  <2>3. some[n][n] = IF n = 0 THEN start ELSE step[some[n][n - 1]]
    <3>1. ASSUME NEW g \in Upto(n)
          PROVE  g[n] = IF n = 0 THEN start ELSE step[g[n - 1]]
      OBVIOUS
    <3> HIDE DEF Upto
    <3> QED BY <1>2, <3>1
  <2>4. f[n] = some[n][n] /\ (n # 0 => f[n - 1] = some[n - 1][n - 1])
    BY <2>1
  <2> QED BY <2>2, <2>3, <2>4
<1> QED
  <2> HIDE DEF f
  <2> QED BY <1>4, <1>5

\* The function iterates the step.
Iterates(f, start, step) ==
    \A n \in Nat : f[n] = IF n = 0 THEN start ELSE step[f[n - 1]]

\* Every step function on a set can be iterated from any start in it.
LEMMA IteratesExist ==
  ASSUME NEW S, NEW start \in S, NEW step \in [S -> S]
  PROVE  \E f \in [Nat -> S] : Iterates(f, start, step)
BY RecursionDefines DEF Iterates

------------------------------------------------------------------------------
(* Numbers *)

(***************************************************************************)
(* First is the least of a set of numbers.                                 *)
(***************************************************************************)
LEMMA FirstIsLeast ==
  ASSUME NEW S, S \subseteq Nat, S # {}
  PROVE  First(S) \in S /\ \A n \in S : First(S) <= n
  BY LeastNumber DEF First

(***************************************************************************)
(* An int is not changed by wrapping.                                      *)
(***************************************************************************)
LEMMA WrapInt ==
  ASSUME NEW k \in Ints
  PROVE  Wrap(k) = k
  BY MaxIntAssumption DEF Wrap, Ints

(***************************************************************************)
(* The remainder is zero exactly for multiples.                            *)
(***************************************************************************)
LEMMA RemainderOfMultiple ==
  ASSUME NEW k \in Int, NEW d \in Nat \ {0}
  PROVE  k % d = 0 <=> \E q \in Int : q * d = k
<1> DEFINE p == k \div d
           r == k % d
<1>1. k = d * p + r
  OBVIOUS
<1>2. r \in 0 .. d - 1 /\ p \in Int
  OBVIOUS
<1> HIDE DEF p, r
<1>3. ASSUME NEW q \in Int, q * d = k
      PROVE  r = 0
  <2>1. r = (q - p) * d
    BY <1>1, <1>2, <1>3
  <2>2. q - p >= 1 => r >= d
    BY <1>2, <2>1
  <2>3. q - p <= -1 => r < 0
    BY <1>2, <2>1
  <2>4. q - p = 0
    BY <1>2, <2>2, <2>3
  <2> QED BY <2>1, <2>4
<1>4. r = 0 => p * d = k
  BY <1>1, <1>2
<1> QED BY <1>2, <1>3, <1>4 DEF r

------------------------------------------------------------------------------
(* The next prime number *)

(***************************************************************************)
(* A number of which the trial division finds no divisor is a prime, even  *)
(* if squares overflow.                                                    *)
(***************************************************************************)
LEMMA FoundIsPrime ==
  ASSUME NEW k \in 2 .. MaxInt, IsPrime(k)
  PROVE  k \in Primes
<1>1. PICK stop \in 2 .. k :
        Wrap(stop * stop) > k /\ \A d \in 2 .. stop - 1 : Wrap(d * d) <= k /\ k % d # 0
  BY MaxIntAssumption DEF IsPrime
<1>2. ASSUME NEW d \in 2 .. k, NEW q \in 2 .. k, q * d = k, d <= q
      PROVE  FALSE
  <2>1. d * d <= k
    BY <1>2
  <2>2. ASSUME stop <= d
        PROVE  FALSE
    <3>1. stop * stop <= d * d /\ stop * stop \in Nat
      BY <2>2
    <3>2. stop * stop \in Ints
      BY <2>1, <3>1, MaxIntAssumption DEF Ints
    <3> QED BY <1>1, <2>1, <3>1, <3>2, WrapInt
  <2>3. k % d # 0
    BY <1>1, <2>2
  <2>4. k \in Int /\ d \in Nat \ {0} /\ q \in Int
    OBVIOUS
  <2> QED BY <1>2, <2>3, <2>4, RemainderOfMultiple
<1>3. ASSUME NEW d \in 2 .. k - 1, NEW q \in 2 .. k, q * d = k
      PROVE  FALSE
  <2>1. CASE d <= q
    BY <1>2, <1>3, <2>1
  <2>2. CASE q <= d
    <3>1. d * q = k
      BY <1>3
    <3> QED BY <1>2, <2>2, <3>1
  <2> QED BY <2>1, <2>2
<1> QED BY <1>3 DEF Primes

(***************************************************************************)
(* The trial division finds no divisor of a prime, if an int holds a       *)
(* square beyond it.                                                       *)
(***************************************************************************)
LEMMA PrimeIsFound ==
  ASSUME NEW k \in Primes, NEW r \in Nat, k < r * r, r * r <= MaxInt
  PROVE  IsPrime(k)
<1> DEFINE Beyond == {s \in Nat : s >= 2 /\ s * s > k}
           stop == First(Beyond)
<1>1. k \in 2 .. MaxInt /\ \A d \in 2 .. k - 1 : \A q \in 2 .. k : q * d # k
  BY DEF Primes
<1>2. r >= 2
  <2>1. r = 0 \/ r = 1 => r * r <= 1
    OBVIOUS
  <2> QED BY <1>1, <2>1
<1>3. k \in Beyond /\ r \in Beyond
  <2>1. k * k > k
    BY <1>1
  <2> QED BY <1>1, <1>2, <2>1
<1>4. stop \in Nat /\ stop >= 2 /\ stop * stop > k /\ \A s \in Beyond : stop <= s
  <2>1. Beyond \subseteq Nat /\ Beyond # {}
    BY <1>3
  <2>2. stop \in Beyond /\ \A s \in Beyond : stop <= s
    <3> HIDE DEF Beyond
    <3> QED BY <2>1, FirstIsLeast
  <2> QED BY <2>2
<1> HIDE DEF stop
<1>5. stop \in 2 .. k /\ stop <= r
  BY <1>1, <1>3, <1>4
<1>6. Wrap(stop * stop) > k
  <2>1. stop * stop <= r * r /\ stop * stop \in Nat
    BY <1>5
  <2>2. stop * stop \in Ints
    BY <2>1, MaxIntAssumption DEF Ints
  <2> QED BY <1>4, <2>2, WrapInt
<1>7. ASSUME NEW d \in 2 .. stop - 1
      PROVE  Wrap(d * d) <= k /\ k % d # 0
  <2>1. d * d <= k /\ d * d \in Nat
    <3>1. d \notin Beyond
      BY <1>4, <1>5
    <3> QED BY <1>1, <1>5, <3>1
  <2>2. d * d \in Ints
    BY <1>1, <2>1, MaxIntAssumption DEF Ints
  <2>3. ASSUME NEW q \in Int, q * d = k
        PROVE  FALSE
    <3>1. q >= 2
      <4>1. q <= 0 => q * d <= 0
        BY <1>5
      <4>2. q = 1 => k = d
        BY <1>5, <2>3
      <4> QED BY <1>1, <1>5, <2>3, <4>1, <4>2
    <3>2. q <= q * d
      BY <1>5, <3>1
    <3>3. d \in 2 .. k - 1 /\ q \in 2 .. k
      BY <1>1, <1>5, <2>3, <3>1, <3>2
    <3> QED BY <1>1, <2>3, <3>3
  <2> QED BY <1>1, <1>5, <2>1, <2>2, <2>3, WrapInt, RemainderOfMultiple
<1>8. k >= 2
  BY <1>1
<1> QED BY <1>5, <1>6, <1>7, <1>8 DEF IsPrime

(***************************************************************************)
(* Strategy1 returns the next prime number, for every width of an int that *)
(* holds it and the square that ends its trial division.                   *)
(***************************************************************************)
LEMMA Strategy1FindsNextPrime ==
  ASSUME NEW str \in Ints, NEW a \in 1 .. MaxInt, HasNextPrime(str)
  PROVE  NextPrime(str, a)
<1> SUFFICES ASSUME str > a
             PROVE  /\ Strategy1(str, a) > str
                    /\ Strategy1(str, a) \in Primes
                    /\ \A q \in Primes : q > str => Strategy1(str, a) <= q
  BY DEF NextPrime
<1> DEFINE Found == {p \in str + 1 .. MaxInt : IsPrime(p)}
           first == First(Found)
<1>1. PICK p \in Primes, r \in 0 .. str + 1 : p > str /\ p < r * r /\ r * r <= MaxInt
  BY DEF HasNextPrime
<1>2. str \in Nat /\ Primes \subseteq 2 .. MaxInt
  BY DEF Ints, Primes
<1>3. ASSUME NEW q \in Primes, q > str, q <= p
      PROVE  q \in Found
  <2>1. q < r * r /\ r \in Nat
    BY <1>1, <1>2, <1>3
  <2> QED BY <1>1, <1>2, <1>3, <2>1, PrimeIsFound
<1>4. Found \subseteq Nat /\ p \in Found
  BY <1>1, <1>2, <1>3
<1>5. first \in Found /\ \A q \in Found : first <= q
  <2> HIDE DEF Found
  <2> QED BY <1>4, FirstIsLeast
<1>6. Strategy1(str, a) = first
  <2>1. Found # {} /\ ~(str <= a)
    BY <1>2, <1>4
  <2> QED BY <2>1 DEF Strategy1
<1>7. first \in Primes /\ first > str
  <2>1. first \in str + 1 .. MaxInt /\ IsPrime(first)
    BY <1>5
  <2> HIDE DEF first
  <2>2. first \in 2 .. MaxInt
    BY <1>2, <2>1
  <2> QED BY <1>2, <2>1, <2>2, FoundIsPrime
<1>8. ASSUME NEW q \in Primes, q > str
      PROVE  first <= q
  <2>1. first <= p /\ first \in Nat
    BY <1>4, <1>5
  <2>2. q <= p => first <= q
    BY <1>3, <1>5, <1>8
  <2> HIDE DEF first
  <2> QED BY <1>2, <2>1, <2>2
<1> QED BY <1>6, <1>7, <1>8

------------------------------------------------------------------------------
(* Divisibility *)

(***************************************************************************)
(* Strategy2 tells the multiples of a.                                     *)
(***************************************************************************)
LEMMA Strategy2TellsMultiples ==
  ASSUME NEW str \in Ints, NEW a \in 1 .. MaxInt
  PROVE  Multiple(str, a)
<1>1. ASSUME NEW q \in Int, q * a = str
      PROVE  q \in Ints
  <2>1. q >= 0 => q <= q * a
    OBVIOUS
  <2>2. q <= 0 => q >= q * a
    OBVIOUS
  <2> QED BY <1>1, <2>1, <2>2, MaxIntAssumption DEF Ints
<1>2. str % a = 0 <=> \E q \in Int : q * a = str
  <2>1. str \in Int /\ a \in Nat \ {0}
    BY MaxIntAssumption DEF Ints
  <2> QED BY <2>1, RemainderOfMultiple
<1>3. Strategy2(str, a) = 1 <=> str % a = 0
  BY DEF Strategy2
<1>4. Ints \subseteq Int
  BY DEF Ints
<1> QED BY <1>1, <1>2, <1>3, <1>4 DEF Multiple

------------------------------------------------------------------------------
(* Right triangles *)

(***************************************************************************)
(* No right triangle has two equal legs: the root of two is irrational.    *)
(***************************************************************************)
LEMMA LegsDiffer ==
  ASSUME NEW x \in Nat \ {0}, NEW c \in Nat
  PROVE  2 * x * x # c * c
<1> DEFINE Roots == {n \in Nat : \E m \in Nat : n > 0 /\ 2 * n * n = m * m}
<1>1. ASSUME NEW n \in Roots
      PROVE  \E k \in Roots : k < n
  <2>1. PICK m \in Nat : n > 0 /\ 2 * n * n = m * m
    OBVIOUS
  <2>2. PICK h \in Nat : m = 2 * h \/ m = 2 * h + 1
    <3>1. m = 2 * (m \div 2) \/ m = 2 * (m \div 2) + 1
      OBVIOUS
    <3> QED BY <3>1
  <2>3. m = 2 * h
    <3>1. (2 * h + 1) * (2 * h + 1) = 2 * (2 * h * h + 2 * h) + 1
      OBVIOUS
    <3>2. 2 * n * n = 2 * (n * n) /\ n * n \in Nat /\ 2 * h * h + 2 * h \in Nat
      OBVIOUS
    <3> QED BY <2>1, <2>2, <3>1, <3>2
  <2>4. 2 * h * h = n * n
    <3>1. m * m = 2 * (2 * h * h) /\ 2 * n * n = 2 * (n * n) /\ 2 * h * h \in Nat /\ n * n \in Nat
      BY <2>3
    <3> QED BY <2>1, <3>1
  <2>5. h > 0
    <3>1. n * n > 0
      BY <2>1
    <3> QED BY <2>4, <3>1
  <2>6. h < n
    <3>1. h >= n => 2 * h * h > n * n
      <4>1. h >= n => h * h >= n * n
        OBVIOUS
      <4>2. 2 * h * h = h * h + h * h /\ h * h > 0 /\ h * h \in Nat /\ n * n \in Nat
        BY <2>5
      <4> QED BY <4>1, <4>2
    <3> QED BY <2>4, <3>1
  <2> QED BY <2>4, <2>5, <2>6
<1>2. Roots = {}
  <2>1. Roots \subseteq Nat
    OBVIOUS
  <2>2. \A n \in Roots : \E k \in Roots : ~ (n <= k)
    <3>1. \A n, k \in Roots : k < n => ~ (n <= k)
      OBVIOUS
    <3> QED BY <1>1, <3>1
  <2> HIDE DEF Roots
  <2> QED BY <2>1, <2>2, LeastNumber
<1>3. ASSUME 2 * x * x = c * c
      PROVE  x \in Roots
  BY <1>3
<1> QED BY <1>2, <1>3

(***************************************************************************)
(* Whatever the width of an int, Strategy4 returns legs when there are any *)
(* and <<0, 0>> otherwise, if an int holds the squares.                    *)
(***************************************************************************)
LEMMA Strategy4FindsLegs ==
  ASSUME NEW str \in Ints, NEW a, HoldsSquares(str)
  PROVE  PythagoreanTriple(str, a)
<1> DEFINE c == IF str < 0 THEN -str ELSE str
           c2 == Wrap(str * str)
           Stops == {x \in 1 .. MaxInt : Wrap(2 * x * x) >= c2 \/ IsLeg(x, c2)}
           x0 == First(Stops)
           y0 == CHOOSE y \in 0 .. MaxInt : y * y = Wrap(c2 - x0 * x0)
<1>1. c \in Nat /\ c * c = str * str /\ str * str <= MaxInt
  BY DEF Ints, HoldsSquares
<1>2. c2 = c * c /\ c2 \in Nat
  <2>1. str * str \in Ints
    BY <1>1, MaxIntAssumption DEF Ints
  <2> QED BY <1>1, <2>1, WrapInt
<1>3. Triples(str) = {t \in (1 .. c) \X (1 .. c) : t[1] * t[1] + t[2] * t[2] = c * c}
  BY <1>1 DEF Triples
<1>4. Strategy4(str, a) =
        CASE Stops = {} -> <<>>
          [] Stops # {} /\ Wrap(2 * x0 * x0) >= c2 -> <<0, 0>>
          [] OTHER -> <<x0, y0>>
  BY DEF Strategy4, PythagoreanLegs
<1>5. Stops # {} => x0 \in Stops /\ \A x \in Stops : x0 <= x
  <2>1. Stops \subseteq Nat
    OBVIOUS
  <2> HIDE DEF Stops
  <2> QED BY <2>1, FirstIsLeast
<1> HIDE DEF c, c2, x0, y0, Stops
<1>6. ASSUME NEW x \in 1 .. MaxInt, 2 * x * x <= MaxInt
      PROVE  Wrap(2 * x * x) = 2 * x * x
  <2>1. 2 * x * x \in Nat
    OBVIOUS
  <2>2. 2 * x * x \in Ints
    BY <1>6, <2>1, MaxIntAssumption DEF Ints
  <2> QED BY <2>2, WrapInt
<1>7. ASSUME NEW x \in 1 .. MaxInt, 2 * x * x < c2
      PROVE  Wrap(c2 - x * x) = c * c - x * x /\ c * c - x * x > 0
  <2>1. x * x > 0 /\ 2 * x * x = x * x + x * x /\ x * x \in Nat /\ c * c \in Nat
    BY <1>1
  <2>2. c * c - x * x > 0
    BY <1>2, <1>7, <2>1
  <2>3. c2 - x * x \in Ints
    BY <1>1, <1>2, <2>1, <2>2, MaxIntAssumption DEF Ints
  <2> QED BY <1>2, <2>2, <2>3, WrapInt
\* Where the search stops before 2 * x * x passes the square, there are legs.
<1>8. ASSUME Stops # {}, 2 * x0 * x0 < c2, 2 * x0 * x0 <= MaxInt
      PROVE  Strategy4(str, a) \in Triples(str)
  <2>1. x0 \in 1 .. MaxInt /\ (Wrap(2 * x0 * x0) >= c2 \/ IsLeg(x0, c2))
    BY <1>5, <1>8 DEF Stops
  <2>2. Wrap(2 * x0 * x0) < c2 /\ IsLeg(x0, c2)
    <3>1. Wrap(2 * x0 * x0) = 2 * x0 * x0 /\ 2 * x0 * x0 \in Nat
      BY <1>6, <1>8, <2>1
    <3> QED BY <1>2, <1>8, <2>1, <3>1
  <2>3. y0 \in 0 .. MaxInt /\ y0 * y0 = Wrap(c2 - x0 * x0)
    BY <2>2 DEF IsLeg, y0
  <2>4. y0 * y0 = c * c - x0 * x0 /\ y0 * y0 > 0
    BY <1>7, <1>8, <2>1, <2>3
  <2>5. x0 \in 1 .. c /\ y0 \in 1 .. c
    <3>1. y0 >= 1
      BY <2>3, <2>4
    <3>2. x0 > c => x0 * x0 > c * c
      BY <1>1, <2>1
    <3>3. y0 > c => y0 * y0 > c * c
      BY <1>1, <2>3
    <3>4. x0 * x0 \in Nat /\ c * c \in Nat /\ x0 * x0 > 0 /\ y0 * y0 \in Nat
      BY <1>1, <2>1, <2>3
    <3> QED BY <1>1, <2>1, <2>3, <2>4, <3>1, <3>2, <3>3, <3>4
  <2>6. <<x0, y0>> \in Triples(str)
    <3>1. x0 * x0 + y0 * y0 = c * c
      <4>1. x0 * x0 \in Nat /\ c * c \in Nat /\ y0 * y0 \in Nat
        BY <1>1, <2>1, <2>3
      <4> QED BY <2>4, <4>1
    <3> QED BY <1>3, <2>5, <3>1
  <2>7. Strategy4(str, a) = <<x0, y0>>
    <3>1. ~ (Wrap(2 * x0 * x0) >= c2)
      <4>1. Wrap(2 * x0 * x0) = 2 * x0 * x0 /\ 2 * x0 * x0 \in Nat
        BY <1>6, <1>8, <2>1
      <4> QED BY <1>2, <1>8, <4>1
    <3> QED BY <1>4, <1>8, <3>1
  <2> QED BY <2>6, <2>7
<1>9. CASE Triples(str) # {}
  <2>1. PICK x \in 1 .. c, y \in 1 .. c : x * x + y * y = c * c /\ x < y
    <3>1. PICK u \in 1 .. c, v \in 1 .. c : u * u + v * v = c * c
      BY <1>3, <1>9
    <3>2. u # v
      <4>1. u = v => 2 * u * u = c * c
        BY <1>1, <3>1
      <4> QED BY <1>1, <4>1, LegsDiffer
    <3>3. v * v + u * u = c * c
      BY <1>1, <3>1
    <3> QED BY <3>1, <3>2, <3>3
  <2>2. /\ x \in Nat /\ x >= 1 /\ y \in Nat /\ x <= c
        /\ x * x \in Nat /\ y * y \in Nat /\ c * c \in Nat /\ x <= x * x
        /\ 2 * x * x = x * x + x * x
    BY <1>1
  <2>3. x * x < y * y
    BY <2>1, <2>2
  <2>4. 2 * x * x < c2 /\ c2 <= MaxInt
    BY <1>1, <1>2, <2>1, <2>2, <2>3
  <2>5. x \in 1 .. MaxInt /\ y \in 0 .. MaxInt
    <3>1. y <= y * y
      BY <2>2
    <3> QED BY <1>1, <2>1, <2>2, <3>1, MaxIntAssumption
  <2>6. x \in Stops
    <3>1. y * y = Wrap(c2 - x * x)
      BY <1>7, <2>1, <2>2, <2>4, <2>5
    <3> QED BY <2>5, <3>1 DEF Stops, IsLeg
  <2>7. x0 \in 1 .. MaxInt /\ x0 <= x
    BY <1>5, <2>6 DEF Stops
  <2>8. 2 * x0 * x0 <= 2 * x * x /\ 2 * x0 * x0 \in Nat
    <3>1. x0 * x0 <= x * x
      BY <2>2, <2>7
    <3>2. 2 * x0 * x0 = x0 * x0 + x0 * x0 /\ x0 * x0 \in Nat
      BY <2>7
    <3> QED BY <2>2, <3>1, <3>2
  <2>9. 2 * x0 * x0 < c2 /\ 2 * x0 * x0 <= MaxInt
    BY <1>2, <2>2, <2>4, <2>8, MaxIntAssumption
  <2> QED BY <1>8, <1>9, <2>6, <2>9 DEF PythagoreanTriple
<1>10. CASE Triples(str) = {}
  <2>1. PICK e \in 1 .. MaxInt : str * str <= 2 * e * e /\ 2 * e * e <= MaxInt
    BY <1>10 DEF HoldsSquares
  <2>2. e \in Stops
    BY <1>1, <1>2, <1>6, <2>1 DEF Stops
  <2>3. x0 \in 1 .. MaxInt /\ x0 <= e
    BY <1>5, <2>2 DEF Stops
  <2>4. 2 * x0 * x0 <= 2 * e * e /\ 2 * x0 * x0 \in Nat /\ 2 * e * e \in Nat
    <3>1. x0 * x0 <= e * e
      BY <2>3
    <3>2. 2 * x0 * x0 = x0 * x0 + x0 * x0 /\ 2 * e * e = e * e + e * e
      BY <2>3
    <3>3. x0 * x0 \in Nat /\ e * e \in Nat
      BY <2>3
    <3> QED BY <3>1, <3>2, <3>3
  <2>5. 2 * x0 * x0 <= MaxInt
    BY <2>1, <2>4, MaxIntAssumption
  <2>6. ~ (2 * x0 * x0 < c2)
    BY <1>8, <1>10, <2>2, <2>5
  <2>7. Wrap(2 * x0 * x0) >= c2
    BY <1>2, <1>6, <2>3, <2>4, <2>5, <2>6
  <2> QED BY <1>4, <1>10, <2>2, <2>7 DEF PythagoreanTriple
<1> QED BY <1>9, <1>10

------------------------------------------------------------------------------
(* The next Fibonacci number *)

\* What sets a Fibonacci number and its predecessor apart from other pairs.
Norm(g, l) == g * g - g * l - l * l

FibPair(g, l) == g \in Nat /\ l \in Nat /\ l <= g /\ (Norm(g, l) = 1 \/ Norm(g, l) = -1)

(***************************************************************************)
(* If one of two such pairs has the smaller greater part, its smaller part *)
(* is smaller, too.                                                        *)
(***************************************************************************)
LEMMA PairsAreOrdered ==
  ASSUME NEW x, NEW y, NEW g, NEW l, FibPair(x, y), FibPair(g, l), y < g, g < x
  PROVE  l < y
<1> SUFFICES ASSUME l >= y PROVE FALSE
  BY DEF FibPair
<1>1. x \in Nat /\ y \in Nat /\ g \in Nat /\ l \in Nat /\ l <= g
  BY DEF FibPair
<1>2. Norm(g, l) <= g * g - g * y - y * y
  <2>1. g * l >= g * y /\ l * l >= y * y
    BY <1>1
  <2>2. g * l \in Int /\ g * y \in Int /\ l * l \in Int /\ y * y \in Int /\ g * g \in Int
    BY <1>1
  <2> QED BY <2>1, <2>2 DEF Norm
<1>3. g * g - g * y - y * y <= Norm(x, y) - (2 * x - 1 - y)
  <2> DEFINE d == x - g
  <2>1. d \in Nat /\ d >= 1 /\ x = g + d
    BY <1>1
  <2> HIDE DEF d
  <2>2. x * x = g * g + 2 * (g * d) + d * d /\ x * y = g * y + d * y
    BY <1>1, <2>1
  <2>3. Norm(x, y) - (g * g - g * y - y * y) = 2 * (g * d) + d * d - d * y
    BY <1>1, <2>1, <2>2 DEF Norm
  <2>4. 2 * (g * d) + d * d - d * y = d * (2 * g + d - y)
    BY <1>1, <2>1
  <2>5. d * (2 * g + d - y) >= 2 * g + d - y + (d - 1)
    <3> DEFINE e == 2 * g + d - y
    <3>1. e \in Nat /\ e >= 1
      BY <1>1, <2>1
    <3> HIDE DEF e
    <3>2. d * e = e + (d - 1) * e /\ (d - 1) * e >= d - 1
      BY <2>1, <3>1
    <3> QED BY <2>1, <3>1, <3>2 DEF e
  <2>6. Norm(x, y) \in Int /\ g * g - g * y - y * y \in Int
    BY <1>1 DEF Norm
  <2> QED BY <1>1, <2>1, <2>3, <2>4, <2>5, <2>6
<1>4. Norm(x, y) <= 1 /\ Norm(g, l) >= -1 /\ Norm(x, y) \in Int /\ Norm(g, l) \in Int
  BY DEF FibPair
<1>5. 2 * x - 1 - y <= 2
  <2>1. g * g - g * y - y * y \in Int
    BY <1>1
  <2> QED BY <1>1, <1>2, <1>3, <1>4, <2>1
<1> QED BY <1>1, <1>5

(***************************************************************************)
(* A pair that comes before.                                               *)
(***************************************************************************)
LEMMA PairBefore ==
  ASSUME NEW g, NEW l, FibPair(g, l), l >= 1
  PROVE  FibPair(l, g - l)
<1>1. g \in Nat /\ l \in Nat /\ l <= g /\ g - l \in Nat
  BY DEF FibPair
<1>2. Norm(l, g - l) = -Norm(g, l)
  BY <1>1 DEF Norm
<1>3. g - l <= l
  <2> SUFFICES ASSUME g >= 2 * l + 1 PROVE FALSE
    BY <1>1
  <2> DEFINE d == g - (2 * l + 1)
  <2>1. d \in Nat /\ g = 2 * l + 1 + d
    BY <1>1
  <2> HIDE DEF d
  <2>2. Norm(g, l) = l * l + 3 * l + 1 + (3 * (l * d) + 2 * d + d * d)
    BY <1>1, <2>1 DEF Norm
  <2>3. l * l >= 1 /\ l * l \in Nat /\ l * d \in Nat /\ d * d \in Nat
    BY <1>1, <2>1
  <2>4. Norm(g, l) > 1
    BY <1>1, <2>1, <2>2, <2>3
  <2> QED BY <2>4 DEF FibPair
<1>4. Norm(g, l) = 1 \/ Norm(g, l) = -1
  BY DEF FibPair
<1> QED BY <1>1, <1>2, <1>3, <1>4 DEF FibPair

(***************************************************************************)
(* Between the two parts of a pair there is no greater part of another.    *)
(***************************************************************************)
LEMMA NoPairBetween ==
  ASSUME NEW x, NEW y, NEW g, NEW l, FibPair(x, y), FibPair(g, l)
  PROVE  ~ (y < g /\ g < x)
<1> DEFINE Fork(n, m, h, k) == FibPair(n, m) /\ FibPair(h, k) /\ m < h /\ h < n
           Forks == {n \in Nat : \E m, h, k \in Nat : Fork(n, m, h, k)}
<1>1. ASSUME NEW n \in Forks
      PROVE  \E m \in Forks : m < n
  <2>1. PICK m, h, k \in Nat : Fork(n, m, h, k)
    OBVIOUS
  <2>2. k < m
    BY <2>1, PairsAreOrdered
  <2>3. FibPair(m, n - m)
    BY <2>1, <2>2, PairBefore
  <2>4. n - m < k
    <3>1. FibPair(h, k) /\ FibPair(m, n - m) /\ k < m /\ m < h
      BY <2>1, <2>2, <2>3
    <3> QED BY <3>1, PairsAreOrdered
  <2>5. n - m \in Nat /\ h - k \in Nat
    BY <2>1 DEF FibPair
  <2>6. FibPair(k, h - k)
    BY <2>1, <2>4, <2>5, PairBefore
  <2>7. Fork(m, n - m, k, h - k)
    BY <2>2, <2>3, <2>4, <2>6
  <2> QED BY <2>1, <2>5, <2>7
<1>2. Forks = {}
  <2>1. \A n \in Forks : \E m \in Forks : ~ (n <= m)
    <3>1. \A n, m \in Forks : m < n => ~ (n <= m)
      OBVIOUS
    <3> QED BY <1>1, <3>1
  <2>2. Forks \subseteq Nat
    OBVIOUS
  <2> HIDE DEF Forks
  <2> QED BY <2>1, <2>2, LeastNumber
<1>3. x \in Nat /\ y \in Nat /\ g \in Nat /\ l \in Nat
  BY DEF FibPair
<1> QED BY <1>2, <1>3

(***************************************************************************)
(* The Fibonacci numbers of an int are the greater parts of the pairs.     *)
(***************************************************************************)
LEMMA FibonacciHasPair ==
  ASSUME NEW g \in Fibonaccis, g >= 1
  PROVE  \E l \in Nat : FibPair(g, l)
<1>1. g \in Nat /\ (IsSquare(5 * g * g + 4) \/ IsSquare(5 * g * g - 4))
  BY DEF Fibonaccis
<1>2. PICK r \in Nat, t \in {1, -1} : r * r = 5 * g * g + 4 * t
  BY <1>1 DEF IsSquare
<1>3. g <= r /\ r <= 3 * g
  <2>1. g * g >= 1 /\ g * g \in Nat /\ 5 * g * g = 5 * (g * g) /\ r * r \in Nat
    BY <1>1
  <2>2. r < g => r * r <= (g - 1) * (g - 1) /\ (g - 1) * (g - 1) = g * g - 2 * g + 1
    BY <1>1
  <2>3. r > 3 * g => r * r >= (3 * g + 1) * (3 * g + 1) /\ (3 * g + 1) * (3 * g + 1) = 9 * (g * g) + 6 * g + 1
    BY <1>1
  <2> QED BY <1>1, <1>2, <2>1, <2>2, <2>3
<1>4. PICK l \in Nat : r - g = 2 * l \/ r - g = 2 * l + 1
  <2>1. (r - g) \div 2 \in Nat
    BY <1>1, <1>3
  <2>2. r - g = 2 * ((r - g) \div 2) \/ r - g = 2 * ((r - g) \div 2) + 1
    BY <1>1, <1>3
  <2> QED BY <2>1, <2>2
<1>5. r = g + 2 * l
  <2> SUFFICES ASSUME r = g + 2 * l + 1 PROVE FALSE
    BY <1>1, <1>4
  <2>1. r * r = g * g + 4 * (g * l) + 2 * g + 4 * (l * l) + 4 * l + 1
    BY <1>1
  <2>2. g * g \in Int /\ g * l \in Int /\ l * l \in Int /\ 5 * g * g = 5 * (g * g)
    BY <1>1
  <2> QED BY <1>1, <1>2, <2>1, <2>2
<1>6. Norm(g, l) = -t
  <2>1. r * r = g * g + 4 * (g * l) + 4 * (l * l)
    BY <1>1, <1>5
  <2>2. g * g \in Int /\ g * l \in Int /\ l * l \in Int /\ 5 * g * g = 5 * (g * g)
    BY <1>1
  <2> QED BY <1>2, <2>1, <2>2 DEF Norm
<1>7. l <= g
  BY <1>1, <1>3, <1>5
<1> QED BY <1>1, <1>6, <1>7 DEF FibPair

\* The greater of such a pair passes the square test of Fibonaccis.
LEMMA PairIsFibonacci ==
  ASSUME NEW g \in 1 .. MaxInt, NEW l, FibPair(g, l)
  PROVE  g \in Fibonaccis
<1> DEFINE r == 2 * l + g
<1>1. g \in Nat /\ l \in Nat /\ l <= g /\ (Norm(g, l) = 1 \/ Norm(g, l) = -1)
  BY DEF FibPair
<1>2. r \in 0 .. 3 * MaxInt
  BY <1>1, MaxIntAssumption
<1>3. r * r = 5 * g * g - 4 * Norm(g, l)
  BY <1>1 DEF Norm
<1> HIDE DEF r
<1>4. IsSquare(5 * g * g + 4) \/ IsSquare(5 * g * g - 4)
  <2>1. CASE Norm(g, l) = 1
    BY <1>2, <1>3, <2>1 DEF IsSquare
  <2>2. CASE Norm(g, l) = -1
    <3>1. r * r = 5 * g * g + 4
      <4>1. 5 * g * g \in Int
        BY <1>1
      <4> QED BY <1>3, <2>2, <4>1
    <3> QED BY <1>2, <3>1 DEF IsSquare
  <2> QED BY <1>1, <2>1, <2>2
<1> QED BY <1>4 DEF Fibonaccis
(***************************************************************************)
(* What the loop of Strategy3 holds after a number of rounds.              *)
(***************************************************************************)
LEMMA FibLoopRounds ==
  ASSUME NEW str \in Int
  PROVE  /\ FibLoop(str, 0) = <<0, 1>>
         /\ \A n \in Nat : FibLoop(str, n + 1) = FibRound(str, FibLoop(str, n))
<1> DEFINE step == [p \in Int \X Int |-> FibRound(str, p)]
           Is(f) == f = [n \in Nat |-> IF n = 0 THEN <<0, 1>> ELSE FibRound(str, f[n - 1])]
           loop == CHOOSE f : Is(f)
<1>1. step \in [Int \X Int -> Int \X Int]
  <2>1. ASSUME NEW p \in Int \X Int
        PROVE  FibRound(str, p) \in Int \X Int
    BY MaxIntAssumption DEF FibRound, Wrap
  <2> QED BY <2>1
<1>2. \E f : Is(f)
  <2>1. PICK f \in [Nat -> Int \X Int] :
          \A n \in Nat : f[n] = IF n = 0 THEN <<0, 1>> ELSE step[f[n - 1]]
    <3> DEFINE Pairs == Int \X Int
               start == <<0, 1>>
    <3>1. start \in Pairs /\ step \in [Pairs -> Pairs]
      BY <1>1
    <3>2. \E f \in [Nat -> Pairs] : \A n \in Nat : f[n] = IF n = 0 THEN start ELSE step[f[n - 1]]
      <4> HIDE DEF step, Pairs, start
      <4> QED BY <3>1, RecursionDefines
    <3> QED BY <3>2
  <2>2. ASSUME NEW n \in Nat, n # 0
        PROVE  step[f[n - 1]] = FibRound(str, f[n - 1])
    <3>1. f[n - 1] \in Int \X Int
      BY <2>2
    <3> QED BY <3>1
  <2>3. Is(f)
    <3> HIDE DEF step
    <3> QED BY <2>1, <2>2
  <2> QED BY <2>3
<1>3. Is(loop)
  <2> HIDE DEF Is
  <2> QED BY <1>2
<1>4. \A n \in Nat : FibLoop(str, n) = loop[n]
  BY DEF FibLoop
<1> HIDE DEF loop
<1>5. loop[0] = <<0, 1>> /\ \A n \in Nat : loop[n + 1] = FibRound(str, loop[n])
  BY <1>3
<1> QED BY <1>4, <1>5

(***************************************************************************)
(* As long as a Fibonacci number beyond str fits into an int, no sum of    *)
(* the loop overflows: it holds two Fibonacci numbers in a row, of which   *)
(* the smaller one is not beyond str, and the greater one grows.           *)
(***************************************************************************)
LEMMA FibLoopHoldsPairs ==
  ASSUME NEW str \in Nat, HasNextFibonacci(str), NEW n \in Nat
  PROVE  LET f == FibLoop(str, n)
         IN  /\ FibPair(f[2], f[1])
             /\ f[1] <= str /\ f[2] \in 1 .. MaxInt
             /\ f[2] > str \/ (f[2] >= n /\ (n > 0 => f[1] >= 1))
<1> DEFINE f(k) == FibLoop(str, k)
           Good(k) == /\ FibPair(f(k)[2], f(k)[1])
                      /\ f(k)[1] <= str /\ f(k)[2] \in 1 .. MaxInt
                      /\ f(k)[2] > str \/ (f(k)[2] >= k /\ (k > 0 => f(k)[1] >= 1))
           Bad == {k \in Nat : ~ Good(k)}
<1>1. PICK g \in Fibonaccis : g > str
  BY DEF HasNextFibonacci
<1>2. g \in 1 .. MaxInt
  BY <1>1 DEF Fibonaccis
<1>3. PICK l \in Nat : FibPair(g, l)
  BY <1>2, FibonacciHasPair
<1>4. Good(0)
  <2>1. f(0) = <<0, 1>>
    BY FibLoopRounds
  <2>2. FibPair(1, 0)
    BY DEF FibPair, Norm
  <2>3. f(0)[1] = 0 /\ f(0)[2] = 1
    BY <2>1
  <2> HIDE DEF f
  <2> QED BY <1>2, <2>2, <2>3, MaxIntAssumption
<1>5. ASSUME NEW k \in Nat, Good(k)
      PROVE  Good(k + 1)
  <2> DEFINE f0 == f(k)[1]
             f1 == f(k)[2]
  <2>1. f(k + 1) = IF f1 > str THEN f(k) ELSE <<f1, Wrap(f0 + f1)>>
    BY FibLoopRounds DEF FibRound
  <2>2. /\ FibPair(f1, f0) /\ f0 \in Nat /\ f1 \in 1 .. MaxInt /\ f0 <= str /\ f0 <= f1
        /\ f1 > str \/ (f1 >= k /\ (k > 0 => f0 >= 1))
    BY <1>5 DEF FibPair
  <2>3. CASE f1 > str
    <3>1. f(k + 1) = f(k)
      BY <2>1, <2>3
    <3> HIDE DEF f
    <3> QED BY <2>2, <2>3, <3>1
  <2>4. CASE ~ (f1 > str)
    <3> HIDE DEF f, f0, f1
    <3>1. FibPair(f0 + f1, f1)
      <4>1. Norm(f0 + f1, f1) = -Norm(f1, f0)
        BY <2>2 DEF Norm
      <4> QED BY <2>2, <4>1 DEF FibPair
    <3>2. f0 + f1 <= g
      <4>1. ~ (f1 < g /\ g < f0 + f1)
        BY <1>3, <3>1, NoPairBetween
      <4> QED BY <1>1, <1>2, <2>2, <2>4, <4>1
    <3>3. Wrap(f0 + f1) = f0 + f1
      <4>1. f0 + f1 \in Ints
        BY <1>2, <2>2, <3>2, MaxIntAssumption DEF Ints
      <4> QED BY <4>1, WrapInt
    <3>4. f(k + 1) = <<f1, f0 + f1>>
      BY <2>1, <2>4, <3>3
    <3>5. f0 + f1 \in 1 .. MaxInt /\ f1 <= str /\ f1 >= 1
      BY <1>2, <2>2, <2>4, <3>2, MaxIntAssumption DEF FibPair
    <3>6. f0 + f1 >= k + 1
      BY <2>2, <2>4
    <3> QED BY <3>1, <3>4, <3>5, <3>6
  <2> QED BY <2>3, <2>4
<1>6. Bad = {}
  <2> HIDE DEF Good
  <2>1. ASSUME NEW k \in Bad, \A m \in Bad : k <= m
        PROVE  FALSE
    <3>1. k \in Nat /\ k # 0
      BY <1>4
    <3>2. k - 1 \in Nat /\ ~ (k <= k - 1) /\ k = (k - 1) + 1
      BY <3>1
    <3>3. Good(k - 1)
      BY <2>1, <3>2
    <3> QED BY <1>5, <3>2, <3>3
  <2>2. Bad \subseteq Nat
    OBVIOUS
  <2> HIDE DEF Bad
  <2> QED BY <2>1, <2>2, LeastNumber
<1> QED BY <1>6

(***************************************************************************)
(* Strategy3 returns the next Fibonacci number, for every width of an int  *)
(* that holds it.                                                          *)
(***************************************************************************)
LEMMA Strategy3FindsNextFibonacci ==
  ASSUME NEW str \in Ints, NEW a \in 1 .. MaxInt, HasNextFibonacci(str)
  PROVE  NextFibonacci(str, a)
<1> SUFFICES ASSUME str > a
             PROVE  /\ Strategy3(str, a) > str
                    /\ Strategy3(str, a) \in Fibonaccis
                    /\ \A g \in Fibonaccis : g > str => Strategy3(str, a) <= g
  BY DEF NextFibonacci
<1> DEFINE f0 == FibLoop(str, MaxInt)[1]
           f1 == FibLoop(str, MaxInt)[2]
<1>1. str \in Nat /\ str > 0 /\ str <= MaxInt /\ MaxInt \in Nat
  BY MaxIntAssumption DEF Ints
<1>2. /\ FibPair(f1, f0) /\ f0 <= str /\ f1 \in 1 .. MaxInt
      /\ f1 > str \/ f1 >= MaxInt
  BY <1>1, FibLoopHoldsPairs
<1> HIDE DEF f0, f1
<1>3. PICK h \in Fibonaccis : h > str
  BY DEF HasNextFibonacci
<1>4. f1 > str
  BY <1>1, <1>2, <1>3 DEF Fibonaccis
<1>5. Strategy3(str, a) = f1
  BY <1>1, <1>4 DEF Strategy3, f1
<1>6. f1 \in Fibonaccis
  BY <1>2, PairIsFibonacci
<1>7. ASSUME NEW g \in Fibonaccis, g > str
      PROVE  f1 <= g
  <2>1. g \in Nat /\ g >= 1
    BY <1>1, <1>7 DEF Fibonaccis
  <2>2. PICK l \in Nat : FibPair(g, l)
    BY <2>1, FibonacciHasPair
  <2>3. ~ (f0 < g /\ g < f1)
    BY <1>2, <2>2, NoPairBetween
  <2>4. f0 \in Nat
    BY <1>2 DEF FibPair
  <2> QED BY <1>1, <1>2, <1>7, <2>1, <2>3, <2>4
<1> QED BY <1>4, <1>5, <1>6, <1>7

------------------------------------------------------------------------------
(* The strategies *)

(***************************************************************************)
(* Each strategy keeps its promise for every integer of an int, whatever   *)
(* the parameter -a that main lets through.                                *)
(***************************************************************************)
THEOREM StrategiesAlwaysKeepPromises == AlgorithmsSpec => []StrategiesKeepPromises
<1> DEFINE Typed == Called("strategies") => input.str \in Tokens /\ input.a \in Params
<1>1. AlgorithmsInit => Typed
  BY DEF AlgorithmsInit, Called
<1>2. Typed /\ [AlgorithmsNext]_input => Typed'
  BY DEF AlgorithmsNext, Called
<1>3. Typed => StrategiesKeepPromises
  <2>1. ASSUME NEW str \in Tokens, NEW a \in Params
        PROVE  /\ HasNextPrime(str) => NextPrime(str, a)
               /\ Multiple(str, a)
               /\ HasNextFibonacci(str) => NextFibonacci(str, a)
               /\ HoldsSquares(str) => PythagoreanTriple(str, a)
    <3>1. str \in Ints /\ a \in 1 .. MaxInt
      BY TokensAssumption, ParamsAssumption
    <3> QED BY <3>1, Strategy1FindsNextPrime, Strategy2TellsMultiples,
               Strategy3FindsNextFibonacci, Strategy4FindsLegs
  <2> QED BY <2>1 DEF StrategiesKeepPromises
<1> QED BY <1>1, <1>2, <1>3, PTL DEF AlgorithmsSpec

------------------------------------------------------------------------------
(* Configuration *)

\* The fields that load cannot set, and those before the first of them.
Failed(type, env) == {k \in 1 .. Len(Exported(type)) : FieldFails(Exported(type)[k], env)}

Passed(type, env) == {k \in 1 .. Len(Exported(type)) : \A j \in Failed(type, env) : k < j}

\* What load leaves in a field that it passes.
Loaded(field, env) ==
    IF Finds(field, env) THEN setField(field.kind, Raw(field, env)) ELSE [zero |-> TRUE]

(***************************************************************************)
(* The value and the error of Load, which returns the error of load and    *)
(* that of an environment that is not valid.                               *)
(***************************************************************************)
LEMMA LoadIs ==
  ASSUME NEW type, NEW env
  PROVE  /\ Load(type, env).value = [k \in Passed(type, env) |-> Loaded(Exported(type)[k], env)]
         /\ Load(type, env).ok => Failed(type, env) = {}
  BY DEF Load, load, Passed, Failed, Loaded

(***************************************************************************)
(* What setField stores, when it returns no error, is what the text means  *)
(* in a field of that kind.                                                *)
(***************************************************************************)
LEMMA SetFieldMeans ==
  ASSUME NEW kind, NEW raw, Parses(kind, raw)
  PROVE  Means(setField(kind, raw), kind, raw)
  BY DEF Parses, setField, Means

(***************************************************************************)
(* A field before the first that fails does not fail itself.               *)
(***************************************************************************)
LEMMA PassedParses ==
  ASSUME NEW type, NEW env, NEW k \in Passed(type, env), Finds(Exported(type)[k], env)
  PROVE  Parses(Exported(type)[k].kind, Raw(Exported(type)[k], env))
  BY DEF Passed, Failed, FieldFails

(***************************************************************************)
(* For every type and every environment, what Load leaves in the fields is *)
(* what Fields tells to expect.                                            *)
(***************************************************************************)
LEMMA LoadIsAsTold ==
  ASSUME NEW type, NEW env
  PROVE  FieldsTellLoad(type, env)
<1> DEFINE value == Load(type, env).value
           field(k) == Exported(type)[k]
           info == Fields(type)
<1>1. value = [k \in Passed(type, env) |-> Loaded(field(k), env)]
  BY LoadIs
<1>2. Load(type, env).ok => DOMAIN value = DOMAIN info
  <2>1. Failed(type, env) = {} => Passed(type, env) = 1 .. Len(Exported(type))
    BY DEF Passed
  <2> QED BY <2>1, <1>1, LoadIs DEF Fields
<1>3. ASSUME NEW k \in DOMAIN value
      PROVE  /\ info[k].SourceKey = Key(field(k))
             /\ info[k].HasDefault = HasDefault(field(k))
             /\ info[k].Default = field(k).default
  BY <1>1, <1>3 DEF Fields, FieldInfo, Key, Passed
<1>4. ASSUME NEW k \in DOMAIN value, Finds(field(k), env)
      PROVE  Means(value[k], field(k).kind, Raw(field(k), env))
  BY <1>1, <1>4, PassedParses, SetFieldMeans DEF Loaded
<1>5. ASSUME NEW k \in DOMAIN value, ~Finds(field(k), env)
      PROVE  value[k] = [zero |-> TRUE]
  BY <1>1, <1>5 DEF Loaded
<1>6. ASSUME NEW k \in DOMAIN value
      PROVE  IF info[k].SourceKey \in DOMAIN env
             THEN Means(value[k], field(k).kind, env[info[k].SourceKey])
             ELSE IF info[k].HasDefault THEN Means(value[k], field(k).kind, info[k].Default)
             ELSE value[k] = [zero |-> TRUE]
  <2> HIDE DEF value, info, field
  <2> QED BY <1>3, <1>4, <1>5 DEF Finds, Raw
<1> QED BY <1>2, <1>6 DEF FieldsTellLoad

(***************************************************************************)
(* For every type and every environment, taking a variable away changes no *)
(* field but those that Fields lists for it.                               *)
(***************************************************************************)
LEMMA VariableDecides ==
  ASSUME NEW type, NEW env, NEW variable
  PROVE  VariableDecidesItsFields(type, env, variable)
<1> DEFINE less == [v \in DOMAIN env \ {variable} |-> env[v]]
           field(k) == Exported(type)[k]
<1>1. ASSUME NEW k \in Passed(type, env), k \in Passed(type, less), Key(field(k)) # variable
      PROVE  Loaded(field(k), env) = Loaded(field(k), less)
  <2>1. Key(field(k)) \in DOMAIN env <=> Key(field(k)) \in DOMAIN less
    BY <1>1
  <2>2. Key(field(k)) \in DOMAIN env => env[Key(field(k))] = less[Key(field(k))]
    BY <1>1
  <2> QED BY <2>1, <2>2 DEF Loaded, Finds, Raw
<1>2. ASSUME NEW k \in Passed(type, env)
      PROVE  Fields(type)[k].SourceKey = Key(field(k))
  BY DEF Fields, FieldInfo, Key, Passed
<1>3. \A k \in DOMAIN Load(type, env).value \cap DOMAIN Load(type, less).value :
        Load(type, env).value[k] # Load(type, less).value[k] => Fields(type)[k].SourceKey = variable
  <2> HIDE DEF less, field
  <2>1. /\ Load(type, env).value = [k \in Passed(type, env) |-> Loaded(field(k), env)]
        /\ Load(type, less).value = [k \in Passed(type, less) |-> Loaded(field(k), less)]
    BY LoadIs DEF field
  <2> QED BY <2>1, <1>1, <1>2
<1> QED BY <1>3 DEF VariableDecidesItsFields

(***************************************************************************)
(* What Load reads is what Fields tells, for all types and environments.   *)
(***************************************************************************)
THEOREM LoadReadsWhatFieldsTell == AlgorithmsSpec => []FieldsTellWhatLoadReads
<1>1. FieldsTellWhatLoadReads
  BY LoadIsAsTold, VariableDecides DEF FieldsTellWhatLoadReads
<1> QED BY <1>1, PTL

------------------------------------------------------------------------------
(* Concatenations *)

\* What is concatenated of the sequences after each of them.
Concatenations(seqs, S, run) ==
    /\ run \in [0 .. Len(seqs) -> Seq(S)]
    /\ run[0] = <<>>
    /\ \A i \in 1 .. Len(seqs) : run[i] = run[i - 1] \o seqs[i]

(***************************************************************************)
(* FlattenSeq is the last of the concatenations.                           *)
(***************************************************************************)
LEMMA FlattenIsLast ==
  ASSUME NEW S, NEW seqs \in Seq(Seq(S)), NEW run, Concatenations(seqs, S, run)
  PROVE  FlattenSeq(seqs) = run[Len(seqs)]
<1> DEFINE n == Len(seqs)
           Is(f) == f = [i \in 1 .. n |-> IF i = 1 THEN seqs[i] ELSE f[i - 1] \o seqs[i]]
           flatten == CHOOSE f : Is(f)
<1>1. n \in Nat /\ \A i \in 1 .. n : seqs[i] \in Seq(S)
  OBVIOUS
<1>2. /\ run \in [0 .. n -> Seq(S)] /\ run[0] = <<>>
      /\ \A i \in 1 .. n : run[i] = run[i - 1] \o seqs[i]
  BY DEF Concatenations
<1>3. CASE n = 0
  <2>1. seqs = <<>>
    BY <1>3
  <2> QED BY <1>2, <1>3, <2>1 DEF FlattenSeq
<1>4. CASE n > 0
  <2>1. run[1] = seqs[1]
    <3>1. 1 \in 1 .. n /\ 1 - 1 = 0
      BY <1>1, <1>4
    <3> HIDE DEF n
    <3>2. run[1] = <<>> \o seqs[1] /\ seqs[1] \in Seq(S)
      BY <1>1, <1>2, <3>1
    <3> QED BY <3>2
  <2>2. Is([i \in 1 .. n |-> run[i]])
    <3> DEFINE f == [i \in 1 .. n |-> run[i]]
    <3>1. ASSUME NEW i \in 1 .. n
          PROVE  f[i] = IF i = 1 THEN seqs[i] ELSE f[i - 1] \o seqs[i]
      <4> HIDE DEF n
      <4>1. CASE i = 1
        BY <2>1, <4>1
      <4>2. CASE i # 1
        <5>1. i - 1 \in 1 .. n
          BY <1>1, <4>2
        <5>2. f[i - 1] = run[i - 1] /\ f[i] = run[i]
          BY <5>1
        <5> HIDE DEF f
        <5> QED BY <1>2, <4>2, <5>2
      <4> QED BY <4>1, <4>2
    <3> HIDE DEF n
    <3> QED BY <3>1
  <2>3. Is(flatten)
    <3> HIDE DEF Is
    <3> QED BY <2>2
  <2> HIDE DEF flatten
  <2>4. \A i \in 1 .. n : flatten[i] = IF i = 1 THEN seqs[i] ELSE flatten[i - 1] \o seqs[i]
    <3> HIDE DEF n
    <3> QED BY <2>3
  <2> DEFINE Apart == {i \in 1 .. n : flatten[i] # run[i]}
  <2>5. ASSUME NEW i \in Apart, \A j \in Apart : i <= j
        PROVE  FALSE
    <3>1. i \in 1 .. n /\ i # 1
      BY <1>1, <2>1, <2>4
    <3>2. i - 1 \in 1 .. n /\ ~ (i <= i - 1)
      BY <1>1, <3>1
    <3>3. flatten[i - 1] = run[i - 1]
      BY <2>5, <3>2
    <3> QED BY <1>2, <2>4, <3>1, <3>3
  <2>6. Apart = {}
    <3>1. Apart \subseteq Nat
      OBVIOUS
    <3> HIDE DEF Apart
    <3> QED BY <2>5, <3>1, LeastNumber
  <2>7. FlattenSeq(seqs) = flatten[n]
    BY <1>4 DEF FlattenSeq, flatten
  <2> QED BY <1>1, <1>4, <2>6, <2>7
<1> QED BY <1>1, <1>3, <1>4

(***************************************************************************)
(* All sequences of sequences have concatenations.                         *)
(***************************************************************************)
LEMMA ConcatenationsExist ==
  ASSUME NEW S, NEW seqs \in Seq(Seq(S))
  PROVE  \E run : Concatenations(seqs, S, run)
<1> DEFINE n == Len(seqs)
<1>1. n \in Nat /\ \A i \in 1 .. n : seqs[i] \in Seq(S)
  OBVIOUS
<1> HIDE DEF n
<1> DEFINE Steps == [at : Nat, sum : Seq(S)]
           start == [at |-> 0, sum |-> <<>>]
           Longer(k, sum) == IF k <= n THEN sum \o seqs[k] ELSE sum
           step == [p \in Steps |-> [at |-> p.at + 1, sum |-> Longer(p.at + 1, p.sum)]]
<1>2. start \in Steps
  <2>1. <<>> \in Seq(S)
    OBVIOUS
  <2> QED BY <2>1
<1>3. ASSUME NEW k \in Nat, NEW sum \in Seq(S)
      PROVE  Longer(k + 1, sum) \in Seq(S)
  BY <1>1
<1>4. step \in [Steps -> Steps]
  <2>1. ASSUME NEW p \in Steps
        PROVE  [at |-> p.at + 1, sum |-> Longer(p.at + 1, p.sum)] \in Steps
    <3>1. p.at \in Nat /\ p.sum \in Seq(S)
      OBVIOUS
    <3> HIDE DEF Longer
    <3> QED BY <1>3, <3>1
  <2> HIDE DEF Longer, Steps
  <2> QED BY <2>1
<1>5. PICK f \in [Nat -> Steps] : Iterates(f, start, step)
  <2> HIDE DEF start, step, Steps
  <2> QED BY <1>2, <1>4, IteratesExist
<1>12. \A k \in Nat : f[k] = IF k = 0 THEN start ELSE step[f[k - 1]]
  <2> HIDE DEF start, step, Steps
  <2> QED BY <1>5 DEF Iterates
<1>6. f[0] = start
  <2> HIDE DEF start, step, Steps
  <2> QED BY <1>12
<1>7. ASSUME NEW k \in Nat
      PROVE  /\ f[k + 1].at = f[k].at + 1
             /\ f[k + 1].sum = Longer(f[k].at + 1, f[k].sum)
             /\ f[k].sum \in Seq(S)
  <2>1. k + 1 \in Nat /\ k + 1 # 0 /\ (k + 1) - 1 = k
    OBVIOUS
  <2>2. f[k + 1] = step[f[k]]
    <3> HIDE DEF start, step, Steps
    <3> QED BY <1>12, <2>1
  <2>3. f[k] \in Steps
    <3> HIDE DEF Steps
    <3> QED BY <1>12
  <2>4. f[k].sum \in Seq(S)
    BY <2>3
  <2> HIDE DEF Steps, Longer
  <2> QED BY <2>2, <2>3, <2>4
<1> HIDE DEF Steps, step, Longer
<1>8. ASSUME NEW k \in Nat
      PROVE  f[k].at = k
  <2> DEFINE Off == {i \in Nat : f[i].at # i}
  <2>1. ASSUME NEW i \in Off, \A j \in Off : i <= j
        PROVE  FALSE
    <3>1. i # 0
      BY <1>6
    <3>2. i - 1 \in Nat /\ ~ (i <= i - 1) /\ (i - 1) + 1 = i
      BY <3>1
    <3>3. f[i - 1].at = i - 1
      BY <2>1, <3>2
    <3>4. f[(i - 1) + 1].at = f[i - 1].at + 1
      <4> DEFINE h == i - 1
      <4> HIDE DEF h
      <4>1. h \in Nat
        BY <3>2 DEF h
      <4>2. f[h + 1].at = f[h].at + 1
        BY <1>7, <4>1
      <4> QED BY <4>2 DEF h
    <3> QED BY <3>2, <3>3, <3>4
  <2>2. Off = {}
    <3>1. Off \subseteq Nat
      OBVIOUS
    <3> HIDE DEF Off
    <3> QED BY <2>1, <3>1, LeastNumber
  <2> QED BY <2>2
<1> DEFINE run == [i \in 0 .. n |-> f[i].sum]
<1>9. run \in [0 .. n -> Seq(S)]
  <2>1. \A i \in 0 .. n : f[i].sum \in Seq(S)
    <3>1. \A i \in 0 .. n : i \in Nat
      BY <1>1
    <3> QED BY <1>7, <3>1
  <2> QED BY <2>1
<1>10. run[0] = <<>>
  <2>1. 0 \in 0 .. n
    BY <1>1
  <2> QED BY <1>6, <2>1
<1>11. ASSUME NEW i \in 1 .. n
       PROVE  run[i] = run[i - 1] \o seqs[i]
  <2>1. i - 1 \in Nat /\ (i - 1) + 1 = i /\ i \in 0 .. n /\ i - 1 \in 0 .. n /\ i <= n
    BY <1>1
  <2>2. f[(i - 1) + 1].sum = Longer(f[i - 1].at + 1, f[i - 1].sum)
    <3> DEFINE k == i - 1
    <3> HIDE DEF k
    <3>1. k \in Nat
      BY <2>1 DEF k
    <3>2. f[k + 1].sum = Longer(f[k].at + 1, f[k].sum)
      BY <1>7, <3>1
    <3> QED BY <3>2 DEF k
  <2>3. f[i].sum = Longer(i, f[i - 1].sum)
    BY <1>8, <2>1, <2>2
  <2>4. f[i].sum = f[i - 1].sum \o seqs[i]
    BY <2>1, <2>3 DEF Longer
  <2> QED BY <2>1, <2>4
<1> HIDE DEF run
<1> QED BY <1>9, <1>10, <1>11 DEF Concatenations, n

(***************************************************************************)
(* FlattenSeq of two sequences of sequences, one after the other.          *)
(***************************************************************************)
LEMMA FlattenConcat ==
  ASSUME NEW S, NEW s \in Seq(Seq(S)), NEW t \in Seq(Seq(S))
  PROVE  FlattenSeq(s \o t) = FlattenSeq(s) \o FlattenSeq(t) /\ FlattenSeq(s) \in Seq(S)
<1>0. ASSUME NEW x \in Seq(S), NEW y \in Seq(S), NEW z \in Seq(S)
      PROVE  (x \o y) \o z = x \o (y \o z)
  BY ONLY ConcatAssociative
<1>1. PICK r : Concatenations(s, S, r)
  BY ConcatenationsExist
<1>2. PICK q : Concatenations(t, S, q)
  BY ConcatenationsExist
<1> DEFINE m == Len(s)
           n == Len(t)
<1>3. /\ r \in [0 .. m -> Seq(S)] /\ r[0] = <<>> /\ m \in Nat
      /\ \A i \in 1 .. m : r[i] = r[i - 1] \o s[i]
  <2>1. m \in Nat
    OBVIOUS
  <2> QED BY <1>1, <2>1 DEF Concatenations
<1>4. /\ q \in [0 .. n -> Seq(S)] /\ q[0] = <<>> /\ n \in Nat
      /\ \A i \in 1 .. n : q[i] = q[i - 1] \o t[i] /\ t[i] \in Seq(S)
  <2>1. n \in Nat /\ \A i \in 1 .. n : t[i] \in Seq(S)
    OBVIOUS
  <2>2. /\ q \in [0 .. n -> Seq(S)] /\ q[0] = <<>>
        /\ \A i \in 1 .. n : q[i] = q[i - 1] \o t[i]
    BY <1>2 DEF Concatenations
  <2> QED BY <2>1, <2>2
<1>5. /\ s \o t \in Seq(Seq(S)) /\ Len(s \o t) = m + n
      /\ \A i \in 1 .. m + n : (s \o t)[i] = IF i <= m THEN s[i] ELSE t[i - m]
  OBVIOUS
<1>6. FlattenSeq(s) = r[m] /\ FlattenSeq(t) = q[n]
  BY <1>1, <1>2, FlattenIsLast
<1> HIDE DEF m, n
<1> DEFINE all == r[m]
           run == [i \in 0 .. m + n |-> IF i <= m THEN r[i] ELSE all \o q[i - m]]
<1>7. all \in Seq(S) /\ run[m] = all
  <2>1. m \in 0 .. m /\ m \in 0 .. m + n
    BY <1>3, <1>4
  <2> QED BY <1>3, <2>1
<1>8. ASSUME NEW j \in 0 .. n
      PROVE  run[m + j] = all \o q[j] /\ q[j] \in Seq(S)
  <2>1. m + j \in 0 .. m + n /\ (m + j) - m = j
    BY <1>3, <1>4
  <2>2. q[j] \in Seq(S)
    BY <1>4
  <2>3. CASE j = 0
    <3>1. m + j = m /\ q[j] = <<>>
      BY <1>3, <1>4, <2>3
    <3>2. all \o <<>> = all
      BY <1>7
    <3> HIDE DEF run, all
    <3> QED BY <1>7, <2>2, <3>1, <3>2
  <2>4. CASE j > 0
    <3>1. ~(m + j <= m)
      BY <1>3, <1>4, <2>4
    <3>2. run[m + j] = all \o q[(m + j) - m]
      BY <2>1, <3>1
    <3> HIDE DEF run, all
    <3> QED BY <2>1, <2>2, <3>2
  <2>5. j = 0 \/ j > 0
    BY <1>4
  <2> HIDE DEF run, all
  <2> QED BY <2>3, <2>4, <2>5
<1>9. run \in [0 .. m + n -> Seq(S)]
  <2>1. ASSUME NEW i \in 0 .. m + n
        PROVE  run[i] \in Seq(S)
    <3>1. CASE i <= m
      <4>1. i \in 0 .. m
        BY <1>3, <1>4, <3>1
      <4> QED BY <1>3, <3>1, <4>1
    <3>2. CASE i > m
      <4>1. i - m \in 0 .. n /\ m + (i - m) = i
        BY <1>3, <1>4, <3>2
      <4>2. run[i] = all \o q[i - m] /\ q[i - m] \in Seq(S)
        <5> HIDE DEF run, all
        <5> QED BY <1>8, <4>1
      <4> HIDE DEF run, all
      <4> QED BY <1>7, <4>2
    <3> QED BY <1>3, <3>1, <3>2
  <2>2. run = [i \in 0 .. m + n |-> run[i]]
    OBVIOUS
  <2> HIDE DEF run
  <2> QED BY <2>1, <2>2
<1>10. ASSUME NEW i \in 1 .. m + n
       PROVE  run[i] = run[i - 1] \o (s \o t)[i]
  <2>1. CASE i <= m
    <3>1. i \in 1 .. m /\ i \in 0 .. m + n /\ i - 1 \in 0 .. m + n /\ i - 1 <= m
      BY <1>3, <1>4, <2>1
    <3>2. run[i] = r[i] /\ run[i - 1] = r[i - 1]
      BY <2>1, <3>1
    <3> HIDE DEF run
    <3> QED BY <1>3, <1>5, <2>1, <3>1, <3>2
  <2>2. CASE i > m
    <3> DEFINE j == i - m
    <3>1. /\ j \in 1 .. n /\ j \in 0 .. n /\ j - 1 \in 0 .. n
          /\ m + j = i /\ m + (j - 1) = i - 1 /\ ~(i <= m)
      BY <1>3, <1>4, <2>2
    <3>2. (s \o t)[i] = t[j] /\ t[j] \in Seq(S)
      BY <1>4, <1>5, <3>1
    <3> HIDE DEF run, all, j
    <3>3. run[i] = all \o q[j] /\ run[i - 1] = all \o q[j - 1] /\ q[j - 1] \in Seq(S)
      BY <1>8, <3>1
    <3>4. q[j] = q[j - 1] \o t[j]
      BY <1>4, <3>1
    <3>5. all \o (q[j - 1] \o t[j]) = (all \o q[j - 1]) \o t[j]
      <4>1. all \in Seq(S)
        BY <1>7
      <4> DEFINE b == q[j - 1]
                 c == t[j]
      <4>2. b \in Seq(S) /\ c \in Seq(S)
        BY <3>2, <3>3
      <4> HIDE DEF b, c
      <4>3. all \o (b \o c) = (all \o b) \o c
        BY <4>1, <4>2, <1>0
      <4> QED BY <4>3 DEF b, c
    <3> QED BY <3>2, <3>3, <3>4, <3>5
  <2>3. i <= m \/ i > m
    BY <1>3
  <2> HIDE DEF run, all
  <2> QED BY <2>1, <2>2, <2>3
<1>11. Concatenations(s \o t, S, run)
  <2>1. run[0] = <<>>
    BY <1>3, <1>4
  <2> HIDE DEF run
  <2> QED BY <1>5, <1>9, <1>10, <2>1 DEF Concatenations
<1>12. FlattenSeq(s \o t) = run[m + n]
  <2> HIDE DEF run
  <2> QED BY <1>5, <1>11, FlattenIsLast
<1>13. run[m + n] = all \o q[n]
  <2>1. n \in 0 .. n
    BY <1>4
  <2> HIDE DEF run, all
  <2> QED BY <1>8, <2>1
<1>14. FlattenSeq(s) = all
  BY <1>6
<1> HIDE DEF run, all
<1> QED BY <1>6, <1>7, <1>12, <1>13, <1>14

------------------------------------------------------------------------------
(* The keys of names *)

(***************************************************************************)
(* A sequence is where the concatenations leave off before it, up to the   *)
(* last.                                                                   *)
(***************************************************************************)
LEMMA PlacesInConcatenation ==
  ASSUME NEW S, NEW seqs \in Seq(Seq(S)), NEW run, Concatenations(seqs, S, run),
         NEW k \in 0 .. Len(seqs)
  PROVE  /\ run[k] \in Seq(S) /\ Len(run[k]) <= Len(run[Len(seqs)])
         /\ \A i \in 1 .. Len(run[k]) : run[Len(seqs)][i] = run[k][i]
<1> DEFINE n == Len(seqs)
<1>1. n \in Nat /\ \A i \in 1 .. n : seqs[i] \in Seq(S)
  OBVIOUS
<1>2. /\ run \in [0 .. n -> Seq(S)]
      /\ \A i \in 1 .. n : run[i] = run[i - 1] \o seqs[i]
  BY DEF Concatenations
<1> DEFINE Begins(i) == /\ Len(run[i]) <= Len(run[n])
                        /\ \A j \in 1 .. Len(run[i]) : run[n][j] = run[i][j]
<1>3. ASSUME NEW d \in 0 .. n
      PROVE  Begins(n - d)
  <2> HIDE DEF n
  <2> DEFINE Bad == {e \in 0 .. n : ~Begins(n - e)}
  <2>1. ASSUME NEW e \in Bad, \A f \in Bad : e <= f
        PROVE  FALSE
    <3>1. e \in 0 .. n /\ n - 0 = n /\ ~Begins(n - e)
      BY <1>1
    <3>2. Begins(n)
      BY <1>1, <1>2
    <3>3. e # 0
      <4> HIDE DEF Begins
      <4> QED BY <1>1, <3>1, <3>2
    <3> DEFINE i == n - e
    <3>4. /\ e - 1 \in 0 .. n /\ ~(e <= e - 1) /\ n - (e - 1) = i + 1
          /\ i \in 0 .. n /\ i + 1 \in 1 .. n /\ i + 1 \in 0 .. n /\ (i + 1) - 1 = i
      BY <1>1, <3>1, <3>3
    <3>5. Begins(i + 1)
      <4> HIDE DEF Begins
      <4>1. e - 1 \notin Bad
        <5> HIDE DEF Bad
        <5> QED BY <2>1, <3>4
      <4> QED BY <3>4, <4>1
    <3> DEFINE a == run[i]
               b == seqs[i + 1]
               all == run[n]
    <3>6. run[i + 1] = a \o b /\ a \in Seq(S) /\ b \in Seq(S)
      BY <1>1, <1>2, <3>4
    <3>7. /\ Len(a \o b) <= Len(all)
          /\ \A j \in 1 .. Len(a \o b) : all[j] = (a \o b)[j]
      BY <3>5, <3>6
    <3>8. all \in Seq(S)
      BY <1>1, <1>2
    <3> HIDE DEF a, b, all, i
    <3>9. /\ Len(a) \in Nat /\ Len(b) \in Nat /\ Len(a \o b) = Len(a) + Len(b)
          /\ \A j \in 1 .. Len(a) : (a \o b)[j] = a[j]
      BY <3>6
    <3>10. Len(all) \in Nat
      BY <3>8
    <3>11. /\ Len(a) <= Len(all)
           /\ \A j \in 1 .. Len(a) : all[j] = a[j]
      <4>1. Len(a) <= Len(all)
        BY <3>7, <3>9, <3>10
      <4>2. ASSUME NEW j \in 1 .. Len(a)
            PROVE  all[j] = a[j]
        <5>1. j \in 1 .. Len(a \o b)
          BY <3>9
        <5> QED BY <3>7, <3>9, <5>1
      <4> QED BY <4>1, <4>2
    <3> QED BY <3>1, <3>11 DEF a, all, i
  <2>2. Bad = {}
    <3>1. Bad \subseteq Nat
      BY <1>1
    <3> HIDE DEF Bad
    <3> QED BY <2>1, <3>1, LeastNumber
  <2> HIDE DEF Begins
  <2> QED BY <2>2
<1>4. n - k \in 0 .. n /\ n - (n - k) = k
  BY <1>1
<1>5. Begins(k)
  <2> HIDE DEF Begins, n
  <2>1. Begins(n - (n - k))
    BY <1>3, <1>4
  <2> QED BY <1>4, <2>1
<1> QED BY <1>1, <1>2, <1>5

\* The sequence is the part of the last concatenation after the one before it.
IsPart(seqs, S, run, k) ==
    /\ run[k - 1] \in Seq(S) /\ run[Len(seqs)] \in Seq(S)
    /\ Len(run[k]) = Len(run[k - 1]) + Len(seqs[k])
    /\ Len(run[k]) <= Len(run[Len(seqs)])
    /\ \A j \in 1 .. Len(seqs[k]) : run[Len(seqs)][Len(run[k - 1]) + j] = seqs[k][j]

(***************************************************************************)
(* So the parts of the last concatenation are the sequences.               *)
(***************************************************************************)
LEMMA PartsOfConcatenation ==
  ASSUME NEW S, NEW seqs \in Seq(Seq(S)), NEW run, Concatenations(seqs, S, run),
         NEW k \in 1 .. Len(seqs)
  PROVE  IsPart(seqs, S, run, k)
<1> DEFINE all == run[Len(seqs)]
           a == run[k - 1]
           b == seqs[k]
<1>1. Len(seqs) \in Nat /\ k - 1 \in 0 .. Len(seqs) /\ k \in 0 .. Len(seqs) /\ Len(seqs) \in 0 .. Len(seqs)
  OBVIOUS
<1>2. run[k] = a \o b /\ a \in Seq(S) /\ b \in Seq(S) /\ all \in Seq(S)
  <2> DEFINE n == Len(seqs)
  <2>1. b \in Seq(S)
    OBVIOUS
  <2>2. n \in Nat /\ k \in 1 .. n
    OBVIOUS
  <2>3. /\ run \in [0 .. n -> Seq(S)]
        /\ \A i \in 1 .. n : run[i] = run[i - 1] \o seqs[i]
    BY DEF Concatenations
  <2> HIDE DEF n
  <2>4. k - 1 \in 0 .. n /\ n \in 0 .. n
    BY <2>2
  <2>5. run[n] = all
    BY DEF n
  <2> HIDE DEF all
  <2> QED BY <2>1, <2>2, <2>3, <2>4, <2>5
<1>3. /\ Len(run[k]) <= Len(all)
      /\ \A i \in 1 .. Len(run[k]) : all[i] = run[k][i]
  BY <1>1, PlacesInConcatenation
<1> HIDE DEF all, a, b
<1>4. /\ Len(a) \in Nat /\ Len(b) \in Nat /\ Len(a \o b) = Len(a) + Len(b)
      /\ \A j \in 1 .. Len(b) : (a \o b)[Len(a) + j] = b[j]
  BY <1>2
<1>5. ASSUME NEW j \in 1 .. Len(b)
      PROVE  all[Len(a) + j] = b[j]
  <2>1. Len(a) + j \in 1 .. Len(run[k])
    BY <1>2, <1>4
  <2> QED BY <1>2, <1>3, <1>4, <2>1
<1> QED BY <1>2, <1>3, <1>4, <1>5 DEF all, a, b, IsPart

(***************************************************************************)
(* A sequence is its first part and the rest.                              *)
(***************************************************************************)
LEMMA JoinedParts ==
  ASSUME NEW S, NEW m \in Nat, NEW p \in Nat, NEW e \in [1 .. m + p -> S]
  PROVE  [i \in 1 .. m |-> e[i]] \o [j \in 1 .. p |-> e[m + j]] = e
<1> DEFINE a == [i \in 1 .. m |-> e[i]]
           b == [j \in 1 .. p |-> e[m + j]]
<1>1. \A i \in 1 .. m : i \in 1 .. m + p
  OBVIOUS
<1>2. \A j \in 1 .. p : m + j \in 1 .. m + p
  OBVIOUS
<1>3. a \in Seq(S) /\ Len(a) = m /\ \A i \in 1 .. m : a[i] = e[i]
  BY <1>1
<1>4. b \in Seq(S) /\ Len(b) = p /\ \A j \in 1 .. p : b[j] = e[m + j]
  BY <1>2
<1> HIDE DEF a, b
<1>0. Len(a) = m /\ Len(b) = p /\ a \in Seq(S) /\ b \in Seq(S)
  BY <1>3, <1>4
<1>5. /\ a \o b \in Seq(S) /\ Len(a \o b) = m + p
      /\ \A i \in 1 .. m + p : (a \o b)[i] = IF i <= m THEN a[i] ELSE b[i - m]
  <2>1. Len(a) + Len(b) = m + p /\ \A i \in 1 .. m + p : (i <= Len(a) <=> i <= m) /\ i - Len(a) = i - m
    BY <1>0
  <2>2. /\ a \o b \in Seq(S) /\ Len(a \o b) = Len(a) + Len(b)
        /\ \A i \in 1 .. Len(a) + Len(b) : (a \o b)[i] = IF i <= Len(a) THEN a[i] ELSE b[i - Len(a)]
    BY <1>0
  <2> QED BY <1>0, <2>1, <2>2
<1>6. ASSUME NEW i \in 1 .. m + p
      PROVE  (a \o b)[i] = e[i]
  <2>1. CASE i <= m
    <3>1. i \in 1 .. m
      BY <2>1
    <3> QED BY <1>3, <1>5, <2>1, <3>1
  <2>2. CASE ~(i <= m)
    <3>1. i - m \in 1 .. p /\ m + (i - m) = i
      BY <2>2
    <3>2. (a \o b)[i] = b[i - m]
      BY <1>5, <2>2
    <3> QED BY <1>4, <3>1, <3>2
  <2> QED BY <2>1, <2>2
<1> DEFINE both == a \o b
<1> HIDE DEF both
<1>7. both \in Seq(S) /\ Len(both) = m + p
  BY <1>5 DEF both
<1>8. both = [i \in 1 .. m + p |-> both[i]]
  BY <1>7
<1>9. \A i \in 1 .. m + p : both[i] = e[i]
  BY <1>6 DEF both
<1>10. both = e
  BY <1>8, <1>9
<1> QED BY <1>10 DEF a, b, both

\* The runes, by what the prover knows of them: it finds no text in STRING.
Chars == STRING \cup {"_"}
Marks == [char : Chars, upper : BOOLEAN]

\* What camelToSnake puts between words.
Underscore == <<Lower("_")>>

(***************************************************************************)
(* The texts of at most one rune.                                          *)
(***************************************************************************)
LEMMA ShortRunes ==
  /\ Underscore \in Seq(Marks) /\ <<>> \in Seq(Marks)
  /\ \A r \in Marks : <<Lower(r.char)>> \in Seq(Marks)
<1>1. Lower("_") \in Marks /\ \A r \in Marks : Lower(r.char) \in Marks
  <2>1. \A r \in Marks : r.char \in Chars
    BY DEF Marks
  <2>2. \A c \in Chars : Lower(c) \in Marks
    BY DEF Lower, Marks
  <2>3. "_" \in Chars
    BY DEF Chars
  <2> QED BY <2>1, <2>2, <2>3
<1>2. \A r \in Marks : <<r>> \in Seq(Marks)
  OBVIOUS
<1>3. <<>> \in Seq(Marks)
  OBVIOUS
<1> QED BY <1>1, <1>2, <1>3 DEF Underscore

\* A word as its key has it.
Lowered(word) == [i \in 1 .. Len(word) |-> Lower(word[i].char)]

(***************************************************************************)
(* Runes in lower case are runes, as many as before.                       *)
(***************************************************************************)
LEMMA LoweredRunes ==
  ASSUME NEW word \in Seq(Marks)
  PROVE  Lowered(word) \in Seq(Marks) /\ Len(Lowered(word)) = Len(word)
<1>1. \A i \in 1 .. Len(word) : word[i] \in Marks
  OBVIOUS
<1>2. \A i \in 1 .. Len(word) : Lower(word[i].char) \in Marks
  BY <1>1 DEF Marks, Lower
<1>3. Len(word) \in Nat
  OBVIOUS
<1> DEFINE n == Len(word)
           e(i) == Lower(word[i].char)
<1> HIDE DEF n, e
<1>4. [i \in 1 .. n |-> e(i)] \in Seq(Marks) /\ Len([i \in 1 .. n |-> e(i)]) = n
  BY <1>2, <1>3 DEF n, e
<1> QED BY <1>4 DEF n, e, Lowered

(***************************************************************************)
(* Runes may be appended in any order of the appends.                      *)
(***************************************************************************)
LEMMA MarksAssociate ==
  ASSUME NEW s \in Seq(Marks), NEW t \in Seq(Marks), NEW u \in Seq(Marks)
  PROVE  (s \o t) \o u = s \o (t \o u)
BY ConcatAssociative

(***************************************************************************)
(* The texts that camelToSnake writes for the runes of a word, the first   *)
(* after a separator, are the word in lower case after the separator.      *)
(***************************************************************************)
LEMMA WordFlattens ==
  ASSUME NEW word \in Seq(Marks), word # <<>>, NEW sep \in Seq(Marks),
         NEW w \in Seq(Seq(Marks)), Len(w) = Len(word),
         w[1] = sep \o <<Lower(word[1].char)>>,
         \A j \in 2 .. Len(word) : w[j] = <<Lower(word[j].char)>>
  PROVE  FlattenSeq(w) = sep \o Lowered(word)
<1> DEFINE n == Len(word)
           l == Lowered(word)
           part(j) == [i \in 1 .. j |-> l[i]]
           run == [j \in 0 .. n |-> IF j = 0 THEN <<>> ELSE sep \o part(j)]
<1>1. n \in Nat /\ n > 0
  OBVIOUS
<1>2. /\ l \in Seq(Marks) /\ Len(l) = n
      /\ \A i \in 1 .. n : l[i] = Lower(word[i].char) /\ l[i] \in Marks
  <2>1. l \in Seq(Marks) /\ Len(l) = n
    BY LoweredRunes
  <2>2. \A i \in 1 .. n : l[i] = Lower(word[i].char)
    BY DEF Lowered
  <2> HIDE DEF n, l
  <2> QED BY <2>1, <2>2
<1> HIDE DEF n, l
<1>3. ASSUME NEW j \in 0 .. n
      PROVE  part(j) \in Seq(Marks) /\ Len(part(j)) = j
  <2>1. j \in Nat /\ \A i \in 1 .. j : i \in 1 .. n
    BY <1>1
  <2>2. \A i \in 1 .. j : l[i] \in Marks
    BY <1>2, <2>1
  <2> QED BY <2>1, <2>2
<1>4. run \in [0 .. n -> Seq(Marks)]
  <2>1. ASSUME NEW j \in 0 .. n
        PROVE  (IF j = 0 THEN <<>> ELSE sep \o part(j)) \in Seq(Marks)
    <3> HIDE DEF part
    <3> QED BY <1>3
  <2> HIDE DEF part
  <2> QED BY <2>1
<1>5. run[0] = <<>>
  BY <1>1
<1>6. ASSUME NEW j \in 1 .. n
      PROVE  run[j] = run[j - 1] \o w[j]
  <2>1. j \in 0 .. n /\ j - 1 \in 0 .. n /\ j # 0
    BY <1>1
  <2>2. run[j] = sep \o part(j)
    <3> HIDE DEF part
    <3> QED BY <2>1
  <2>3. CASE j = 1
    <3>1. run[j - 1] = <<>>
      BY <1>1, <1>5, <2>3
    <3>2. part(j) = <<l[1]>>
      BY <2>3
    <3>3. w[j] = sep \o <<l[1]>>
      BY <1>1, <1>2, <2>3 DEF n
    <3>4. l[1] \in Marks
      BY <1>1, <1>2
    <3>5. <<>> \o w[j] = w[j]
      BY <3>3, <3>4
    <3> HIDE DEF run, part
    <3> QED BY <2>2, <3>1, <3>2, <3>3, <3>5
  <2>4. CASE j # 1
    <3>1. run[j - 1] = sep \o part(j - 1)
      <4> HIDE DEF part
      <4> QED BY <2>1, <2>4
    <3>2. w[j] = <<l[j]>> /\ l[j] \in Marks
      BY <1>1, <1>2, <2>4 DEF n
    <3>3. part(j) = part(j - 1) \o <<l[j]>>
      <4>1. j - 1 \in Nat
        BY <2>1
      <4>2. \A i \in 1 .. j : l[i] \in Marks
        BY <1>1, <1>2
      <4> QED BY <4>1, <4>2
    <3>4. part(j - 1) \in Seq(Marks)
      <4> HIDE DEF part
      <4> QED BY <1>3, <2>1
    <3> DEFINE b == part(j - 1)
               c == <<l[j]>>
    <3>5. c \in Seq(Marks)
      BY <3>2
    <3> HIDE DEF part, run, b, c
    <3>6. b \in Seq(Marks)
      BY <3>4 DEF b
    <3>7. (sep \o b) \o c = sep \o (b \o c)
      BY <3>5, <3>6, MarksAssociate
    <3> QED BY <2>2, <3>1, <3>2, <3>3, <3>7 DEF b, c
  <2> QED BY <2>3, <2>4
<1>7. Concatenations(w, Marks, run)
  <2> HIDE DEF run
  <2> QED BY <1>4, <1>5, <1>6 DEF Concatenations, n
<1>8. FlattenSeq(w) = run[n]
  <2> HIDE DEF run
  <2> QED BY <1>7, FlattenIsLast DEF n
<1>9. run[n] = sep \o part(n)
  <2> HIDE DEF part
  <2> QED BY <1>1
<1>10. part(n) = l
  BY <1>2
<1> QED BY <1>8, <1>9, <1>10 DEF l

(***************************************************************************)
(* The runes of a word.                                                    *)
(***************************************************************************)
LEMMA RunesOfWord ==
  ASSUME NEW word, IsWord(word)
  PROVE  /\ word \in Seq(Marks) /\ Len(word) \in Nat /\ Len(word) >= 1 /\ IsUpper(word[1])
         /\ IsAcronym(word) => \A j \in 1 .. Len(word) : IsUpper(word[j])
         /\ ~IsAcronym(word) =>
                /\ Len(word) >= 2 /\ IsLower(word[2])
                /\ \A j \in 2 .. Len(word) : ~IsUpper(word[j])
<1>1. word \in Seq(Marks) /\ word # <<>> /\ IsUpper(word[1])
  <2>1. word \in Seq(Runes) /\ word # <<>> /\ IsUpper(word[1])
    BY DEF IsWord
  <2>2. \A r \in Runes : r \in Marks
    BY DEF Runes, Marks, Chars
  <2>3. \A i \in 1 .. Len(word) : word[i] \in Marks
    BY <2>1, <2>2
  <2> QED BY <2>1, <2>3
<1>2. Len(word) \in Nat /\ Len(word) >= 1 /\ DOMAIN word = 1 .. Len(word)
  BY <1>1
<1>3. IsAcronym(word) => \A j \in 1 .. Len(word) : IsUpper(word[j])
  BY <1>2 DEF IsAcronym
<1>4. ASSUME ~IsAcronym(word)
      PROVE  /\ Len(word) >= 2 /\ IsLower(word[2])
             /\ \A j \in 2 .. Len(word) : ~IsUpper(word[j])
  <2>1. IsLower(word[2]) /\ \A j \in 2 .. Len(word) : ~IsUpper(word[j])
    BY <1>4 DEF IsWord
  <2>2. PICK j \in 1 .. Len(word) : ~IsUpper(word[j])
    BY <1>2, <1>4 DEF IsAcronym
  <2>3. j # 1
    BY <1>1, <2>2
  <2> QED BY <1>2, <2>1, <2>3
<1> QED BY <1>1, <1>2, <1>3, <1>4

\* The rune of a word has its place in the name, and is split from the one before
\* if it begins another word.
SplitsRight(words, run, k, j) ==
    LET s == run[Len(words)]
        i == Len(run[k - 1]) + j
    IN  /\ i \in 1 .. Len(s) /\ s[i] = words[k][j]
        /\ Splits(s, i) <=> k # 1 /\ j = 1

(***************************************************************************)
(* In a name, camelToSnake splits before the words but the first, and      *)
(* nowhere else.                                                           *)
(***************************************************************************)
LEMMA SplitsBetweenWords ==
  ASSUME NEW words \in Seq(Seq(Marks)), \A k \in 1 .. Len(words) : IsWord(words[k]),
         Separable(words), NEW run, Concatenations(words, Marks, run),
         NEW k \in 1 .. Len(words), NEW j \in 1 .. Len(words[k])
  PROVE  SplitsRight(words, run, k, j)
<1>0. ASSUME NEW m \in 1 .. Len(words)
      PROVE  /\ run[m - 1] \in Seq(Marks) /\ run[Len(words)] \in Seq(Marks)
             /\ Len(run[m]) = Len(run[m - 1]) + Len(words[m])
             /\ Len(run[m]) <= Len(run[Len(words)])
             /\ \A h \in 1 .. Len(words[m]) :
                    run[Len(words)][Len(run[m - 1]) + h] = words[m][h]
  <2>1. IsPart(words, Marks, run, m)
    BY PartsOfConcatenation
  <2> QED BY <2>1 DEF IsPart
<1> DEFINE n == Len(words)
           s == run[n]
           o == Len(run[k - 1])
           i == o + j
           word == words[k]
<1>1. n \in Nat /\ k \in 1 .. n
  OBVIOUS
<1>2. /\ word \in Seq(Marks) /\ Len(word) \in Nat /\ j \in 1 .. Len(word) /\ IsUpper(word[1])
      /\ IsAcronym(word) => \A h \in 1 .. Len(word) : IsUpper(word[h])
      /\ ~IsAcronym(word) =>
            /\ Len(word) >= 2 /\ IsLower(word[2])
            /\ \A h \in 2 .. Len(word) : ~IsUpper(word[h])
  BY RunesOfWord
<1>3. /\ run[k - 1] \in Seq(Marks) /\ s \in Seq(Marks)
      /\ Len(run[k]) = o + Len(word) /\ Len(run[k]) <= Len(s)
      /\ \A h \in 1 .. Len(word) : s[o + h] = word[h]
  BY <1>0
<1>4. o \in Nat /\ Len(s) \in Nat
  BY <1>3
<1>5. ASSUME k < n
      PROVE  Len(run[k]) < Len(s) /\ IsUpper(s[Len(run[k]) + 1])
  <2>1. k + 1 \in 1 .. n /\ (k + 1) - 1 = k
    BY <1>1, <1>5
  <2> DEFINE next == words[k + 1]
  <2>2. Len(next) \in Nat /\ 1 \in 1 .. Len(next) /\ IsUpper(next[1])
    BY <2>1, RunesOfWord
  <2>3. /\ Len(run[k + 1]) = Len(run[k]) + Len(next) /\ Len(run[k + 1]) <= Len(s)
        /\ \A h \in 1 .. Len(next) : s[Len(run[k]) + h] = next[h]
    <3> DEFINE m == k + 1
    <3>1. /\ Len(run[m]) = Len(run[m - 1]) + Len(words[m]) /\ Len(run[m]) <= Len(s)
          /\ \A h \in 1 .. Len(words[m]) : s[Len(run[m - 1]) + h] = words[m][h]
      <4>1. m \in 1 .. Len(words)
        BY <2>1
      <4> HIDE DEF m
      <4> QED BY <1>0, <4>1
    <3> QED BY <2>1, <3>1
  <2> HIDE DEF n, s, o, word, next
  <2>4. Len(run[k]) \in Nat
    BY <1>2, <1>3, <1>4
  <2> QED BY <1>4, <2>2, <2>3, <2>4
<1>6. ASSUME k # 1
      PROVE  /\ o > 0 /\ s[o].char \in Letters
             /\ \/ IsLower(s[o])
                \/ IsUpper(s[o]) /\ ~IsAcronym(word)
  <2> DEFINE m == k - 1
             before == words[m]
  <2>1. m \in 1 .. n /\ m \in 1 .. n - 1 /\ m + 1 = k
    BY <1>1, <1>6
  <2>2. before[Len(before)].char \in Letters /\ ~(IsAcronym(before) /\ IsAcronym(word))
    <3>1. Last(words[m]).char \in Letters /\ ~(IsAcronym(words[m]) /\ IsAcronym(words[m + 1]))
      <4> HIDE DEF m
      <4> QED BY <2>1 DEF Separable
    <3> QED BY <2>1, <3>1 DEF Last
  <2>3. IsWord(before)
    BY <2>1
  <2>4. /\ before \in Seq(Marks) /\ Len(before) \in Nat /\ Len(before) >= 1
        /\ IsAcronym(before) => \A h \in 1 .. Len(before) : IsUpper(before[h])
        /\ ~IsAcronym(before) =>
              Len(before) >= 2 /\ \A h \in 2 .. Len(before) : ~IsUpper(before[h])
    <3> HIDE DEF before
    <3> QED BY <2>3, RunesOfWord
  <2>5. /\ run[m - 1] \in Seq(Marks) /\ o = Len(run[m - 1]) + Len(before)
        /\ \A h \in 1 .. Len(before) : s[Len(run[m - 1]) + h] = before[h]
    <3>1. m \in 1 .. Len(words)
      BY <2>1
    <3> HIDE DEF m
    <3>2. /\ run[m - 1] \in Seq(Marks) /\ Len(run[m]) = Len(run[m - 1]) + Len(words[m])
          /\ \A h \in 1 .. Len(words[m]) : s[Len(run[m - 1]) + h] = words[m][h]
      BY <1>0, <3>1
    <3> QED BY <3>2 DEF m
  <2> HIDE DEF n, s, o, word, m, before
  <2>6. Len(run[m - 1]) \in Nat
    BY <2>5
  <2>7. s[o] = before[Len(before)] /\ o > 0
    BY <2>4, <2>5, <2>6
  <2>8. IsAcronym(before) => IsUpper(s[o])
    BY <2>4, <2>7
  <2>9. ~IsAcronym(before) => ~IsUpper(s[o])
    BY <2>4, <2>7
  <2> QED BY <2>2, <2>7, <2>8, <2>9 DEF IsLower, IsUpper
<1> HIDE DEF n, s, o, word
<1>7. i \in 1 .. Len(s) /\ s[i] = word[j] /\ i <= Len(run[k])
  BY <1>2, <1>3, <1>4
<1>8. ASSUME k # 1, j = 1
      PROVE  Splits(s, i)
  <2>1. i > 1 /\ i - 1 = o /\ IsUpper(s[i])
    BY <1>2, <1>4, <1>6, <1>7, <1>8
  <2>2. CASE IsLower(s[o])
    BY <2>1, <2>2 DEF Splits
  <2>3. CASE IsUpper(s[o]) /\ ~IsAcronym(word)
    <3>1. i < Len(s) /\ s[i + 1] = word[2] /\ IsLower(word[2])
      BY <1>2, <1>3, <1>4, <1>8, <2>3
    <3> QED BY <2>1, <2>3, <3>1 DEF Splits
  <2> QED BY <1>6, <1>8, <2>2, <2>3
<1>9. ASSUME k = 1, j = 1
      PROVE  ~Splits(s, i)
  <2>1. run[k - 1] = <<>>
    BY <1>9 DEF Concatenations
  <2>2. i = 1
    BY <1>9, <2>1 DEF o
  <2> QED BY <1>9, <2>2 DEF Splits
<1>10. ASSUME j # 1
       PROVE  ~Splits(s, i)
  <2>1. j \in 2 .. Len(word) /\ j - 1 \in 1 .. Len(word)
    BY <1>2, <1>10
  <2>2. CASE ~IsAcronym(word)
    <3>1. ~IsUpper(s[i])
      BY <1>2, <1>7, <2>1, <2>2
    <3> QED BY <1>10, <3>1 DEF Splits
  <2>3. CASE IsAcronym(word)
    <3>1. i - 1 = o + (j - 1)
      BY <1>4, <2>1
    <3>2. s[i - 1] = word[j - 1]
      BY <1>3, <2>1, <3>1
    <3>3. ~IsLower(s[i - 1])
      BY <1>2, <2>1, <2>3, <3>2 DEF IsLower, IsUpper
    <3>4. ASSUME i < Len(s)
          PROVE  ~IsLower(s[i + 1])
      <4>1. CASE j < Len(word)
        <5>1. j + 1 \in 1 .. Len(word) /\ i + 1 = o + (j + 1)
          BY <1>2, <1>4, <2>1, <4>1
        <5>2. s[i + 1] = word[j + 1] /\ IsUpper(word[j + 1])
          BY <1>2, <1>3, <2>3, <5>1
        <5> QED BY <5>2 DEF IsLower, IsUpper
      <4>2. CASE j = Len(word)
        <5>1. i = Len(run[k])
          BY <1>3, <4>2
        <5>2. k # n
          BY <3>4, <5>1 DEF s
        <5>3. IsUpper(s[i + 1])
          BY <1>1, <1>5, <5>1, <5>2
        <5> QED BY <5>3 DEF IsLower, IsUpper
      <4> QED BY <1>2, <4>1, <4>2
    <3> QED BY <1>10, <3>3, <3>4 DEF Splits
  <2> QED BY <2>2, <2>3
<1> QED BY <1>7, <1>8, <1>9, <1>10 DEF n, s, o, word, SplitsRight

(***************************************************************************)
(* The snake of a name is its words, in lower case, with underscores in    *)
(* between.                                                                *)
(***************************************************************************)
LEMMA SnakeIsWords ==
  ASSUME NEW words \in Seq(Seq(Marks)), \A k \in 1 .. Len(words) : IsWord(words[k])
  PROVE  SnakeTellsWords(words)
<1> SUFFICES ASSUME Separable(words)
             PROVE  camelToSnake(Name(words)) =
                        FlattenSeq([n \in DOMAIN words |->
                            (IF n = 1 THEN <<>> ELSE <<Lower("_")>>)
                            \o [i \in DOMAIN words[n] |-> Lower(words[n][i].char)]])
  BY DEF SnakeTellsWords
<1> DEFINE n == Len(words)
           s == Name(words)
           piece(i) == (IF Splits(s, i) THEN Underscore ELSE <<>>) \o <<Lower(s[i].char)>>
           sep(k) == IF k = 1 THEN <<>> ELSE Underscore
           target(k) == sep(k) \o Lowered(words[k])
           targets == [k \in 1 .. n |-> target(k)]
<1>1. n \in Nat /\ \A k \in 1 .. n : words[k] \in Seq(Marks)
  OBVIOUS
<1>2. PICK run : Concatenations(words, Marks, run)
  BY ConcatenationsExist
<1>3. s = run[n]
  BY <1>2, FlattenIsLast DEF Name
<1>4. /\ run \in [0 .. n -> Seq(Marks)] /\ run[0] = <<>>
  BY <1>1, <1>2 DEF Concatenations
<1>5. s \in Seq(Marks) /\ Len(s) \in Nat /\ \A i \in 1 .. Len(s) : s[i] \in Marks
  <2>1. n \in 0 .. n
    BY <1>1
  <2>2. s \in Seq(Marks)
    <3> HIDE DEF n, s
    <3> QED BY <1>3, <1>4, <2>1
  <2> HIDE DEF s
  <2> QED BY <2>2
<1>6. \A k \in 1 .. n : sep(k) \in Seq(Marks)
  BY ShortRunes
<1>7. ASSUME NEW k \in 1 .. n
      PROVE  target(k) \in Seq(Marks)
  <2>1. Lowered(words[k]) \in Seq(Marks)
    BY <1>1, LoweredRunes
  <2>2. sep(k) \in Seq(Marks)
    BY <1>6
  <2> HIDE DEF sep
  <2> QED BY <2>1, <2>2
<1>8. targets \in Seq(Seq(Marks)) /\ Len(targets) = n /\ \A k \in 1 .. n : targets[k] = target(k)
  <2> HIDE DEF target, n
  <2> QED BY <1>1, <1>7
<1>9. ASSUME NEW i \in 1 .. Len(s)
      PROVE  piece(i) \in Seq(Marks)
  <2> DEFINE a == IF Splits(s, i) THEN Underscore ELSE <<>>
             b == <<Lower(s[i].char)>>
  <2>1. s[i] \in Marks
    BY <1>5
  <2>2. a \in Seq(Marks) /\ b \in Seq(Marks)
    <3> HIDE DEF s
    <3> QED BY <2>1, ShortRunes
  <2> HIDE DEF a, b
  <2>3. a \o b \in Seq(Marks)
    BY <2>2
  <2> QED BY <2>3 DEF a, b
<1>10. PICK sums : Concatenations(targets, Marks, sums)
  <2> HIDE DEF targets
  <2> QED BY <1>8, ConcatenationsExist
<1>11. /\ sums \in [0 .. n -> Seq(Marks)] /\ sums[0] = <<>>
       /\ \A k \in 1 .. n : sums[k] = sums[k - 1] \o target(k)
  <2> HIDE DEF targets, target, n
  <2> QED BY <1>8, <1>10 DEF Concatenations
<1> DEFINE pieces(k) == [i \in 1 .. Len(run[k]) |-> piece(i)]
<1>12. ASSUME NEW k \in 1 .. n, FlattenSeq(pieces(k - 1)) = sums[k - 1]
       PROVE  FlattenSeq(pieces(k)) = sums[k]
  <2> DEFINE word == words[k]
             o == Len(run[k - 1])
             w == [j \in 1 .. Len(word) |-> piece(o + j)]
  <2>1. /\ run[k - 1] \in Seq(Marks)
        /\ Len(run[k]) = o + Len(word) /\ Len(run[k]) <= Len(s)
    <3>1. IsPart(words, Marks, run, k)
      BY <1>2, PartsOfConcatenation
    <3> QED BY <1>3, <3>1 DEF IsPart
  <2>2. word \in Seq(Marks) /\ word # <<>> /\ Len(word) \in Nat
    <3>1. IsWord(word)
      OBVIOUS
    <3> HIDE DEF word
    <3> QED BY <3>1, RunesOfWord
  <2>3. o \in Nat
    BY <2>1
  <2>4. ASSUME NEW j \in 1 .. Len(word)
        PROVE  /\ o + j \in 1 .. Len(s) /\ s[o + j] = word[j]
               /\ Splits(s, o + j) <=> k # 1 /\ j = 1
    <3>1. SplitsRight(words, run, k, j)
      BY <1>2, SplitsBetweenWords
    <3> QED BY <1>3, <3>1 DEF SplitsRight
  <2> HIDE DEF n, s, o, word
  <2>5. \A j \in 1 .. Len(word) : piece(o + j) \in Seq(Marks)
    <3> HIDE DEF piece
    <3> QED BY <1>9, <2>4
  <2>6. w \in Seq(Seq(Marks)) /\ Len(w) = Len(word)
    <3> HIDE DEF piece
    <3> QED BY <2>2, <2>5
  <2>7. pieces(k - 1) \in Seq(Seq(Marks)) /\ Len(pieces(k - 1)) = o
    <3>1. ASSUME NEW i \in 1 .. o
          PROVE  piece(i) \in Seq(Marks)
      <4>1. i \in 1 .. Len(s)
        BY <1>5, <2>1, <2>2, <2>3
      <4> HIDE DEF piece
      <4> QED BY <1>9, <4>1
    <3> HIDE DEF piece
    <3> QED BY <2>3, <3>1 DEF o
  <2>8. pieces(k) = pieces(k - 1) \o w
    <3> DEFINE e == pieces(k)
               m == Len(word)
               R == Seq(Marks)
    <3>1. o + m \in Nat /\ \A i \in 1 .. o + m : i \in 1 .. Len(s)
      BY <1>5, <2>1, <2>2, <2>3
    <3>2. e \in [1 .. o + m -> R]
      <4> HIDE DEF piece
      <4> QED BY <1>9, <2>1, <3>1
    <3>3. \A i \in 1 .. o + m : e[i] = piece(i)
      <4> HIDE DEF piece
      <4> QED BY <2>1
    <3>4. pieces(k - 1) = [i \in 1 .. o |-> e[i]]
      <4>1. \A i \in 1 .. o : i \in 1 .. o + m
        BY <2>2, <2>3
      <4> HIDE DEF piece, e
      <4> QED BY <3>3, <4>1 DEF o
    <3>5. w = [j \in 1 .. m |-> e[o + j]]
      <4>1. \A j \in 1 .. m : o + j \in 1 .. o + m
        BY <2>2, <2>3
      <4> HIDE DEF piece, e
      <4> QED BY <3>3, <4>1
    <3> HIDE DEF pieces, w, e, m, R
    <3>6. [i \in 1 .. o |-> e[i]] \o [j \in 1 .. m |-> e[o + j]] = e
      BY <2>2, <2>3, <3>2, JoinedParts DEF m
    <3> QED BY <3>4, <3>5, <3>6 DEF e
  <2>9. w[1] = sep(k) \o <<Lower(word[1].char)>>
    <3>1. 1 \in 1 .. Len(word)
      BY <2>2
    <3>2. s[o + 1] = word[1] /\ (Splits(s, o + 1) <=> k # 1)
      BY <2>4, <3>1
    <3>3. w[1] = piece(o + 1)
      BY <3>1
    <3> QED BY <3>2, <3>3
  <2>10. ASSUME NEW j \in 2 .. Len(word)
         PROVE  w[j] = <<Lower(word[j].char)>>
    <3>1. j \in 1 .. Len(word) /\ j # 1
      OBVIOUS
    <3>2. s[o + j] = word[j] /\ ~Splits(s, o + j)
      BY <2>4, <3>1
    <3>3. w[j] = piece(o + j)
      <4> HIDE DEF piece
      <4> QED BY <3>1
    <3> HIDE DEF w
    <3>4. w[j] = <<>> \o <<Lower(word[j].char)>>
      BY <3>2, <3>3
    <3> QED BY <3>4
  <2>11. FlattenSeq(w) = target(k)
    <3> DEFINE r == sep(k)
    <3>1. r \in Seq(Marks)
      BY <1>6
    <3> HIDE DEF w, r
    <3>2. FlattenSeq(w) = r \o Lowered(word)
      BY <2>2, <2>6, <2>9, <2>10, <3>1, WordFlattens DEF r
    <3> QED BY <3>2 DEF r, word
  <2>12. FlattenSeq(pieces(k)) = FlattenSeq(pieces(k - 1)) \o FlattenSeq(w)
    <3> HIDE DEF pieces, w
    <3> QED BY <2>6, <2>7, <2>8, FlattenConcat
  <2> HIDE DEF pieces, w, target
  <2> QED BY <1>11, <1>12, <2>11, <2>12
<1>13. FlattenSeq(pieces(0)) = sums[0]
  <2>1. pieces(0) = <<>>
    <3>1. Len(run[0]) = 0
      BY <1>4
    <3> HIDE DEF piece
    <3> QED BY <3>1
  <2> HIDE DEF pieces
  <2>2. FlattenSeq(<<>>) = <<>>
    BY DEF FlattenSeq
  <2> QED BY <1>11, <2>1, <2>2
<1> DEFINE Bad == {k \in 0 .. n : FlattenSeq(pieces(k)) # sums[k]}
<1>14. ASSUME NEW k \in Bad, \A h \in Bad : k <= h
       PROVE  FALSE
  <2> HIDE DEF pieces, n
  <2>1. k \in 0 .. n /\ FlattenSeq(pieces(k)) # sums[k]
    OBVIOUS
  <2>2. k # 0
    BY <1>13, <2>1
  <2>3. k \in 1 .. n /\ k - 1 \in 0 .. n /\ ~(k <= k - 1)
    BY <1>1, <2>1, <2>2
  <2>4. FlattenSeq(pieces(k - 1)) = sums[k - 1]
    BY <1>14, <2>3
  <2> QED BY <1>12, <2>1, <2>3, <2>4
<1>15. FlattenSeq(pieces(n)) = sums[n]
  <2>1. Bad \subseteq Nat
    <3> HIDE DEF pieces, n
    <3> QED BY <1>1
  <2>2. Bad = {}
    <3> HIDE DEF Bad
    <3> QED BY <1>14, <2>1, LeastNumber
  <2> HIDE DEF pieces, n
  <2> QED BY <1>1, <2>2
<1>16. camelToSnake(s) = FlattenSeq(pieces(n))
  <2>1. DOMAIN s = 1 .. Len(run[n])
    BY <1>3, <1>5
  <2> HIDE DEF s, n
  <2> QED BY <2>1 DEF camelToSnake, Underscore
<1>17. FlattenSeq(targets) = sums[n]
  <2> HIDE DEF targets, n
  <2> QED BY <1>8, <1>10, FlattenIsLast
<1>18. targets = [k \in DOMAIN words |->
                    sep(k) \o [i \in DOMAIN words[k] |-> Lower(words[k][i].char)]]
  <2>1. DOMAIN words = 1 .. n /\ \A k \in 1 .. n : DOMAIN words[k] = 1 .. Len(words[k])
    BY <1>1
  <2> HIDE DEF sep, n
  <2>2. \A k \in 1 .. n : target(k) = sep(k) \o [i \in DOMAIN words[k] |-> Lower(words[k][i].char)]
    BY <2>1 DEF Lowered
  <2> QED BY <2>1, <2>2
<1> HIDE DEF pieces, targets
<1> QED BY <1>15, <1>16, <1>17, <1>18 DEF Underscore

(***************************************************************************)
(* camelToSnake in config.go tells the words of every name apart that can  *)
(* be told apart, whatever their letters, their lengths and their number.  *)
(***************************************************************************)
THEOREM KeysAlwaysTellTheWords == AlgorithmsSpec => []KeysTellTheWords
<1> DEFINE Typed == Called("camelToSnake") => \E n \in Nat : input.words \in [1 .. n -> Words]
<1>1. AlgorithmsInit => Typed
  BY MaxWordsAssumption DEF AlgorithmsInit, Called
<1>2. Typed /\ [AlgorithmsNext]_input => Typed'
  BY DEF AlgorithmsNext, Called
<1>3. Typed => KeysTellTheWords
  <2> SUFFICES ASSUME NEW n \in Nat, input.words \in [1 .. n -> Words]
               PROVE  SnakeTellsWords(input.words)
    BY DEF KeysTellTheWords
  <2> DEFINE words == input.words
  <2>1. Len(words) = n /\ \A k \in 1 .. n : words[k] \in Words
    OBVIOUS
  <2>2. \A k \in 1 .. n : IsWord(words[k])
    BY <2>1, WordsAssumption
  <2>3. \A k \in 1 .. n : words[k] \in Seq(Marks)
    BY <2>2, RunesOfWord
  <2>4. words \in Seq(Seq(Marks))
    BY <2>1, <2>3
  <2> QED BY <2>1, <2>2, <2>4, SnakeIsWords
<1> QED BY <1>1, <1>2, <1>3, PTL DEF AlgorithmsSpec

------------------------------------------------------------------------------
(* Sums *)

\* It holds of the empty set, and of a set with one element more.
Grows(D, Good) ==
    /\ Good \in SUBSET SUBSET D
    /\ {} \in Good
    /\ \A s \in SUBSET D : \A x \in D : s \in Good /\ x \notin s => s \cup {x} \in Good

(***************************************************************************)
(* What holds of the empty set, and of a set with another element when it  *)
(* holds of the set, holds of a finite set.                                *)
(***************************************************************************)
LEMMA GrowingSets ==
  ASSUME NEW D, IsFiniteSet(D), NEW Good, Grows(D, Good)
  PROVE  Good = SUBSET D
<1>0. /\ Good \in SUBSET SUBSET D /\ {} \in Good
      /\ \A s \in SUBSET D : \A x \in D : s \in Good /\ x \notin s => s \cup {x} \in Good
  BY DEF Grows
<1> DEFINE Bad == {Cardinality(s) : s \in (SUBSET D) \ Good}
<1>1. \A s \in SUBSET D : IsFiniteSet(s) /\ Cardinality(s) \in Nat
  BY FS_Subset, FS_CardinalityType
<1>2. ASSUME NEW n \in Bad, \A m \in Bad : n <= m
      PROVE  FALSE
  <2>1. PICK s \in (SUBSET D) \ Good : n = Cardinality(s)
    BY <1>2
  <2>2. PICK x \in s : TRUE
    BY <1>0
  <2> DEFINE t == s \ {x}
  <2>3. t \in SUBSET D /\ x \in D /\ x \notin t /\ s = t \cup {x}
    BY <2>2
  <2>4. Cardinality(t) = n - 1 /\ n \in Nat /\ Cardinality(t) \in Nat
    BY <1>1, <2>1, <2>2, <2>3, FS_RemoveElement
  <2>5. t \in Good
    <3>1. Cardinality(t) \notin Bad
      <4> HIDE DEF Bad, t
      <4> QED BY <1>2, <2>4
    <3> QED BY <2>3, <3>1
  <2> QED BY <1>0, <2>1, <2>3, <2>5
<1>3. Bad = {}
  <2>1. Bad \subseteq Nat
    BY <1>1
  <2> HIDE DEF Bad
  <2> QED BY <1>2, <2>1, LeastNumber
<1> QED BY <1>0, <1>3

\* The sums of a function over the subsets of its domain.
Totals(D, f, sums) ==
    /\ sums \in [SUBSET D -> Int]
    /\ sums[{}] = 0
    /\ \A s \in SUBSET D : \A y \in s : sums[s] = f[y] + sums[s \ {y}]

(***************************************************************************)
(* A sum is a term and the sum of the rest.                                *)
(***************************************************************************)
LEMMA SumOfRest ==
  ASSUME NEW D, NEW f, NEW sums, Totals(D, f, sums),
         NEW s \in SUBSET D, NEW y \in s, NEW r, r = s \ {y}
  PROVE  sums[s] = f[y] + sums[r]
BY DEF Totals

\* The equation that Total follows.
Folds(f, sums) ==
    sums = [s \in SUBSET DOMAIN f |->
        IF s = {} THEN 0 ELSE f[CHOOSE x \in s : TRUE] + sums[s \ {CHOOSE x \in s : TRUE}]]

(***************************************************************************)
(* Total is a sum that the equation leads to.                              *)
(***************************************************************************)
LEMMA TotalFolds ==
  ASSUME NEW f
  PROVE  Total(f) = (CHOOSE sums : Folds(f, sums))[DOMAIN f]
BY DEF Total, Folds, SumFunction, SumFunctionOnSet, FoldFunctionOnSet, MapThenFoldSet

(***************************************************************************)
(* There are sums that follow the equation.                                *)
(***************************************************************************)
LEMMA FoldsExist ==
  ASSUME NEW D, IsFiniteSet(D), NEW f \in [D -> Int]
  PROVE  \E sums : Folds(f, sums)
<1> DEFINE Sums == [SUBSET D -> Int]
           one(s) == CHOOSE x \in s : TRUE
           start == [s \in SUBSET D |-> 0]
           next(g, s) == IF s = {} THEN 0 ELSE f[one(s)] + g[s \ {one(s)}]
           step == [g \in Sums |-> [s \in SUBSET D |-> next(g, s)]]
<1>1. \A s \in SUBSET D : s # {} => one(s) \in s /\ one(s) \in D /\ s \ {one(s)} \in SUBSET D
  OBVIOUS
<1>2. ASSUME NEW g \in Sums, NEW s \in SUBSET D
      PROVE  next(g, s) \in Int
  <2> HIDE DEF one
  <2> QED BY <1>1
<1>3. start \in Sums /\ step \in [Sums -> Sums]
  <2>1. \A g \in Sums : [s \in SUBSET D |-> next(g, s)] \in Sums
    <3> HIDE DEF next
    <3> QED BY <1>2
  <2>3. start \in Sums
    OBVIOUS
  <2> HIDE DEF next
  <2>2. step \in [Sums -> Sums]
    <3> HIDE DEF Sums
    <3> QED BY <2>1
  <2> HIDE DEF start, step, Sums
  <2> QED BY <2>2, <2>3
<1>4. PICK f0 \in [Nat -> Sums] : Iterates(f0, start, step)
  <2> HIDE DEF start, step, Sums
  <2> QED BY <1>3, IteratesExist
<1>5. ASSUME NEW n \in Nat, NEW s \in SUBSET D
      PROVE  f0[n + 1][s] = next(f0[n], s)
  <2>1. n + 1 \in Nat /\ n + 1 # 0 /\ (n + 1) - 1 = n
    OBVIOUS
  <2>2. f0[n + 1] = step[f0[n]]
    <3> HIDE DEF step, start, Sums
    <3> QED BY <1>4, <2>1 DEF Iterates
  <2>3. f0[n] \in Sums
    <3> HIDE DEF Sums
    <3> QED BY <1>4
  <2>4. step[f0[n]] = [r \in SUBSET D |-> next(f0[n], r)]
    <3> HIDE DEF Sums, next
    <3> QED BY <2>3
  <2> HIDE DEF step, Sums, next
  <2> QED BY <2>2, <2>4
<1> DEFINE sums == [s \in SUBSET D |-> f0[Cardinality(s)][s]]
<1>6. ASSUME NEW s \in SUBSET D
      PROVE  sums[s] = IF s = {} THEN 0 ELSE f[one(s)] + sums[s \ {one(s)}]
  <2>1. CASE s = {}
    <3>1. f0[0] = start
      <4> HIDE DEF start, step, Sums
      <4> QED BY <1>4 DEF Iterates
    <3>2. sums[s] = f0[0][s]
      BY <2>1, FS_EmptySet
    <3> QED BY <2>1, <3>1, <3>2
  <2>2. CASE s # {}
    <3> DEFINE t == s \ {one(s)}
    <3>1. one(s) \in s /\ t \in SUBSET D
      BY <1>1, <2>2
    <3>2. IsFiniteSet(s) /\ Cardinality(s) \in Nat /\ Cardinality(t) \in Nat /\ Cardinality(t) = Cardinality(s) - 1
      <4> HIDE DEF one
      <4> QED BY <3>1, FS_Subset, FS_CardinalityType, FS_RemoveElement
    <3> HIDE DEF t, one
    <3>3. Cardinality(s) = Cardinality(t) + 1
      BY <3>2
    <3>4. sums[s] = f0[Cardinality(t) + 1][s]
      BY <3>3
    <3>5. f0[Cardinality(t) + 1][s] = next(f0[Cardinality(t)], s)
      <4> HIDE DEF next
      <4> QED BY <1>5, <3>2
    <3>6. sums[t] = f0[Cardinality(t)][t]
      BY <3>1
    <3> QED BY <2>2, <3>4, <3>5, <3>6 DEF t
  <2> HIDE DEF sums
  <2> QED BY <2>1, <2>2
<1>7. sums = [s \in SUBSET D |-> sums[s]]
  OBVIOUS
<1>8. DOMAIN f = D
  OBVIOUS
<1>9. Folds(f, sums)
  <2> HIDE DEF sums
  <2> QED BY <1>6, <1>7, <1>8 DEF Folds
<1> QED BY <1>9

(***************************************************************************)
(* A finite function has sums, whose last is Total.                        *)
(***************************************************************************)
LEMMA TotalsExist ==
  ASSUME NEW D, IsFiniteSet(D), NEW f \in [D -> Int]
  PROVE  \E sums : Totals(D, f, sums) /\ Total(f) = sums[D]
<1> DEFINE sums == CHOOSE sums : Folds(f, sums)
           one(s) == CHOOSE x \in s : TRUE
<1>1. Folds(f, sums)
  <2>1. \E g : Folds(f, g)
    BY FoldsExist
  <2> QED BY <2>1
<1> HIDE DEF sums
<1>2. sums = [s \in SUBSET D |-> IF s = {} THEN 0 ELSE f[one(s)] + sums[s \ {one(s)}]]
  <2>1. DOMAIN f = D
    OBVIOUS
  <2> QED BY <1>1, <2>1 DEF Folds
<1>3. sums[{}] = 0
  <2>1. {} \in SUBSET D
    OBVIOUS
  <2> HIDE DEF one
  <2> QED BY <1>2, <2>1
<1>4. ASSUME NEW s \in SUBSET D, s # {}
      PROVE  one(s) \in s /\ sums[s] = f[one(s)] + sums[s \ {one(s)}]
  <2>1. one(s) \in s
    BY <1>4
  <2> HIDE DEF one
  <2> QED BY <1>2, <1>4, <2>1
<1> HIDE DEF one
<1>5. \A s \in SUBSET D : IsFiniteSet(s) /\ Cardinality(s) \in Nat
  BY FS_Subset, FS_CardinalityType
<1> DEFINE Right(s) == sums[s] \in Int /\ \A y \in s : sums[s] = f[y] + sums[s \ {y}]
           Wrong == {s \in SUBSET D : ~Right(s)}
           Sizes == {Cardinality(s) : s \in Wrong}
<1>6. ASSUME NEW n \in Sizes, \A m \in Sizes : n <= m
      PROVE  FALSE
  <2>1. PICK s \in Wrong : n = Cardinality(s)
    BY <1>6
  <2> HIDE DEF Right
  <2>2. s \in SUBSET D /\ ~Right(s)
    OBVIOUS
  <2>3. ASSUME NEW y \in s
        PROVE  Right(s \ {y}) /\ s \ {y} \in SUBSET D /\ f[y] \in Int
    <3>1. Cardinality(s \ {y}) = n - 1 /\ n \in Nat /\ s \ {y} \in SUBSET D
      BY <1>5, <2>1, <2>2, FS_RemoveElement
    <3>2. Cardinality(s \ {y}) \notin Sizes
      <4> HIDE DEF Sizes
      <4> QED BY <1>6, <3>1
    <3>3. f[y] \in Int
      BY <2>2
    <3> QED BY <3>1, <3>2, <3>3
  <2>4. s # {}
    <3>1. Right({})
      BY <1>3 DEF Right
    <3> QED BY <2>2, <3>1
  <2> DEFINE z == one(s)
  <2>5. z \in s /\ sums[s] = f[z] + sums[s \ {z}]
    BY <1>4, <2>2, <2>4
  <2> HIDE DEF z, Wrong, Sizes
  <2>6. sums[s \ {z}] \in Int /\ f[z] \in Int
    BY <2>3, <2>5 DEF Right
  <2>7. ASSUME NEW y \in s
        PROVE  sums[s] = f[y] + sums[s \ {y}]
    <3>1. CASE y = z
      BY <2>5, <3>1
    <3>2. CASE y # z
      <4> DEFINE r == (s \ {z}) \ {y}
      <4>1. r = (s \ {y}) \ {z} /\ y \in s \ {z} /\ z \in s \ {y}
        BY <2>5, <3>2
      <4>2. sums[s \ {z}] = f[y] + sums[r]
        BY <2>3, <2>5, <4>1 DEF Right
      <4>3. sums[s \ {y}] = f[z] + sums[r]
        BY <2>3, <4>1 DEF Right
      <4>4. r \in SUBSET D
        BY <2>2
      <4>5. f[y] \in Int /\ f[z] \in Int /\ sums[s \ {z}] \in Int /\ sums[s \ {y}] \in Int
        BY <2>3, <2>6 DEF Right
      <4>6. sums[r] \in Int
        <5>1. Right(s \ {z}) /\ Right(s \ {y})
          BY <2>3, <2>5
        <5>2. Cardinality(r) = n - 1 - 1 /\ n \in Nat
          <6>1. Cardinality(s \ {z}) = n - 1 /\ n \in Nat
            BY <1>5, <2>1, <2>2, <2>5, FS_RemoveElement
          <6> DEFINE t == s \ {z}
          <6>2. t \in SUBSET D /\ y \in t /\ r = t \ {y}
            BY <2>2, <4>1
          <6>3. Cardinality(t) = n - 1
            BY <6>1
          <6> HIDE DEF t, r
          <6> QED BY <1>5, <6>1, <6>2, <6>3, FS_RemoveElement
        <5>3. Cardinality(r) \notin Sizes
          BY <1>6, <5>2
        <5>4. Right(r)
          BY <4>4, <5>3 DEF Sizes, Wrong
        <5> QED BY <5>4 DEF Right
      <4> HIDE DEF r
      <4> QED BY <2>5, <4>2, <4>3, <4>5, <4>6
    <3> QED BY <3>1, <3>2
  <2>8. sums[s] \in Int
    BY <2>5, <2>6
  <2> QED BY <2>2, <2>7, <2>8 DEF Right
<1>7. \A s \in SUBSET D : Right(s)
  <2>1. Sizes \subseteq Nat
    BY <1>5
  <2>2. Sizes = {}
    <3> HIDE DEF Sizes
    <3> QED BY <1>6, <2>1, LeastNumber
  <2> HIDE DEF Right
  <2> QED BY <2>2
<1>8. sums \in [SUBSET D -> Int]
  <2>1. \A s \in SUBSET D : sums[s] \in Int
    BY <1>7
  <2>2. sums = [s \in SUBSET D |-> sums[s]]
    BY <1>2
  <2> QED BY <2>1, <2>2
<1>9. Totals(D, f, sums)
  BY <1>3, <1>7, <1>8 DEF Totals
<1>10. Total(f) = sums[D]
  <2>1. DOMAIN f = D
    OBVIOUS
  <2> QED BY <2>1, TotalFolds DEF sums
<1> QED BY <1>9, <1>10

\* A linear inequality of functions, and that of their totals.
AtMost(D, a, f, b, g, c, h) == \A d \in D : a * f[d] + b * g[d] <= c * h[d]

TotalAtMost(a, f, b, g, c, h) ==
    /\ Total(f) \in Int /\ Total(g) \in Int /\ Total(h) \in Int
    /\ a * Total(f) + b * Total(g) <= c * Total(h)

(***************************************************************************)
(* A linear inequality of functions holds of their totals.                 *)
(***************************************************************************)
LEMMA LinearTotals ==
  ASSUME NEW D, IsFiniteSet(D), NEW f \in [D -> Int], NEW g \in [D -> Int], NEW h \in [D -> Int],
         NEW a \in Int, NEW b \in Int, NEW c \in Int, AtMost(D, a, f, b, g, c, h)
  PROVE  TotalAtMost(a, f, b, g, c, h)
<1>1. PICK F : Totals(D, f, F) /\ Total(f) = F[D]
  BY TotalsExist
<1>2. PICK G : Totals(D, g, G) /\ Total(g) = G[D]
  BY TotalsExist
<1>3. PICK H : Totals(D, h, H) /\ Total(h) = H[D]
  BY TotalsExist
<1>4. /\ F \in [SUBSET D -> Int] /\ G \in [SUBSET D -> Int] /\ H \in [SUBSET D -> Int]
      /\ F[{}] = 0 /\ G[{}] = 0 /\ H[{}] = 0
  BY <1>1, <1>2, <1>3 DEF Totals
<1> DEFINE Good == {s \in SUBSET D : a * F[s] + b * G[s] <= c * H[s]}
<1>5. {} \in Good
  BY <1>4
<1>6. ASSUME NEW s \in SUBSET D, NEW x \in D, s \in Good, x \notin s
      PROVE  s \cup {x} \in Good
  <2> DEFINE t == s \cup {x}
  <2>1. t \in SUBSET D /\ x \in t /\ t \ {x} = s
    BY <1>6
  <2> HIDE DEF t
  <2>2. F[t] = f[x] + F[s] /\ G[t] = g[x] + G[s] /\ H[t] = h[x] + H[s]
    BY <1>1, <1>2, <1>3, <2>1 DEF Totals
  <2>3. /\ F[s] \in Int /\ G[s] \in Int /\ H[s] \in Int
        /\ f[x] \in Int /\ g[x] \in Int /\ h[x] \in Int
    BY <1>4
  <2>4. a * F[s] + b * G[s] <= c * H[s] /\ a * f[x] + b * g[x] <= c * h[x]
    BY <1>6 DEF AtMost
  <2>5. /\ a * (f[x] + F[s]) = a * f[x] + a * F[s]
        /\ b * (g[x] + G[s]) = b * g[x] + b * G[s]
        /\ c * (h[x] + H[s]) = c * h[x] + c * H[s]
    BY <2>3
  <2>6. a * F[t] + b * G[t] <= c * H[t]
    BY <2>2, <2>3, <2>4, <2>5
  <2> QED BY <2>1, <2>6 DEF t
<1>7. Good = SUBSET D
  <2>1. Good \in SUBSET SUBSET D
    OBVIOUS
  <2> HIDE DEF Good
  <2>2. Grows(D, Good)
    BY <1>5, <1>6, <2>1 DEF Grows
  <2> QED BY <2>2, GrowingSets
<1>8. D \in SUBSET D
  OBVIOUS
<1> QED BY <1>1, <1>2, <1>3, <1>4, <1>7, <1>8 DEF TotalAtMost

(***************************************************************************)
(* A total of weights is positive when one of them is.                     *)
(***************************************************************************)
LEMMA PositiveTotal ==
  ASSUME NEW D, IsFiniteSet(D), NEW w \in [D -> Nat], NEW m \in D, w[m] > 0
  PROVE  Total(w) \in Nat /\ Total(w) > 0
<1>1. w \in [D -> Int]
  OBVIOUS
<1>2. PICK W : Totals(D, w, W) /\ Total(w) = W[D]
  BY <1>1, TotalsExist
<1>3. W \in [SUBSET D -> Int] /\ W[{}] = 0
  BY <1>2 DEF Totals
<1> DEFINE Good == {s \in SUBSET D : W[s] >= 0}
<1>4. {} \in Good
  BY <1>3
<1>5. ASSUME NEW s \in SUBSET D, NEW x \in D, s \in Good, x \notin s
      PROVE  s \cup {x} \in Good
  <2> DEFINE t == s \cup {x}
  <2>1. t \in SUBSET D /\ x \in t /\ t \ {x} = s
    BY <1>5
  <2> HIDE DEF t
  <2>2. W[t] = w[x] + W[s]
    BY <1>2, <2>1 DEF Totals
  <2>3. W[s] \in Int /\ W[s] >= 0 /\ w[x] \in Nat
    BY <1>3, <1>5
  <2> QED BY <2>1, <2>2, <2>3 DEF t
<1>6. Good = SUBSET D
  <2>1. Good \in SUBSET SUBSET D
    OBVIOUS
  <2> HIDE DEF Good
  <2>2. Grows(D, Good)
    BY <1>4, <1>5, <2>1 DEF Grows
  <2> QED BY <2>2, GrowingSets
<1>7. W[D] = w[m] + W[D \ {m}] /\ D \ {m} \in SUBSET D
  BY <1>2 DEF Totals
<1> QED BY <1>2, <1>3, <1>6, <1>7

\* The total of each row of a function of pairs.
AreRows(D, E, f, rows) ==
    /\ f \in [D \X E -> Int] /\ rows \in [E -> Int]
    /\ \A e \in E : rows[e] = Total([d \in D |-> f[<<d, e>>]])

(***************************************************************************)
(* The total over a product is the total of the totals over its rows.      *)
(***************************************************************************)
LEMMA TotalOfRows ==
  ASSUME NEW D, IsFiniteSet(D), NEW E, IsFiniteSet(E), NEW f, NEW rows, AreRows(D, E, f, rows)
  PROVE  Total(f) = Total(rows)
<1>0. f \in [D \X E -> Int] /\ rows \in [E -> Int]
  BY DEF AreRows
<1>1. IsFiniteSet(D \X E)
  BY FS_Product
<1>2. PICK F : Totals(D \X E, f, F) /\ Total(f) = F[D \X E]
  BY <1>0, <1>1, TotalsExist
<1>3. PICK R : Totals(E, rows, R) /\ Total(rows) = R[E]
  BY <1>0, TotalsExist
<1>4. /\ F \in [SUBSET (D \X E) -> Int] /\ R \in [SUBSET E -> Int]
      /\ F[{}] = 0 /\ R[{}] = 0
  BY <1>2, <1>3 DEF Totals
<1> DEFINE Good == {s \in SUBSET E : F[D \X s] = R[s]}
<1>5. {} \in Good
  <2>1. D \X {} = {}
    OBVIOUS
  <2> QED BY <1>4, <2>1
<1>6. ASSUME NEW s \in SUBSET E, NEW x \in E, s \in Good, x \notin s
      PROVE  s \cup {x} \in Good
  <2> DEFINE row == [d \in D |-> f[<<d, x>>]]
             part(r) == (D \X s) \cup (r \X {x})
  <2>1. row \in [D -> Int]
    BY <1>0
  <2>2. PICK P : Totals(D, row, P) /\ Total(row) = P[D]
    BY <2>1, TotalsExist
  <2>3. P \in [SUBSET D -> Int] /\ P[{}] = 0
    BY <2>2 DEF Totals
  <2>4. F[D \X s] \in Int /\ D \X s \in SUBSET (D \X E)
    BY <1>4
  <2> DEFINE Fine == {r \in SUBSET D : F[part(r)] = F[D \X s] + P[r]}
  <2>5. {} \in Fine
    <3>1. part({}) = D \X s
      OBVIOUS
    <3>2. P[{}] = 0 /\ F[D \X s] \in Int
      BY <2>3, <2>4
    <3> DEFINE u == part({})
               v == D \X s
    <3>3. u = v /\ F[v] \in Int
      BY <3>1, <3>2
    <3> HIDE DEF u, v
    <3>4. F[u] = F[v] + P[{}]
      BY <3>2, <3>3
    <3>5. F[part({})] = F[D \X s] + P[{}]
      BY <3>4 DEF u, v
    <3> HIDE DEF part
    <3> QED BY <3>5
  <2>6. ASSUME NEW r \in SUBSET D, NEW y \in D, r \in Fine, y \notin r
        PROVE  r \cup {y} \in Fine
    <3> DEFINE t == r \cup {y}
               p == <<y, x>>
    <3>1. t \in SUBSET D /\ y \in t /\ t \ {y} = r
      BY <2>6
    <3>2. /\ part(t) \in SUBSET (D \X E) /\ part(r) \in SUBSET (D \X E)
          /\ p \in part(t) /\ part(t) \ {p} = part(r)
      BY <1>6, <2>6
    <3>3. P[t] = row[y] + P[r]
      <4> HIDE DEF t, row
      <4> QED BY <2>2, <3>1 DEF Totals
    <3>4. row[y] = f[p] /\ f[p] \in Int
      BY <1>0
    <3>5. F[part(t)] = f[p] + F[part(r)]
      <4> HIDE DEF t, p, part
      <4>1. part(r) = part(t) \ {p}
        BY <3>2
      <4> QED BY <1>2, <3>2, <4>1, SumOfRest
    <3>6. P[r] \in Int /\ F[part(r)] = F[D \X s] + P[r]
      <4> HIDE DEF part
      <4> QED BY <2>3, <2>6
    <3> HIDE DEF t, p, part, row
    <3>7. F[part(t)] = F[D \X s] + P[t]
      BY <2>4, <3>3, <3>4, <3>5, <3>6
    <3> QED BY <3>1, <3>7 DEF t
  <2>7. Fine = SUBSET D
    <3>1. Fine \in SUBSET SUBSET D
      OBVIOUS
    <3> HIDE DEF Fine
    <3>2. Grows(D, Fine)
      BY <2>5, <2>6, <3>1 DEF Grows
    <3> QED BY <3>2, GrowingSets
  <2>8. F[part(D)] = F[D \X s] + P[D]
    <3>1. D \in SUBSET D
      OBVIOUS
    <3> HIDE DEF part
    <3> QED BY <2>7, <3>1
  <2>9. P[D] = rows[x] /\ rows[x] \in Int
    <3>1. P[D] = Total(row)
      BY <2>2
    <3> QED BY <3>1 DEF AreRows
  <2> DEFINE t == s \cup {x}
  <2>10. t \in SUBSET E /\ x \in t /\ t \ {x} = s /\ D \X t = part(D)
    BY <1>6
  <2> HIDE DEF t, part
  <2>11. R[t] = rows[x] + R[s]
    BY <1>3, <2>10 DEF Totals
  <2>12. F[D \X s] = R[s] /\ R[s] \in Int
    BY <1>4, <1>6
  <2>13. F[D \X t] = R[t]
    <3> DEFINE u == D \X s
               v == D \X t
               w == part(D)
    <3>1. v = w /\ F[w] = F[u] + P[D] /\ F[u] = R[s]
      BY <2>8, <2>10, <2>12
    <3> HIDE DEF u, v, w
    <3>2. F[v] = R[s] + rows[x]
      BY <2>9, <3>1
    <3>3. F[v] = R[t]
      BY <2>9, <2>11, <2>12, <3>2
    <3> QED BY <3>3 DEF v
  <2> QED BY <2>10, <2>13 DEF t
<1>7. Good = SUBSET E
  <2>1. Good \in SUBSET SUBSET E
    OBVIOUS
  <2> HIDE DEF Good
  <2>2. Grows(E, Good)
    BY <1>5, <1>6, <2>1 DEF Grows
  <2> QED BY <2>2, GrowingSets
<1>8. E \in SUBSET E
  OBVIOUS
<1> QED BY <1>2, <1>3, <1>7, <1>8

------------------------------------------------------------------------------
(* The blur *)

(***************************************************************************)
(* Rounded is the nearest integer to the quotient.                         *)
(***************************************************************************)
LEMMA RoundedIsNear ==
  ASSUME NEW sum \in Int, NEW w, Total(w) \in Nat, Total(w) > 0
  PROVE  /\ Rounded(sum, w) \in Int
         /\ 2 * Total(w) * Rounded(sum, w) - 2 * sum <= Total(w)
         /\ 2 * sum - 2 * Total(w) * Rounded(sum, w) <= Total(w)
<1> DEFINE t == Total(w)
           q == (2 * sum + t) \div (2 * t)
<1>1. ASSUME NEW a \in Int, NEW b \in Int, b > 0
      PROVE  a \div b \in Int /\ b * (a \div b) <= a /\ a < b * (a \div b) + b
  BY <1>1, Z3
<1>2. 2 * t \in Int /\ 2 * t > 0 /\ 2 * sum + t \in Int
  OBVIOUS
<1> HIDE DEF t
<1>3. q \in Int /\ (2 * t) * q <= 2 * sum + t /\ 2 * sum + t < (2 * t) * q + 2 * t
  BY <1>1, <1>2
<1> HIDE DEF q
<1>4. t \in Int
  BY DEF t
<1>5. 2 * t * q - 2 * sum <= t /\ 2 * sum - 2 * t * q <= t
  BY <1>3, <1>4
<1> QED BY <1>3, <1>5 DEF Rounded, q, t

(***************************************************************************)
(* A rounded mean is at least what all that it is the mean of are.         *)
(***************************************************************************)
LEMMA RoundedIsAtLeast ==
  ASSUME NEW D, IsFiniteSet(D), NEW w \in [D -> Nat], Total(w) \in Nat, Total(w) > 0,
         NEW g \in [D -> Int], NEW low \in Int, \A d \in D : low <= g[d]
  PROVE  /\ Rounded(Total([d \in D |-> g[d] * w[d]]), w) \in Int
         /\ low <= Rounded(Total([d \in D |-> g[d] * w[d]]), w)
<1> DEFINE f == [d \in D |-> g[d] * w[d]]
           t == Total(w)
           sum == Total(f)
           q == Rounded(sum, w)
<1>1. f \in [D -> Int] /\ w \in [D -> Int]
  OBVIOUS
<1>2. \A d \in D : low * w[d] + 0 * w[d] <= 1 * f[d]
  <2>1. ASSUME NEW d \in D
        PROVE  low * w[d] <= g[d] * w[d]
    <3>1. low <= g[d] /\ g[d] \in Int /\ w[d] \in Nat
      OBVIOUS
    <3> DEFINE x == g[d]
               y == w[d]
    <3>2. low <= x /\ x \in Int /\ y \in Nat
      BY <3>1
    <3> HIDE DEF x, y
    <3>3. low * y <= x * y
      BY <3>2
    <3> QED BY <3>3 DEF x, y
  <2>2. \A d \in D : low * w[d] \in Int /\ g[d] * w[d] \in Int
    OBVIOUS
  <2> QED BY <2>1, <2>2
<1> HIDE DEF f
<1>3. sum \in Int /\ low * t + 0 * t <= 1 * sum
  <2>1. AtMost(D, low, w, 0, w, 1, f)
    BY <1>2 DEF AtMost
  <2>2. TotalAtMost(low, w, 0, w, 1, f)
    BY <1>1, <2>1, LinearTotals
  <2> QED BY <2>2 DEF TotalAtMost
<1> HIDE DEF sum
<1>4. q \in Int /\ 2 * t * q - 2 * sum <= t /\ 2 * sum - 2 * t * q <= t
  BY <1>3, RoundedIsNear
<1> DEFINE n == t
<1>5. n \in Nat /\ n > 0
  OBVIOUS
<1>6. low * n <= sum /\ 2 * sum - 2 * n * q <= n
  BY <1>3, <1>4, <1>5
<1> HIDE DEF n, q, t
<1>7. 2 * n * low <= 2 * n * q + n
  BY <1>3, <1>4, <1>5, <1>6
<1>8. low <= q
  <2>1. SUFFICES ASSUME q <= low - 1 PROVE FALSE
    BY <1>4
  <2>2. 2 * n * q <= 2 * n * (low - 1)
    BY <1>4, <1>5, <2>1
  <2>3. 2 * n * (low - 1) = 2 * n * low - 2 * n
    BY <1>5
  <2> QED BY <1>4, <1>5, <1>7, <2>2, <2>3
<1> QED BY <1>4, <1>8 DEF q, sum, f

(***************************************************************************)
(* A rounded mean is at most what all that it is the mean of are.          *)
(***************************************************************************)
LEMMA RoundedIsAtMost ==
  ASSUME NEW D, IsFiniteSet(D), NEW w \in [D -> Nat], Total(w) \in Nat, Total(w) > 0,
         NEW g \in [D -> Int], NEW high \in Int, \A d \in D : g[d] <= high
  PROVE  /\ Rounded(Total([d \in D |-> g[d] * w[d]]), w) \in Int
         /\ Rounded(Total([d \in D |-> g[d] * w[d]]), w) <= high
<1> DEFINE f == [d \in D |-> g[d] * w[d]]
           t == Total(w)
           sum == Total(f)
           q == Rounded(sum, w)
<1>1. f \in [D -> Int] /\ w \in [D -> Int]
  OBVIOUS
<1>2. \A d \in D : 1 * f[d] + 0 * w[d] <= high * w[d]
  <2>1. ASSUME NEW d \in D
        PROVE  g[d] * w[d] <= high * w[d]
    <3>1. g[d] <= high /\ g[d] \in Int /\ w[d] \in Nat
      OBVIOUS
    <3> DEFINE x == g[d]
               y == w[d]
    <3>2. x <= high /\ x \in Int /\ y \in Nat
      BY <3>1
    <3> HIDE DEF x, y
    <3>3. x * y <= high * y
      BY <3>2
    <3> QED BY <3>3 DEF x, y
  <2>2. \A d \in D : high * w[d] \in Int /\ g[d] * w[d] \in Int
    OBVIOUS
  <2> QED BY <2>1, <2>2
<1> HIDE DEF f
<1>3. sum \in Int /\ 1 * sum + 0 * t <= high * t
  <2>1. AtMost(D, 1, f, 0, w, high, w)
    BY <1>2 DEF AtMost
  <2>2. TotalAtMost(1, f, 0, w, high, w)
    BY <1>1, <2>1, LinearTotals
  <2> QED BY <2>2 DEF TotalAtMost
<1> HIDE DEF sum
<1>4. q \in Int /\ 2 * t * q - 2 * sum <= t /\ 2 * sum - 2 * t * q <= t
  BY <1>3, RoundedIsNear
<1> DEFINE n == t
<1>5. n \in Nat /\ n > 0
  OBVIOUS
<1>6. sum <= high * n /\ 2 * n * q - 2 * sum <= n
  BY <1>3, <1>4, <1>5
<1> HIDE DEF n, q, t
<1>7. 2 * n * q <= 2 * n * high + n
  BY <1>3, <1>4, <1>5, <1>6
<1>8. q <= high
  <2>1. SUFFICES ASSUME q >= high + 1 PROVE FALSE
    BY <1>4
  <2>2. 2 * n * q >= 2 * n * (high + 1)
    BY <1>4, <1>5, <2>1
  <2>3. 2 * n * (high + 1) = 2 * n * high + 2 * n
    BY <1>5
  <2> QED BY <1>4, <1>5, <1>7, <2>2, <2>3
<1> QED BY <1>4, <1>8 DEF q, sum, f

\* Out is the mean of the rounded means of the rows of v, all weighted by w.
ArePasses(D, w, v, rows, out) ==
    /\ v \in [D \X D -> Int] /\ rows \in [D -> Int]
    /\ \A j \in D : rows[j] = Total([k \in D |-> v[<<k, j>>] * w[k]])
    /\ out = Rounded(Total([j \in D |-> Rounded(rows[j], w) * w[j]]), w)

(***************************************************************************)
(* Of a weighted mean of rounded weighted means, rounded: it is within one *)
(* of the weighted mean over the product.                                  *)
(***************************************************************************)
LEMMA TwoPasses ==
  ASSUME NEW D, IsFiniteSet(D), NEW w \in [D -> Nat], Total(w) \in Nat, Total(w) > 0,
         NEW v, NEW rows, NEW out, ArePasses(D, w, v, rows, out)
  PROVE  out * (Total(w) * Total(w)) - Total([d \in D \X D |-> w[d[1]] * w[d[2]] * v[d]])
            \in -(Total(w) * Total(w)) .. Total(w) * Total(w)
<1> DEFINE t == Total(w)
           h == [j \in D |-> Rounded(rows[j], w)]
           rounded == [j \in D |-> h[j] * w[j]]
           exact == [j \in D |-> w[j] * rows[j]]
           full == [d \in D \X D |-> w[d[1]] * w[d[2]] * v[d]]
<1>0. /\ v \in [D \X D -> Int] /\ rows \in [D -> Int]
      /\ \A j \in D : rows[j] = Total([k \in D |-> v[<<k, j>>] * w[k]])
      /\ out = Rounded(Total([j \in D |-> Rounded(rows[j], w) * w[j]]), w)
  BY DEF ArePasses
<1>1. ASSUME NEW j \in D
      PROVE  /\ h[j] \in Int /\ 2 * t * h[j] - 2 * rows[j] <= t /\ 2 * rows[j] - 2 * t * h[j] <= t
             /\ h[j] = Rounded(rows[j], w)
  <2>1. h[j] = Rounded(rows[j], w) /\ rows[j] \in Int
    BY <1>0
  <2> HIDE DEF h
  <2> QED BY <2>1, RoundedIsNear
<1>2. h \in [D -> Int]
  <2>1. h = [j \in D |-> h[j]]
    OBVIOUS
  <2> HIDE DEF h
  <2> QED BY <1>1, <2>1
<1>3. t \in Nat /\ t > 0
  OBVIOUS
<1> HIDE DEF h, t
<1>4. rounded \in [D -> Int] /\ exact \in [D -> Int] /\ w \in [D -> Int] /\ full \in [D \X D -> Int]
  BY <1>0, <1>2
<1>5. ASSUME NEW j \in D
      PROVE  /\ 2 * t * rounded[j] - 2 * exact[j] <= t * w[j]
             /\ 2 * exact[j] - 2 * t * rounded[j] <= t * w[j]
  <2> DEFINE x == h[j]
             y == rows[j]
             z == w[j]
  <2>1. x \in Int /\ y \in Int /\ z \in Nat /\ 2 * t * x - 2 * y <= t /\ 2 * y - 2 * t * x <= t
    BY <1>0, <1>1
  <2>2. rounded[j] = x * z /\ exact[j] = z * y
    OBVIOUS
  <2> HIDE DEF x, y, z, rounded, exact
  <2>3. (2 * t * x - 2 * y) * z <= t * z /\ (2 * y - 2 * t * x) * z <= t * z
    BY <1>3, <2>1
  <2>4. /\ (2 * t * x - 2 * y) * z = 2 * t * (x * z) - 2 * (z * y)
        /\ (2 * y - 2 * t * x) * z = 2 * (z * y) - 2 * t * (x * z)
    BY <1>3, <2>1
  <2> QED BY <2>2, <2>3, <2>4 DEF z
<1> DEFINE a == Total(rounded)
           b == Total(exact)
<1>6. a \in Int /\ b \in Int /\ 2 * t * a - 2 * b <= t * t /\ 2 * b - 2 * t * a <= t * t
  <2>1. \A j \in D : rounded[j] \in Int /\ exact[j] \in Int /\ w[j] \in Nat
    BY <1>4
  <2> HIDE DEF rounded, exact
  <2>2. AtMost(D, 2 * t, rounded, -2, exact, t, w) /\ AtMost(D, -(2 * t), rounded, 2, exact, t, w)
    BY <1>3, <1>5, <2>1 DEF AtMost
  <2>3. 2 * t \in Int /\ -(2 * t) \in Int /\ t \in Int
    BY <1>3
  <2>4. TotalAtMost(2 * t, rounded, -2, exact, t, w) /\ TotalAtMost(-(2 * t), rounded, 2, exact, t, w)
    BY <1>4, <2>2, <2>3, LinearTotals
  <2> QED BY <1>3, <2>4 DEF TotalAtMost, t
<1>7. Total(full) = b
  <2>1. ASSUME NEW j \in D
        PROVE  exact[j] = Total([k \in D |-> full[<<k, j>>]])
    <3> DEFINE g == [k \in D |-> v[<<k, j>>] * w[k]]
               e == [k \in D |-> full[<<k, j>>]]
    <3>1. g \in [D -> Int] /\ e \in [D -> Int] /\ w[j] \in Int
      BY <1>0, <1>4
    <3>2. \A k \in D : e[k] = w[j] * g[k] /\ g[k] \in Int /\ e[k] \in Int
      BY <1>0
    <3>3. rows[j] = Total(g) /\ exact[j] = w[j] * rows[j]
      BY <1>0
    <3> HIDE DEF g, e, exact, full
    <3>4. AtMost(D, 1, e, 0, e, w[j], g) /\ AtMost(D, w[j], g, 0, g, 1, e)
      BY <3>1, <3>2 DEF AtMost
    <3>5. TotalAtMost(1, e, 0, e, w[j], g) /\ TotalAtMost(w[j], g, 0, g, 1, e)
      BY <3>1, <3>4, LinearTotals
    <3>6. Total(e) = w[j] * Total(g)
      BY <3>1, <3>5 DEF TotalAtMost
    <3> QED BY <3>3, <3>6 DEF e
  <2> HIDE DEF exact, full
  <2>2. AreRows(D, D, full, exact)
    BY <1>4, <2>1 DEF AreRows
  <2> QED BY <2>2, TotalOfRows
<1>8. out = Rounded(a, w)
  <2>1. rounded = [j \in D |-> Rounded(rows[j], w) * w[j]]
    BY <1>1
  <2> HIDE DEF rounded
  <2> QED BY <1>0, <2>1
<1> HIDE DEF a, b, full
<1>9. out \in Int /\ 2 * t * out - 2 * a <= t /\ 2 * a - 2 * t * out <= t
  BY <1>6, <1>8, RoundedIsNear DEF t
<1>10. (2 * t * out - 2 * a) * t <= t * t /\ (2 * a - 2 * t * out) * t <= t * t
  BY <1>3, <1>6, <1>9
<1>11. /\ (2 * t * out - 2 * a) * t = 2 * (out * (t * t)) - 2 * t * a
       /\ (2 * a - 2 * t * out) * t = 2 * t * a - 2 * (out * (t * t))
  BY <1>3, <1>6, <1>9
<1> DEFINE s == t * t
           o == out * s
           m == 2 * t * a
<1>12. s \in Int /\ o \in Int /\ m \in Int
  BY <1>3, <1>6, <1>9
<1>13. m - 2 * b <= s /\ 2 * b - m <= s /\ 2 * o - m <= s /\ m - 2 * o <= s
  BY <1>6, <1>10, <1>11
<1> HIDE DEF s, o, m
<1>14. o - b \in -s .. s
  BY <1>6, <1>12, <1>13
<1> QED BY <1>7, <1>14 DEF o, s, t, full

(***************************************************************************)
(* clamp yields the only nearest number of a range.                        *)
(***************************************************************************)
LEMMA ClampIsNearest ==
  ASSUME NEW n \in Nat, NEW t \in Int
  PROVE  /\ clamp(t, 0, n) \in 0 .. n
         /\ \A o \in 0 .. n :
               /\ (clamp(t, 0, n) - t) * (clamp(t, 0, n) - t) <= (o - t) * (o - t)
               /\ o # clamp(t, 0, n) =>
                    (clamp(t, 0, n) - t) * (clamp(t, 0, n) - t) < (o - t) * (o - t)
<1> DEFINE c == clamp(t, 0, n)
<1>1. c \in 0 .. n /\ (c = t \/ (t < c /\ c = 0) \/ (c < t /\ c = n))
  BY DEF clamp
<1> HIDE DEF c
<1>2. ASSUME NEW o \in 0 .. n, o # c
      PROVE  (c - t) * (c - t) < (o - t) * (o - t)
  <2> DEFINE a == c - t
             b == o - t
  <2>1. a \in Int /\ b \in Int /\ ((0 <= a /\ a < b) \/ (b < a /\ a <= 0) \/ (a = 0 /\ b # 0))
    BY <1>1, <1>2
  <2> HIDE DEF a, b
  <2>2. a * a < b * b
    <3>1. CASE 0 <= a /\ a < b
      <4>1. a * a <= a * b /\ a * b < b * b
        BY <2>1, <3>1
      <4> QED BY <2>1, <4>1
    <3>2. CASE b < a /\ a <= 0
      <4> DEFINE x == -a
                 y == -b
      <4>1. x \in Int /\ y \in Int /\ 0 <= x /\ x < y /\ x * x = a * a /\ y * y = b * b
        BY <2>1, <3>2
      <4> HIDE DEF x, y
      <4>2. x * x <= x * y /\ x * y < y * y
        BY <4>1
      <4> QED BY <2>1, <4>1, <4>2
    <3>3. CASE a = 0 /\ b # 0
      <4>1. b * b > 0
        BY <2>1, <3>3
      <4> QED BY <3>3, <4>1
    <3> QED BY <2>1, <3>1, <3>2, <3>3
  <2> QED BY <2>2 DEF a, b
<1>3. ASSUME NEW o \in 0 .. n
      PROVE  (c - t) * (c - t) <= (o - t) * (o - t)
  <2> DEFINE a == (c - t) * (c - t)
             b == (o - t) * (o - t)
  <2>1. a \in Int /\ b \in Int
    BY <1>1
  <2>2. a < b \/ a = b
    BY <1>2
  <2> HIDE DEF a, b
  <2>3. a <= b
    BY <2>1, <2>2
  <2> QED BY <2>3 DEF a, b
<1> QED BY <1>1, <1>2, <1>3 DEF c

\* The coordinates that convolveX and convolveY clamp to the image.
Clamped(src, p, dx, dy) ==
    <<clamp(p[1] + dx, 0, src.width - 1), clamp(p[2] + dy, 0, src.height - 1)>>

(***************************************************************************)
(* The nearest pixel is the one whose coordinates are clamped.             *)
(***************************************************************************)
LEMMA NearestIsClamped ==
  ASSUME NEW src, IsImage(src), NEW p \in Pixels(src), NEW dx \in Int, NEW dy \in Int,
         NEW c, c = Clamped(src, p, dx, dy)
  PROVE  c \in Pixels(src) /\ Nearest(src, p, dx, dy) = src.pix[<<src.minX + c[1], src.minY + c[2]>>]
<1> DEFINE n == src.width - 1
           m == src.height - 1
           s == p[1] + dx
           t == p[2] + dy
<1>1. n \in Nat /\ m \in Nat
  BY DEF IsImage
<1>2. s \in Int /\ t \in Int
  BY <1>1 DEF Pixels
<1>3. c = <<c[1], c[2]>> /\ c[1] = clamp(s, 0, n) /\ c[2] = clamp(t, 0, m)
  BY DEF Clamped
<1> DEFINE Square(k) == k * k
           Far(q) == Square(q[1] - p[1] - dx) + Square(q[2] - p[2] - dy)
<1>4. \A q \in (0 .. n) \X (0 .. m) : Far(q) = (q[1] - s) * (q[1] - s) + (q[2] - t) * (q[2] - t)
  <2>1. ASSUME NEW q \in (0 .. n) \X (0 .. m)
        PROVE  q[1] - p[1] - dx = q[1] - s /\ q[2] - p[2] - dy = q[2] - t
    BY DEF Pixels
  <2> QED BY <2>1
<1>5. Pixels(src) = (0 .. n) \X (0 .. m)
  BY DEF Pixels
<1> HIDE DEF n, m, s, t
<1>6. c \in (0 .. n) \X (0 .. m)
  BY <1>1, <1>2, <1>3, ClampIsNearest
<1>7. ASSUME NEW q \in (0 .. n) \X (0 .. m)
      PROVE  Far(c) <= Far(q) /\ (q # c => Far(c) < Far(q))
  <2> DEFINE a == (c[1] - s) * (c[1] - s)
             b == (c[2] - t) * (c[2] - t)
             d == (q[1] - s) * (q[1] - s)
             e == (q[2] - t) * (q[2] - t)
  <2>1. a \in Int /\ b \in Int /\ d \in Int /\ e \in Int
    BY <1>2, <1>6
  <2>2. q[1] \in 0 .. n /\ q[2] \in 0 .. m /\ q = <<q[1], q[2]>>
    OBVIOUS
  <2>3. a <= d /\ (q[1] # c[1] => a < d)
    BY <1>1, <1>2, <1>3, <2>2, ClampIsNearest
  <2>4. b <= e /\ (q[2] # c[2] => b < e)
    BY <1>1, <1>2, <1>3, <2>2, ClampIsNearest
  <2>5. q # c => q[1] # c[1] \/ q[2] # c[2]
    BY <1>3, <2>2
  <2>6. Far(c) = a + b /\ Far(q) = d + e
    BY <1>4, <1>6
  <2> HIDE DEF a, b, d, e, Far
  <2> QED BY <2>1, <2>3, <2>4, <2>5, <2>6
<1>8. \A q \in (0 .. n) \X (0 .. m) : Far(q) \in Int
  BY <1>2, <1>4
<1> HIDE DEF Far
<1> DEFINE best == CHOOSE q \in (0 .. n) \X (0 .. m) : \A o \in (0 .. n) \X (0 .. m) : Far(q) <= Far(o)
<1>9. best \in (0 .. n) \X (0 .. m) /\ \A o \in (0 .. n) \X (0 .. m) : Far(best) <= Far(o)
  <2>1. \E q \in (0 .. n) \X (0 .. m) : \A o \in (0 .. n) \X (0 .. m) : Far(q) <= Far(o)
    BY <1>6, <1>7
  <2> QED BY <2>1
<1>10. Nearest(src, p, dx, dy) = src.pix[<<src.minX + best[1], src.minY + best[2]>>]
  BY <1>5 DEF Nearest, best, Far
<1> HIDE DEF best
<1>11. best = c
  <2>1. Far(best) <= Far(c) /\ Far(best) \in Int /\ Far(c) \in Int
    BY <1>6, <1>8, <1>9
  <2> QED BY <1>7, <1>9, <2>1
<1> QED BY <1>5, <1>6, <1>10, <1>11

\* The pixel that is under a weight of the kernel and a weight across, when the
\* middle is over p.
Tap(src, w, p, k, j) ==
    LET c == Clamped(src, p, k - 1 - Len(w) \div 2, j - 1 - Len(w) \div 2)
    IN  src.pix[<<src.minX + c[1], src.minY + c[2]>>]

(***************************************************************************)
(* What is under a kernel is in the image, and around its middle.          *)
(***************************************************************************)
LEMMA TapIsNeighbour ==
  ASSUME NEW src, IsImage(src), NEW w, IsKernel(w), NEW p \in Pixels(src),
         NEW k \in DOMAIN w, NEW j \in DOMAIN w
  PROVE  /\ Tap(src, w, p, k, j) \in Nat /\ Tap(src, w, p, k, j) \in Neighbours(src, w, p)
         /\ Tap(src, w, p, k, j)
              = Nearest(src, p, k - 1 - Len(w) \div 2, j - 1 - Len(w) \div 2)
<1> DEFINE r == Len(w) \div 2
           c == Clamped(src, p, k - 1 - r, j - 1 - r)
<1>1. Len(w) \in Nat /\ DOMAIN w = 1 .. Len(w) /\ Len(w) = 2 * r + 1 /\ r \in Nat
  BY DEF IsKernel
<1>2. k \in 1 .. Len(w) /\ j \in 1 .. Len(w)
  BY <1>1
<1> HIDE DEF r
<1>3. k - 1 - r \in -r .. r /\ j - 1 - r \in -r .. r
  BY <1>1, <1>2
<1>4. /\ c \in Pixels(src)
      /\ Nearest(src, p, k - 1 - r, j - 1 - r) = src.pix[<<src.minX + c[1], src.minY + c[2]>>]
  BY <1>1, <1>3, NearestIsClamped
<1>5. c[1] - p[1] \in -r .. r /\ c[2] - p[2] \in -r .. r
  <2>1. /\ c[1] = clamp(p[1] + (k - 1 - r), 0, src.width - 1)
        /\ c[2] = clamp(p[2] + (j - 1 - r), 0, src.height - 1)
    BY DEF Clamped
  <2>2. p[1] \in 0 .. src.width - 1 /\ p[2] \in 0 .. src.height - 1
    BY DEF Pixels
  <2>3. src.width \in Nat /\ src.height \in Nat
    BY DEF IsImage
  <2>4. ASSUME NEW n \in Nat, NEW a \in 0 .. n - 1, NEW d \in -r .. r
        PROVE  clamp(a + d, 0, n - 1) - a \in -r .. r
    BY <1>1 DEF clamp
  <2> QED BY <1>3, <2>1, <2>2, <2>3, <2>4
<1>6. <<src.minX + c[1], src.minY + c[2]>> \in DOMAIN src.pix
  <2>1. c[1] \in 0 .. src.width - 1 /\ c[2] \in 0 .. src.height - 1
    BY <1>4 DEF Pixels
  <2>2. src.minX \in Int /\ src.minY \in Int /\ src.width \in Nat /\ src.height \in Nat
    BY DEF IsImage
  <2> HIDE DEF c
  <2>3. /\ src.minX + c[1] \in src.minX .. src.minX + src.width - 1
        /\ src.minY + c[2] \in src.minY .. src.minY + src.height - 1
    BY <2>1, <2>2
  <2> QED BY <2>3 DEF IsImage
<1>7. src.pix[<<src.minX + c[1], src.minY + c[2]>>] \in Nat
  BY <1>6 DEF IsImage
<1>8. src.pix[<<src.minX + c[1], src.minY + c[2]>>] \in Neighbours(src, w, p)
  <2> HIDE DEF c
  <2> QED BY <1>4, <1>5 DEF Neighbours, r
<1>9. Tap(src, w, p, k, j) = src.pix[<<src.minX + c[1], src.minY + c[2]>>]
  BY DEF Tap, r
<1> QED BY <1>4, <1>7, <1>8, <1>9 DEF r

(***************************************************************************)
(* A pixel of the first pass.                                              *)
(***************************************************************************)
LEMMA FirstPass ==
  ASSUME NEW src, IsImage(src), NEW w, IsKernel(w), NEW p \in Pixels(src), NEW j \in DOMAIN w,
         NEW y, y = clamp(p[2] + j - 1 - Len(w) \div 2, 0, src.height - 1)
  PROVE  /\ <<p[1], y>> \in Pixels(src)
         /\ convolveX(src, w, p[1], y) = Rounded(Total([k \in DOMAIN w |-> Tap(src, w, p, k, j) * w[k]]), w)
<1> DEFINE r == Len(w) \div 2
           kx(k) == clamp(p[1] + k - 1 - r, 0, src.width - 1)
<1>1. Len(w) \in Nat /\ DOMAIN w = 1 .. Len(w) /\ Len(w) = 2 * r + 1 /\ r \in Nat
  BY DEF IsKernel
<1> HIDE DEF r
<1>2. p[1] \in 0 .. src.width - 1 /\ p[2] \in 0 .. src.height - 1
  BY DEF Pixels
<1>3. src.minX \in Int /\ src.minY \in Int /\ src.width \in Nat \ {0} /\ src.height \in Nat \ {0}
  BY DEF IsImage
<1>0. \A k \in DOMAIN w : k \in 1 .. Len(w)
  BY <1>1
<1> DEFINE a == p[1]
           wide == src.width
           left == src.minX
           top == src.minY
<1>10. a \in 0 .. wide - 1 /\ wide \in Nat \ {0} /\ left \in Int /\ top \in Int
  BY <1>2, <1>3
<1>4. y = clamp(p[2] + (j - 1 - r), 0, src.height - 1) /\ y \in 0 .. src.height - 1
  <2>1. p[2] + j - 1 - r = p[2] + (j - 1 - r) /\ p[2] + (j - 1 - r) \in Int /\ src.height - 1 \in Nat
    <3> DEFINE b == p[2]
               high == src.height
    <3>1. b \in 0 .. high - 1 /\ high \in Nat \ {0} /\ j \in Int /\ r \in Int
      BY <1>0, <1>1, <1>2, <1>3
    <3> HIDE DEF b, high
    <3>2. b + j - 1 - r = b + (j - 1 - r) /\ b + (j - 1 - r) \in Int /\ high - 1 \in Nat
      BY <3>1
    <3> QED BY <3>2 DEF b, high
  <2>2. y = clamp(p[2] + (j - 1 - r), 0, src.height - 1)
    BY <2>1 DEF r
  <2> QED BY <2>1, <2>2, ClampIsNearest
<1>5. ASSUME NEW k \in DOMAIN w
      PROVE  At(src, src.minX + kx(k), src.minY + y) = Tap(src, w, p, k, j)
  <2>1. k \in Int /\ r \in Int
    BY <1>0, <1>1
  <2>2. p[1] + k - 1 - r = p[1] + (k - 1 - r) /\ p[1] + (k - 1 - r) \in Int /\ src.width - 1 \in Nat
    <3> HIDE DEF a, wide
    <3>1. a + k - 1 - r = a + (k - 1 - r) /\ a + (k - 1 - r) \in Int /\ wide - 1 \in Nat
      BY <1>10, <2>1
    <3> QED BY <3>1 DEF a, wide
  <2>3. kx(k) = clamp(p[1] + (k - 1 - r), 0, src.width - 1)
    BY <2>2
  <2>4. kx(k) \in 0 .. src.width - 1
    BY <2>2, <2>3, ClampIsNearest
  <2>5. Clamped(src, p, k - 1 - r, j - 1 - r) = <<kx(k), y>>
    BY <1>4, <2>3 DEF Clamped
  <2> DEFINE x == kx(k)
  <2>6. x \in 0 .. wide - 1
    BY <2>4
  <2> HIDE DEF kx, x
  <2>7. left + x \in left .. left + wide - 1 /\ top + y \in top .. top + src.height - 1
    <3> DEFINE high == src.height
    <3>1. high \in Nat /\ y \in 0 .. high - 1
      BY <1>3, <1>4
    <3> HIDE DEF left, top, wide, high
    <3>2. left + x \in left .. left + wide - 1
      BY <1>10, <2>6
    <3>3. top + y \in top .. top + high - 1
      BY <1>10, <3>1
    <3> QED BY <3>2, <3>3 DEF high
  <2>8. <<left + x, top + y>> \in DOMAIN src.pix
    BY <2>7 DEF IsImage
  <2>9. At(src, left + x, top + y) = src.pix[<<left + x, top + y>>]
    BY <2>8 DEF At
  <2> QED BY <2>5, <2>9 DEF Tap, r, x
<1>6. convolveX(src, w, p[1], y)
        = Rounded(Total([k \in DOMAIN w |-> At(src, src.minX + kx(k), src.minY + y) * w[k]]), w)
  BY DEF convolveX, r
<1>7. [k \in DOMAIN w |-> At(src, src.minX + kx(k), src.minY + y) * w[k]]
        = [k \in DOMAIN w |-> Tap(src, w, p, k, j) * w[k]]
  <2> HIDE DEF kx
  <2> QED BY <1>5
<1>8. <<p[1], y>> \in Pixels(src)
  BY <1>2, <1>4 DEF Pixels
<1> HIDE DEF kx
<1> QED BY <1>6, <1>7, <1>8

\* The first pass over the row that is under a weight of the second.
Row(src, w, p, j) == Total([k \in DOMAIN w |-> Tap(src, w, p, k, j) * w[k]])

(***************************************************************************)
(* A pixel of the second pass.                                             *)
(***************************************************************************)
LEMMA SecondPass ==
  ASSUME NEW src, IsImage(src), NEW w, IsKernel(w), NEW p \in Pixels(src)
  PROVE  blur2D(src, w).pix[p]
           = Rounded(Total([j \in DOMAIN w |-> Rounded(Row(src, w, p, j), w) * w[j]]), w)
<1> DEFINE first == [q \in Pixels(src) |-> convolveX(src, w, q[1], q[2])]
           horizontal == [src EXCEPT !.minX = 0, !.minY = 0, !.pix = first]
           second == [q \in Pixels(src) |-> convolveY(horizontal, src, w, q[1], q[2])]
           ky(j) == clamp(p[2] + j - 1 - Len(w) \div 2, 0, src.height - 1)
<1>1. blur2D(src, w) = [horizontal EXCEPT !.pix = second]
  BY DEF blur2D
<1>2. src \in [minX : Int, minY : Int, width : Nat \ {0}, height : Nat \ {0}, pix : {src.pix}]
  BY DEF IsImage
<1> HIDE DEF first
<1>3. DOMAIN horizontal = DOMAIN src /\ DOMAIN src = {"minX", "minY", "width", "height", "pix"}
  BY <1>2
<1>4. horizontal.pix = first
  BY <1>3
<1> HIDE DEF horizontal
<1>5. blur2D(src, w).pix[p] = convolveY(horizontal, src, w, p[1], p[2])
  <2>1. second[p] = convolveY(horizontal, src, w, p[1], p[2])
    OBVIOUS
  <2> HIDE DEF second
  <2>2. [horizontal EXCEPT !.pix = second].pix = second
    BY <1>3
  <2> QED BY <1>1, <2>1, <2>2
<1>6. ASSUME NEW j \in DOMAIN w
      PROVE  At(horizontal, p[1], ky(j)) = Rounded(Row(src, w, p, j), w)
  <2> DEFINE y == ky(j)
             q == <<p[1], y>>
  <2>1. q \in Pixels(src) /\ convolveX(src, w, p[1], y) = Rounded(Row(src, w, p, j), w)
    BY FirstPass DEF Row
  <2> HIDE DEF y
  <2>2. first[q] = convolveX(src, w, p[1], y) /\ DOMAIN first = Pixels(src)
    BY <2>1 DEF first
  <2>3. At(horizontal, p[1], y) = first[q]
    BY <1>4, <2>1, <2>2 DEF At
  <2> QED BY <2>1, <2>2, <2>3 DEF y
<1>7. convolveY(horizontal, src, w, p[1], p[2])
        = Rounded(Total([j \in DOMAIN w |-> At(horizontal, p[1], ky(j)) * w[j]]), w)
  BY DEF convolveY
<1> HIDE DEF ky
<1>8. [j \in DOMAIN w |-> At(horizontal, p[1], ky(j)) * w[j]]
        = [j \in DOMAIN w |-> Rounded(Row(src, w, p, j), w) * w[j]]
  BY <1>6
<1> QED BY <1>5, <1>7, <1>8

(***************************************************************************)
(* A kernel is a function whose total is positive.                         *)
(***************************************************************************)
LEMMA KernelIsPositive ==
  ASSUME NEW w, IsKernel(w)
  PROVE  /\ IsFiniteSet(DOMAIN w) /\ w \in [DOMAIN w -> Nat]
         /\ Total(w) \in Nat /\ Total(w) > 0
         /\ Len(w) \div 2 \in Nat
         /\ DOMAIN w # {} /\ DOMAIN w \subseteq Int
<1> DEFINE D == 1 .. Len(w)
           m == Len(w) \div 2 + 1
<1>1. Len(w) \in Nat /\ DOMAIN w = D /\ m \in D /\ Len(w) \div 2 \in Nat
  BY DEF IsKernel
<1>2. w \in [D -> Nat] /\ w[m] > 0
  BY <1>1 DEF IsKernel
<1>3. IsFiniteSet(D)
  BY <1>1, FS_Interval
<1> HIDE DEF D, m
<1>4. Total(w) \in Nat /\ Total(w) > 0
  BY <1>1, <1>2, <1>3, PositiveTotal
<1> QED BY <1>1, <1>2, <1>3, <1>4 DEF D

(***************************************************************************)
(* No pixel of the result is darker or lighter than all around it.         *)
(***************************************************************************)
LEMMA BlurIsBetween ==
  ASSUME NEW src, IsImage(src), NEW w, IsKernel(w), NEW p \in Pixels(src)
  PROVE  /\ blur2D(src, w).pix[p] \in Int
         /\ \A j \in DOMAIN w : Row(src, w, p, j) \in Int
         /\ \E low, high \in Neighbours(src, w, p) :
              low <= blur2D(src, w).pix[p] /\ blur2D(src, w).pix[p] <= high
<1> DEFINE D == DOMAIN w
           N == Neighbours(src, w, p)
           taps(j) == [k \in D |-> Tap(src, w, p, k, j)]
           h == [j \in D |-> Rounded(Row(src, w, p, j), w)]
           out == blur2D(src, w).pix[p]
<1>1. /\ IsFiniteSet(D) /\ w \in [D -> Nat] /\ w \in [D -> Int] /\ Total(w) \in Nat /\ Total(w) > 0
      /\ D # {}
  BY KernelIsPositive
<1>2. \A k, j \in D : Tap(src, w, p, k, j) \in N /\ Tap(src, w, p, k, j) \in Nat
  BY TapIsNeighbour
<1>3. \A j \in D : taps(j) \in [D -> Int]
  BY <1>2
<1>4. \A j \in D : Row(src, w, p, j) = Total([k \in D |-> taps(j)[k] * w[k]])
  <2>1. ASSUME NEW j \in D
        PROVE  [k \in D |-> taps(j)[k] * w[k]] = [k \in D |-> Tap(src, w, p, k, j) * w[k]]
    OBVIOUS
  <2> QED BY <2>1 DEF Row
<1>5. out = Rounded(Total([j \in D |-> h[j] * w[j]]), w)
  <2>1. [j \in D |-> h[j] * w[j]] = [j \in D |-> Rounded(Row(src, w, p, j), w) * w[j]]
    OBVIOUS
  <2> QED BY <2>1, SecondPass
<1> HIDE DEF D, N, taps
<1>6. ASSUME NEW j \in D
      PROVE  Row(src, w, p, j) \in Int /\ h[j] \in Int
  <2> DEFINE g == taps(j)
             f == [k \in D |-> g[k] * w[k]]
  <2>1. g \in [D -> Int] /\ Row(src, w, p, j) = Total(f)
    BY <1>3, <1>4
  <2> HIDE DEF g
  <2>2. f \in [D -> Int]
    BY <1>1, <2>1
  <2>3. \A d \in D : g[d] \in Int
    BY <2>1
  <2> HIDE DEF f
  <2>4. TotalAtMost(0, f, 0, f, 0, f)
    <3>1. AtMost(D, 0, f, 0, f, 0, f)
      BY <2>2 DEF AtMost
    <3> QED BY <1>1, <2>2, <3>1, LinearTotals
  <2>5. Total(f) \in Int
    BY <2>4 DEF TotalAtMost
  <2>6. h[j] \in Int
    BY <1>1, <2>1, <2>5 DEF Rounded
  <2> QED BY <2>1, <2>5, <2>6
<1>7. h \in [D -> Int]
  <2>1. h = [j \in D |-> h[j]]
    OBVIOUS
  <2> HIDE DEF h
  <2> QED BY <1>6, <2>1
<1>8. ASSUME NEW low \in Int, \A v \in N : low <= v
      PROVE  out \in Int /\ low <= out
  <2>1. ASSUME NEW j \in D
        PROVE  low <= h[j]
    <3> DEFINE g == taps(j)
    <3>1. g \in [D -> Int] /\ Row(src, w, p, j) = Total([k \in D |-> g[k] * w[k]])
      BY <1>3, <1>4
    <3>2. \A k \in D : low <= g[k]
      BY <1>2, <1>8 DEF taps
    <3>3. h[j] = Rounded(Row(src, w, p, j), w)
      OBVIOUS
    <3> HIDE DEF g, h
    <3> QED BY <1>1, <3>1, <3>2, <3>3, RoundedIsAtLeast
  <2> HIDE DEF h, out
  <2> QED BY <1>1, <1>5, <1>7, <2>1, RoundedIsAtLeast
<1>9. ASSUME NEW high \in Int, \A v \in N : v <= high
      PROVE  out \in Int /\ out <= high
  <2>1. ASSUME NEW j \in D
        PROVE  h[j] <= high
    <3> DEFINE g == taps(j)
    <3>1. g \in [D -> Int] /\ Row(src, w, p, j) = Total([k \in D |-> g[k] * w[k]])
      BY <1>3, <1>4
    <3>2. \A k \in D : g[k] <= high
      BY <1>2, <1>9 DEF taps
    <3>3. h[j] = Rounded(Row(src, w, p, j), w)
      OBVIOUS
    <3> HIDE DEF g, h
    <3> QED BY <1>1, <3>1, <3>2, <3>3, RoundedIsAtMost
  <2> HIDE DEF h, out
  <2> QED BY <1>1, <1>5, <1>7, <2>1, RoundedIsAtMost
<1>10. \A v \in N : v \in Nat
  <2>1. src.minX \in Int /\ src.minY \in Int
    BY DEF IsImage
  <2>2. ASSUME NEW q \in Pixels(src)
        PROVE  src.pix[<<src.minX + q[1], src.minY + q[2]>>] \in Nat
    <3>1. q[1] \in 0 .. src.width - 1 /\ q[2] \in 0 .. src.height - 1
      BY DEF Pixels
    <3>2. src.width \in Nat /\ src.height \in Nat
      BY DEF IsImage
    <3>3. /\ src.minX + q[1] \in src.minX .. src.minX + src.width - 1
          /\ src.minY + q[2] \in src.minY .. src.minY + src.height - 1
      BY <2>1, <3>1, <3>2
    <3> QED BY <3>3 DEF IsImage
  <2> QED BY <2>2 DEF N, Neighbours
<1> HIDE DEF h, out
<1>11. out \in Int
  BY <1>8, <1>10
<1>12. \E low \in N : low <= out
  <2>1. SUFFICES ASSUME \A v \in N : out + 1 <= v
                 PROVE  FALSE
    BY <1>10, <1>11
  <2>2. out + 1 \in Int /\ ~(out + 1 <= out)
    BY <1>11
  <2> QED BY <1>8, <2>1, <2>2
<1>13. \E high \in N : out <= high
  <2>1. SUFFICES ASSUME \A v \in N : v <= out - 1
                 PROVE  FALSE
    BY <1>10, <1>11
  <2>2. out - 1 \in Int /\ ~(out <= out - 1)
    BY <1>11
  <2> QED BY <1>9, <2>1, <2>2
<1> QED BY <1>6, <1>11, <1>12, <1>13 DEF out, N, D

(***************************************************************************)
(* A pixel of the result is within one of the mean around it.              *)
(***************************************************************************)
LEMMA BlurIsNearMean ==
  ASSUME NEW src, IsImage(src), NEW w, IsKernel(w), NEW p \in Pixels(src),
         NEW total, total = Total(w) * Total(w)
  PROVE  blur2D(src, w).pix[p] * total - MeanAround(src, w, p) \in -total .. total
<1> DEFINE D == DOMAIN w
           r == Len(w) \div 2
           v == [d \in D \X D |-> Tap(src, w, p, d[1], d[2])]
           rows == [j \in D |-> Row(src, w, p, j)]
           out == blur2D(src, w).pix[p]
<1>1. IsFiniteSet(D) /\ w \in [D -> Nat] /\ Total(w) \in Nat /\ Total(w) > 0
  BY KernelIsPositive
<1>2. \A d \in D \X D : d[1] \in D /\ d[2] \in D
  OBVIOUS
<1>3. v \in [D \X D -> Int]
  <2>1. \A d \in D \X D : Tap(src, w, p, d[1], d[2]) \in Int
    BY <1>2, TapIsNeighbour
  <2> QED BY <2>1
<1>4. rows \in [D -> Int]
  BY BlurIsBetween
<1>5. \A j \in D : rows[j] = Total([k \in D |-> v[<<k, j>>] * w[k]])
  <2>1. ASSUME NEW j \in D
        PROVE  [k \in D |-> v[<<k, j>>] * w[k]] = [k \in D |-> Tap(src, w, p, k, j) * w[k]]
    OBVIOUS
  <2> HIDE DEF v
  <2> QED BY <2>1 DEF Row
<1>6. out = Rounded(Total([j \in D |-> Rounded(rows[j], w) * w[j]]), w)
  <2>1. [j \in D |-> Rounded(rows[j], w) * w[j]] = [j \in D |-> Rounded(Row(src, w, p, j), w) * w[j]]
    OBVIOUS
  <2> HIDE DEF rows
  <2> QED BY <2>1, SecondPass
<1>7. MeanAround(src, w, p) = Total([d \in D \X D |-> w[d[1]] * w[d[2]] * v[d]])
  <2>1. ASSUME NEW d \in D \X D
        PROVE  v[d] = Nearest(src, p, d[1] - 1 - r, d[2] - 1 - r)
    <3>1. v[d] = Tap(src, w, p, d[1], d[2])
      OBVIOUS
    <3> HIDE DEF v
    <3> QED BY <1>2, <3>1, TapIsNeighbour
  <2> HIDE DEF v
  <2>2. [d \in D \X D |-> w[d[1]] * w[d[2]] * v[d]]
          = [d \in D \X D |-> w[d[1]] * w[d[2]] * Nearest(src, p, d[1] - 1 - r, d[2] - 1 - r)]
    BY <2>1
  <2> HIDE DEF D
  <2> QED BY <2>2 DEF MeanAround, D
<1> HIDE DEF D, v, rows, out
<1>9. ArePasses(D, w, v, rows, out)
  BY <1>3, <1>4, <1>5, <1>6 DEF ArePasses
<1>8. out * (Total(w) * Total(w)) - Total([d \in D \X D |-> w[d[1]] * w[d[2]] * v[d]])
        \in -(Total(w) * Total(w)) .. Total(w) * Total(w)
  BY <1>1, <1>9, TwoPasses
<1> QED BY <1>7, <1>8 DEF out

(***************************************************************************)
(* The size of an image does not change.                                   *)
(***************************************************************************)
LEMMA SizeStays ==
  ASSUME NEW src, IsImage(src), NEW w
  PROVE  /\ Blur(src, w).width = src.width /\ Blur(src, w).height = src.height
         /\ DOMAIN Blur(src, w).pix = Pixels(src)
<1>1. DOMAIN src = {"minX", "minY", "width", "height", "pix"}
  BY DEF IsImage
<1>2. ASSUME NEW f, NEW img, img = [src EXCEPT !.minX = 0, !.minY = 0, !.pix = f]
      PROVE  DOMAIN img = DOMAIN src /\ img.width = src.width /\ img.height = src.height /\ img.pix = f
  BY <1>1, <1>2
<1>3. CASE w = <<>>
  <2> DEFINE f == [p \in Pixels(src) |-> At(src, src.minX + p[1], src.minY + p[2])]
  <2>1. Blur(src, w) = [src EXCEPT !.minX = 0, !.minY = 0, !.pix = f]
    BY <1>3 DEF Blur, colorImage
  <2>2. DOMAIN f = Pixels(src)
    OBVIOUS
  <2> HIDE DEF f
  <2> QED BY <1>2, <2>1, <2>2
<1>4. CASE w # <<>>
  <2> DEFINE first == [q \in Pixels(src) |-> convolveX(src, w, q[1], q[2])]
             horizontal == [src EXCEPT !.minX = 0, !.minY = 0, !.pix = first]
             second == [q \in Pixels(src) |-> convolveY(horizontal, src, w, q[1], q[2])]
  <2>1. Blur(src, w) = [horizontal EXCEPT !.pix = second]
    BY <1>4 DEF Blur, blur2D
  <2>2. DOMAIN second = Pixels(src)
    OBVIOUS
  <2>3. /\ DOMAIN horizontal = DOMAIN src
        /\ horizontal.width = src.width /\ horizontal.height = src.height
    <3> HIDE DEF first
    <3> QED BY <1>2
  <2> HIDE DEF horizontal, second
  <2>4. /\ [horizontal EXCEPT !.pix = second].width = horizontal.width
        /\ [horizontal EXCEPT !.pix = second].height = horizontal.height
        /\ [horizontal EXCEPT !.pix = second].pix = second
    BY <1>1, <2>3
  <2> QED BY <2>1, <2>2, <2>3, <2>4
<1> QED BY <1>3, <1>4

(***************************************************************************)
(* Without a kernel a pixel is what it was, as with the kernel <<1>>.      *)
(***************************************************************************)
LEMMA WithoutKernel ==
  ASSUME NEW src, IsImage(src), NEW p \in Pixels(src)
  PROVE  IsKernel(<<1>>) /\ Blur(src, <<>>).pix[p] = blur2D(src, <<1>>).pix[p]
<1> DEFINE q == <<src.minX + p[1], src.minY + p[2]>>
           f == [o \in Pixels(src) |-> At(src, src.minX + o[1], src.minY + o[2])]
<1>1. IsKernel(<<1>>)
  BY DEF IsKernel
<1>2. Blur(src, <<>>).pix[p] = At(src, src.minX + p[1], src.minY + p[2])
  <2>1. DOMAIN src = {"minX", "minY", "width", "height", "pix"}
    BY DEF IsImage
  <2>2. Blur(src, <<>>) = [src EXCEPT !.minX = 0, !.minY = 0, !.pix = f]
    BY DEF Blur, colorImage
  <2>3. f[p] = At(src, src.minX + p[1], src.minY + p[2])
    OBVIOUS
  <2> HIDE DEF f
  <2> QED BY <2>1, <2>2, <2>3
<1>3. p[1] \in 0 .. src.width - 1 /\ p[2] \in 0 .. src.height - 1 /\ p = <<p[1], p[2]>>
  BY DEF Pixels
<1>4. src.width \in Nat /\ src.height \in Nat /\ src.minX \in Int /\ src.minY \in Int
  BY DEF IsImage
<1>5. q \in DOMAIN src.pix
  <2>1. /\ src.minX + p[1] \in src.minX .. src.minX + src.width - 1
        /\ src.minY + p[2] \in src.minY .. src.minY + src.height - 1
    BY <1>3, <1>4
  <2> QED BY <2>1 DEF IsImage
<1>6. At(src, src.minX + p[1], src.minY + p[2]) = src.pix[q]
  BY <1>5 DEF At
<1>7. \A n \in Neighbours(src, <<1>>, p) : n = src.pix[q]
  <2>1. Len(<<1>>) \div 2 = 0
    BY Z3
  <2>2. ASSUME NEW o \in Pixels(src), o[1] - p[1] \in -0 .. 0, o[2] - p[2] \in -0 .. 0
        PROVE  src.pix[<<src.minX + o[1], src.minY + o[2]>>] = src.pix[q]
    <3>1. o[1] \in Int /\ o[2] \in Int /\ p[1] \in Int /\ p[2] \in Int
      BY <1>3, <1>4 DEF Pixels
    <3>2. o[1] = p[1] /\ o[2] = p[2]
      BY <2>2, <3>1
    <3> QED BY <3>2
  <2> HIDE DEF q
  <2> QED BY <2>1, <2>2 DEF Neighbours
<1>8. src.pix[q] \in Nat
  BY <1>5 DEF IsImage
<1>9. /\ blur2D(src, <<1>>).pix[p] \in Int
      /\ src.pix[q] <= blur2D(src, <<1>>).pix[p] /\ blur2D(src, <<1>>).pix[p] <= src.pix[q]
  <2> HIDE DEF q
  <2> QED BY <1>1, <1>7, BlurIsBetween
<1>10. blur2D(src, <<1>>).pix[p] = src.pix[q]
  <2> DEFINE x == blur2D(src, <<1>>).pix[p]
             y == src.pix[q]
  <2>1. x \in Int /\ y \in Int /\ x <= y /\ y <= x
    BY <1>8, <1>9
  <2> HIDE DEF x, y
  <2>2. x = y
    BY <2>1
  <2> QED BY <2>2 DEF x, y
<1> QED BY <1>1, <1>2, <1>6, <1>10

(***************************************************************************)
(* Blur blurs every image with every kernel, or with none.                 *)
(***************************************************************************)
LEMMA BlurBlurs ==
  ASSUME NEW src, IsImage(src), NEW weights, weights = <<>> \/ IsKernel(weights)
  PROVE  IsBlurOf(Blur(src, weights), src, weights)
<1> DEFINE w == IF weights = <<>> THEN <<1>> ELSE weights
           result == Blur(src, weights)
<1>1. ASSUME NEW p \in Pixels(src)
      PROVE  IsKernel(w) /\ result.pix[p] = blur2D(src, w).pix[p]
  <2>1. CASE weights = <<>>
    BY <2>1, WithoutKernel
  <2>2. CASE weights # <<>>
    BY <2>2 DEF Blur
  <2> QED BY <2>1, <2>2
<1>2. ASSUME NEW p \in Pixels(src), NEW total, total = Total(w) * Total(w)
      PROVE  /\ result.pix[p] * total - MeanAround(src, w, p) \in -total .. total
             /\ \E low, high \in Neighbours(src, w, p) : low <= result.pix[p] /\ result.pix[p] <= high
  <2>1. IsKernel(w) /\ result.pix[p] = blur2D(src, w).pix[p]
    BY <1>1
  <2> HIDE DEF w, result
  <2>2. result.pix[p] * total - MeanAround(src, w, p) \in -total .. total
    BY <1>2, <2>1, BlurIsNearMean
  <2>3. \E low, high \in Neighbours(src, w, p) : low <= result.pix[p] /\ result.pix[p] <= high
    BY <2>1, BlurIsBetween
  <2> QED BY <2>2, <2>3
<1>3. result.width = src.width /\ result.height = src.height /\ DOMAIN result.pix = Pixels(src)
  BY SizeStays
<1> HIDE DEF result
<1>4. IsBlurOf(result, src, weights)
  <2> HIDE DEF w
  <2> QED BY <1>2, <1>3 DEF IsBlurOf, w
<1> QED BY <1>4 DEF result

(***************************************************************************)
(* Blur is the two-dimensional convolution of each image of Images with    *)
(* each kernel of SomeKernels, up to the rounding of its two passes.       *)
(***************************************************************************)
THEOREM BlurAlwaysConvolves == AlgorithmsSpec => []BlurIsConvolution
<1> DEFINE Typed == Called("blur") => input.image \in Images /\ input.kernel \in SomeKernels
<1>1. AlgorithmsInit => Typed
  BY DEF AlgorithmsInit, Called
<1>2. Typed /\ [AlgorithmsNext]_input => Typed'
  BY DEF AlgorithmsNext, Called
<1>3. Typed => BlurIsConvolution
  <2>1. ASSUME NEW img \in Images, NEW k \in SomeKernels
        PROVE  IsBlurOf(Blur(img, k), img, k)
    BY ImagesAssumption, KernelsAssumption, BlurBlurs
  <2> QED BY <2>1 DEF BlurIsConvolution
<1> QED BY <1>1, <1>2, <1>3, PTL DEF AlgorithmsSpec
==============================================================================

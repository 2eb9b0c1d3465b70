--------------------------- MODULE StrategyProcess ---------------------------
(***************************************************************************)
(* Process of lab-2/internal/reader/process.go.  One worker per strategy   *)
(* opens the input file for itself, reads its integers one by one and      *)
(* sends a line for each over an unbuffered channel to a printer; when it  *)
(* is through, or fails, it puts its result in the channel done.  Process  *)
(* receives the results, returns at the first error, and otherwise closes  *)
(* the channel of lines and waits for the printer.                         *)
(*                                                                         *)
(* Of the input file the model keeps how many integers it begins with and  *)
(* whether a bad token follows; it does not change while Process runs.  Of *)
(* a line it keeps whose it is.                                            *)
(***************************************************************************)
EXTENDS Naturals, Sequences, FiniteSets

CONSTANTS
    Strategies,     \* the strategies Process is given
    MaxTokens,      \* bound: how many integers an input file may hold
    MayFail         \* whether opening or reading the file, or writing a line, may fail

ASSUME StrategiesAssumption == IsFiniteSet(Strategies) /\ Strategies # {}
ASSUME MaxTokensAssumption == MaxTokens \in Nat
ASSUME MayFailAssumption == MayFail \in BOOLEAN

VARIABLES
    file,           \* how many integers the file begins with, and whether a
                    \* token that is not an integer follows them
    worker,         \* where each worker is
    read,           \* how many integers its FileReader has returned
    processed,      \* its count of the lines it has sent
    closed,         \* whether the channel lines is closed
    printer,        \* the printer: "receiving", "printing" or "ended"
    line,           \* the strategy whose line the printer has received last
    printed,        \* how many lines of each strategy are in the output
    lost,           \* history: how many of them could not be written
    done,           \* the channel done: who has put a result in it
    failed,         \* the workers whose result is an error
    received,       \* how many results Process has received
    reported,       \* whose results those are
    process         \* Process itself

vars == <<file, worker, read, processed, closed, printer, line, printed, lost, done, failed,
          received, reported, process>>

WorkerStates == {"opening", "reading", "sending", "ended"}
ProcessStates == {"receiving", "received", "waiting", "succeeded", "failed"}

Files == [tokens : 0 .. MaxTokens, endsBadly : BOOLEAN]

TypeOK ==
    /\ file \in Files
    /\ worker \in [Strategies -> WorkerStates]
    /\ read \in [Strategies -> 0 .. file.tokens]
    /\ processed \in [Strategies -> 0 .. file.tokens]
    /\ closed \in BOOLEAN
    /\ printer \in {"receiving", "printing", "ended"}
    /\ line \in Strategies
    /\ printed \in [Strategies -> 0 .. file.tokens]
    /\ lost \in [Strategies -> 0 .. file.tokens]
    /\ done \in Seq(Strategies)
    /\ failed \in SUBSET Strategies
    /\ received \in Nat
    /\ reported \in SUBSET Strategies
    /\ process \in ProcessStates

Zero == [s \in Strategies |-> 0]

\* Process has checked its arguments and started its goroutines.
Init ==
    /\ file \in Files
    /\ worker = [s \in Strategies |-> "opening"]
    /\ read = Zero
    /\ processed = Zero
    /\ closed = FALSE
    /\ printer = "receiving"
    /\ line = CHOOSE s \in Strategies : TRUE
    /\ printed = Zero
    /\ lost = Zero
    /\ done = <<>>
    /\ failed = {}
    /\ received = 0
    /\ reported = {}
    /\ process = "receiving"

Goto(s, from, to) ==
    /\ worker[s] = from
    /\ worker' = [worker EXCEPT ![s] = to]

------------------------------------------------------------------------------
(* A worker *)

Open(s) ==
    /\ Goto(s, "opening", "reading")
    /\ UNCHANGED <<file, read, processed, closed, printer, line, printed, lost, done, failed,
                   received, reported, process>>

\* Mutant of Room: the channel done has room for one result only.
RoomForOne == 1

\* cap(done): nobody has to receive a result for a worker to end.
Room == Cardinality(Strategies)

PutResult(s, isError) ==
    /\ Len(done) < Room
    /\ done' = Append(done, s)
    /\ failed' = IF isError THEN failed \cup {s} ELSE failed

OpenFails(s) ==
    /\ MayFail
    /\ Goto(s, "opening", "ended")
    /\ PutResult(s, TRUE)
    /\ UNCHANGED <<file, read, processed, closed, printer, line, printed, lost,
                   received, reported, process>>

\* Next returns an integer, and the strategy is applied to it.
NextNumber(s) ==
    /\ read[s] < file.tokens
    /\ Goto(s, "reading", "sending")
    /\ read' = [read EXCEPT ![s] = @ + 1]
    /\ UNCHANGED <<file, processed, closed, printer, line, printed, lost, done, failed,
                   received, reported, process>>

\* The worker and the printer meet: the channel has no buffer.
Send(s) ==
    /\ ~closed
    /\ printer = "receiving"
    /\ Goto(s, "sending", "reading")
    /\ processed' = [processed EXCEPT ![s] = @ + 1]
    /\ printer' = "printing"
    /\ line' = s
    /\ UNCHANGED <<file, read, closed, printed, lost, done, failed, received, reported, process>>

\* Next returns false and Err is nil: the end of the file.
EndOfFile(s) ==
    /\ read[s] = file.tokens
    /\ ~file.endsBadly
    /\ Goto(s, "reading", "ended")
    /\ PutResult(s, FALSE)
    /\ UNCHANGED <<file, read, processed, closed, printer, line, printed, lost,
                   received, reported, process>>

\* Next returns false and Err is not nil: a bad token, or a read that failed.
ReadFails(s) ==
    /\ MayFail \/ (read[s] = file.tokens /\ file.endsBadly)
    /\ Goto(s, "reading", "ended")
    /\ PutResult(s, TRUE)
    /\ UNCHANGED <<file, read, processed, closed, printer, line, printed, lost,
                   received, reported, process>>

------------------------------------------------------------------------------
(* The printer *)

\* Fprintln writes the line, ...
PrintLine ==
    /\ printer = "printing"
    /\ printer' = "receiving"
    /\ printed' = [printed EXCEPT ![line] = @ + 1]
    /\ UNCHANGED <<file, worker, read, processed, closed, line, lost, done, failed,
                   received, reported, process>>

\* Mutant of PrintFails: the printer ends when it cannot write.
PrintFailsAndEnds ==
    /\ MayFail
    /\ printer = "printing"
    /\ printer' = "ended"
    /\ lost' = [lost EXCEPT ![line] = @ + 1]
    /\ UNCHANGED <<file, worker, read, processed, closed, line, printed, done, failed,
                   received, reported, process>>

\* ... or writes a part of it or nothing, and nobody looks at its error.
PrintFails ==
    /\ MayFail
    /\ printer = "printing"
    /\ printer' = "receiving"
    /\ lost' = [lost EXCEPT ![line] = @ + 1]
    /\ UNCHANGED <<file, worker, read, processed, closed, line, printed, done, failed,
                   received, reported, process>>

PrinterEnds ==
    /\ printer = "receiving"
    /\ closed
    /\ printer' = "ended"
    /\ UNCHANGED <<file, worker, read, processed, closed, line, printed, lost, done, failed,
                   received, reported, process>>

------------------------------------------------------------------------------
(* Process *)

\* The first result that is an error makes Process return it, ...
ReceiveError ==
    /\ process = "receiving"
    /\ done # <<>>
    /\ Head(done) \in failed
    /\ done' = Tail(done)
    /\ process' = "failed"
    /\ UNCHANGED <<file, worker, read, processed, closed, printer, line, printed, lost, failed,
                   received, reported>>

\* Mutant of ReceiveStat: the loop takes one result too few.
ReceiveStatOffByOne ==
    /\ process = "receiving"
    /\ done # <<>>
    /\ Head(done) \notin failed
    /\ done' = Tail(done)
    /\ received' = received + 1
    /\ reported' = reported \cup {Head(done)}
    /\ process' = IF received' = Cardinality(Strategies) - 1 THEN "received" ELSE "receiving"
    /\ UNCHANGED <<file, worker, read, processed, closed, printer, line, printed, lost, failed>>

\* ... and the loop ends when as many have come as there are strategies.
ReceiveStat ==
    /\ process = "receiving"
    /\ done # <<>>
    /\ Head(done) \notin failed
    /\ done' = Tail(done)
    /\ received' = received + 1
    /\ reported' = reported \cup {Head(done)}
    /\ process' = IF received' = Cardinality(Strategies) THEN "received" ELSE "receiving"
    /\ UNCHANGED <<file, worker, read, processed, closed, printer, line, printed, lost, failed>>

CloseLines ==
    /\ process = "received"
    /\ closed' = TRUE
    /\ process' = "waiting"
    /\ UNCHANGED <<file, worker, read, processed, printer, line, printed, lost, done, failed,
                   received, reported>>

\* Mutant of Return: Process does not wait for the printer.
ReturnEarly ==
    /\ process = "waiting"
    /\ process' = "succeeded"
    /\ UNCHANGED <<file, worker, read, processed, closed, printer, line, printed, lost, done,
                   failed, received, reported>>

Return ==
    /\ process = "waiting"
    /\ printer = "ended"
    /\ process' = "succeeded"
    /\ UNCHANGED <<file, worker, read, processed, closed, printer, line, printed, lost, done, failed,
                   received, reported>>

------------------------------------------------------------------------------

WorkerStep(s) ==
    \/ Open(s)
    \/ OpenFails(s)
    \/ NextNumber(s)
    \/ Send(s)
    \/ EndOfFile(s)
    \/ ReadFails(s)

PrinterStep == PrintLine \/ PrintFails \/ PrinterEnds

ProcessStep == ReceiveError \/ ReceiveStat \/ CloseLines \/ Return

Next ==
    \/ \E s \in Strategies : WorkerStep(s)
    \/ PrinterStep
    \/ ProcessStep

Spec == Init /\ [][Next]_vars

(***************************************************************************)
(* Fairness: every goroutine that can run does.                            *)
(***************************************************************************)
FairSpec ==
    /\ Spec
    /\ \A s \in Strategies : WF_vars(WorkerStep(s))
    /\ WF_vars(PrinterStep)
    /\ WF_vars(ProcessStep)

------------------------------------------------------------------------------
(* Properties *)

(***************************************************************************)
(* The channel of lines is closed only when no worker can send any more: a *)
(* send on a closed channel would panic.                                   *)
(***************************************************************************)
NoSendAfterClose == closed => \A s \in Strategies : worker[s] = "ended"

(***************************************************************************)
(* When Process returns a report, every strategy has read the whole file   *)
(* and the printer has written or failed to write every line, none is left *)
(* in its hands or still to come.  A file with a bad token, like a         *)
(* worker's error, is never on the way to a report; that a line could not  *)
(* be written the report does not tell.                                    *)
(***************************************************************************)
SuccessIsComplete ==
    /\ file.endsBadly \/ failed # {} => process \notin {"received", "waiting", "succeeded"}
    /\ process = "succeeded" =>
         \A s \in Strategies :
            processed[s] = file.tokens /\ printed[s] + lost[s] = file.tokens

\* A channel that is full, has no receiver or holds nothing blocks who uses it.
WorkerWaits(s) ==
    \/ worker[s] = "reading" /\ read[s] = file.tokens /\ Len(done) = Room
    \/ worker[s] = "sending" /\ printer # "receiving"

PrinterWaits == printer = "receiving" /\ ~closed

ProcessWaits ==
    \/ process = "receiving" /\ done = <<>>
    \/ process = "waiting" /\ printer # "ended"

HasReturned == process \in {"succeeded", "failed"}

(***************************************************************************)
(* The goroutines never all wait for each other over the three channels,   *)
(* not even when Process has returned at the first error and nobody        *)
(* receives the results of the others: until Process has returned and the  *)
(* workers have ended, one of them, the printer or Process can go on.      *)
(***************************************************************************)
SomeoneCanRun ==
    \/ HasReturned /\ \A s \in Strategies : worker[s] = "ended"
    \/ \E s \in Strategies : worker[s] # "ended" /\ ~WorkerWaits(s)
    \/ printer # "ended" /\ ~PrinterWaits
    \/ ~HasReturned /\ ~ProcessWaits

(***************************************************************************)
(* Process returns, with a report or an error, and no worker is left       *)
(* blocked, not even when it returned early with an error or the output    *)
(* takes no more: the printer goes on receiving, and has tried to write    *)
(* all that the workers have sent.                                         *)
(***************************************************************************)
NobodyStaysBlocked ==
    <>[](/\ HasReturned
         /\ \A s \in Strategies :
               worker[s] = "ended" /\ printed[s] + lost[s] = processed[s])
==============================================================================

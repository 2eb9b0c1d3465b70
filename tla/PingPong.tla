------------------------------ MODULE PingPong ------------------------------
(***************************************************************************)
(* The pinger and the ponger of lab-3, and between them the topic Ping of  *)
(* a Kafka broker.  Broker and client library (franz-go, with its          *)
(* defaults) are external: a record is written once or fails, a consumer   *)
(* of the group Pongers goes on from the group's committed offset, or from *)
(* the end of the partition as long as there is none (AtEnd), and the      *)
(* library commits by itself, from time to time, the offsets of what the   *)
(* polls before the current one have returned.                             *)
(*                                                                         *)
(* Neither program handles signals or errors: a process ends between any   *)
(* two steps, and its container restarts it (unless-stopped).  A record is *)
(* known by its partition and offset.                                      *)
(***************************************************************************)
EXTENDS Integers, Sequences, SequencesExt, FiniteSets

CONSTANTS
    Partitions,     \* the partitions of the topic
    MaxPings,       \* bound: how many ticks the pinger has
    MaxCrashes      \* bound: how often each of the two programs crashes

ASSUME MaxPingsAssumption == MaxPings \in Nat
ASSUME MaxCrashesAssumption == MaxCrashes \in Nat

None == -1

VARIABLES
    pings,          \* the ticks so far
    buffered,       \* how many records of each partition the pinger's client holds
    pingerCrashes,
    end,            \* the broker: the end of each partition
    committed,      \* the broker: the offset the group has committed, or None
    ponger,         \* "down", "polling" in PollFetches, or "handling" its result
    position,       \* the offset the ponger fetches next
    polled,         \* the partitions that have been polled by this process
    head,           \* the offset that the library may commit, or None
    todo,           \* the first offset of the polled ones that is not logged yet
    current,        \* the partition whose records are being logged, or None
    pongerCrashes,
    base,           \* history: where a ponger without committed offset began
    got             \* history: the offsets in the lines "got: ..."

pingerVars == <<pings, buffered, pingerCrashes>>
pongerVars == <<ponger, position, polled, head, todo, current, pongerCrashes, base, got>>
pingPongVars == <<pingerVars, end, committed, pongerVars>>

Offsets == 0 .. MaxPings

PingPongTypeOK ==
    /\ pings \in Offsets
    /\ buffered \in [Partitions -> Offsets]
    /\ end \in [Partitions -> Offsets]
    /\ committed \in [Partitions -> Offsets \cup {None}]
    /\ ponger \in {"down", "polling", "handling"}
    /\ position \in [Partitions -> Offsets]
    /\ polled \subseteq Partitions
    /\ head \in [Partitions -> Offsets \cup {None}]
    /\ todo \in [Partitions -> Offsets]
    /\ current \in Partitions \cup {None}
    /\ {pingerCrashes, pongerCrashes} \subseteq 0 .. MaxCrashes
    /\ base \in [Partitions -> Offsets]
    /\ got \in [Partitions -> Seq(Offsets)]

PingPongInit ==
    /\ pings = 0
    /\ buffered = [p \in Partitions |-> 0]
    /\ pingerCrashes = 0
    /\ end = [p \in Partitions |-> 0]
    /\ committed = [p \in Partitions |-> None]
    /\ ponger = "down"
    /\ position = [p \in Partitions |-> 0]
    /\ polled = {}
    /\ head = [p \in Partitions |-> None]
    /\ todo = [p \in Partitions |-> 0]
    /\ current = None
    /\ pongerCrashes = 0
    /\ base = [p \in Partitions |-> 0]
    /\ got = [p \in Partitions |-> <<>>]

------------------------------------------------------------------------------
(* The pinger *)

\* A tick: Produce hands the record to the client, which picks a partition.
Ping(p) ==
    /\ pings < MaxPings
    /\ pings' = pings + 1
    /\ buffered' = [buffered EXCEPT ![p] = @ + 1]
    /\ UNCHANGED <<pingerCrashes, end, committed, pongerVars>>

\* The promise of Produce is called without an error: "Ping sent".
PingWritten(p) ==
    /\ buffered[p] > 0
    /\ buffered' = [buffered EXCEPT ![p] = @ - 1]
    /\ end' = [end EXCEPT ![p] = @ + 1]
    /\ UNCHANGED <<pings, pingerCrashes, committed, pongerVars>>

\* It is called with an error, which is logged before "Ping sent" is; the record
\* is not sent again.
PingFails(p) ==
    /\ buffered[p] > 0
    /\ buffered' = [buffered EXCEPT ![p] = @ - 1]
    /\ UNCHANGED <<pings, pingerCrashes, end, committed, pongerVars>>

\* What the client holds is lost, and another process begins.
PingerCrashes ==
    /\ pingerCrashes < MaxCrashes
    /\ pingerCrashes' = pingerCrashes + 1
    /\ buffered' = [p \in Partitions |-> 0]
    /\ UNCHANGED <<pings, end, committed, pongerVars>>

------------------------------------------------------------------------------
(* The ponger *)

\* NewClient, and what the first poll does: it joins the group.
Join ==
    /\ ponger = "down"
    /\ ponger' = "handling"
    /\ position' = [p \in Partitions |-> IF committed[p] = None THEN end[p] ELSE committed[p]]
    /\ base' = [p \in Partitions |-> IF committed[p] = None THEN end[p] ELSE base[p]]
    /\ polled' = {}
    /\ head' = [p \in Partitions |-> None]
    /\ todo' = position'
    /\ current' = None
    /\ UNCHANGED <<pingerVars, end, committed, pongerCrashes, got>>

\* Mutant of Poll: the records are handed to another goroutine.
PollAhead ==
    /\ ponger = "handling"
    /\ ponger' = "polling"
    /\ head' = [p \in Partitions |-> IF p \in polled THEN position[p] ELSE head[p]]
    /\ UNCHANGED <<pingerVars, end, committed, position, polled, todo, current, pongerCrashes, base, got>>

\* PollFetches is called when everything of the poll before has been logged; from
\* now on the library may commit what that poll returned.
Poll ==
    /\ ponger = "handling"
    /\ todo = position
    /\ ponger' = "polling"
    /\ head' = [p \in Partitions |-> IF p \in polled THEN position[p] ELSE head[p]]
    /\ UNCHANGED <<pingerVars, end, committed, position, polled, todo, current, pongerCrashes, base, got>>

\* PollFetches returns records of one partition or more, up to any offset.
Fetch ==
    /\ ponger = "polling"
    /\ \E upTo \in [Partitions -> Offsets] :
          /\ \A p \in Partitions : upTo[p] \in position[p] .. end[p]
          /\ upTo # position
          /\ polled' = polled \cup {p \in Partitions : upTo[p] # position[p]}
          /\ position' = upTo
    /\ ponger' = "handling"
    /\ UNCHANGED <<pingerVars, end, committed, head, todo, current, pongerCrashes, base, got>>

\* Mutant of FetchFails: the loop ends.
FetchFailsForGood ==
    /\ ponger = "polling"
    /\ ponger' = "stopped"
    /\ UNCHANGED <<pingerVars, end, committed, position, polled, head, todo, current, pongerCrashes, base, got>>

\* It returns errors only, which are logged.
FetchFails ==
    /\ ponger = "polling"
    /\ ponger' = "handling"
    /\ UNCHANGED <<pingerVars, end, committed, position, polled, head, todo, current, pongerCrashes, base, got>>

\* EachRecord goes through one partition after the other, in any order.
LogRecord(p) ==
    /\ ponger = "handling"
    /\ todo[p] < position[p]
    /\ current \in {None, p}
    /\ got' = [got EXCEPT ![p] = Append(@, todo[p])]
    /\ todo' = [todo EXCEPT ![p] = @ + 1]
    /\ current' = IF todo'[p] = position[p] THEN None ELSE p
    /\ UNCHANGED <<pingerVars, end, committed, ponger, position, polled, head, pongerCrashes, base>>

\* The library commits, at any time while the ponger runs.
AutoCommit ==
    /\ ponger # "down"
    /\ \E p \in Partitions : head[p] \notin {None, committed[p]}
    /\ committed' = [p \in Partitions |-> IF head[p] = None THEN committed[p] ELSE head[p]]
    /\ UNCHANGED <<pingerVars, end, pongerVars>>

\* Nothing is deferred that runs when a signal ends the process.
PongerCrashes ==
    /\ ponger # "down"
    /\ pongerCrashes < MaxCrashes
    /\ pongerCrashes' = pongerCrashes + 1
    /\ ponger' = "down"
    /\ UNCHANGED <<pingerVars, end, committed, position, polled, head, todo, current, base, got>>

------------------------------------------------------------------------------

PingPongNext ==
    \/ \E p \in Partitions : Ping(p) \/ PingWritten(p) \/ PingFails(p)
    \/ PingerCrashes
    \/ Join \/ Poll \/ Fetch \/ FetchFails
    \/ \E p \in Partitions : LogRecord(p)
    \/ AutoCommit
    \/ PongerCrashes

PingPongSpec == PingPongInit /\ [][PingPongNext]_pingPongVars

(***************************************************************************)
(* Fairness: the ponger is restarted and scheduled, and not every poll     *)
(* fails.  That it crashes at most MaxCrashes times is assumed too.        *)
(***************************************************************************)
FairPingPongSpec ==
    /\ PingPongSpec
    /\ WF_pingPongVars(Join) /\ WF_pingPongVars(Poll) /\ SF_pingPongVars(Fetch)
    /\ WF_pingPongVars(\E p \in Partitions : LogRecord(p))

------------------------------------------------------------------------------
(* Properties *)

(***************************************************************************)
(* No ping falls between two processes of the ponger: what the group has   *)
(* committed, and the next one will therefore not read, has been logged,   *)
(* from the offset on at which the first one to commit began.  Pings are   *)
(* logged in order and once, but for what a new process repeats, and only  *)
(* a new one skips pings, because none before it had committed.            *)
(***************************************************************************)
PingsAreLogged ==
    \A p \in Partitions :
        LET jumps == {k \in 2 .. Len(got[p]) : got[p][k] # got[p][k - 1] + 1}
        IN  /\ base[p] .. committed[p] - 1 \subseteq ToSet(got[p])
            /\ Cardinality(jumps) <= pongerCrashes
            /\ \A k \in jumps : got[p][k] <= got[p][k - 1] \/ got[p][k] <= base[p]

(***************************************************************************)
(* Once the group has committed an offset for a partition, every ping that *)
(* is written to it is logged in the end, crashes and failing polls        *)
(* notwithstanding.                                                        *)
(***************************************************************************)
PingsGetThrough ==
    \A p \in Partitions, o \in Offsets :
        committed[p] # None /\ o \in base[p] .. end[p] - 1 ~> o \in ToSet(got[p])
==============================================================================

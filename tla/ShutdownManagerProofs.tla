------------------------ MODULE ShutdownManagerProofs ------------------------
(***************************************************************************)
(* For any number of services of any kinds, registering at any time: the   *)
(* type invariant of ShutdownManager, the order in which services are      *)
(* stopped, that none which registered before the signal is left out, and  *)
(* that none is stopped twice.                                             *)
(***************************************************************************)
EXTENDS ShutdownManager, TLAPS

\* Before the snapshot the loop has not begun.
NotBegun ==
    run \in {"unarmed", "listening", "signalled"} =>
        snapshot = <<>> /\ i = 0 /\ ~calling

\* The loop's index splits the snapshot into the stopped and the pending.
IndexSplits ==
    /\ i <= Len(snapshot)
    /\ \A s \in 1 .. Len(snapshot) : outcome[s] # "pending" <=> i < s

\* A function runs only inside the loop, and the loop ends at index 0.
IndexInLoop ==
    /\ calling => run = "stopping" /\ 0 < i
    /\ run = "returned" => i = 0

\* What was there at the signal is in the snapshot taken after it.
DueIsCovered ==
    /\ run = "signalled" => due <= Len(services)
    /\ run \in {"stopping", "returned"} => due <= Len(snapshot)

IInv == TypeOK /\ NotBegun /\ IndexSplits /\ IndexInLoop /\ DueIsCovered

------------------------------------------------------------------------------

\* Every step preserves the types.
LEMMA TypeStep == TypeOK /\ IndexInLoop /\ [Next]_vars => TypeOK'
  <1> SUFFICES ASSUME TypeOK, IndexInLoop, [Next]_vars
               PROVE  TypeOK'
    OBVIOUS
  <1> USE DEF TypeOK
  <1>1. ASSUME NEW kind \in Kinds, Register(kind)
        PROVE  TypeOK'
    BY <1>1 DEF Register
  <1>2. CASE SignalKills \/ Signal \/ Expire
    BY <1>2 DEF SignalKills, Signal, Expire
  <1>3. CASE RunStep
    <2> Len(services) \in Nat
      OBVIOUS
    <2>1. CASE Receive
      BY <2>1 DEF Receive
    <2>2. CASE Notify
      BY <2>2 DEF Notify
    <2>3. CASE Snapshot
      <3>1. outcome' \in [1 .. Len(snapshot') -> Outcomes \cup {"pending"}]
        BY <2>3 DEF Snapshot
      <3>2. QED
        BY <2>3, <3>1 DEF Snapshot
    <2>4. CASE Call \/ CallNil \/ Return
      BY <2>4 DEF Call, CallNil, Return
    <2>5. ASSUME NEW result \in Outcomes, FnReturns(result)
          PROVE  TypeOK'
      <3>1. i \in Nat /\ 0 < i
        BY <2>5 DEF FnReturns, IndexInLoop
      <3>2. i' \in Nat
        BY <2>5, <3>1 DEF FnReturns
      <3>3. outcome' \in [1 .. Len(snapshot') -> Outcomes \cup {"pending"}]
        BY <2>5 DEF FnReturns
      <3>4. QED
        BY <2>5, <3>2, <3>3 DEF FnReturns
    <2>6. QED
      BY <1>3, <2>1, <2>2, <2>3, <2>4, <2>5 DEF RunStep
  <1>4. CASE UNCHANGED vars
    BY <1>4 DEF vars
  <1>5. QED
    BY <1>1, <1>2, <1>3, <1>4 DEF Next

(***************************************************************************)
(* The inductive step.  Only Snapshot and FnReturns disturb the split: the *)
(* one makes everything pending below the index Len(services), the other   *)
(* stops the service at the index and lowers the index by one.             *)
(***************************************************************************)
LEMMA InvariantStep == IInv /\ [Next]_vars => IInv'
  <1> SUFFICES ASSUME IInv, [Next]_vars
               PROVE  IInv'
    OBVIOUS
  <1>1. TypeOK'
    BY TypeStep DEF IInv
  <1> USE <1>1 DEF IInv, TypeOK, NotBegun, IndexSplits, IndexInLoop, DueIsCovered
  <1>2. ASSUME NEW kind \in Kinds, Register(kind)
        PROVE  IInv'
    <2>1. Len(services') = Len(services) + 1
      BY <1>2 DEF Register
    <2>2. UNCHANGED <<run, due, snapshot, i, calling, outcome>>
      BY <1>2 DEF Register
    <2>3. QED
      BY <2>1, <2>2
  <1>3. CASE SignalKills \/ Signal \/ Expire
    BY <1>3 DEF SignalKills, Signal, Expire
  <1>4. CASE RunStep
    <2>1. CASE Notify \/ Receive
      BY <2>1 DEF Notify, Receive
    <2>2. CASE Snapshot
      BY <2>2 DEF Snapshot
    <2>3. CASE Call \/ CallNil \/ Return
      BY <2>3 DEF Call, CallNil, Return
    <2>4. ASSUME NEW result \in Outcomes, FnReturns(result)
          PROVE  IInv'
      <3>1. i \in 1 .. Len(snapshot) /\ i' = i - 1 /\ ~calling'
        BY <2>4 DEF FnReturns
      <3>2. UNCHANGED <<services, run, due, snapshot>> /\ run = "stopping"
        BY <2>4 DEF FnReturns
      <3>3. outcome'[i] # "pending" /\ \A s \in 1 .. Len(snapshot) : s # i => outcome'[s] = outcome[s]
        BY <2>4, <3>1 DEF FnReturns, Outcomes
      <3>4. IndexSplits'
        BY <3>1, <3>2, <3>3
      <3>5. QED
        BY <3>1, <3>2, <3>4
    <2>5. QED
      BY <1>4, <2>1, <2>2, <2>3, <2>4 DEF RunStep
  <1>5. CASE UNCHANGED vars
    BY <1>5 DEF vars
  <1>6. QED
    BY <1>2, <1>3, <1>4, <1>5 DEF Next

\* The invariant holds of every behaviour of the manager.
THEOREM Invariance == Spec => []IInv
  <1>1. Init => IInv
    <2> SUFFICES ASSUME Init
                 PROVE  IInv
      OBVIOUS
    <2>1. Len(snapshot) = 0 /\ 1 .. Len(snapshot) = {}
      BY DEF Init
    <2>2. services \in Seq(Kinds) /\ snapshot \in Seq(Kinds)
      BY DEF Init
    <2>3. outcome \in [1 .. Len(snapshot) -> Outcomes \cup {"pending"}]
      BY <2>1 DEF Init
    <2>4. TypeOK
      BY <2>2, <2>3 DEF Init, TypeOK
    <2>5. NotBegun /\ IndexSplits /\ IndexInLoop /\ DueIsCovered
      BY <2>1 DEF Init, NotBegun, IndexSplits, IndexInLoop, DueIsCovered
    <2>6. QED
      BY <2>4, <2>5 DEF IInv
  <1>2. QED
    BY <1>1, InvariantStep, PTL DEF Spec

(***************************************************************************)
(* Type correctness of the manager, for every set of kinds.                *)
(***************************************************************************)
THEOREM TypeCorrect == Spec => []TypeOK
  BY Invariance, PTL DEF IInv

(***************************************************************************)
(* Services are stopped in the reverse of their registration, and run      *)
(* returns only when each one that had registered by the signal has been,  *)
(* whatever the functions return.                                          *)
(***************************************************************************)
THEOREM AllStoppedInReverse == Spec => []StopsInReverse
  <1>1. ASSUME IInv
        PROVE  \A s, t \in DOMAIN outcome :
                  (Stopped(s) \/ (calling /\ i = s)) /\ s < t => Stopped(t)
    BY <1>1 DEF IInv, TypeOK, IndexSplits, IndexInLoop, Stopped
  <1>2. ASSUME IInv, run = "returned", NEW s \in 1 .. due
        PROVE  Stopped(s)
    BY <1>2 DEF IInv, TypeOK, IndexSplits, IndexInLoop, DueIsCovered, Stopped
  <1>3. IInv => StopsInReverse
    BY <1>1, <1>2 DEF StopsInReverse
  <1>4. QED
    BY <1>3, Invariance, PTL

(***************************************************************************)
(* What a stop function returned is never replaced: it is called once.     *)
(***************************************************************************)
LEMMA OnceStep ==
    IInv /\ [Next]_vars =>
        [\A s \in DOMAIN outcome :
            Stopped(s) => s \in DOMAIN outcome' /\ outcome'[s] = outcome[s]]_vars
  <1> SUFFICES ASSUME IInv, Next, NEW s \in DOMAIN outcome, Stopped(s)
               PROVE  s \in DOMAIN outcome' /\ outcome'[s] = outcome[s]
    OBVIOUS
  <1> USE DEF IInv, TypeOK, NotBegun, IndexSplits, Stopped
  <1>1. CASE Snapshot
    BY <1>1 DEF Snapshot
  <1>2. ASSUME NEW result \in Outcomes, FnReturns(result)
        PROVE  s \in DOMAIN outcome' /\ outcome'[s] = outcome[s]
    BY <1>2 DEF FnReturns
  <1>3. CASE outcome' = outcome
    BY <1>3
  <1>4. QED
    BY <1>1, <1>2, <1>3
       DEF Next, RunStep, Register, SignalKills, Signal, Expire, Notify, Receive, Call,
           CallNil, Return

(***************************************************************************)
(* No service is stopped twice, for any number and kinds of services.      *)
(***************************************************************************)
THEOREM EachStoppedOnce == Spec => StoppedOnce
  BY Invariance, OnceStep, PTL DEF Spec, StoppedOnce
=============================================================================

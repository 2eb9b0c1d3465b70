--------------------------- MODULE MessageProofs ---------------------------
(***************************************************************************)
(* Proofs about the three modules in which a program deals with a peer     *)
(* that may fail: the frames of lab-1 on a byte stream (BlurFrames), for   *)
(* images, results and streams of every size; the pings of lab-3 on a      *)
(* topic (PingPong), for any partitions and any number of pings and        *)
(* crashes; and calls that are retried (Retry), for any parameters.  The   *)
(* modules share nothing.                                                  *)
(*                                                                         *)
(* Frames.  What is on its way in a stream is the part of the frame that   *)
(* one side has written and the other has not read: RequestInOrder,        *)
(* ReplyInOrder.  A side that has ended is of no more interest to the      *)
(* stream it reads, as it reads nothing more, and what it wrote need not   *)
(* be whole.                                                               *)
(*                                                                         *)
(* Pings.  Below the offset the ponger has come to, and below the one the  *)
(* group has committed, everything is in the log: LoggedUpTo.  A place of  *)
(* the log where the offsets do not go on by one is a jump; a crash pays   *)
(* for each: JumpsAreCrashes.                                              *)
(*                                                                         *)
(* Retries.  The index of the loop counts the calls: TriesCountCalls.      *)
(***************************************************************************)
EXTENDS BlurFrames, PingPong, Retry, FiniteSetTheorems, TLAPS

------------------------------------------------------------------------------
(* The frames of lab-1 *)

ClientTypes ==
    /\ imageSize \in Sizes
    /\ client \in Fields \cup Replies \cup ClientEnds
    /\ clientLeft \in Nat
    /\ down \in Seq(Replies) /\ Len(down) <= Capacity
    /\ resultRead \in Nat

ServerTypes ==
    /\ server \in Fields \cup {"decode"} \cup Replies \cup ServerEnds
    /\ serverLeft \in Nat
    /\ resultSize \in Sizes \ {0}
    /\ up \in Seq(Fields) /\ Len(up) <= Capacity
    /\ imageRead \in Nat

Flags ==
    /\ checks \in BOOLEAN
    /\ reset \in BOOLEAN

\* The fields of the request and of the reply, byte by byte.
RequestHeader == ClientSigmaSize + ClientHeaderSize

FieldAt(p) == IF p <= ClientSigmaSize THEN "sigma" ELSE IF p <= RequestHeader THEN "length" ELSE "image"

ReplyAt(p) == IF p <= ServerHeaderSize THEN "resultLength" ELSE "result"

\* The bytes of the request that the client has written and the handler has read.
Written ==
    IF client = "sigma" THEN ClientSigmaSize - clientLeft
    ELSE IF client = "length" THEN RequestHeader - clientLeft
    ELSE IF client = "image" THEN RequestHeader + imageSize - clientLeft
    ELSE RequestHeader + imageSize

Taken ==
    IF server = "sigma" THEN ServerSigmaSize - serverLeft
    ELSE IF server = "length" THEN RequestHeader - serverLeft
    ELSE IF server = "image" THEN RequestHeader + imageSize - serverLeft
    ELSE RequestHeader + imageSize

\* The bytes of the reply that the handler has written and the client has read.
Replied ==
    IF server = "resultLength" THEN ServerHeaderSize - serverLeft
    ELSE IF server = "result" THEN ServerHeaderSize + resultSize - serverLeft
    ELSE 0

Received ==
    IF client = "resultLength" THEN ClientHeaderSize - clientLeft
    ELSE IF client = "result" THEN ClientHeaderSize + resultSize - clientLeft
    ELSE 0

\* No field is longer than it is.
FieldsFit ==
    /\ client = "sigma" => clientLeft <= ClientSigmaSize
    /\ client \in {"length", "resultLength"} => clientLeft <= ClientHeaderSize
    /\ client = "image" => clientLeft <= imageSize
    /\ client = "result" => clientLeft <= resultSize
    /\ server = "sigma" => serverLeft <= ServerSigmaSize
    /\ server \in {"length", "resultLength"} => serverLeft <= ServerHeaderSize
    /\ server = "image" => serverLeft <= imageSize
    /\ server = "result" => serverLeft <= resultSize

RequestInOrder ==
    ~ServerClosed =>
        /\ \A k \in 1 .. Len(up) : up[k] = FieldAt(Taken + k)
        /\ ~ClientClosed => Taken + Len(up) = Written

ReplyInOrder ==
    ~ClientClosed =>
        /\ \A k \in 1 .. Len(down) : down[k] = ReplyAt(Received + k)
        /\ ~ServerClosed => Received + Len(down) = Replied

\* What has been read of the image and of the result.
ReadsCount ==
    /\ server \in {"sigma", "length"} => imageRead = 0
    /\ server = "image" => imageRead = imageSize - serverLeft
    /\ server \in {"image", "decode"} \cup Replies \cup {"replied"} => imageSize <= ServerMaxSize
    /\ server \in {"decode"} \cup Replies \cup {"replied"} => imageRead = imageSize
    /\ client \in Fields \cup {"resultLength"} => resultRead = 0
    /\ client = "result" => resultRead = resultSize - clientLeft
    /\ client \in {"saved", "unsaved"} => resultRead = resultSize

\* There is a reply, or some of it, only to a whole image.
ReplyIsToAll ==
    \/ down # <<>>
    \/ client = "resultLength" /\ clientLeft = 0
    \/ client \in {"result", "saved", "unsaved"}
    => server \notin Fields /\ imageRead = imageSize

IInv ==
    /\ ClientTypes /\ ServerTypes /\ Flags
    /\ FieldsFit
    /\ RequestInOrder /\ ReplyInOrder
    /\ ReadsCount /\ ReplyIsToAll
    /\ misread = FALSE

LEMMA InitIInv == Init => IInv
<1> SUFFICES ASSUME Init
             PROVE  IInv
  OBVIOUS
<1> USE DEF Init, ClientSigmaSize, ClientHeaderSize, ServerSigmaSize, ServerHeaderSize
<1>1. ClientTypes
  BY CapacityAssumption DEF ClientTypes, Fields
<1>4. ServerTypes
  BY CapacityAssumption DEF ServerTypes, Fields
<1>5. Flags
  BY DEF Flags
<1>6. FieldsFit
  BY DEF FieldsFit
<1>2. RequestInOrder /\ ReplyInOrder
  BY DEF RequestInOrder, ReplyInOrder, Taken, Written, Replied, Received
<1>3. ReadsCount /\ ReplyIsToAll
  BY DEF ReadsCount, ReplyIsToAll, Replies, Fields
<1> QED  BY <1>1, <1>4, <1>5, <1>6, <1>2, <1>3 DEF IInv

\* What the steps of either side leave alone.
LEMMA Frame ==
    ASSUME [Next]_vars
    PROVE  /\ UNCHANGED <<imageSize, checks, resultSize>>
           /\ \/ (ClientStep \/ ClientCrash) /\ UNCHANGED <<server, serverLeft, imageRead>>
              \/ ServerStep /\ UNCHANGED <<client, clientLeft, resultRead>>
              \/ UNCHANGED vars
<1> USE DEF history
<1>1. ClientStep \/ ClientCrash => UNCHANGED <<imageSize, checks, resultSize, server, serverLeft, imageRead>>
  BY DEF ClientStep, ClientCrash, ClientWrite, ClientSigmaWritten, ClientLengthWritten, ClientImageWritten,
         ClientRead, ClientLengthRead, ClientResultRead, ClientFails
<1>2. ServerStep => UNCHANGED <<imageSize, checks, resultSize, client, clientLeft, resultRead>>
  BY DEF ServerStep, ServerRead, ServerSigmaRead, ServerLengthRead, ServerImageRead, ServerBlurs, ServerWrite,
         ServerLengthWritten, ServerResultWritten, ServerFails
<1> QED  BY <1>1, <1>2 DEF Next, vars

------------------------------------------------------------------------------
(* The types *)

LEMMA ClientTypeStep ==
    ASSUME ClientTypes, ServerTypes, ClientStep \/ ClientCrash
    PROVE  ClientTypes' /\ ServerTypes'
<1> USE CapacityAssumption, SizesAssumption
    DEF ClientTypes, ServerTypes, Fields, Replies, ClientEnds, ClientGoto, ClientEnd, history,
        ClientSigmaSize, ClientHeaderSize
<1>1. CASE ClientWrite
  BY <1>1 DEF ClientWrite
<1>2. CASE ClientSigmaWritten
  BY <1>2 DEF ClientSigmaWritten
<1>3. CASE ClientLengthWritten \/ ClientImageWritten
  BY <1>3 DEF ClientLengthWritten, ClientImageWritten
<1>4. CASE ClientRead
  BY <1>4 DEF ClientRead
<1>5. CASE ClientLengthRead
  BY <1>5 DEF ClientLengthRead
<1>6. CASE ClientResultRead \/ ClientFails \/ ClientCrash
  BY <1>6 DEF ClientResultRead, ClientFails, ClientCrash
<1> QED  BY <1>1, <1>2, <1>3, <1>4, <1>5, <1>6 DEF ClientStep

LEMMA ServerTypeStep ==
    ASSUME ClientTypes, ServerTypes, ServerStep
    PROVE  ClientTypes' /\ ServerTypes'
<1> USE CapacityAssumption, SizesAssumption
    DEF ClientTypes, ServerTypes, Fields, Replies, ServerEnds, ServerGoto, ServerEnd, history,
        ServerSigmaSize, ServerHeaderSize
<1>1. CASE ServerRead
  BY <1>1 DEF ServerRead
<1>2. CASE ServerSigmaRead \/ ServerImageRead \/ ServerLengthWritten
  BY <1>2 DEF ServerSigmaRead, ServerImageRead, ServerLengthWritten
<1>3. CASE ServerLengthRead
  BY <1>3 DEF ServerLengthRead
<1>4. CASE ServerBlurs
  BY <1>4 DEF ServerBlurs
<1>5. CASE ServerWrite
  BY <1>5 DEF ServerWrite
<1>6. CASE ServerResultWritten \/ ServerFails
  BY <1>6 DEF ServerResultWritten, ServerFails
<1> QED  BY <1>1, <1>2, <1>3, <1>4, <1>5, <1>6 DEF ServerStep

LEMMA FlagStep ==
    ASSUME Flags, [Next]_vars
    PROVE  Flags'
<1>1. checks' \in BOOLEAN
  BY Frame DEF Flags
<1>2. reset' \in BOOLEAN
  <2>1. (reset \/ down # <<>>) \in BOOLEAN /\ (reset \/ up # <<>>) \in BOOLEAN
    OBVIOUS
  <2>2. reset' \in {reset, TRUE, (reset \/ down # <<>>), (reset \/ up # <<>>)}
    BY DEF Next, vars, ClientStep, ClientCrash, ClientWrite, ClientSigmaWritten, ClientLengthWritten,
           ClientImageWritten, ClientRead, ClientLengthRead, ClientResultRead, ClientFails, ClientEnd,
           ServerStep, ServerRead, ServerSigmaRead, ServerLengthRead, ServerImageRead, ServerBlurs,
           ServerWrite, ServerLengthWritten, ServerResultWritten, ServerFails, ServerEnd
  <2> QED  BY <2>1, <2>2 DEF Flags
<1> QED  BY <1>1, <1>2 DEF Flags

LEMMA TypeStep ==
    ASSUME ClientTypes, ServerTypes, [Next]_vars
    PROVE  ClientTypes' /\ ServerTypes'
<1>1. CASE UNCHANGED vars
  BY <1>1 DEF vars, ClientTypes, ServerTypes
<1> QED  BY <1>1, ClientTypeStep, ServerTypeStep DEF Next

------------------------------------------------------------------------------
(* The streams *)

\* What a reader takes from a stream, and what a writer adds.
LEMMA TailShifts ==
    ASSUME NEW S, NEW s \in Seq(S), s # <<>>
    PROVE  /\ Len(s) \in Nat /\ Len(s) > 0 /\ Len(Tail(s)) = Len(s) - 1
           /\ Head(s) = s[1]
           /\ \A k \in 1 .. Len(Tail(s)) : k + 1 \in 1 .. Len(s) /\ Tail(s)[k] = s[k + 1]
OBVIOUS

LEMMA AppendAdds ==
    ASSUME NEW S, NEW s \in Seq(S), NEW e \in S
    PROVE  /\ Len(s) \in Nat /\ Len(Append(s, e)) = Len(s) + 1
           /\ \A k \in 1 .. Len(Append(s, e)) :
                 \/ k \in 1 .. Len(s) /\ Append(s, e)[k] = s[k]
                 \/ k = Len(s) + 1 /\ Append(s, e)[k] = e
OBVIOUS

LEMMA FitStep ==
    ASSUME ClientTypes, ServerTypes, FieldsFit, [Next]_vars
    PROVE  FieldsFit'
<1> USE SizesAssumption
    DEF ClientTypes, ServerTypes, FieldsFit, Fields, Replies, ClientEnds, ServerEnds,
        ClientGoto, ServerGoto, ClientEnd, ServerEnd,
        ClientSigmaSize, ClientHeaderSize, ServerSigmaSize, ServerHeaderSize
<1>1. CASE ClientStep \/ ClientCrash
  <2>0. UNCHANGED <<imageSize, resultSize, server, serverLeft>>
    BY <1>1, Frame DEF Next, vars, ServerStep, ClientStep, ClientCrash, ClientWrite, ClientSigmaWritten,
           ClientLengthWritten, ClientImageWritten, ClientRead, ClientLengthRead, ClientResultRead, ClientFails
  <2>1. CASE ClientWrite \/ ClientRead
    BY <2>0, <2>1 DEF ClientWrite, ClientRead
  <2>2. CASE ClientSigmaWritten \/ ClientLengthWritten \/ ClientImageWritten
    BY <2>0, <2>2 DEF ClientSigmaWritten, ClientLengthWritten, ClientImageWritten
  <2>3. CASE ClientLengthRead \/ ClientResultRead
    BY <2>0, <2>3 DEF ClientLengthRead, ClientResultRead
  <2>4. CASE ClientFails \/ ClientCrash
    BY <2>0, <2>4 DEF ClientFails, ClientCrash
  <2> QED  BY <1>1, <2>1, <2>2, <2>3, <2>4 DEF ClientStep
<1>2. CASE ServerStep
  <2>1. CASE ServerRead \/ ServerWrite
    BY <2>1 DEF ServerRead, ServerWrite
  <2>2. CASE ServerSigmaRead \/ ServerLengthRead \/ ServerImageRead
    BY <2>2 DEF ServerSigmaRead, ServerLengthRead, ServerImageRead
  <2>3. CASE ServerBlurs \/ ServerLengthWritten
    BY <2>3 DEF ServerBlurs, ServerLengthWritten
  <2>4. CASE ServerResultWritten \/ ServerFails
    BY <2>4 DEF ServerResultWritten, ServerFails
  <2> QED  BY <1>2, <2>1, <2>2, <2>3, <2>4 DEF ServerStep
<1>3. CASE UNCHANGED vars
  BY <1>3 DEF vars
<1> QED  BY <1>1, <1>2, <1>3 DEF Next

\* The request on its way: the client adds the next byte, the handler takes the first.
LEMMA RequestStep ==
    ASSUME ClientTypes, ServerTypes, FieldsFit, RequestInOrder, [Next]_vars
    PROVE  RequestInOrder'
<1> USE SizesAssumption
    DEF ClientTypes, ServerTypes, FieldsFit, Written, Taken, RequestHeader, ClientClosed, ServerClosed,
        Fields, Replies, ClientEnds, ServerEnds, ClientGoto, ServerGoto, ClientEnd, ServerEnd,
        ClientSigmaSize, ClientHeaderSize, ServerSigmaSize, ServerHeaderSize
<1>1. CASE ClientWrite
  <2>1. CASE ServerClosed
    BY <1>1, <2>1 DEF ClientWrite, RequestInOrder
  <2>2. CASE ~ServerClosed
    <3>1. up' = Append(up, client) /\ client \in Fields /\ client' = client
      BY <1>1, <2>2 DEF ClientWrite
    <3>2. Taken' = Taken /\ Written' = Written + 1 /\ Written \in Int /\ Taken \in Int
      BY <1>1 DEF ClientWrite
    <3>3. FieldAt(Written + 1) = client
      BY <1>1 DEF ClientWrite, FieldAt
    <3>4. Taken + Len(up) = Written /\ \A k \in 1 .. Len(up) : up[k] = FieldAt(Taken + k)
      BY <2>2, <3>1 DEF RequestInOrder
    <3>6. up \in Seq(Fields) /\ Len(up) \in Nat
      OBVIOUS
    <3> HIDE DEF Written, Taken, Fields
    <3>5. Taken + (Len(up) + 1) = Written + 1
      <4>1. Taken + Len(up) = Written /\ Taken \in Int /\ Len(up) \in Int
        BY <3>2, <3>4, <3>6
      <4>2. \A t, n \in Int : t + (n + 1) = (t + n) + 1
        OBVIOUS
      <4> QED  BY <4>1, <4>2
    <3>7. \A k \in 1 .. Len(up') : up'[k] = FieldAt(Taken + k)
      BY <3>1, <3>3, <3>4, <3>5, <3>6, AppendAdds
    <3>8. Taken + Len(up') = Written + 1
      BY <3>1, <3>2, <3>5, <3>6, AppendAdds
    <3> QED  BY <3>2, <3>7, <3>8 DEF RequestInOrder, FieldAt
  <2> QED  BY <2>1, <2>2
<1>2. CASE ClientSigmaWritten \/ ClientLengthWritten \/ ClientImageWritten \/ ClientRead
           \/ ClientLengthRead \/ ClientResultRead \/ ClientFails \/ ClientCrash
  <2>1. UNCHANGED <<up, server, serverLeft, imageSize>>
    BY <1>2 DEF ClientSigmaWritten, ClientLengthWritten, ClientImageWritten, ClientRead, ClientLengthRead,
                ClientResultRead, ClientFails, ClientCrash
  <2>2. ~ClientClosed' => ~ClientClosed /\ Written' = Written
    BY <1>2 DEF ClientSigmaWritten, ClientLengthWritten, ClientImageWritten, ClientRead, ClientLengthRead,
                ClientResultRead, ClientFails, ClientCrash
  <2>3. Taken' = Taken
    BY <2>1
  <2> HIDE DEF Written, Taken, ClientClosed
  <2> QED  BY <2>1, <2>2, <2>3 DEF RequestInOrder, FieldAt
<1>3. CASE ServerRead
  <2>1. up \in Seq(Fields) /\ up # <<>> /\ up' = Tail(up) /\ server' = server /\ ~ServerClosed
    BY <1>3 DEF ServerRead
  <2>2. Written' = Written /\ Taken' = Taken + 1 /\ Taken \in Int /\ Written \in Int
    BY <1>3 DEF ServerRead
  <2>3. ClientClosed' = ClientClosed
    BY <1>3 DEF ServerRead
  <2> HIDE DEF Written, Taken, Fields, ClientClosed
  <2>4. \A k \in 1 .. Len(up) : up[k] = FieldAt(Taken + k)
    BY <2>1 DEF RequestInOrder
  <2>5. \A k \in 1 .. Len(up') : up'[k] = FieldAt(Taken + 1 + k)
    <3>1. \A k \in 1 .. Len(up') : up'[k] = FieldAt(Taken + (k + 1))
      BY <2>1, <2>4, TailShifts
    <3>2. \A k \in Int : Taken + (k + 1) = Taken + 1 + k
      BY <2>2
    <3> QED  BY <3>1, <3>2
  <2>6. ~ClientClosed => Taken + 1 + Len(up') = Written
    BY <2>1, <2>2, TailShifts DEF RequestInOrder
  <2> QED  BY <2>2, <2>3, <2>5, <2>6 DEF RequestInOrder, FieldAt
<1>4. CASE ServerStep /\ ~ServerRead
  <2>1. UNCHANGED <<up, client, clientLeft, imageSize>>
    BY <1>4 DEF ServerStep, ServerSigmaRead, ServerLengthRead, ServerImageRead, ServerBlurs, ServerWrite,
                ServerLengthWritten, ServerResultWritten, ServerFails
  <2>2. ~ServerClosed' => ~ServerClosed /\ Taken' = Taken
    BY <1>4 DEF ServerStep, ServerSigmaRead, ServerLengthRead, ServerImageRead, ServerBlurs, ServerWrite,
                ServerLengthWritten, ServerResultWritten, ServerFails
  <2>3. Written' = Written
    BY <2>1
  <2> HIDE DEF Written, Taken, ServerClosed
  <2> QED  BY <2>1, <2>2, <2>3 DEF RequestInOrder, FieldAt
<1>5. CASE UNCHANGED vars
  <2>1. Taken' = Taken /\ Written' = Written
    BY <1>5 DEF vars
  <2> HIDE DEF Written, Taken
  <2> QED  BY <1>5, <2>1 DEF vars, RequestInOrder, FieldAt
<1> QED  BY <1>1, <1>2, <1>3, <1>4, <1>5 DEF Next, ClientStep

\* The reply on its way, which the client takes while it has not ended.
LEMMA ReplyStep ==
    ASSUME ClientTypes, ServerTypes, FieldsFit, ReplyInOrder, [Next]_vars
    PROVE  ReplyInOrder'
<1> USE SizesAssumption
    DEF ClientTypes, ServerTypes, FieldsFit, Replied, Received, ClientClosed, ServerClosed,
        Fields, Replies, ClientEnds, ServerEnds, ClientGoto, ServerGoto, ClientEnd, ServerEnd,
        ClientSigmaSize, ClientHeaderSize, ServerSigmaSize, ServerHeaderSize
<1>1. CASE ServerWrite
  <2>1. CASE ClientClosed
    BY <1>1, <2>1 DEF ServerWrite, ReplyInOrder
  <2>2. CASE ~ClientClosed
    <3>1. down' = Append(down, server) /\ server \in Replies /\ server' = server
      BY <1>1, <2>2 DEF ServerWrite
    <3>2. /\ Received' = Received /\ Received \in Int
          /\ Replied' = Replied + 1 /\ Replied \in Int
          /\ ~ServerClosed
      BY <1>1 DEF ServerWrite
    <3>3. ReplyAt(Replied + 1) = server
      BY <1>1 DEF ServerWrite, ReplyAt
    <3>4. Received + Len(down) = Replied /\ \A k \in 1 .. Len(down) : down[k] = ReplyAt(Received + k)
      BY <2>2, <3>2 DEF ReplyInOrder
    <3>5. down \in Seq(Replies) /\ Len(down) \in Nat
      OBVIOUS
    <3> HIDE DEF Replied, Received, Replies
    <3>6. Received + (Len(down) + 1) = Replied + 1
      BY <3>2, <3>4, <3>5
    <3>7. \A k \in 1 .. Len(down') : down'[k] = ReplyAt(Received + k)
      BY <3>1, <3>3, <3>4, <3>5, <3>6, AppendAdds
    <3>8. Received + Len(down') = Replied + 1
      BY <3>1, <3>5, <3>6, AppendAdds
    <3> QED  BY <3>2, <3>7, <3>8 DEF ReplyInOrder, ReplyAt
  <2> QED  BY <2>1, <2>2
<1>2. CASE ServerStep /\ ~ServerWrite
  <2>1. UNCHANGED <<down, client, clientLeft, resultSize>>
    BY <1>2 DEF ServerStep, ServerRead, ServerSigmaRead, ServerLengthRead, ServerImageRead, ServerBlurs,
                ServerLengthWritten, ServerResultWritten, ServerFails
  <2>2. ~ServerClosed' => ~ServerClosed /\ Replied' = Replied
    BY <1>2 DEF ServerStep, ServerRead, ServerSigmaRead, ServerLengthRead, ServerImageRead, ServerBlurs,
                ServerLengthWritten, ServerResultWritten, ServerFails
  <2>3. Received' = Received
    BY <2>1
  <2> HIDE DEF Replied, Received, ServerClosed
  <2> QED  BY <2>1, <2>2, <2>3 DEF ReplyInOrder, ReplyAt
<1>3. CASE ClientRead
  <2>1. down \in Seq(Replies) /\ down # <<>> /\ down' = Tail(down) /\ ~ClientClosed
    BY <1>3 DEF ClientRead
  <2>2. Replied' = Replied /\ Received' = Received + 1 /\ Received \in Int /\ Replied \in Int
    BY <1>3 DEF ClientRead
  <2>3. ServerClosed' = ServerClosed
    BY <1>3 DEF ClientRead
  <2> HIDE DEF Replied, Received, Replies, ServerClosed
  <2>4. \A k \in 1 .. Len(down) : down[k] = ReplyAt(Received + k)
    BY <2>1 DEF ReplyInOrder
  <2>5. \A k \in 1 .. Len(down') : down'[k] = ReplyAt(Received + 1 + k)
    <3>1. \A k \in 1 .. Len(down') : down'[k] = ReplyAt(Received + (k + 1))
      BY <2>1, <2>4, TailShifts
    <3>2. \A k \in Int : Received + (k + 1) = Received + 1 + k
      BY <2>2
    <3> QED  BY <3>1, <3>2
  <2>6. ~ServerClosed => Received + 1 + Len(down') = Replied
    BY <2>1, <2>2, TailShifts DEF ReplyInOrder
  <2> QED  BY <2>2, <2>3, <2>5, <2>6 DEF ReplyInOrder, ReplyAt
<1>4. CASE ClientWrite \/ ClientSigmaWritten \/ ClientLengthWritten \/ ClientImageWritten
           \/ ClientLengthRead \/ ClientResultRead \/ ClientFails \/ ClientCrash
  <2>1. UNCHANGED <<down, server, serverLeft, resultSize>>
    BY <1>4 DEF ClientWrite, ClientSigmaWritten, ClientLengthWritten, ClientImageWritten,
                ClientLengthRead, ClientResultRead, ClientFails, ClientCrash
  <2>2. ~ClientClosed' => ~ClientClosed /\ Received' = Received
    BY <1>4 DEF ClientWrite, ClientSigmaWritten, ClientLengthWritten, ClientImageWritten,
                ClientLengthRead, ClientResultRead, ClientFails, ClientCrash
  <2>3. Replied' = Replied
    BY <2>1
  <2> HIDE DEF Replied, Received, ClientClosed
  <2> QED  BY <2>1, <2>2, <2>3 DEF ReplyInOrder, ReplyAt
<1>5. CASE UNCHANGED vars
  <2>1. Replied' = Replied /\ Received' = Received
    BY <1>5 DEF vars
  <2> HIDE DEF Replied, Received
  <2> QED  BY <1>5, <2>1 DEF vars, ReplyInOrder, ReplyAt
<1> QED  BY <1>1, <1>2, <1>3, <1>4, <1>5 DEF Next, ClientStep

------------------------------------------------------------------------------
(* What is read *)

\* A byte is read into the field it was written for.
LEMMA HeadsMatch ==
    ASSUME IInv
    PROVE  /\ server \in Fields /\ serverLeft > 0 /\ up # <<>> => Head(up) = server
           /\ client \in Replies /\ clientLeft > 0 /\ down # <<>> => Head(down) = client
<1>1. ASSUME server \in Fields, serverLeft > 0, up # <<>>
      PROVE  Head(up) = server
  <2>1. Head(up) = up[1] /\ 1 \in 1 .. Len(up)
    BY <1>1, TailShifts DEF IInv, ServerTypes
  <2>2. up[1] = FieldAt(Taken + 1)
    BY <1>1, <2>1 DEF IInv, RequestInOrder, ServerClosed, ServerEnds, Fields
  <2>3. FieldAt(Taken + 1) = server
    BY <1>1, SizesAssumption DEF IInv, ClientTypes, ServerTypes, FieldsFit, Fields, FieldAt, Taken,
       RequestHeader, ClientSigmaSize, ClientHeaderSize, ServerSigmaSize, ServerHeaderSize
  <2> QED  BY <2>1, <2>2, <2>3
<1>2. ASSUME client \in Replies, clientLeft > 0, down # <<>>
      PROVE  Head(down) = client
  <2>1. Head(down) = down[1] /\ 1 \in 1 .. Len(down)
    BY <1>2, TailShifts DEF IInv, ClientTypes
  <2>2. down[1] = ReplyAt(Received + 1)
    BY <1>2, <2>1 DEF IInv, ReplyInOrder, ClientClosed, ClientEnds, Replies
  <2>3. ReplyAt(Received + 1) = client
    BY <1>2, SizesAssumption DEF IInv, ClientTypes, ServerTypes, FieldsFit, Replies, ReplyAt, Received,
       ClientHeaderSize, ServerHeaderSize
  <2> QED  BY <2>1, <2>2, <2>3
<1> QED  BY <1>1, <1>2

LEMMA MisreadStep ==
    ASSUME IInv, [Next]_vars
    PROVE  misread' = FALSE
<1>1. CASE ServerRead
  <2>1. misread' = (misread \/ Head(up) # server) /\ Head(up) = server
    BY <1>1, HeadsMatch DEF ServerRead
  <2> QED  BY <2>1 DEF IInv
<1>2. CASE ClientRead
  <2>1. misread' = (misread \/ Head(down) # client) /\ Head(down) = client
    BY <1>2, HeadsMatch DEF ClientRead
  <2> QED  BY <2>1 DEF IInv
<1>3. CASE ~ServerRead /\ ~ClientRead
  <2>1. misread' = misread
    BY <1>3 DEF Next, vars, history, ClientStep, ClientCrash, ClientWrite, ClientSigmaWritten,
           ClientLengthWritten, ClientImageWritten, ClientLengthRead, ClientResultRead, ClientFails, ServerStep,
           ServerSigmaRead, ServerLengthRead, ServerImageRead, ServerBlurs, ServerWrite, ServerLengthWritten,
           ServerResultWritten, ServerFails
  <2> QED  BY <2>1 DEF IInv
<1> QED  BY <1>1, <1>2, <1>3

LEMMA CountStep ==
    ASSUME IInv, [Next]_vars
    PROVE  ReadsCount'
<1> USE SizesAssumption
    DEF IInv, ClientTypes, ServerTypes, FieldsFit, ReadsCount, Fields, Replies, ClientEnds, ServerEnds,
        ClientGoto, ServerGoto, ClientEnd, ServerEnd, history
<1>1. CASE ClientRead
  <2>1. Head(down) = client
    BY <1>1, HeadsMatch DEF ClientRead
  <2> QED  BY <1>1, <2>1 DEF ClientRead
<1>2. CASE ClientWrite \/ ClientSigmaWritten \/ ClientLengthWritten \/ ClientImageWritten
  BY <1>2 DEF ClientWrite, ClientSigmaWritten, ClientLengthWritten, ClientImageWritten
<1>3. CASE ClientLengthRead \/ ClientResultRead \/ ClientFails \/ ClientCrash
  BY <1>3 DEF ClientLengthRead, ClientResultRead, ClientFails, ClientCrash
<1>4. CASE ServerRead
  <2>1. Head(up) = server
    BY <1>4, HeadsMatch DEF ServerRead
  <2> QED  BY <1>4, <2>1 DEF ServerRead
<1>5. CASE ServerSigmaRead \/ ServerLengthRead \/ ServerImageRead \/ ServerBlurs
  <2>1. CASE ServerSigmaRead \/ ServerImageRead
    BY <2>1 DEF ServerSigmaRead, ServerImageRead
  <2>2. CASE ServerLengthRead
    BY <2>2 DEF ServerLengthRead, ServerMaxSize
  <2>3. CASE ServerBlurs
    BY <2>3 DEF ServerBlurs
  <2> QED  BY <1>5, <2>1, <2>2, <2>3
<1>6. CASE ServerWrite \/ ServerLengthWritten \/ ServerResultWritten \/ ServerFails
  BY <1>6 DEF ServerWrite, ServerLengthWritten, ServerResultWritten, ServerFails
<1>7. CASE UNCHANGED vars
  BY <1>7 DEF vars
<1> QED  BY <1>1, <1>2, <1>3, <1>4, <1>5, <1>6, <1>7 DEF Next, ClientStep, ServerStep

LEMMA ReplyToAllStep ==
    ASSUME IInv, [Next]_vars
    PROVE  ReplyIsToAll'
<1> USE DEF IInv, ClientTypes, ServerTypes, FieldsFit, ReadsCount, ReplyIsToAll, Fields, Replies, ClientEnds,
            ServerEnds, ClientGoto, ServerGoto, ClientEnd, ServerEnd, history
<1>1. CASE ClientRead
  BY <1>1 DEF ClientRead
<1>2. CASE ClientWrite \/ ClientSigmaWritten \/ ClientLengthWritten \/ ClientImageWritten
  BY <1>2 DEF ClientWrite, ClientSigmaWritten, ClientLengthWritten, ClientImageWritten, ClientHeaderSize
<1>3. CASE ClientLengthRead \/ ClientResultRead \/ ClientFails \/ ClientCrash
  BY <1>3 DEF ClientLengthRead, ClientResultRead, ClientFails, ClientCrash
<1>4. CASE ServerRead
  BY <1>4 DEF ServerRead
<1>5. CASE ServerSigmaRead \/ ServerLengthRead \/ ServerImageRead \/ ServerBlurs
  BY <1>5 DEF ServerSigmaRead, ServerLengthRead, ServerImageRead, ServerBlurs
<1>6. CASE ServerWrite \/ ServerLengthWritten \/ ServerResultWritten \/ ServerFails
  BY <1>6 DEF ServerWrite, ServerLengthWritten, ServerResultWritten, ServerFails
<1>7. CASE UNCHANGED vars
  BY <1>7 DEF vars
<1> QED  BY <1>1, <1>2, <1>3, <1>4, <1>5, <1>6, <1>7 DEF Next, ClientStep, ServerStep

------------------------------------------------------------------------------
(* The theorems *)

LEMMA InvariantStep == IInv /\ [Next]_vars => IInv'
<1> SUFFICES ASSUME IInv, [Next]_vars
             PROVE  IInv'
  OBVIOUS
<1>1. ClientTypes' /\ ServerTypes' /\ Flags' /\ FieldsFit'
  BY TypeStep, FlagStep, FitStep DEF IInv
<1>2. RequestInOrder' /\ ReplyInOrder'
  BY RequestStep, ReplyStep DEF IInv
<1>3. ReadsCount' /\ ReplyIsToAll' /\ misread' = FALSE
  BY CountStep, ReplyToAllStep, MisreadStep
<1> QED  BY <1>1, <1>2, <1>3 DEF IInv

LEMMA Invariance == Spec => []IInv
BY InitIInv, InvariantStep, PTL DEF Spec

\* The variables keep their types; no stream holds more than its capacity.
THEOREM TypeCorrect == Spec => []TypeOK
<1>1. IInv => TypeOK
  BY DEF IInv, ClientTypes, ServerTypes, Flags, TypeOK
<1> QED  BY Invariance, <1>1, PTL

(***************************************************************************)
(* However the streams cut the frames into pieces, and whoever gives up or *)
(* crashes, each field is read from the bytes that were written for it.    *)
(***************************************************************************)
THEOREM ProgramsAgree == Spec => []FramesAgree
<1>1. IInv => FramesAgree
  BY DEF IInv, FramesAgree
<1> QED  BY Invariance, <1>1, PTL

(***************************************************************************)
(* The handler blurs whole images only, and the client saves only whole    *)
(* results of whole images, for images and results of every size.          *)
(***************************************************************************)
THEOREM OnlyWhole == Spec => []NothingPartial
<1>1. IInv => NothingPartial
  BY DEF IInv, ReadsCount, ReplyIsToAll, NothingPartial
<1> QED  BY Invariance, <1>1, PTL

(***************************************************************************)
(* Whatever the sizes of the frames and of the socket buffers, the client  *)
(* and the handler never block on each other: as long as a byte of the     *)
(* request is due, it is in the stream or the client can write it.         *)
(***************************************************************************)
THEOREM NoMutualWait == Spec => []NeverBothWait
<1>1. ASSUME IInv, ClientWaits, ServerWaits
      PROVE  FALSE
  <2>1. ~ClientClosed /\ ~ServerClosed /\ clientLeft > 0 /\ serverLeft > 0
    BY <1>1 DEF ClientWaits, ServerWaits
  <2>2. Taken + Len(up) = Written
    BY <1>1, <2>1 DEF IInv, RequestInOrder
  <2>3. client \in Fields => Written < RequestHeader + imageSize
    BY <1>1, <2>1, SizesAssumption DEF IInv, ClientTypes, FieldsFit, Fields, Written, RequestHeader,
       ClientSigmaSize, ClientHeaderSize
  <2>4. server \in Fields => Taken < RequestHeader + imageSize
    BY <1>1, <2>1, SizesAssumption DEF IInv, ClientTypes, ServerTypes, FieldsFit, Fields, Taken,
       RequestHeader, ClientSigmaSize, ClientHeaderSize, ServerSigmaSize, ServerHeaderSize
  <2>5. CASE client \in Fields /\ server \in Fields
    BY <1>1, <2>5, CapacityAssumption DEF ClientWaits, ServerWaits, Fields, Replies
  <2>6. CASE client \in Fields /\ server \in Replies
    <3>1. Taken = RequestHeader + imageSize
      BY <2>6 DEF Taken, Replies
    <3> QED  BY <1>1, <2>2, <2>3, <2>6, <3>1, SizesAssumption DEF IInv, ClientTypes, ServerTypes, Written,
             RequestHeader, ClientSigmaSize, ClientHeaderSize
  <2>7. CASE client \in Replies /\ server \in Fields
    <3>1. Written = RequestHeader + imageSize
      BY <2>7 DEF Written, Replies
    <3>2. Len(up) = 0
      BY <1>1, <2>7 DEF ServerWaits, Fields, Replies
    <3> HIDE DEF Written
    <3> QED  BY <1>1, <2>2, <2>4, <2>7, <3>1, <3>2, SizesAssumption DEF IInv, ClientTypes, ServerTypes, Taken,
             RequestHeader, ClientSigmaSize, ClientHeaderSize, ServerSigmaSize
  <2>8. CASE client \in Replies /\ server \in Replies
    BY <1>1, <2>8, CapacityAssumption DEF ClientWaits, ServerWaits, Fields, Replies
  <2> QED  BY <1>1, <2>5, <2>6, <2>7, <2>8 DEF ClientWaits, ServerWaits
<1>2. IInv => NeverBothWait
  BY <1>1 DEF NeverBothWait
<1> QED  BY Invariance, <1>2, PTL

------------------------------------------------------------------------------
(* The pings of lab-3 *)

\* The last offset of a partition that has been logged.
LastGot(p) == got[p][Len(got[p])]

\* The record that the ponger logs next comes after the last one it has logged.
GoesOn(p) == ponger # "down" /\ got[p] # <<>> /\ todo[p] = LastGot(p) + 1

\* An offset is somewhere in a log.
Holds(s, x) == \E k \in 1 .. Len(s) : s[k] = x

\* The places of a log that do not follow the place before.
Jumps(s) == {k \in 2 .. Len(s) : s[k] # s[k - 1] + 1}

OffsetTypes ==
    /\ buffered \in [Partitions -> Nat]
    /\ end \in [Partitions -> Nat]
    /\ committed \in [Partitions -> Nat \cup {-1}]
    /\ position \in [Partitions -> Nat]
    /\ head \in [Partitions -> Nat \cup {-1}]
    /\ todo \in [Partitions -> Nat]
    /\ base \in [Partitions -> Nat]

LogTypes ==
    /\ got \in [Partitions -> Seq(Nat)]
    /\ pongerCrashes \in Nat

\* The group cannot begin or go on behind the end.
BrokerInOrder ==
    \A p \in Partitions :
        /\ base[p] <= end[p]
        /\ committed[p] <= end[p]

\* A running ponger is somewhere between what the library may commit and the end.
\* What it may commit has been logged: Poll waits until all is logged.
PongerInOrder ==
    ponger # "down" =>
        \A p \in Partitions :
            /\ head[p] <= todo[p]
            /\ committed[p] <= todo[p]
            /\ todo[p] <= position[p]
            /\ position[p] <= end[p]

\* Nothing that was read by the group is missing in the log: neither what it has
\* committed nor what the present ponger has done.
LoggedUpTo ==
    \A p \in Partitions : \A o \in Nat :
        /\ base[p] <= o /\ o < committed[p] => Holds(got[p], o)
        /\ ponger # "down" /\ base[p] <= o /\ o < todo[p] => Holds(got[p], o)

\* A ponger goes on at most one behind the last offset in the log, unless none
\* before it had committed.
NoNewSkips ==
    \A p \in Partitions :
        got[p] # <<>> =>
            /\ committed[p] <= LastGot(p) + 1 \/ committed[p] <= base[p]
            /\ ponger # "down" => todo[p] <= LastGot(p) + 1 \/ todo[p] <= base[p]

\* Each jump in the log has a crash of its own.  A log that does not go on where it
\* stands has another one to its credit for the jump to come.
JumpsAreCrashes ==
    \A p \in Partitions :
        /\ Cardinality(Jumps(got[p])) <= pongerCrashes
        /\ got[p] # <<>> /\ ~GoesOn(p) => Cardinality(Jumps(got[p])) + 1 <= pongerCrashes

\* A jump goes back to what is repeated, or on to where a group without offsets began.
JumpsAreExplained ==
    \A p \in Partitions : \A k \in Jumps(got[p]) :
        got[p][k] <= got[p][k - 1] \/ got[p][k] <= base[p]

\* The inductive invariant.
PingInv ==
    /\ OffsetTypes /\ LogTypes
    /\ BrokerInOrder /\ PongerInOrder
    /\ LoggedUpTo /\ NoNewSkips
    /\ JumpsAreCrashes /\ JumpsAreExplained


\* An empty log has none.
LEMMA NoJumps ==
    ASSUME NEW s, s = <<>>
    PROVE  Jumps(s) = {} /\ Cardinality(Jumps(s)) = 0
  <1>1. Jumps(s) = {}
    BY DEF Jumps
  <1>2. QED
    BY <1>1, FS_EmptySet

\* They can be counted.
LEMMA JumpsFinite ==
    ASSUME NEW s \in Seq(Nat)
    PROVE  IsFiniteSet(Jumps(s)) /\ Cardinality(Jumps(s)) \in Nat
  <1>1. IsFiniteSet(2 .. Len(s))
    BY FS_Interval
  <1>2. IsFiniteSet(Jumps(s))
    BY <1>1, FS_Subset DEF Jumps
  <1>3. QED
    BY <1>2, FS_CardinalityType

\* A record that goes on adds no jump, another at most its own place.
LEMMA JumpsOfAppend ==
    ASSUME NEW s \in Seq(Nat), NEW o \in Nat
    PROVE  /\ s = <<>> \/ o = s[Len(s)] + 1 => Jumps(Append(s, o)) = Jumps(s)
           /\ s # <<>> /\ o # s[Len(s)] + 1 => Jumps(Append(s, o)) = Jumps(s) \cup {Len(s) + 1}
           /\ Cardinality(Jumps(Append(s, o))) <= Cardinality(Jumps(s)) + 1
  <1> DEFINE t == Append(s, o)
             n == Len(s)
  <1>1. /\ t \in Seq(Nat) /\ Len(t) = n + 1 /\ n \in Nat
        /\ \A k \in 1 .. n : t[k] = s[k]
        /\ t[n + 1] = o
        /\ s # <<>> <=> n >= 1
    OBVIOUS
  <1> HIDE DEF t, n
  <1>2. ASSUME NEW k \in 2 .. n
        PROVE  k \in Jumps(t) <=> k \in Jumps(s)
    <2>1. t[k] = s[k] /\ t[k - 1] = s[k - 1] /\ k \in 2 .. Len(t)
      BY <1>1
    <2>2. QED
      BY <2>1 DEF Jumps, n
  <1>3. n >= 1 => (n + 1 \in Jumps(t) <=> o # s[n] + 1)
    <2> SUFFICES ASSUME n >= 1
                 PROVE  n + 1 \in Jumps(t) <=> o # s[n] + 1
      OBVIOUS
    <2>1. n + 1 \in 2 .. Len(t) /\ t[(n + 1) - 1] = s[n]
      BY <1>1
    <2>2. QED
      BY <1>1, <2>1 DEF Jumps
  <1>4. Jumps(s) \subseteq 2 .. n /\ Jumps(t) \subseteq 2 .. n + 1 /\ (n = 0 => Jumps(t) = {})
    BY <1>1 DEF Jumps, n
  <1>5. \A k \in 2 .. n + 1 : k \in 2 .. n \/ (k = n + 1 /\ n >= 1)
    BY <1>1
  <1>6. n = 0 \/ o = s[n] + 1 => Jumps(t) = Jumps(s)
    <2>1. CASE n = 0
      <3>1. Jumps(s) = {} /\ Jumps(t) = {}
        BY <1>4, <2>1
      <3>2. QED
        BY <3>1
    <2>2. CASE n >= 1 /\ o = s[n] + 1
      BY <1>2, <1>3, <1>4, <1>5, <2>2
    <2>3. QED
      BY <1>1, <2>1, <2>2
  <1>7. n >= 1 /\ o # s[n] + 1 => Jumps(t) = Jumps(s) \cup {n + 1}
    BY <1>2, <1>3, <1>4, <1>5
  <1>8. Cardinality(Jumps(t)) <= Cardinality(Jumps(s)) + 1
    <2>1. IsFiniteSet(Jumps(s)) /\ Cardinality(Jumps(s)) \in Nat
      BY JumpsFinite
    <2>2. Cardinality(Jumps(s) \cup {n + 1}) <= Cardinality(Jumps(s)) + 1
      <3> DEFINE J == Jumps(s)
      <3> HIDE DEF J
      <3>1. Cardinality(J \cup {n + 1}) = IF n + 1 \in J THEN Cardinality(J) ELSE Cardinality(J) + 1
        BY <2>1, FS_AddElement DEF J
      <3>2. QED
        BY <2>1, <3>1 DEF J
    <2>3. Jumps(t) = Jumps(s) \/ Jumps(t) = Jumps(s) \cup {n + 1}
      BY <1>1, <1>6, <1>7
    <2>4. CASE Jumps(t) = Jumps(s)
      BY <2>1, <2>4
    <2>5. CASE Jumps(t) = Jumps(s) \cup {n + 1}
      BY <2>2, <2>5
    <2>6. QED
      BY <2>3, <2>4, <2>5
  <1>9. QED
    BY <1>1, <1>6, <1>7, <1>8 DEF t, n

\* It holds of empty logs.
LEMMA PingStart == PingPongInit => PingInv
  <1> SUFFICES ASSUME PingPongInit
               PROVE  PingInv
    OBVIOUS
  <1>1. OffsetTypes /\ LogTypes /\ BrokerInOrder /\ PongerInOrder
    BY DEF PingPongInit, None, OffsetTypes, LogTypes, BrokerInOrder, PongerInOrder
  <1>2. \A p \in Partitions : got[p] = <<>>
    BY DEF PingPongInit
  <1>3. LoggedUpTo /\ NoNewSkips
    BY <1>2 DEF PingPongInit, None, LoggedUpTo, NoNewSkips
  <1>4. JumpsAreCrashes /\ JumpsAreExplained
    BY <1>2, NoJumps DEF PingPongInit, JumpsAreCrashes, JumpsAreExplained
  <1>5. QED
    BY <1>1, <1>3, <1>4 DEF PingInv

\* Actions that change nothing of what the ponger has logged.
LEMMA NothingLogged ==
    ASSUME PingInv, UNCHANGED <<got, pongerCrashes>>,
           \A p \in Partitions : base[p] <= base'[p] /\ base'[p] \in Nat,
           \A p \in Partitions : GoesOn(p) => GoesOn(p)'
    PROVE  JumpsAreCrashes' /\ JumpsAreExplained'
  <1>1. JumpsAreExplained'
    <2> SUFFICES ASSUME NEW p \in Partitions, NEW k \in Jumps(got[p])
                 PROVE  got[p][k] <= got[p][k - 1] \/ got[p][k] <= base'[p]
      BY DEF JumpsAreExplained
    <2>1. got[p] \in Seq(Nat) /\ base[p] \in Nat /\ k \in 2 .. Len(got[p])
      BY DEF PingInv, OffsetTypes, LogTypes, Jumps
    <2>2. got[p][k] \in Nat /\ got[p][k - 1] \in Nat
      BY <2>1
    <2>3. got[p][k] <= got[p][k - 1] \/ got[p][k] <= base[p]
      BY DEF PingInv, JumpsAreExplained
    <2>4. base[p] <= base'[p] /\ base'[p] \in Nat
      OBVIOUS
    <2>5. CASE got[p][k] <= got[p][k - 1]
      BY <2>5
    <2>6. CASE got[p][k] <= base[p]
      <3> DEFINE x == got[p][k]
      <3>1. x \in Nat
        BY <2>2
      <3> HIDE DEF x
      <3>2. x <= base[p] => x <= base'[p]
        BY <2>1, <2>4, <3>1
      <3>3. QED
        BY <2>6, <3>2 DEF x
    <2>7. QED
      BY <2>3, <2>5, <2>6
  <1>2. JumpsAreCrashes'
    BY DEF PingInv, JumpsAreCrashes
  <1>3. QED
    BY <1>1, <1>2

\* The last offset of a log is an offset.
LEMMA LastType ==
    ASSUME NEW p \in Partitions, got[p] \in Seq(Nat), got[p] # <<>>
    PROVE  LastGot(p) \in Nat
  <1>1. Len(got[p]) \in 1 .. Len(got[p])
    OBVIOUS
  <1>2. QED
    BY <1>1 DEF LastGot

\* The one action that lengthens a log.
LEMMA LogStep ==
    ASSUME PingInv, NEW p \in Partitions, LogRecord(p)
    PROVE  PingInv'
  <1> DEFINE s == got[p]
             n == Len(s)
             o == todo[p]
  <1>0. /\ OffsetTypes /\ LogTypes
        /\ BrokerInOrder /\ PongerInOrder
        /\ LoggedUpTo /\ NoNewSkips
        /\ JumpsAreCrashes /\ JumpsAreExplained
    BY DEF PingInv
  <1>1. /\ ponger = "handling" /\ o < position[p]
        /\ got' = [got EXCEPT ![p] = Append(s, o)]
        /\ todo' = [todo EXCEPT ![p] = o + 1]
        /\ UNCHANGED <<buffered, end, committed, ponger, position, head, pongerCrashes, base>>
    BY DEF LogRecord, pingerVars
  <1>2. /\ o \in Nat /\ o + 1 <= position[p]
        /\ todo' \in [Partitions -> Nat] /\ todo'[p] = o + 1
        /\ \A q \in Partitions : todo[q] <= todo'[q] /\ (q # p => todo'[q] = todo[q])
    BY <1>0, <1>1 DEF OffsetTypes
  <1>3. /\ s \in Seq(Nat) /\ n \in Nat
        /\ got' \in [Partitions -> Seq(Nat)] /\ got'[p] = Append(s, o)
        /\ \A q \in Partitions : q # p => got'[q] = got[q]
    BY <1>0, <1>1, <1>2 DEF LogTypes
  <1>4. /\ Len(got'[p]) = n + 1 /\ got'[p] # <<>>
        /\ got'[p][n + 1] = o
        /\ \A k \in 1 .. n : got'[p][k] = s[k]
    BY <1>2, <1>3
  <1> HIDE DEF s, n, o
  <1>5. OffsetTypes' /\ LogTypes'
    BY <1>0, <1>1, <1>2, <1>3 DEF OffsetTypes, LogTypes
  <1>6. BrokerInOrder' /\ PongerInOrder'
    <2>1. \A q \in Partitions :
            {committed[q], head[q], todo[q], todo'[q], position[q], end[q]} \subseteq Int
      BY <1>0, <1>2 DEF OffsetTypes
    <2>2. ASSUME NEW q \in Partitions
          PROVE  /\ head[q] <= todo'[q] /\ committed[q] <= todo'[q]
                 /\ todo'[q] <= position[q] /\ position[q] <= end[q]
      <3>1. /\ head[q] <= todo[q] /\ committed[q] <= todo[q]
            /\ todo[q] <= position[q] /\ position[q] <= end[q]
        BY <1>0, <1>1 DEF PongerInOrder
      <3>2. CASE q = p
        BY <1>2, <2>1, <3>1, <3>2
      <3>3. CASE q # p
        BY <1>2, <3>1, <3>3
      <3>4. QED
        BY <3>2, <3>3
    <2>3. QED
      BY <1>0, <1>1, <2>2 DEF BrokerInOrder, PongerInOrder
  <1>7. LoggedUpTo'
    <2>1. ASSUME NEW q \in Partitions, NEW x, Holds(got[q], x)
          PROVE  Holds(got'[q], x)
      <3>1. CASE q = p
        <4>1. PICK k \in 1 .. n : s[k] = x
          BY <2>1, <3>1 DEF Holds, s, n
        <4>2. k \in 1 .. n + 1 /\ got'[p][k] = x
          BY <1>3, <1>4, <4>1
        <4>3. QED
          BY <1>4, <3>1, <4>2 DEF Holds
      <3>2. CASE q # p
        BY <1>3, <2>1, <3>2
      <3>3. QED
        BY <3>1, <3>2
    <2>2. Holds(got'[p], o)
      <3>1. n + 1 \in 1 .. Len(got'[p]) /\ got'[p][n + 1] = o
        BY <1>3, <1>4
      <3>2. QED
        BY <3>1 DEF Holds
    <2>3. ASSUME NEW q \in Partitions, NEW x \in Nat, x < todo'[q]
          PROVE  x < todo[q] \/ (q = p /\ x = o)
      BY <1>0, <1>2, <2>3 DEF OffsetTypes, o
    <2>4. ASSUME NEW q \in Partitions, NEW x \in Nat, base[q] <= x
          PROVE  /\ x < committed[q] => Holds(got'[q], x)
                 /\ x < todo'[q] => Holds(got'[q], x)
      BY <1>0, <1>1, <2>1, <2>2, <2>3, <2>4 DEF LoggedUpTo
    <2>5. QED
      BY <1>1, <2>4 DEF LoggedUpTo
  <1>8. NoNewSkips'
    <2>1. LastGot(p)' = o
      BY <1>4 DEF LastGot
    <2>2. committed'[p] <= o + 1 /\ todo'[p] <= o + 1
      <3>1. committed[p] \in Int /\ committed[p] <= o
        BY <1>0, <1>1 DEF OffsetTypes, PongerInOrder, o
      <3>2. QED
        BY <1>1, <1>2, <3>1
    <2>3. \A q \in Partitions : q # p => LastGot(q)' = LastGot(q)
      BY <1>3 DEF LastGot
    <2>4. QED
      BY <1>0, <1>1, <1>2, <1>3, <2>1, <2>2, <2>3 DEF NoNewSkips
  <1>9. JumpsAreCrashes'
    <2>1. GoesOn(p)'
      BY <1>1, <1>2, <1>4 DEF GoesOn, LastGot
    <2>2. Cardinality(Jumps(got'[p])) <= pongerCrashes
      <3>1. CASE s = <<>> \/ GoesOn(p)
        <4>1. Jumps(got'[p]) = Jumps(s)
          BY <1>2, <1>3, <3>1, JumpsOfAppend DEF GoesOn, LastGot, s, o
        <4>2. QED
          BY <1>0, <4>1 DEF JumpsAreCrashes, s
      <3>2. CASE s # <<>> /\ ~GoesOn(p)
        <4>1. Cardinality(Jumps(got'[p])) <= Cardinality(Jumps(s)) + 1
          BY <1>2, <1>3, JumpsOfAppend
        <4>2. Cardinality(Jumps(s)) + 1 <= pongerCrashes
          BY <1>0, <3>2 DEF JumpsAreCrashes, s
        <4>3. /\ Cardinality(Jumps(got'[p])) \in Nat /\ Cardinality(Jumps(s)) \in Nat
              /\ pongerCrashes \in Nat
          BY <1>0, <1>3, JumpsFinite DEF LogTypes
        <4>4. QED
          BY <4>1, <4>2, <4>3
      <3>3. QED
        BY <3>1, <3>2
    <2>3. \A q \in Partitions : q # p => (GoesOn(q)' <=> GoesOn(q))
      BY <1>1, <1>2, <1>3 DEF GoesOn, LastGot
    <2>4. QED
      BY <1>0, <1>1, <1>3, <2>1, <2>2, <2>3 DEF JumpsAreCrashes
  <1>10. JumpsAreExplained'
    <2> SUFFICES ASSUME NEW q \in Partitions, NEW k \in Jumps(got'[q])
                 PROVE  got'[q][k] <= got'[q][k - 1] \/ got'[q][k] <= base[q]
      BY <1>1 DEF JumpsAreExplained
    <2>1. CASE q # p
      BY <1>0, <1>3, <2>1 DEF JumpsAreExplained
    <2>2. CASE q = p /\ k \in Jumps(s)
      <3>1. k \in 1 .. n /\ k - 1 \in 1 .. n
        BY <1>3, <2>2 DEF Jumps, n
      <3>2. got'[p][k] = s[k] /\ got'[p][k - 1] = s[k - 1]
        BY <1>4, <3>1
      <3>3. s[k] <= s[k - 1] \/ s[k] <= base[p]
        BY <1>0, <2>2 DEF JumpsAreExplained, s
      <3>4. QED
        BY <2>2, <3>2, <3>3
    <2>3. CASE q = p /\ k \notin Jumps(s)
      <3>1. s # <<>> /\ o # s[n] + 1 /\ k = n + 1
        <4>1. k \in Jumps(Append(s, o))
          BY <1>3, <2>3
        <4>2. Jumps(Append(s, o)) # Jumps(s)
          BY <2>3, <4>1
        <4>3. s # <<>> /\ o # s[n] + 1
          BY <1>2, <1>3, <4>2, JumpsOfAppend DEF n
        <4>4. Jumps(Append(s, o)) = Jumps(s) \cup {n + 1}
          BY <1>2, <1>3, <4>3, JumpsOfAppend DEF n
        <4>5. QED
          BY <2>3, <4>1, <4>3, <4>4
      <3>2. n \in 1 .. n /\ s[n] \in Nat
        BY <1>3, <3>1 DEF n
      <3>3. got'[p][k] = o /\ got'[p][k - 1] = s[n]
        BY <1>3, <1>4, <3>1, <3>2
      <3>4. o <= s[n] + 1 \/ o <= base[p]
        BY <1>0, <1>1, <3>1 DEF NoNewSkips, LastGot, s, n, o
      <3>5. QED
        BY <1>2, <2>3, <3>1, <3>2, <3>3, <3>4
    <2>4. QED
      BY <2>1, <2>2, <2>3
  <1>11. QED
    BY <1>5, <1>6, <1>7, <1>8, <1>9, <1>10 DEF PingInv

\* Every step keeps the order of the offsets and of the log.
LEMMA PingStep == PingInv /\ [PingPongNext]_pingPongVars => PingInv'
  <1> SUFFICES ASSUME PingInv, [PingPongNext]_pingPongVars
               PROVE  PingInv'
    OBVIOUS
  <1>0. /\ OffsetTypes /\ LogTypes
        /\ BrokerInOrder /\ PongerInOrder
        /\ LoggedUpTo /\ NoNewSkips
        /\ JumpsAreCrashes /\ JumpsAreExplained
    BY DEF PingInv
  <1>1. ASSUME NEW p \in Partitions, Ping(p) \/ PingWritten(p) \/ PingFails(p)
        PROVE  PingInv'
    <2>1. UNCHANGED pongerVars /\ UNCHANGED committed
      BY <1>1 DEF Ping, PingWritten, PingFails
    <2>2. buffered' \in [Partitions -> Nat]
      <3>1. \/ buffered' = [buffered EXCEPT ![p] = buffered[p] + 1]
            \/ buffered[p] > 0 /\ buffered' = [buffered EXCEPT ![p] = buffered[p] - 1]
        BY <1>1 DEF Ping, PingWritten, PingFails
      <3>2. QED
        BY <1>0, <3>1 DEF OffsetTypes
    <2>3. end' \in [Partitions -> Nat] /\ \A q \in Partitions : end[q] <= end'[q]
      <3>1. UNCHANGED end \/ end' = [end EXCEPT ![p] = end[p] + 1]
        BY <1>1 DEF Ping, PingWritten, PingFails
      <3>2. QED
        BY <1>0, <3>1 DEF OffsetTypes
    <2>4. UNCHANGED <<ponger, position, head, todo, pongerCrashes, base, got>>
      BY <2>1 DEF pongerVars
    <2>5. OffsetTypes' /\ LogTypes'
      BY <1>0, <2>1, <2>2, <2>3, <2>4 DEF OffsetTypes, LogTypes
    <2>6. BrokerInOrder' /\ PongerInOrder'
      BY <1>0, <2>1, <2>3, <2>4 DEF OffsetTypes, BrokerInOrder, PongerInOrder
    <2>7. LoggedUpTo' /\ NoNewSkips' /\ JumpsAreCrashes' /\ JumpsAreExplained'
      BY <1>0, <2>1, <2>4 DEF LoggedUpTo, NoNewSkips, JumpsAreCrashes, JumpsAreExplained,
                              LastGot, GoesOn
    <2>8. QED
      BY <2>5, <2>6, <2>7 DEF PingInv
  <1>2. CASE PingerCrashes
    <2>1. /\ UNCHANGED <<committed, end, ponger, position, head, todo, pongerCrashes, base, got>>
          /\ buffered' \in [Partitions -> Nat]
      BY <1>2 DEF PingerCrashes, pongerVars
    <2>2. OffsetTypes' /\ LogTypes' /\ BrokerInOrder' /\ PongerInOrder'
      BY <1>0, <2>1 DEF OffsetTypes, LogTypes, BrokerInOrder, PongerInOrder
    <2>3. LoggedUpTo' /\ NoNewSkips' /\ JumpsAreCrashes' /\ JumpsAreExplained'
      BY <1>0, <2>1 DEF LoggedUpTo, NoNewSkips, JumpsAreCrashes, JumpsAreExplained,
                        LastGot, GoesOn
    <2>4. QED
      BY <2>2, <2>3 DEF PingInv
  <1>3. CASE Join
    <2>1. /\ ponger = "down" /\ ponger' = "handling"
          /\ position' = [p \in Partitions |-> IF committed[p] = -1 THEN end[p] ELSE committed[p]]
          /\ base' = [p \in Partitions |-> IF committed[p] = -1 THEN end[p] ELSE base[p]]
          /\ head' = [p \in Partitions |-> -1]
          /\ todo' = position'
          /\ UNCHANGED <<buffered, end, committed, pongerCrashes, got>>
      BY <1>3 DEF Join, None, pingerVars
    <2>2. ASSUME NEW p \in Partitions
          PROVE  /\ position'[p] \in Nat /\ todo'[p] = position'[p] /\ position'[p] <= end[p]
                 /\ base'[p] \in Nat /\ base[p] <= base'[p] /\ base'[p] <= end[p]
                 /\ head'[p] = -1 /\ committed[p] <= position'[p]
                 /\ \/ committed[p] = -1 /\ position'[p] = base'[p]
                    \/ committed[p] = position'[p] /\ base'[p] = base[p]
      BY <1>0, <2>1 DEF OffsetTypes, BrokerInOrder
    <2>3. OffsetTypes' /\ LogTypes'
      BY <1>0, <2>1, <2>2 DEF OffsetTypes, LogTypes
    <2>4. BrokerInOrder' /\ PongerInOrder'
      BY <1>0, <2>1, <2>2 DEF OffsetTypes, BrokerInOrder, PongerInOrder
    <2>5. LoggedUpTo'
      BY <1>0, <2>1, <2>2 DEF OffsetTypes, LoggedUpTo
    <2>6. NoNewSkips'
      BY <1>0, <2>1, <2>2 DEF OffsetTypes, NoNewSkips, LastGot
    <2>7. JumpsAreCrashes' /\ JumpsAreExplained'
      BY <2>1, <2>2, NothingLogged DEF GoesOn
    <2>8. QED
      BY <2>3, <2>4, <2>5, <2>6, <2>7 DEF PingInv
  <1>4. CASE Poll
    <2>1. /\ ponger = "handling" /\ ponger' = "polling" /\ todo = position
          /\ head' = [p \in Partitions |-> IF p \in polled THEN position[p] ELSE head[p]]
          /\ UNCHANGED <<buffered, end, committed, position, todo, pongerCrashes, base, got>>
      BY <1>4 DEF Poll, pingerVars
    <2>2. OffsetTypes' /\ LogTypes' /\ BrokerInOrder' /\ PongerInOrder'
      BY <1>0, <2>1 DEF OffsetTypes, LogTypes, BrokerInOrder, PongerInOrder
    <2>3. LoggedUpTo' /\ NoNewSkips'
      BY <1>0, <2>1 DEF LoggedUpTo, NoNewSkips, LastGot
    <2>4. JumpsAreCrashes' /\ JumpsAreExplained'
      BY <1>0, <2>1 DEF JumpsAreCrashes, JumpsAreExplained, GoesOn, LastGot
    <2>5. QED
      BY <2>2, <2>3, <2>4 DEF PingInv
  <1>5. CASE Fetch
    <2>1. PICK upTo \in [Partitions -> Offsets] :
            /\ \A p \in Partitions : upTo[p] \in position[p] .. end[p]
            /\ position' = upTo
      BY <1>5 DEF Fetch
    <2>2. /\ ponger = "polling" /\ ponger' = "handling"
          /\ UNCHANGED <<buffered, end, committed, head, todo, pongerCrashes, base, got>>
      BY <1>5 DEF Fetch, pingerVars
    <2>3. ASSUME NEW p \in Partitions
          PROVE  position'[p] \in Nat /\ position[p] <= position'[p] /\ position'[p] <= end[p]
      BY <1>0, <2>1 DEF OffsetTypes
    <2>4. position' \in [Partitions -> Nat]
      BY <2>1, <2>3
    <2>5. OffsetTypes' /\ LogTypes' /\ BrokerInOrder' /\ PongerInOrder'
      BY <1>0, <2>2, <2>3, <2>4 DEF OffsetTypes, LogTypes, BrokerInOrder, PongerInOrder
    <2>6. LoggedUpTo' /\ NoNewSkips'
      BY <1>0, <2>2 DEF LoggedUpTo, NoNewSkips, LastGot
    <2>7. JumpsAreCrashes' /\ JumpsAreExplained'
      BY <1>0, <2>2 DEF JumpsAreCrashes, JumpsAreExplained, GoesOn, LastGot
    <2>8. QED
      BY <2>5, <2>6, <2>7 DEF PingInv
  <1>6. CASE FetchFails
    <2>1. /\ ponger = "polling" /\ ponger' = "handling"
          /\ UNCHANGED <<buffered, end, committed, position, head, todo, pongerCrashes, base, got>>
      BY <1>6 DEF FetchFails, pingerVars
    <2>2. OffsetTypes' /\ LogTypes' /\ BrokerInOrder' /\ PongerInOrder'
      BY <1>0, <2>1 DEF OffsetTypes, LogTypes, BrokerInOrder, PongerInOrder
    <2>3. LoggedUpTo' /\ NoNewSkips'
      BY <1>0, <2>1 DEF LoggedUpTo, NoNewSkips, LastGot
    <2>4. JumpsAreCrashes' /\ JumpsAreExplained'
      BY <1>0, <2>1 DEF JumpsAreCrashes, JumpsAreExplained, GoesOn, LastGot
    <2>5. QED
      BY <2>2, <2>3, <2>4 DEF PingInv
  <1>7. ASSUME NEW p \in Partitions, LogRecord(p)
        PROVE  PingInv'
    BY <1>7, LogStep
  <1>8. CASE AutoCommit
    <2>1. /\ ponger # "down"
          /\ committed' = [p \in Partitions |-> IF head[p] = -1 THEN committed[p] ELSE head[p]]
          /\ UNCHANGED <<buffered, end, ponger, position, head, todo, pongerCrashes, base, got>>
      BY <1>8 DEF AutoCommit, None, pingerVars, pongerVars
    <2>2. ASSUME NEW p \in Partitions
          PROVE  committed'[p] \in Nat \cup {-1} /\ committed'[p] <= todo[p] /\ committed'[p] <= end[p]
      BY <1>0, <2>1 DEF OffsetTypes, PongerInOrder
    <2>3. OffsetTypes' /\ LogTypes' /\ BrokerInOrder' /\ PongerInOrder'
      BY <1>0, <2>1, <2>2 DEF OffsetTypes, LogTypes, BrokerInOrder, PongerInOrder
    <2>4. LoggedUpTo'
      BY <1>0, <2>1, <2>2 DEF OffsetTypes, LoggedUpTo
    <2>5. NoNewSkips'
      <3> SUFFICES ASSUME NEW p \in Partitions, got[p] # <<>>
                   PROVE  /\ committed'[p] <= LastGot(p) + 1 \/ committed'[p] <= base[p]
                          /\ todo[p] <= LastGot(p) + 1 \/ todo[p] <= base[p]
        BY <2>1 DEF NoNewSkips, LastGot
      <3>1. LastGot(p) \in Nat
        BY <1>0, LastType DEF LogTypes
      <3>2. todo[p] <= LastGot(p) + 1 \/ todo[p] <= base[p]
        BY <1>0, <2>1 DEF NoNewSkips
      <3>3. QED
        <4>1. /\ todo[p] \in Int /\ base[p] \in Int /\ LastGot(p) + 1 \in Int
              /\ committed'[p] \in Int /\ committed'[p] <= todo[p]
          BY <1>0, <2>2, <3>1 DEF OffsetTypes
        <4>2. QED
          BY <3>2, <4>1
    <2>6. JumpsAreCrashes' /\ JumpsAreExplained'
      BY <1>0, <2>1 DEF JumpsAreCrashes, JumpsAreExplained, GoesOn, LastGot
    <2>7. QED
      BY <2>3, <2>4, <2>5, <2>6 DEF PingInv
  <1>9. CASE PongerCrashes
    <2>1. /\ ponger # "down" /\ ponger' = "down" /\ pongerCrashes' = pongerCrashes + 1
          /\ UNCHANGED <<buffered, end, committed, position, head, todo, base, got>>
      BY <1>9 DEF PongerCrashes, pingerVars
    <2>2. OffsetTypes' /\ LogTypes' /\ BrokerInOrder' /\ PongerInOrder'
      BY <1>0, <2>1 DEF OffsetTypes, LogTypes, BrokerInOrder, PongerInOrder
    <2>3. LoggedUpTo' /\ NoNewSkips' /\ JumpsAreExplained'
      BY <1>0, <2>1 DEF LoggedUpTo, NoNewSkips, JumpsAreExplained, LastGot
    <2>4. JumpsAreCrashes'
      <3> SUFFICES ASSUME NEW p \in Partitions
                   PROVE  /\ Cardinality(Jumps(got[p])) <= pongerCrashes + 1
                          /\ Cardinality(Jumps(got[p])) + 1 <= pongerCrashes + 1
        BY <2>1 DEF JumpsAreCrashes
      <3>1. Cardinality(Jumps(got[p])) \in Nat
        BY <1>0, JumpsFinite DEF LogTypes
      <3>2. Cardinality(Jumps(got[p])) <= pongerCrashes /\ pongerCrashes \in Nat
        BY <1>0 DEF JumpsAreCrashes, LogTypes
      <3>3. QED
        BY <3>1, <3>2
    <2>5. QED
      BY <2>2, <2>3, <2>4 DEF PingInv
  <1>10. CASE UNCHANGED pingPongVars
    <2>1. UNCHANGED <<buffered, end, committed, ponger, position, head, todo, pongerCrashes, base, got>>
      BY <1>10 DEF pingPongVars, pingerVars, pongerVars
    <2>2. OffsetTypes' /\ LogTypes' /\ BrokerInOrder' /\ PongerInOrder'
      BY <1>0, <2>1 DEF OffsetTypes, LogTypes, BrokerInOrder, PongerInOrder
    <2>3. LoggedUpTo' /\ NoNewSkips' /\ JumpsAreCrashes' /\ JumpsAreExplained'
      BY <1>0, <2>1 DEF LoggedUpTo, NoNewSkips, JumpsAreCrashes, JumpsAreExplained,
                        LastGot, GoesOn
    <2>4. QED
      BY <2>2, <2>3 DEF PingInv
  <1>11. QED
    BY <1>1, <1>2, <1>3, <1>4, <1>5, <1>6, <1>7, <1>8, <1>9, <1>10 DEF PingPongNext

(***************************************************************************)
(* However pingers and pongers crash and whenever the library commits: no  *)
(* ping between the first committed ponger's start and the committed       *)
(* offset is missing in the log, and a ping is repeated or skipped only    *)
(* across a crash.                                                         *)
(***************************************************************************)
THEOREM NoPingLost == PingPongSpec => []PingsAreLogged
  <1>1. PingInv => PingsAreLogged
    <2> SUFFICES ASSUME PingInv, NEW p \in Partitions
                 PROVE  /\ base[p] .. committed[p] - 1 \subseteq ToSet(got[p])
                        /\ Cardinality(Jumps(got[p])) <= pongerCrashes
                        /\ \A k \in Jumps(got[p]) : got[p][k] <= got[p][k - 1] \/ got[p][k] <= base[p]
      BY Zenon DEF PingsAreLogged, Jumps
    <2>0. OffsetTypes /\ LogTypes /\ LoggedUpTo /\ JumpsAreCrashes /\ JumpsAreExplained
      BY DEF PingInv
    <2>1. ASSUME NEW o \in base[p] .. committed[p] - 1
          PROVE  o \in ToSet(got[p])
      <3>1. o \in Nat /\ base[p] <= o /\ o < committed[p]
        BY <2>0 DEF OffsetTypes
      <3>2. PICK k \in 1 .. Len(got[p]) : got[p][k] = o
        BY <2>0, <3>1 DEF LoggedUpTo, Holds
      <3>3. k \in DOMAIN got[p]
        BY <2>0 DEF LogTypes
      <3>4. QED
        BY <3>2, <3>3 DEF ToSet
    <2>2. QED
      BY <2>0, <2>1 DEF JumpsAreCrashes, JumpsAreExplained
  <1>2. QED
    BY <1>1, PingStart, PingStep, PTL DEF PingPongSpec

\* A record was a tick first, and whatever the ponger does lies before the end.
PingBounds ==
    /\ pings \in 0 .. MaxPings
    /\ {pingerCrashes, pongerCrashes} \subseteq 0 .. MaxCrashes
    /\ ponger \in {"down", "polling", "handling"}
    /\ polled \subseteq Partitions
    /\ current \in Partitions \cup {None}
    /\ \A p \in Partitions :
          /\ buffered[p] + end[p] <= pings
          /\ position[p] <= end[p] /\ todo[p] <= end[p] /\ head[p] <= end[p]
    /\ got \in [Partitions -> Seq(0 .. MaxPings)]

(***************************************************************************)
(* The types hold for any partitions and any numbers of pings and crashes: *)
(* in particular the ponger logs no more records of a partition than there *)
(* were ticks of the pinger, and the group commits none beyond the end.    *)
(***************************************************************************)
THEOREM PingPongTypeCorrect == PingPongSpec => []PingPongTypeOK
  <1> USE MaxPingsAssumption, MaxCrashesAssumption
  <1>1. PingPongInit => PingBounds
    BY DEF PingPongInit, None, PingBounds
  <1>2. PingInv /\ PingBounds /\ [PingPongNext]_pingPongVars => PingBounds'
    <2> SUFFICES ASSUME PingInv, PingBounds, [PingPongNext]_pingPongVars
                 PROVE  PingBounds'
      OBVIOUS
    <2>0. OffsetTypes /\ LogTypes /\ BrokerInOrder /\ PongerInOrder
      BY DEF PingInv
    <2>1. ASSUME NEW p \in Partitions, Ping(p)
          PROVE  PingBounds'
      <3>1. /\ pings' = pings + 1 /\ pings' \in 0 .. MaxPings
            /\ UNCHANGED <<pingerCrashes, pongerCrashes, end, ponger, polled, current, position, todo,
                           head, got>>
        BY <2>1 DEF PingBounds, Ping, pongerVars
      <3>2. ASSUME NEW q \in Partitions
            PROVE  buffered'[q] + end[q] <= pings'
        <4>1. {buffered[q], end[q]} \subseteq Nat /\ buffered[q] + end[q] <= pings
          BY <2>0 DEF OffsetTypes, PingBounds
        <4>2. buffered'[q] \in {buffered[q], buffered[q] + 1}
          BY <2>0, <2>1 DEF OffsetTypes, Ping
        <4>3. pings \in Nat
          BY DEF PingBounds
        <4>4. QED
          BY <3>1, <4>1, <4>2, <4>3
      <3>3. QED
        BY <3>1, <3>2 DEF PingBounds
    <2>2. ASSUME NEW p \in Partitions, PingWritten(p) \/ PingFails(p)
          PROVE  PingBounds'
      <3>1. /\ UNCHANGED <<pings, pingerCrashes, pongerVars>>
            /\ \A q \in Partitions : buffered'[q] + end'[q] <= buffered[q] + end[q] /\ end[q] <= end'[q]
                                     /\ {buffered'[q], end'[q]} \subseteq Int
        BY <2>0, <2>2 DEF OffsetTypes, PingWritten, PingFails
      <3>2. UNCHANGED <<pongerCrashes, ponger, polled, current, position, todo, head, got>>
        BY <3>1 DEF pongerVars
      <3>3. ASSUME NEW q \in Partitions
            PROVE  /\ buffered'[q] + end'[q] <= pings
                   /\ position[q] <= end'[q] /\ todo[q] <= end'[q] /\ head[q] <= end'[q]
        <4>0. {buffered[q], end[q], position[q], todo[q], head[q]} \subseteq Int
          BY <2>0 DEF OffsetTypes
        <4>1. /\ buffered[q] + end[q] <= pings /\ pings \in Int
              /\ position[q] <= end[q] /\ todo[q] <= end[q] /\ head[q] <= end[q]
          BY DEF PingBounds
        <4>2. /\ buffered'[q] + end'[q] <= buffered[q] + end[q] /\ end[q] <= end'[q]
              /\ {buffered'[q], end'[q]} \subseteq Int
          BY <3>1
        <4>3. QED
          BY <4>0, <4>1, <4>2
      <3>4. QED
        BY <3>1, <3>2, <3>3 DEF PingBounds
    <2>3. CASE PingerCrashes
      <3>1. /\ pingerCrashes' \in 0 .. MaxCrashes
            /\ \A p \in Partitions : buffered'[p] = 0
            /\ UNCHANGED <<pings, pongerCrashes, end, ponger, polled, current, position, todo, head, got>>
        BY <2>3 DEF PingBounds, PingerCrashes, pongerVars
      <3>2. \A p \in Partitions : buffered'[p] + end[p] <= pings
        <4>1. ASSUME NEW p \in Partitions
              PROVE  end[p] <= pings
          <5>1. {buffered[p], end[p]} \subseteq Nat /\ pings \in Nat
            BY <2>0 DEF OffsetTypes, PingBounds
          <5>2. QED
            BY <5>1 DEF PingBounds
        <4>2. QED
          BY <2>0, <3>1, <4>1 DEF OffsetTypes
      <3>3. QED
        BY <3>1, <3>2 DEF PingBounds
    <2>4. CASE Join
      <3>1. /\ UNCHANGED <<pings, buffered, pingerCrashes, pongerCrashes, end, got>>
            /\ ponger' = "handling" /\ polled' = {} /\ current' = None
        BY <2>4 DEF Join, pingerVars
      <3>2. ASSUME NEW p \in Partitions
            PROVE  position'[p] <= end[p] /\ todo'[p] <= end[p] /\ head'[p] <= end[p]
        <4>1. end[p] \in Nat /\ committed[p] \in Int /\ committed[p] <= end[p]
          BY <2>0 DEF OffsetTypes, BrokerInOrder
        <4>2. /\ position'[p] \in {end[p], committed[p]}
              /\ todo'[p] = position'[p] /\ head'[p] = -1
          BY <2>4 DEF Join, None
        <4>3. QED
          BY <4>1, <4>2
      <3>3. QED
        BY <3>1, <3>2 DEF PingBounds
    <2>5. CASE Poll \/ FetchFails
      BY <2>0, <2>5 DEF OffsetTypes, PingBounds, Poll, FetchFails, pingerVars
    <2>6. CASE Fetch
      <3>1. /\ position' \in [Partitions -> Offsets]
            /\ \A p \in Partitions : position'[p] \in position[p] .. end[p]
            /\ polled' \subseteq polled \cup Partitions
            /\ ponger' = "handling"
            /\ UNCHANGED <<pings, buffered, pingerCrashes, end, head, todo, current, pongerCrashes, got>>
        BY <2>6, Zenon DEF Fetch, pingerVars
      <3>2. \A p \in Partitions : position'[p] <= end[p]
        BY <2>0, <3>1 DEF OffsetTypes
      <3>3. QED
        BY <3>1, <3>2 DEF PingBounds
    <2>7. ASSUME NEW p \in Partitions, LogRecord(p)
          PROVE  PingBounds'
      <3>1. /\ todo[p] < position[p]
            /\ got' = [got EXCEPT ![p] = Append(@, todo[p])]
            /\ todo' = [todo EXCEPT ![p] = @ + 1]
            /\ current' \in {None, p}
            /\ UNCHANGED <<pings, buffered, pingerCrashes, pongerCrashes, end, ponger, polled, position, head>>
        BY <2>7 DEF LogRecord, pingerVars
      <3>2. todo[p] + 1 <= end[p] /\ todo[p] \in 0 .. MaxPings
        BY <2>0, <3>1 DEF OffsetTypes, PingBounds
      <3>3. got' \in [Partitions -> Seq(0 .. MaxPings)]
        BY <3>1, <3>2 DEF PingBounds
      <3>4. \A q \in Partitions : todo'[q] <= end[q]
        BY <2>0, <3>1, <3>2 DEF OffsetTypes, PingBounds
      <3>5. QED
        BY <3>1, <3>3, <3>4 DEF PingBounds
    <2>8. CASE AutoCommit \/ PongerCrashes
      BY <2>0, <2>8 DEF LogTypes, PingBounds, AutoCommit, PongerCrashes, pingerVars, pongerVars
    <2>9. CASE UNCHANGED pingPongVars
      BY <2>9 DEF PingBounds, pingPongVars, pingerVars, pongerVars
    <2>10. QED
      BY <2>1, <2>2, <2>3, <2>4, <2>5, <2>6, <2>7, <2>8, <2>9 DEF PingPongNext
  <1>3. PingInv /\ PingBounds => PingPongTypeOK
    <2> SUFFICES ASSUME PingInv, PingBounds
                 PROVE  PingPongTypeOK
      OBVIOUS
    <2>0. OffsetTypes /\ LogTypes /\ BrokerInOrder
      BY DEF PingInv
    <2>1. ASSUME NEW p \in Partitions
          PROVE  /\ {buffered[p], end[p], position[p], todo[p], base[p]} \subseteq 0 .. MaxPings
                 /\ {committed[p], head[p]} \subseteq 0 .. MaxPings \cup {-1}
      <3>1. /\ {buffered[p], end[p], position[p], todo[p], base[p]} \subseteq Nat
            /\ {committed[p], head[p]} \subseteq Nat \cup {-1}
        BY <2>0 DEF OffsetTypes
      <3>2. /\ buffered[p] + end[p] <= MaxPings
            /\ position[p] <= end[p] /\ todo[p] <= end[p] /\ head[p] <= end[p]
            /\ base[p] <= end[p] /\ committed[p] <= end[p]
        BY <2>0, <3>1 DEF BrokerInOrder, PingBounds
      <3>3. QED
        BY <3>1, <3>2
    <2>2. /\ buffered \in [Partitions -> 0 .. MaxPings] /\ end \in [Partitions -> 0 .. MaxPings]
          /\ position \in [Partitions -> 0 .. MaxPings] /\ todo \in [Partitions -> 0 .. MaxPings]
          /\ base \in [Partitions -> 0 .. MaxPings]
          /\ committed \in [Partitions -> 0 .. MaxPings \cup {-1}]
          /\ head \in [Partitions -> 0 .. MaxPings \cup {-1}]
      BY <2>0, <2>1 DEF OffsetTypes
    <2>3. QED
      BY <2>2 DEF PingBounds, PingPongTypeOK, Offsets, None
  <1>4. QED
    BY <1>1, <1>2, <1>3, PingStart, PingStep, PTL DEF PingPongSpec
------------------------------------------------------------------------------
(* The retries of lib/retry *)

\* The types of what the loop depends on; a result is there when it is over.
RetryTypes ==
    /\ attempts \in Attempts \cap Int /\ delay \in Delays
    /\ i \in Nat /\ calls \in Nat /\ lateCalls \in Nat
    /\ ctxDone \in BOOLEAN /\ fired \in BOOLEAN /\ succeeded \in BOOLEAN
    /\ at \in {"loop", "calling", "failed", "waiting", "returned"}
    /\ result \in {"none", "nil", "fnError", "ctxError"}
    /\ at # "returned" <=> result = "none"

\* The index of the loop counts the calls, and it is only raised when there is
\* an attempt left.
TriesCountCalls ==
    /\ at = "loop" => calls = i /\ (i = 0 \/ i < attempts)
    /\ at = "calling" => calls = i + 1 /\ i < attempts
    /\ at \in {"failed", "waiting"} => calls = i + 1 /\ i + 1 < attempts
    /\ at = "returned" => calls = 0 \/ calls <= attempts

ResultsTell ==
    /\ result = "nil" /\ attempts > 0 => succeeded
    /\ result = "fnError" => calls = attempts

RetryInv == RetryTypes /\ TriesCountCalls /\ ResultsTell

LEMMA RetryStep == RetryInv /\ [RetryNext]_retryVars => RetryInv'
  <1> SUFFICES ASSUME RetryInv, [RetryNext]_retryVars
               PROVE  RetryInv'
    OBVIOUS
  <1> USE DEF RetryInv, RetryTypes, TriesCountCalls, ResultsTell, Return
  <1>1. CASE ContextDone
    BY <1>1 DEF ContextDone
  <1>2. CASE TimerFires
    BY <1>2 DEF TimerFires
  <1>3. CASE Call
    BY <1>3 DEF Call
  <1>4. CASE LoopEnds
    BY <1>4 DEF LoopEnds
  <1>5. CASE CallSucceeds
    BY <1>5 DEF CallSucceeds
  <1>6. CASE CallFails
    BY <1>6 DEF CallFails
  <1>7. CASE Select
    BY <1>7 DEF Select
  <1>8. CASE TakeTimer
    BY <1>8 DEF TakeTimer
  <1>9. CASE TakeDone
    BY <1>9 DEF TakeDone
  <1>10. CASE UNCHANGED retryVars
    BY <1>10 DEF retryVars
  <1>11. QED
    BY <1>1, <1>2, <1>3, <1>4, <1>5, <1>6, <1>7, <1>8, <1>9, <1>10 DEF RetryNext, LoopStep

LEMMA RetryInvariance == RetrySpec => []RetryInv
  <1>1. RetryInit => RetryInv
    <2> SUFFICES ASSUME RetryInit
                 PROVE  RetryInv
      OBVIOUS
    <2>1. RetryTypes
      BY AttemptsAssumption DEF RetryInit, RetryTypes
    <2>2. TriesCountCalls /\ ResultsTell
      BY DEF RetryInit, TriesCountCalls, ResultsTell
    <2>3. QED
      BY <2>1, <2>2 DEF RetryInv
  <1>2. QED
    BY <1>1, RetryStep, PTL DEF RetrySpec

(***************************************************************************)
(* For any number of attempts, also none or a negative one, and any delay: *)
(* what Do returns tells what its calls did.                               *)
(***************************************************************************)
THEOREM ResultTellsCalls == RetrySpec => []ResultTellsTheCalls
  <1>1. RetryInv => ResultTellsTheCalls
    BY DEF RetryInv, RetryTypes, TriesCountCalls, ResultsTell, ResultTellsTheCalls
  <1>2. QED
    BY <1>1, RetryInvariance, PTL

\* While a further call may follow, none has begun after the end of the context.
NotLateYet ==
    /\ lateCalls > 0 => ctxDone
    /\ at \in {"loop", "waiting"} => lateCalls = 0
    /\ lateCalls <= 1

\* A power of two is the number of subsets of a set, and grows with the set.
LEMMA PowersGrow ==
    ASSUME NEW m \in Nat, NEW k \in 0 .. m
    PROVE  /\ 2 ^ k \in Nat \ {0} /\ 2 ^ m \in Nat \ {0}
           /\ 2 ^ k <= 2 ^ m
  <1>1. ASSUME NEW n \in Nat
        PROVE  /\ IsFiniteSet(SUBSET (1 .. n))
               /\ Cardinality(SUBSET (1 .. n)) = 2 ^ n
               /\ Cardinality(SUBSET (1 .. n)) \in Nat \ {0}
    <2>1. IsFiniteSet(1 .. n) /\ Cardinality(1 .. n) = n
      BY FS_Interval
    <2>2. IsFiniteSet(SUBSET (1 .. n)) /\ Cardinality(SUBSET (1 .. n)) = 2 ^ n
      BY <2>1, FS_SUBSET
    <2>3. SUBSET (1 .. n) # {}
      OBVIOUS
    <2>4. Cardinality(SUBSET (1 .. n)) \in Nat /\ Cardinality(SUBSET (1 .. n)) # 0
      BY <2>2, <2>3, FS_CardinalityType, FS_EmptySet
    <2>5. QED
      BY <2>2, <2>4
  <1>2. SUBSET (1 .. k) \subseteq SUBSET (1 .. m)
    OBVIOUS
  <1>3. Cardinality(SUBSET (1 .. k)) <= Cardinality(SUBSET (1 .. m))
    BY <1>1, <1>2, FS_Subset
  <1>4. QED
    BY <1>1, <1>3

\* A product that does not overflow at the cap of the shift never does.
LEMMA BackoffIsPositive ==
    ASSUME NEW d \in Nat \ {0}, d * 2 ^ MaxShift < 2 ^ (Width - 1), NEW k \in Nat
    PROVE  Backoff(d, k) \in Nat \ {0}
  <1> DEFINE shift == IF k > MaxShift THEN MaxShift ELSE k
             product == d * 2 ^ shift
             half == 2 ^ (Width - 1)
  <1>1. shift \in 0 .. MaxShift
    BY MaxShiftAssumption
  <1>2. /\ 2 ^ shift \in Nat \ {0} /\ 2 ^ MaxShift \in Nat \ {0}
        /\ 2 ^ shift <= 2 ^ MaxShift
    <2> HIDE DEF shift
    <2>1. QED
      BY <1>1, PowersGrow, MaxShiftAssumption
  <1>3. half \in Nat \ {0}
    BY PowersGrow, WidthAssumption
  <1>4. product \in Nat \ {0} /\ product < half
    <2>1. ASSUME NEW p \in Nat \ {0}, NEW q \in Nat \ {0}, p <= q, NEW h \in Nat, d * q < h
          PROVE  d * p \in Nat \ {0} /\ d * p < h
      <3>1. d * p <= d * q
        BY <2>1
      <3>2. d * p >= 1
        BY <2>1
      <3>3. QED
        BY <2>1, <3>1, <3>2
    <2> HIDE DEF shift
    <2>2. QED
      BY <1>2, <1>3, <2>1
  <1>5. Wrap(product) = product
    <2>1. ASSUME NEW n \in Nat, NEW h \in Nat, n < h
          PROVE  ((n + h) % (2 * h)) - h = n
      BY <2>1
    <2> HIDE DEF product, half
    <2>2. ((product + half) % (2 * half)) - half = product
      BY <1>3, <1>4, <2>1
    <2>3. QED
      BY <2>2 DEF Wrap, half
  <1>6. Backoff(d, k) = Wrap(product)
    BY DEF Backoff
  <1>7. QED
    BY <1>4, <1>5, <1>6

(***************************************************************************)
(* For delays whose backoff does not overflow at the cap of the shift, in  *)
(* the code those below 2^33 ns: at most one call begins after the end of  *)
(* the context.                                                            *)
(***************************************************************************)
THEOREM OneLateCall ==
    ASSUME \A d \in Delays : d * 2 ^ MaxShift < 2 ^ (Width - 1)
    PROVE  RetrySpec => []AtMostOneLateCall
  <1>1. RetryInit => NotLateYet
    BY DEF RetryInit, NotLateYet
  <1>2. RetryInv /\ NotLateYet /\ [RetryNext]_retryVars => NotLateYet'
    <2> SUFFICES ASSUME RetryInv, NotLateYet, [RetryNext]_retryVars
                 PROVE  NotLateYet'
      OBVIOUS
    <2> USE DEF RetryInv, RetryTypes, NotLateYet, Return
    <2>1. CASE ContextDone
      BY <2>1 DEF ContextDone
    <2>2. CASE Call
      BY <2>2 DEF Call
    <2>3. CASE Select
      <3>1. Backoff(delay, i) \in Nat \ {0}
        BY BackoffIsPositive, DelaysAssumption
      <3>2. ~(timer' <= 0)
        BY <2>3, <3>1 DEF Select
      <3>3. ~fired'
        BY <2>3, <3>2, Zenon DEF Select
      <3>4. QED
        BY <2>3, <3>3 DEF Select
    <2>4. CASE TakeTimer
      BY <2>4 DEF TakeTimer
    <2>5. CASE \/ TimerFires \/ LoopEnds \/ CallSucceeds
               \/ CallFails \/ TakeDone
      BY <2>5 DEF TimerFires, LoopEnds, CallSucceeds, CallFails,
                  TakeDone
    <2>6. CASE UNCHANGED retryVars
      BY <2>6 DEF retryVars
    <2>7. QED
      BY <2>1, <2>2, <2>3, <2>4, <2>5, <2>6 DEF RetryNext, LoopStep
  <1>3. NotLateYet => AtMostOneLateCall
    BY DEF NotLateYet, AtMostOneLateCall
  <1>4. QED
    BY <1>1, <1>2, <1>3, RetryInvariance, PTL DEF RetrySpec
=============================================================================

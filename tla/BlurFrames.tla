----------------------------- MODULE BlurFrames -----------------------------
(***************************************************************************)
(* One blur request over TCP: the client of lab-1/cmd/client/main.go and   *)
(* the handler of lab-1/internal/delivery/tcp/blur_handler.go.  The client *)
(* writes sigma, the length and the image and then reads a length and the  *)
(* result; the handler reads in the same order, blurs, and writes.  Either *)
(* program has its own constants for the sizes of the fields.              *)
(*                                                                         *)
(* Bytes travel in two streams through socket buffers of limited size, so  *)
(* a write blocks when its buffer is full and io.ReadFull goes on reading  *)
(* until it has everything or the stream has ended.  A byte is known by    *)
(* the field it was written for; sizes are scaled down.  Closing a socket  *)
(* that has unread bytes, or writing to one that the peer has closed,      *)
(* resets the connection, and bytes on their way may be lost.              *)
(***************************************************************************)
EXTENDS Naturals, Sequences

CONSTANTS
    Sizes,          \* the sizes an image or a result may have
    Capacity        \* bound: the bytes a stream holds

ASSUME SizesAssumption == Sizes \subseteq Nat
ASSUME CapacityAssumption == Capacity \in Nat \ {0}

\* The constants of the two programs: 8, 4 and 10<<20 scaled down.
ClientSigmaSize == 2
ClientHeaderSize == 1
ClientMaxSize == 2
\* Mutant of ServerSigmaSize: the handler takes sigma for a float32.
ServerSigmaSizeHalf == 1

ServerSigmaSize == 2
ServerHeaderSize == 1
ServerMaxSize == 2

VARIABLES
    imageSize,      \* len(data), what the client has read from its file
    checks,         \* whether the client checks the size, as this one does
    client,         \* what the client does, or how it has ended
    clientLeft,     \* the bytes left of the field it writes or reads
    server,         \* what the handler does, or how it has ended
    serverLeft,     \* the bytes left of the field it reads or writes
    resultSize,     \* len(encoded.Data)
    up, down,       \* the bytes on their way to the server, and to the client
    reset,          \* whether the connection was reset
    misread,        \* history: a field was read from bytes of another
    imageRead,      \* history: the bytes of the image the handler has read
    resultRead      \* history: the bytes of the result the client has read

vars == <<imageSize, checks, client, clientLeft, server, serverLeft, resultSize,
          up, down, reset, misread, imageRead, resultRead>>

history == <<misread, imageRead, resultRead>>

Fields == {"sigma", "length", "image"}
Replies == {"resultLength", "result"}

ClientEnds == {"saved", "unsaved", "failed", "crashed"}
ServerEnds == {"replied", "rejected"}

ClientClosed == client \in ClientEnds
ServerClosed == server \in ServerEnds

TypeOK ==
    /\ imageSize \in Sizes
    /\ checks \in BOOLEAN
    /\ client \in Fields \cup Replies \cup ClientEnds
    /\ clientLeft \in Nat
    /\ server \in Fields \cup {"decode"} \cup Replies \cup ServerEnds
    /\ serverLeft \in Nat
    /\ resultSize \in Sizes \ {0}
    /\ up \in Seq(Fields) /\ Len(up) <= Capacity
    /\ down \in Seq(Replies) /\ Len(down) <= Capacity
    /\ reset \in BOOLEAN
    /\ misread \in BOOLEAN
    /\ imageRead \in Nat
    /\ resultRead \in Nat

\* The connection is established, and the handler was called with it.
Init ==
    /\ imageSize \in Sizes
    /\ checks \in BOOLEAN
    /\ client = "sigma"
    /\ clientLeft = ClientSigmaSize
    /\ server = "sigma"
    /\ serverLeft = ServerSigmaSize
    /\ resultSize \in Sizes \ {0}
    /\ up = <<>>
    /\ down = <<>>
    /\ reset = FALSE
    /\ misread = FALSE
    /\ imageRead = 0
    /\ resultRead = 0

------------------------------------------------------------------------------
(* The client *)

ClientGoto(next, left) ==
    /\ client' = next
    /\ clientLeft' = left

\* The socket is closed by a deferred call, or by the system.
ClientEnd(how) ==
    /\ ClientGoto(how, 0)
    /\ reset' = (reset \/ down # <<>>)

ClientWrite ==
    /\ client \in Fields
    /\ clientLeft > 0
    /\ IF ServerClosed
         THEN reset' = TRUE /\ UNCHANGED up
         ELSE Len(up) < Capacity /\ up' = Append(up, client) /\ UNCHANGED reset
    /\ clientLeft' = clientLeft - 1
    /\ UNCHANGED <<imageSize, checks, client, server, serverLeft, resultSize, down, history>>

\* The size is checked after sigma was written.
ClientSigmaWritten ==
    /\ client = "sigma"
    /\ clientLeft = 0
    /\ IF checks /\ imageSize > ClientMaxSize
         THEN ClientEnd("failed")
         ELSE ClientGoto("length", ClientHeaderSize) /\ UNCHANGED reset
    /\ UNCHANGED <<imageSize, checks, server, serverLeft, resultSize, up, down, history>>

ClientLengthWritten ==
    /\ client = "length"
    /\ clientLeft = 0
    /\ ClientGoto("image", imageSize)
    /\ UNCHANGED <<imageSize, checks, server, serverLeft, resultSize, up, down, reset, history>>

ClientImageWritten ==
    /\ client = "image"
    /\ clientLeft = 0
    /\ ClientGoto("resultLength", ClientHeaderSize)
    /\ UNCHANGED <<imageSize, checks, server, serverLeft, resultSize, up, down, reset, history>>

ClientRead ==
    /\ client \in Replies
    /\ clientLeft > 0
    /\ down # <<>>
    /\ clientLeft' = clientLeft - 1
    /\ down' = Tail(down)
    /\ misread' = (misread \/ Head(down) # client)
    /\ resultRead' = IF Head(down) = "result" THEN resultRead + 1 ELSE resultRead
    /\ UNCHANGED <<imageRead, imageSize, checks, client, server, serverLeft, resultSize, up, reset>>

ClientLengthRead ==
    /\ client = "resultLength"
    /\ clientLeft = 0
    /\ IF resultSize > ClientMaxSize
         THEN ClientEnd("failed")
         ELSE ClientGoto("result", resultSize) /\ UNCHANGED reset
    /\ UNCHANGED <<imageSize, checks, server, serverLeft, resultSize, up, down, history>>

\* save writes the whole result, or its WriteFile fails, perhaps half way.
ClientResultRead ==
    /\ client = "result"
    /\ clientLeft = 0
    /\ \E how \in {"saved", "unsaved"} : ClientEnd(how)
    /\ UNCHANGED <<imageSize, checks, server, serverLeft, resultSize, up, down, history>>

\* A write fails once the connection is reset, a read also at the stream's end.
ClientFails ==
    /\ clientLeft > 0
    /\ \/ client \in Fields /\ ServerClosed
       \/ client \in Replies /\ (reset \/ (ServerClosed /\ down = <<>>))
    /\ ClientEnd("failed")
    /\ UNCHANGED <<imageSize, checks, server, serverLeft, resultSize, up, down, history>>

ClientCrash ==
    /\ ~ClientClosed
    /\ ClientEnd("crashed")
    /\ UNCHANGED <<imageSize, checks, server, serverLeft, resultSize, up, down, history>>

------------------------------------------------------------------------------
(* The handler *)

ServerGoto(next, left) ==
    /\ server' = next
    /\ serverLeft' = left

\* HandleConn returns, and handleConn closes the connection.
ServerEnd(how) ==
    /\ ServerGoto(how, 0)
    /\ reset' = (reset \/ up # <<>>)

ServerRead ==
    /\ server \in Fields
    /\ serverLeft > 0
    /\ up # <<>>
    /\ serverLeft' = serverLeft - 1
    /\ up' = Tail(up)
    /\ misread' = (misread \/ Head(up) # server)
    /\ imageRead' = IF Head(up) = "image" THEN imageRead + 1 ELSE imageRead
    /\ UNCHANGED <<resultRead, imageSize, checks, client, clientLeft, server, resultSize, down, reset>>

ServerSigmaRead ==
    /\ server = "sigma"
    /\ serverLeft = 0
    /\ ServerGoto("length", ServerHeaderSize)
    /\ UNCHANGED <<imageSize, checks, client, clientLeft, resultSize, up, down, reset, history>>

\* Mutant of ServerLengthRead: one byte too many is expected.
ServerLengthReadOffByOne ==
    /\ server = "length"
    /\ serverLeft = 0
    /\ IF imageSize > ServerMaxSize
         THEN ServerEnd("rejected")
         ELSE ServerGoto("image", imageSize + 1) /\ UNCHANGED reset
    /\ UNCHANGED <<imageSize, checks, client, clientLeft, resultSize, up, down, history>>

ServerLengthRead ==
    /\ server = "length"
    /\ serverLeft = 0
    /\ IF imageSize > ServerMaxSize
         THEN ServerEnd("rejected")
         ELSE ServerGoto("image", imageSize) /\ UNCHANGED reset
    /\ UNCHANGED <<imageSize, checks, client, clientLeft, resultSize, up, down, history>>

\* Mutant of ServerImageRead: a single Read in place of io.ReadFull.
ServerImageReadOnce ==
    /\ server = "image"
    /\ serverLeft < imageSize
    /\ ServerGoto("decode", 0)
    /\ UNCHANGED <<imageSize, checks, client, clientLeft, resultSize, up, down, reset, history>>

ServerImageRead ==
    /\ server = "image"
    /\ serverLeft = 0
    /\ ServerGoto("decode", 0)
    /\ UNCHANGED <<imageSize, checks, client, clientLeft, resultSize, up, down, reset, history>>

\* The image is decoded, blurred and encoded; writeBytes then checks the size
\* before it writes anything.  The first and the third can return an error.  The
\* second panics if the kernel for a huge sigma, which nobody has checked, cannot
\* be allocated: the process ends, for this connection as if it were rejected.
ServerBlurs ==
    /\ server = "decode"
    /\ \/ /\ imageSize > 0
          /\ resultSize <= ServerMaxSize
          /\ ServerGoto("resultLength", ServerHeaderSize)
          /\ UNCHANGED reset
       \/ ServerEnd("rejected")
    /\ UNCHANGED <<imageSize, checks, client, clientLeft, resultSize, up, down, history>>

ServerWrite ==
    /\ server \in Replies
    /\ serverLeft > 0
    /\ IF ClientClosed
         THEN reset' = TRUE /\ UNCHANGED down
         ELSE Len(down) < Capacity /\ down' = Append(down, server) /\ UNCHANGED reset
    /\ serverLeft' = serverLeft - 1
    /\ UNCHANGED <<imageSize, checks, client, clientLeft, server, resultSize, up, history>>

ServerLengthWritten ==
    /\ server = "resultLength"
    /\ serverLeft = 0
    /\ ServerGoto("result", resultSize)
    /\ UNCHANGED <<imageSize, checks, client, clientLeft, resultSize, up, down, reset, history>>

ServerResultWritten ==
    /\ server = "result"
    /\ serverLeft = 0
    /\ ServerEnd("replied")
    /\ UNCHANGED <<imageSize, checks, client, clientLeft, resultSize, up, down, history>>

ServerFails ==
    /\ serverLeft > 0
    /\ \/ server \in Fields /\ (reset \/ (ClientClosed /\ up = <<>>))
       \/ server \in Replies /\ ClientClosed
    /\ ServerEnd("rejected")
    /\ UNCHANGED <<imageSize, checks, client, clientLeft, resultSize, up, down, history>>

------------------------------------------------------------------------------

ClientStep ==
    \/ ClientWrite
    \/ ClientSigmaWritten
    \/ ClientLengthWritten
    \/ ClientImageWritten
    \/ ClientRead
    \/ ClientLengthRead
    \/ ClientResultRead
    \/ ClientFails

ServerStep ==
    \/ ServerRead
    \/ ServerSigmaRead
    \/ ServerLengthRead
    \/ ServerImageRead
    \/ ServerBlurs
    \/ ServerWrite
    \/ ServerLengthWritten
    \/ ServerResultWritten
    \/ ServerFails

Next == ClientStep \/ ClientCrash \/ ServerStep

Spec == Init /\ [][Next]_vars

\* Both programs run on; whether the client crashes is open.
FairSpec == Spec /\ WF_vars(ClientStep) /\ WF_vars(ServerStep)

------------------------------------------------------------------------------
(* Properties *)

(***************************************************************************)
(* The two programs agree on the frames: each field is read from the bytes *)
(* that were written for it, however the streams cut them into pieces.     *)
(***************************************************************************)
FramesAgree == ~misread

(***************************************************************************)
(* The handler blurs only an image it has received to its last byte, and   *)
(* the client gives save only a whole result of a whole image: what was    *)
(* sent before a crash, or before giving up on the size, never passes for  *)
(* it.                                                                     *)
(***************************************************************************)
NothingPartial ==
    /\ server \in {"decode"} \cup Replies \cup {"replied"} =>
         imageRead = imageSize /\ imageSize <= ServerMaxSize
    /\ client \in {"saved", "unsaved"} => resultRead = resultSize /\ imageRead = imageSize

\* A write to a full stream and a read from an empty one block, until the peer
\* has ended or the connection is reset.
ClientWaits ==
    /\ clientLeft > 0 /\ ~ServerClosed
    /\ \/ client \in Fields /\ Len(up) = Capacity
       \/ client \in Replies /\ down = <<>> /\ ~reset

ServerWaits ==
    /\ serverLeft > 0 /\ ~ClientClosed
    /\ \/ server \in Fields /\ up = <<>> /\ ~reset
       \/ server \in Replies /\ Len(down) = Capacity

(***************************************************************************)
(* There are no deadlines on the connection, and yet the two never block   *)
(* on each other, wherever their writes and reads are in their frames: one *)
(* of them has what the other waits for.                                   *)
(***************************************************************************)
NeverBothWait == ~(ClientWaits /\ ServerWaits)

(***************************************************************************)
(* Neither side waits for the other forever, with socket buffers smaller   *)
(* than the frames: both end, with the result or an error.  A reply that   *)
(* was written whole is read whole: the handler has read all there was     *)
(* when it closes the connection, so that nothing resets it.               *)
(***************************************************************************)
BothEnd ==
    /\ <>(ClientClosed /\ ServerClosed)
    /\ server = "replied" ~> client \in {"saved", "unsaved", "crashed"}
=============================================================================

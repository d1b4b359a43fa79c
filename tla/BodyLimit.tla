----------------------------- MODULE BodyLimit -----------------------------
(***************************************************************************)
(* One HTTP request on its way through RequestBodyLimitMiddleware, of the  *)
(* control API (src/app/middleware.py) or of the runtime                   *)
(* (src/runtime/runtime_app/middleware.py).  The middleware reads the body *)
(* from the server before it calls the application, which then reads it    *)
(* again from a replay.  The two services differ in what the replay says   *)
(* once the buffered messages are used up.                                 *)
(*                                                                         *)
(* A body is its sequence of chunk sizes.  The client may go away at any   *)
(* moment; the server is modelled by what receive() may return.            *)
(***************************************************************************)
EXTENDS Naturals, Sequences, SequencesExt

CONSTANTS
    MaxBytes,       \* settings.max_request_bytes
    ChunkSizes,     \* the sizes one http.request message may have
    MaxMessages,    \* bound: the messages of a complete body
    MaxSpins        \* bound: what the application reads past the end of a replay

ASSUME LimitAssumption ==
    /\ {MaxBytes, MaxMessages, MaxSpins} \subseteq Nat \ {0}
    /\ ChunkSizes \subseteq Nat
    /\ \E largest \in ChunkSizes : \A n \in ChunkSizes : n <= largest

VARIABLES
    service,    \* "api" or "runtime": whose middleware this is
    declared,   \* <<n>>: Content-Length is the integer n; <<>>: absent or not an integer
    gone,       \* has the client disconnected?
    pc,         \* where the request is
    sent,       \* history: the messages the server's receive() returned
    buffered,   \* the local list of __call__
    total,      \* its running count of bytes
    read        \* history: the messages the application's receive() returned

request == <<declared, gone, pc, sent, buffered, total, read>>

Body(n, more) == [type |-> "http.request", body |-> n, more_body |-> more]
Disconnect == [type |-> "http.disconnect", body |-> 0, more_body |-> FALSE]
Messages == {Body(n, more) : n \in ChunkSizes \cup {0}, more \in BOOLEAN} \cup {Disconnect}

\* How many bytes there are, each at its place in its message.
Bytes(messages) ==
    Cardinality(UNION {{i} \X (1..messages[i].body) : i \in DOMAIN messages})
Complete(messages) == messages # <<>> /\ ~Last(messages).more_body

RequestInit ==
    /\ declared = <<>> /\ gone = FALSE /\ pc = "none"
    /\ sent = <<>> /\ buffered = <<>> /\ total = 0 /\ read = <<>>

\* A request reaches the middleware.
Arrive ==
    /\ pc = "none"
    /\ declared' \in {<<>>} \cup {<<n>> : n \in {MaxBytes, MaxBytes + 1}}
    /\ pc' = "call"
    /\ UNCHANGED <<gone, sent, buffered, total, read>>

\* The server returns m from receive(): the next part of the body, nothing
\* between the end of the body and the disconnect, the disconnect ever after.
Receive(m) ==
    /\ \/ gone /\ m = Disconnect
       \/ /\ ~gone /\ ~Complete(sent)
          /\ \E n \in ChunkSizes, more \in BOOLEAN :
               m = Body(n, more) /\ (Len(sent) + 1 >= MaxMessages => ~more)
    /\ sent' = Append(sent, m)

\* The client closes the connection.
ClientLeaves ==
    /\ pc \in {"call", "buffering", "app"} /\ ~gone
    /\ gone' = TRUE
    /\ UNCHANGED <<declared, pc, sent, buffered, total, read>>

\* The header is looked up and compared before anything is read.
CheckDeclared ==
    /\ pc = "call"
    /\ pc' = IF \E i \in DOMAIN declared : declared[i] > MaxBytes
               THEN "rejected" ELSE "buffering"
    /\ UNCHANGED <<declared, gone, sent, buffered, total, read>>

\* Mutant: a disconnect is not buffered.
BufferMessageForgetsDisconnect ==
    /\ pc = "buffering"
    /\ \E m \in Messages :
         /\ Receive(m)
         /\ buffered' = IF m = Disconnect THEN buffered ELSE Append(buffered, m)
         /\ total' = total + m.body
         /\ pc' = CASE m = Disconnect -> "app"
                    [] m # Disconnect /\ total' > MaxBytes -> "rejected"
                    [] OTHER -> IF m.more_body THEN "buffering" ELSE "app"
    /\ UNCHANGED <<declared, gone, read>>

\* Mutant: the limit is checked when the body is complete.
BufferMessageChecksAtTheEnd ==
    /\ pc = "buffering"
    /\ \E m \in Messages :
         /\ Receive(m)
         /\ buffered' = Append(buffered, m)
         /\ total' = total + m.body
         /\ pc' = CASE m = Disconnect -> "app"
                    [] m.more_body -> "buffering"
                    [] OTHER -> IF total' > MaxBytes THEN "rejected" ELSE "app"
    /\ UNCHANGED <<declared, gone, read>>

\* One turn of the loop of __call__, up to the call of the application.
BufferMessage ==
    /\ pc = "buffering"
    /\ \E m \in Messages :
         /\ Receive(m)
         /\ buffered' = Append(buffered, m)
         /\ total' = total + m.body
         /\ pc' = CASE m = Disconnect -> "app"
                    [] m # Disconnect /\ total' > MaxBytes -> "rejected"
                    [] OTHER -> IF m.more_body THEN "buffering" ELSE "app"
    /\ UNCHANGED <<declared, gone, read>>

\* The receive() of the runtime's _replay, which takes no downstream.
RuntimeReplay ==
    /\ read' = Append(read, IF Len(read) < Len(buffered)
                              THEN buffered[Len(read) + 1] ELSE Body(0, FALSE))
    /\ UNCHANGED sent

\* The receive() of the control API's _replay.
ApiReplay ==
    IF Len(read) < Len(buffered)
      THEN read' = Append(read, buffered[Len(read) + 1]) /\ UNCHANGED sent
      ELSE \E m \in Messages : Receive(m) /\ read' = Append(read, m)

\* The application reads, until it has seen the client disconnect.  It may read
\* on after the end of the body, as a listener for the disconnect does.
AppReceive ==
    /\ pc = "app"
    /\ read # <<>> => Last(read) # Disconnect
    /\ Len(read) < Len(buffered) + MaxSpins
    /\ \/ service = "api" /\ ApiReplay
       \/ service = "runtime" /\ RuntimeReplay
    /\ UNCHANGED <<declared, gone, pc, buffered, total>>

\* The messages up to the first that ends the body or the connection.
UpToEnd(messages) ==
    LET ends == {i \in DOMAIN messages : ~messages[i].more_body}
    IN  IF ends = {} THEN messages
        ELSE SubSeq(messages, 1, CHOOSE i \in ends : \A j \in ends : i <= j)

\* The application reads the body the client sent, in order and to its end: a
\* body cut short by a disconnect never looks complete (both _replay functions).
AppReadsTheBody == IsPrefix(UpToEnd(read), sent)

\* __call__ holds one message more than the limit at most, calls the application
\* only with a body within the limit, and answers 413 only to a larger one.
MemoryIsBounded ==
    /\ Bytes(buffered) <= MaxBytes + Max(ChunkSizes)
    /\ pc = "app" => Bytes(buffered) <= MaxBytes
    /\ pc = "rejected" =>
         Bytes(sent) > MaxBytes \/ (declared # <<>> /\ declared[1] > MaxBytes)

\* "Body is consumed; later calls must wait for the real disconnect, not spin."
\* An application of the control API that listens learns that its client left.
DisconnectIsSeen ==
    service = "api" /\ gone /\ pc \in {"call", "buffering", "app"}
      ~> pc \in {"rejected", "done", "cancelled"} \/ (read # <<>> /\ Last(read) = Disconnect)
=============================================================================

------------------------------ MODULE JsonRpc ------------------------------
(***************************************************************************)
(* The JSON-RPC server, with a thread per connection, and its clients,     *)
(* which call and notify over a stream that recv may cut anywhere.         *)
(*                                                                         *)
(* A message is a number of pieces, the first of which opens its bracket   *)
(* and the last of which closes it.  recv(16) returns at most Chunk of     *)
(* them, and a message has more, as no message is that short.  Brackets in *)
(* quotes are not counted by the code and so are no pieces of their own.   *)
(***************************************************************************)
EXTENDS Integers, Sequences, FiniteSets

CONSTANTS
    Clients,        \* one connection each
    Plans,          \* the kinds of requests each client may send
    Pieces,         \* pieces of a message
    Chunk,          \* pieces that recv(16) returns at most
    MaxRequests     \* bound on the requests of each client

\* A call that is answered, with a value or with an error; a call of a method that
\* returns None; a notification of a method that exists or not.
Kinds == {"answered", "none", "notify", "badnotify"}
Calls == {"answered", "none"}

ASSUME PlansAssumption == Plans \in [Clients -> SUBSET Kinds]
ASSUME SizesAssumption == Chunk \in Nat /\ Pieces \in Nat /\ 1 < Chunk /\ Chunk < Pieces
ASSUME BoundAssumption == MaxRequests \in [Clients -> Nat]

VARIABLES
    sent,       \* the kinds of the requests each client sent
    up, down,   \* the pieces on the way to the server and to the client
    leftover,   \* self.new_message of the server, one for all threads
    sFull, sDepth, sPc,     \* full_msg and bracket_count of each thread, where it is
    rest,       \* self.new_message of each client
    cFull, cDepth, cPc,     \* the same in receiveMessage
    shut,       \* how the server closed each connection, or "no"
    left,       \* the clients that closed theirs
    served,     \* the requests handled on each connection (for the properties)
    answers,    \* what each call got (for the properties)
    slow,       \* the connections on which somebody's recv timed out
    late,       \* those on which the client's did
    piped       \* whether a thread ever read beyond the end of a request

server == <<leftover, sFull, sDepth, sPc>>
client == <<rest, cFull, cDepth, cPc>>
history == <<served, answers, slow, late, piped>>
vars == <<sent, up, down, server, client, shut, left, history>>

\* Requests and responses.  A parse error answers request 0: its id is None.
Request(c, n) == [from |-> c, n |-> n]
Response(n) == [to |-> n]
InPieces(m) == [i \in 1 .. Pieces |-> [msg |-> m, part |-> i]]

\* What json.loads makes of a text: the one message it is, or nothing.
IsMessage(text) == Len(text) = Pieces /\ text = InPieces(text[1].msg)

Init ==
    /\ sent = [c \in Clients |-> <<>>]
    /\ up = [c \in Clients |-> <<>>]
    /\ down = [c \in Clients |-> <<>>]
    /\ leftover = <<>>
    /\ sFull = [c \in Clients |-> <<>>]
    /\ sDepth = [c \in Clients |-> 0]
    /\ sPc = [c \in Clients |-> "start"]
    /\ rest = [c \in Clients |-> <<>>]
    /\ cFull = [c \in Clients |-> <<>>]
    /\ cDepth = [c \in Clients |-> 0]
    /\ cPc = [c \in Clients |-> "idle"]
    /\ shut = [c \in Clients |-> "no"]
    /\ left = {}
    /\ served = [c \in Clients |-> <<>>]
    /\ answers = [c \in Clients |-> <<>>]
    /\ slow = {}
    /\ late = {}
    /\ piped = FALSE

-----------------------------------------------------------------------------
\* The loop over the characters of a chunk, which server and client share

\* bracket_count after the first i pieces of a chunk.
Depth(chunk, depth, i) ==
    depth + Cardinality({j \in 1 .. i : chunk[j].part = 1})
          - Cardinality({j \in 1 .. i : chunk[j].part = Pieces})

\* Where the loop stops: brackets balance, or the chunk is over.
Cut(chunk, depth) ==
    LET balanced == {i \in 1 .. Len(chunk) : Depth(chunk, depth, i) = 0}
    IN IF balanced = {} THEN Len(chunk)
       ELSE CHOOSE i \in balanced : \A j \in balanced : i <= j

Chunks(stream) ==
    {SubSeq(stream, 1, i) : i \in 1 .. (IF Len(stream) < Chunk THEN Len(stream) ELSE Chunk)}

Behind(s, i) == SubSeq(s, i + 1, Len(s))

-----------------------------------------------------------------------------
\* handle_client and handle_request

Start(c) ==
    /\ sPc[c] = "start"
    /\ sFull' = [sFull EXCEPT ![c] = leftover]
    /\ sDepth' = [sDepth EXCEPT ![c] = 0]
    /\ sPc' = [sPc EXCEPT ![c] = "recv"]
    /\ UNCHANGED <<sent, up, down, leftover, client, shut, left, history>>

\* (mutant: an incomplete request waits in self.new_message)
ServerRecv_Shared(c) ==
    /\ sPc[c] = "recv"
    /\ \E chunk \in Chunks(up[c]) :
          LET cut == Cut(chunk, sDepth[c])
              behind == Behind(chunk, cut)
              depth == Depth(chunk, sDepth[c], cut)
              text == sFull[c] \o SubSeq(chunk, 1, cut)
          IN /\ up' = [up EXCEPT ![c] = Behind(@, Len(chunk))]
             /\ sFull' = [sFull EXCEPT ![c] = text]
             /\ sDepth' = [sDepth EXCEPT ![c] = depth]
             /\ leftover' = IF behind = <<>> /\ depth # 0 THEN text ELSE behind
             /\ piped' = (piped \/ behind # <<>>)
             /\ sPc' = [sPc EXCEPT ![c] =
                           IF behind # <<>> \/ depth = 0 THEN "handle" ELSE "recv"]
    /\ UNCHANGED <<sent, down, client, shut, left, served, answers, slow, late>>

\* What is behind the request goes to self.new_message, which is cleared otherwise.
ServerRecv(c) ==
    /\ sPc[c] = "recv"
    /\ \E chunk \in Chunks(up[c]) :
          LET cut == Cut(chunk, sDepth[c])
              behind == Behind(chunk, cut)
              depth == Depth(chunk, sDepth[c], cut)
          IN /\ up' = [up EXCEPT ![c] = Behind(@, Len(chunk))]
             /\ sFull' = [sFull EXCEPT ![c] = @ \o SubSeq(chunk, 1, cut)]
             /\ sDepth' = [sDepth EXCEPT ![c] = depth]
             /\ leftover' = behind
             /\ piped' = (piped \/ behind # <<>>)
             /\ sPc' = [sPc EXCEPT ![c] =
                           IF behind # <<>> \/ depth = 0 THEN "handle" ELSE "recv"]
    /\ UNCHANGED <<sent, down, client, shut, left, served, answers, slow, late>>

\* (mutant: the thread waits on)
ServerTimeout_Waits(c) ==
    /\ sPc[c] = "recv"
    /\ up[c] = <<>>
    /\ c \notin left
    /\ slow' = slow \cup {c}
    /\ UNCHANGED <<sent, up, down, server, client, shut, left, served, answers, late, piped>>

\* Nothing came for a second: the loop ends with what there is.
ServerTimeout(c) ==
    /\ sPc[c] = "recv"
    /\ up[c] = <<>>
    /\ c \notin left
    /\ sPc' = [sPc EXCEPT ![c] = "handle"]
    /\ slow' = slow \cup {c}
    /\ UNCHANGED <<sent, up, down, leftover, sFull, sDepth, client, shut, left,
                   served, answers, late, piped>>

\* The client has closed: recv returns no bytes, again and again unless a leftover
\* is taken for a request.
ServerEof(c) ==
    /\ sPc[c] = "recv"
    /\ up[c] = <<>>
    /\ c \in left
    /\ down[c] = <<>>
    /\ leftover' = <<>>
    /\ IF sDepth[c] = 0 /\ sFull[c] # <<>>
       THEN sPc' = [sPc EXCEPT ![c] = "handle"]
       ELSE UNCHANGED sPc
    /\ UNCHANGED <<sent, up, down, sFull, sDepth, client, shut, left, history>>

\* The socket is closed; the client gets an end of file, or a reset when something it
\* sent was not read.  The thread ends, for a closed socket takes no timeout.
Shut(c) ==
    /\ shut' = [shut EXCEPT ![c] = IF up[c] = <<>> THEN "fin" ELSE "reset"]
    /\ up' = [up EXCEPT ![c] = <<>>]
    /\ sPc' = [sPc EXCEPT ![c] = "ended"]

\* The client has closed before it read all: recv, or a later one, raises an exception.
ServerReset(c) ==
    /\ sPc[c] = "recv"
    /\ c \in left
    /\ down[c] # <<>>
    /\ Shut(c)
    /\ sFull' = [sFull EXCEPT ![c] = <<>>]
    /\ UNCHANGED <<sent, down, leftover, sDepth, client, left, history>>

Send(c, response) == down' = [down EXCEPT ![c] = @ \o InPieces(response)]

\* (mutant: the connection is closed without an answer)
ParseError_Silent(c) ==
    /\ sPc[c] = "handle"
    /\ ~IsMessage(sFull[c])
    /\ Shut(c)
    /\ sFull' = [sFull EXCEPT ![c] = <<>>]
    /\ UNCHANGED <<sent, down, leftover, sDepth, client, left, history>>

ParseError(c) ==
    /\ sPc[c] = "handle"
    /\ ~IsMessage(sFull[c])
    /\ Send(c, Response(0))
    /\ Shut(c)
    /\ sFull' = [sFull EXCEPT ![c] = <<>>]
    /\ UNCHANGED <<sent, leftover, sDepth, client, left, history>>

\* (mutant: notifications are answered too)
Handled_Always(c, m) ==
    LET kind == sent[m.from][m.n] IN
    /\ served' = [served EXCEPT ![c] = Append(@, m)]
    /\ IF kind = "badnotify"
       THEN Shut(c) /\ UNCHANGED down
       ELSE /\ IF kind \in {"answered", "notify"}
               THEN Send(c, Response(m.n))
               ELSE UNCHANGED down
            /\ sPc' = [sPc EXCEPT ![c] = "start"]
            /\ UNCHANGED <<up, shut>>

\* handle_request, up to what makes a difference to the client.
Handled(c, m) ==
    LET kind == sent[m.from][m.n] IN
    /\ served' = [served EXCEPT ![c] = Append(@, m)]
    /\ IF kind = "badnotify"     \* KeyError: there is no id to answer to
       THEN Shut(c) /\ UNCHANGED down
       ELSE /\ IF kind = "answered"
               THEN Send(c, Response(m.n))
               ELSE UNCHANGED down
            /\ sPc' = [sPc EXCEPT ![c] = "start"]
            /\ UNCHANGED <<up, shut>>

HandleRequest(c) ==
    /\ sPc[c] = "handle"
    /\ IsMessage(sFull[c])
    /\ Handled(c, sFull[c][1].msg)
    /\ sFull' = [sFull EXCEPT ![c] = <<>>]
    /\ UNCHANGED <<sent, leftover, sDepth, client, left, answers, slow, late, piped>>

-----------------------------------------------------------------------------
\* The client

\* A method of the client, up to sendall.  What is sent to a socket that the server
\* has closed is lost; a reset makes sendall fail.
ClientSend(c, kind) ==
    /\ cPc[c] = "idle"
    /\ c \notin left
    /\ Len(sent[c]) < MaxRequests[c]
    /\ sent' = [sent EXCEPT ![c] = Append(@, kind)]
    /\ up' = [up EXCEPT ![c] =
                 IF shut[c] = "no" THEN @ \o InPieces(Request(c, Len(sent[c]) + 1)) ELSE @]
    /\ IF shut[c] = "reset"
       THEN cPc' = [cPc EXCEPT ![c] = "failed"] /\ UNCHANGED <<cFull, cDepth>>
       ELSE IF kind \in Calls
       THEN /\ cPc' = [cPc EXCEPT ![c] = "recv"]
            /\ cFull' = [cFull EXCEPT ![c] = rest[c]]
            /\ cDepth' = [cDepth EXCEPT ![c] = 0]
       ELSE UNCHANGED <<cPc, cFull, cDepth>>
    /\ UNCHANGED <<down, rest, server, shut, left, history>>

\* The call returns what it was given, or raises an exception about it.
Return(c, text) ==
    /\ answers' = [answers EXCEPT ![c] =
          Append(@, [call |-> Len(sent[c]),
                     to |-> IF IsMessage(text) THEN text[1].msg.to ELSE -1])]
    /\ cPc' = [cPc EXCEPT ![c] = "idle"]

ClientRecv(c) ==
    /\ cPc[c] = "recv"
    /\ \E chunk \in Chunks(down[c]) :
          LET cut == Cut(chunk, cDepth[c])
              behind == Behind(chunk, cut)
              depth == Depth(chunk, cDepth[c], cut)
              text == cFull[c] \o SubSeq(chunk, 1, cut)
          IN /\ down' = [down EXCEPT ![c] = Behind(@, Len(chunk))]
             /\ rest' = [rest EXCEPT ![c] = behind]
             /\ IF behind # <<>> \/ depth = 0
                THEN /\ Return(c, text)
                     /\ cFull' = [cFull EXCEPT ![c] = <<>>]
                     /\ cDepth' = [cDepth EXCEPT ![c] = 0]
                ELSE /\ cFull' = [cFull EXCEPT ![c] = text]
                     /\ cDepth' = [cDepth EXCEPT ![c] = depth]
                     /\ UNCHANGED <<answers, cPc>>
    /\ UNCHANGED <<sent, up, server, shut, left, served, slow, late, piped>>

\* (mutant: the request is sent again)
ClientTimeout_Retry(c) ==
    /\ cPc[c] = "recv"
    /\ down[c] = <<>>
    /\ shut[c] = "no"
    /\ up' = [up EXCEPT ![c] = @ \o InPieces(Request(c, Len(sent[c])))]
    /\ slow' = slow \cup {c}
    /\ late' = late \cup {c}
    /\ UNCHANGED <<sent, down, client, server, shut, left, served, answers, piped>>

ClientTimeout(c) ==
    /\ cPc[c] = "recv"
    /\ down[c] = <<>>
    /\ shut[c] = "no"
    /\ Return(c, cFull[c])
    /\ cFull' = [cFull EXCEPT ![c] = <<>>]
    /\ cDepth' = [cDepth EXCEPT ![c] = 0]
    /\ slow' = slow \cup {c}
    /\ late' = late \cup {c}
    /\ UNCHANGED <<sent, up, down, rest, server, shut, left, served, piped>>

\* After an end of file recv returns no bytes, again and again unless a leftover is
\* taken for a response; after a reset it raises an exception.
ClientEof(c) ==
    /\ cPc[c] = "recv"
    /\ down[c] = <<>>
    /\ \/ /\ shut[c] = "fin"
          /\ IF cDepth[c] = 0 /\ cFull[c] # <<>>
             THEN Return(c, cFull[c]) /\ rest' = [rest EXCEPT ![c] = <<>>]
             ELSE UNCHANGED <<answers, cPc>> /\ rest' = [rest EXCEPT ![c] = <<>>]
       \/ /\ shut[c] = "reset"
          /\ cPc' = [cPc EXCEPT ![c] = "failed"]
          /\ UNCHANGED <<answers, rest>>
    /\ UNCHANGED <<sent, up, down, server, cFull, cDepth, shut, left, served, slow, late, piped>>

\* Client.close.
ClientClose(c) ==
    /\ cPc[c] \in {"idle", "failed"}
    /\ c \notin left
    /\ left' = left \cup {c}
    /\ UNCHANGED <<sent, up, down, server, client, shut, history>>

-----------------------------------------------------------------------------
Thread(c) ==
    \/ Start(c) \/ ServerRecv(c) \/ ServerEof(c) \/ ServerReset(c)
    \/ ParseError(c) \/ HandleRequest(c)

Receive(c) == ClientRecv(c) \/ ClientEof(c)

Next ==
    \E c \in Clients :
        \/ Thread(c) \/ ServerTimeout(c)
        \/ \E kind \in Plans[c] : ClientSend(c, kind)
        \/ Receive(c) \/ ClientTimeout(c)
        \/ ClientClose(c)

Spec == Init /\ [][Next]_vars

Fairness ==
    \A c \in Clients :
        /\ WF_vars(Thread(c)) /\ WF_vars(ServerTimeout(c))
        /\ WF_vars(Receive(c)) /\ WF_vars(ClientTimeout(c))

FairSpec == Spec /\ Fairness

-----------------------------------------------------------------------------
\* Properties

Messages ==
    UNION {[from : {c}, n : 1 .. MaxRequests[c]] \cup [to : 0 .. MaxRequests[c]] : c \in Clients}
Texts == Seq([msg : Messages, part : 1 .. Pieces])

\* Types, and that nobody answers beyond what was asked.
TypeOK ==
    /\ \A c \in Clients :
          /\ sent[c] \in Seq(Plans[c]) /\ Len(sent[c]) <= MaxRequests[c]
          /\ {up[c], down[c], sFull[c], rest[c], cFull[c]} \subseteq Texts
          /\ sDepth[c] \in -1 .. 1 /\ cDepth[c] \in -1 .. 1
          /\ sPc[c] \in {"start", "recv", "handle", "ended"}
          /\ cPc[c] \in {"idle", "recv", "failed"}
          /\ shut[c] \in {"no", "fin", "reset"}
          /\ (sPc[c] = "ended") <=> (shut[c] # "no")
          /\ Len(answers[c]) <= Len(sent[c])
    /\ leftover \in Texts
    /\ left \subseteq Clients /\ late \subseteq slow /\ slow \subseteq Clients
    /\ piped \in BOOLEAN

\* Each connection's requests are handled in the order they were sent, each at most
\* once, wherever the stream is cut and whatever other threads leave in
\* self.new_message: no request is put together from pieces of two connections.
ServedInOrder ==
    \A c \in Clients : \A i \in 1 .. Len(served[c]) :
        /\ served[c][i].from = c
        /\ i > 1 => served[c][i - 1].n < served[c][i].n

\* The streams have their types, and requests come out of them whole.
StreamsOK == TypeOK /\ ServedInOrder

\* Ids are not compared, and still a call gets the answer to itself or a parse error,
\* until a call has timed out: then its late answer goes to the next one.
AnswerBelongs ==
    \A c \in Clients \ late : \A i \in 1 .. Len(answers[c]) :
        answers[c][i].to \in {answers[c][i].call, 0, -1}

\* While no thread reads beyond the end of a request, the connections are
\* independent: a client that is neither slow nor answered slowly gets the answer to
\* each of its calls, though others are silent, close, or are cut off.
Independent ==
    ~piped => \A c \in Clients \ slow : \A i \in 1 .. Len(answers[c]) :
                  answers[c][i].to = answers[c][i].call

\* A call goes wrong once it gets nothing or what is no answer to it.
Wrong(c) == \E i \in 1 .. Len(answers[c]) : answers[c][i].to # answers[c][i].call

\* Every call returns or raises, with one exception: the connection was closed and what
\* told the client so went to an earlier call, or nothing did, for a notification of an
\* unknown method closed it.  Then the call reads the end of file for ever.
CallsReturn ==
    \A c \in Clients :
        cPc[c] = "recv" ~>
            \/ cPc[c] # "recv"
            \/ shut[c] = "fin" /\ (Wrong(c) \/ \E i \in 1 .. Len(sent[c]) : sent[c][i] = "badnotify")

\* The thread of a client that is silent ends, unless it is because the client has
\* closed: then it reads the end of file for ever.
SilentThreadEnds == \A c \in Clients : <>(sPc[c] = "ended" \/ c \in left)

\* "result = connS1.HolaMundo(notify=True)" and then "result = connS1.echo_repeat(value,
\* 2); assert result == value + value" (redes2024_ob2/dist/client_test.py:20-26).
\* Violated: the thread reads beyond the end of the notification into the call, keeps
\* that piece and does not count its bracket.
CallAfterNotify ==
    \A c \in Clients \ slow : \A i \in 1 .. Len(answers[c]) :
        answers[c][i].to = answers[c][i].call

=============================================================================

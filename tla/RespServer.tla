----------------------------- MODULE RespServer -----------------------------
(***************************************************************************)
(* The server process and its clients: the accept loop (main.cpp), the     *)
(* connection (resp_connection), the reader of the protocol                *)
(* (resp_deserializer), the command handlers (RespApi) and, on the other   *)
(* end, clients that queue commands and then fetch the answers, as         *)
(* redis_client does with hiredis.                                         *)
(*                                                                         *)
(* The server is one thread.  It serves one connection until that ends,    *)
(* reads a value piece by piece, blocking where the stream has no more,    *)
(* runs the handler and writes the answer, blocking again if the socket is *)
(* full.  A piece is what one readByte/readInteger pair yields: the head   *)
(* of an array, a string or another scalar, or something that is no value. *)
(* Clients may disappear at any moment.                                    *)
(***************************************************************************)
EXTENDS RespApi

CONSTANTS Conn,         \* connections; each is used once
          Batches,      \* what a client queues before it fetches answers: sequences of messages
          UpCap,        \* pieces that fit between a client's write and the server's read
          DownCap,      \* answers that fit between the server's write and a client's read
          MaxBatches,   \* batches of a connection
          MaxBatch,     \* messages of a batch
          NoConn

VARIABLES srv,          \* what the server is doing: "accept", "read", "write", "down"
          conn,         \* the connection it serves
          open,         \* arrays being read: how many values each still lacks, innermost last
          got,          \* values of the command read so far
          writeBuf,     \* answer that is to be written
          backlog,      \* connections that wait for accept
          up, down,     \* pieces and answers under way, per connection
          phase,        \* the client's end: "new", "queue", "flush", "fetch", "closed"
          obuf,         \* pieces queued in the client
          sent,         \* history: messages queued
          done,         \* history: commands executed, with their answers
          received      \* history: answers fetched

server == <<srv, conn, open, got, writeBuf>>
client == <<phase, obuf, sent, received>>
serverVars == <<apiVars, server, backlog, up, down, client, done>>

(***************************************************************************)
(* Messages: the pieces that go over the wire, the command the client      *)
(* means, and whether it is one that a handler answers.                    *)
(***************************************************************************)
Opening(n) == [piece |-> "array", n |-> n]          \* "*n"
Word(w)   == [piece |-> "word", word |-> w]         \* a bulk string that names a command
Scalar(v) == [piece |-> "scalar", val |-> v]
Garbage   == [piece |-> "garbage"]                  \* no type byte of the protocol, a bad length, ...

Msg(pieces, c, ok) == [pieces |-> pieces, cmd |-> c, ok |-> ok]

Message(c) ==
    Msg(<<Opening(Len(c.args) + 1), Word(c.name)>> \o [i \in DOMAIN c.args |-> Scalar(c.args[i])],
        c, TRUE)

Pieces(msgs) == FlattenSeq([i \in DOMAIN msgs |-> msgs[i].pieces])

(* The command that the values read stand for: without a name it has none  *)
(* ("wrong number of arguments").  An array among the arguments is read to *)
(* its end; no handler looks into it.                                      *)
CommandOf(vals) ==
    IF vals # << >> /\ vals[1].piece = "word"
    THEN Command(vals[1].word, [i \in 1 .. (Len(vals) - 1) |-> vals[i + 1].val])
    ELSE Command("none", << >>)

(***************************************************************************)
(* What a client may send.  The reader, on a message alone: how many of    *)
(* its pieces it has taken, the arrays it is in, innermost last, each with *)
(* the number of values it still lacks, and the values it has kept.        *)
(***************************************************************************)
IsSeq(s) == s \in Seq(Range(s))

LacksOneLess(stack) == [stack EXCEPT ![Len(stack)] = @ - 1]

Unreadable(p, stack) == p.piece = "garbage" \/ (p.piece \in {"word", "scalar"} /\ stack = << >>)

AtEnd(stack) == stack # << >> /\ stack[Len(stack)] = 0     \* of the innermost array

(* The step it takes next, if there is one.                                *)
ReadOn(m, r) ==
    LET p == m.pieces[r.taken + 1]
    IN  CASE AtEnd(r.open) /\ Len(r.open) > 1 ->
                 [taken |-> r.taken,
                  open  |-> LacksOneLess(Front(r.open)),
                  got   |-> IF Len(r.open) = 2 THEN Append(r.got, Scalar(Array(<< >>))) ELSE r.got]
          [] ~AtEnd(r.open) /\ r.taken < Len(m.pieces) /\ p.piece = "array" ->
                 [taken |-> r.taken + 1, open |-> Append(r.open, p.n), got |-> r.got]
          [] /\ ~AtEnd(r.open) /\ r.taken < Len(m.pieces)
             /\ p.piece \in {"word", "scalar"} /\ r.open # << >> ->
                 [taken |-> r.taken + 1,
                  open  |-> LacksOneLess(r.open),
                  got   |-> IF Len(r.open) = 1 THEN Append(r.got, p) ELSE r.got]
          [] OTHER -> r

(* Every piece is taken in one step and every array ended in one.          *)
Reads(m) ==
    LET after[i \in 0 .. 2 * Len(m.pieces)] ==
            IF i = 0 THEN [taken |-> 0, open |-> << >>, got |-> << >>] ELSE ReadOn(m, after[i - 1])
    IN  after

(* The whole message is one command, the one that the client means.        *)
Complete(m, r) == r.taken = Len(m.pieces) /\ r.open = <<0>> /\ CommandOf(r.got) = m.cmd

(* There is no reading on.                                                 *)
Refused(m, r) ==
    r.taken < Len(m.pieces) /\ ~AtEnd(r.open) /\ Unreadable(m.pieces[r.taken + 1], r.open)

(* Commands whose handlers find all the strings that they dereference,     *)
(* whatever the tree holds.                                                *)
Answerable(c) ==
    /\ c.name = "mget" => c.args = << >>
    /\ c.name = "mset" => \A j \in Pairs(c.args) : IsString(c.args[2 * j - 1]) /\ IsString(c.args[2 * j])
    /\ c.name = "zadd" => \A i \in 2 .. Len(c.args) : IsString(c.args[i])

Sendable(m) ==
    /\ IsSeq(m.pieces)
    /\ \A i \in DOMAIN m.pieces : m.pieces[i].piece = "array" => m.pieces[i].n \in Nat
    /\ LET end == Reads(m)[2 * Len(m.pieces)] IN Complete(m, end) \/ (Refused(m, end) /\ ~m.ok)
    /\ m.ok => Answerable(m.cmd)

ASSUME RespServerAssumption ==
    /\ NoConn \notin Conn
    /\ \A batch \in Batches :
          /\ IsSeq(batch) /\ Len(batch) \in 1 .. MaxBatch
          /\ \A i \in DOMAIN batch : Sendable(batch[i])
    /\ UpCap \in Nat \ {0} /\ DownCap \in Nat \ {0}

-----------------------------------------------------------------------------
ServerInit ==
    /\ ApiInit
    /\ srv = "accept" /\ conn = NoConn
    /\ open = << >> /\ got = << >> /\ writeBuf = << >>
    /\ backlog = << >>
    /\ up = [c \in Conn |-> << >>] /\ down = [c \in Conn |-> << >>]
    /\ phase = [c \in Conn |-> "new"]
    /\ obuf = [c \in Conn |-> << >>]
    /\ sent = [c \in Conn |-> << >>]
    /\ done = [c \in Conn |-> << >>]
    /\ received = [c \in Conn |-> << >>]

(***************************************************************************)
(* The accept loop and the connection.                                     *)
(***************************************************************************)
(* mutant: the buffers outlive the connection.                             *)
FreshBuffersMut == UNCHANGED <<open, got, writeBuf>>

(* A resp_connection starts with empty buffers.                            *)
FreshBuffers == open' = << >> /\ got' = << >> /\ writeBuf' = << >>

Accept ==
    /\ srv = "accept"
    /\ backlog # << >>
    /\ conn' = Head(backlog)
    /\ backlog' = Tail(backlog)
    /\ srv' = "read"
    /\ FreshBuffers
    /\ UNCHANGED <<apiVars, up, down, client, done>>

(* mutant: run goes on with the connection.                                *)
DisconnectMut ==
    /\ srv' = "read"
    /\ UNCHANGED <<conn, open, got, writeBuf>>

(* connection_closed ends run, and main accepts the next connection.       *)
Disconnect ==
    /\ srv' = "accept"
    /\ conn' = NoConn
    /\ UNCHANGED <<open, got, writeBuf>>

(* Any other exception leaves main.                                        *)
Terminate ==
    /\ srv' = "down"
    /\ alive' = FALSE
    /\ UNCHANGED <<map, last, conn, open, got, writeBuf, backlog, down, client, done>>

Piece     == Head(up[conn])
ConsumeUp == up' = [up EXCEPT ![conn] = Tail(@)]
Reading   == srv = "read" /\ ~AtEnd(open)

(* Values of the command itself are kept; those of inner arrays are not.   *)
Keep(v) == IF Len(open) = 1 THEN Append(got, v) ELSE got

ReadHead ==
    /\ Reading /\ up[conn] # << >> /\ Piece.piece = "array"
    /\ ConsumeUp
    /\ open' = Append(open, Piece.n)
    /\ UNCHANGED <<apiVars, srv, conn, got, writeBuf, backlog, down, client, done>>

ReadScalar ==
    /\ Reading /\ up[conn] # << >> /\ Piece.piece \in {"word", "scalar"} /\ open # << >>
    /\ ConsumeUp
    /\ got' = Keep(Piece)
    /\ open' = LacksOneLess(open)
    /\ UNCHANGED <<apiVars, srv, conn, writeBuf, backlog, down, client, done>>

(* readArray returns to the readArray that called it.                      *)
EndInner ==
    /\ srv = "read" /\ AtEnd(open) /\ Len(open) > 1
    /\ open' = LacksOneLess(Front(open))
    /\ got' = IF Len(open) = 2 THEN Append(got, Scalar(Array(<< >>))) ELSE got
    /\ UNCHANGED <<apiVars, srv, conn, writeBuf, backlog, up, down, client, done>>

(* "Unknown value type", "Unexpected byte ...", "Expected an array ...".   *)
ReadFails ==
    /\ Reading /\ up[conn] # << >>
    /\ Unreadable(Piece, open)
    /\ ConsumeUp
    /\ Terminate

(* The stream ends; what was read of a command is dropped.                 *)
ReadEof ==
    /\ Reading /\ up[conn] = << >> /\ phase[conn] = "closed"
    /\ Disconnect
    /\ UNCHANGED <<apiVars, backlog, up, down, client, done>>

(* mutant: the values of the command are not dropped.                      *)
ExecutedMut == UNCHANGED <<open, got>>

(* The next readCommand starts with an empty value.                        *)
Executed == open' = << >> /\ got' = << >>

Execute ==
    /\ srv = "read" /\ open = <<0>>
    /\ ProcessCommand(CommandOf(got))
    /\ srv' = IF alive' THEN "write" ELSE "down"
    /\ writeBuf' = IF alive' THEN <<last'.reply>> ELSE << >>
    /\ done' = [done EXCEPT ![conn] = Append(@, [cmd |-> last'.cmd, reply |-> last'.reply])]
    /\ Executed
    /\ UNCHANGED <<conn, backlog, up, down, client>>

(* mutant: the answer stays in the buffer while the client's end is busy.  *)
FlushMut ==
    /\ srv = "write" /\ phase[conn] # "closed" /\ Len(down[conn]) < DownCap
    /\ srv' = "read"
    /\ writeBuf' = << >>
    /\ down' = IF phase[conn] = "flush" THEN down ELSE [down EXCEPT ![conn] = @ \o writeBuf]
    /\ UNCHANGED <<apiVars, conn, open, got, backlog, up, client, done>>

Flush ==
    /\ srv = "write" /\ phase[conn] # "closed" /\ Len(down[conn]) < DownCap
    /\ srv' = "read"
    /\ writeBuf' = << >>
    /\ down' = [down EXCEPT ![conn] = @ \o writeBuf]
    /\ UNCHANGED <<apiVars, conn, open, got, backlog, up, client, done>>

(* mutant: only an end of file is taken for a closed connection.           *)
FlushFailsMut ==
    /\ srv = "write" /\ phase[conn] = "closed"
    /\ Terminate
    /\ UNCHANGED up

(* The client is gone.  The write may still succeed, into the void.        *)
FlushFails ==
    /\ srv = "write" /\ phase[conn] = "closed"
    /\ \/ Disconnect
       \/ srv' = "read" /\ writeBuf' = << >> /\ UNCHANGED <<conn, open, got>>
    /\ UNCHANGED <<apiVars, backlog, up, down, client, done>>

(***************************************************************************)
(* Clients (redis_client over hiredis).  appendRun queues a command;       *)
(* getReply first writes all that is queued, blocking, and reads then.     *)
(* run is a batch of one.                                                  *)
(***************************************************************************)
Connect(c) ==
    /\ phase[c] = "new"
    /\ phase' = [phase EXCEPT ![c] = "queue"]
    /\ backlog' = Append(backlog, c)
    /\ UNCHANGED <<apiVars, server, up, down, obuf, sent, received, done>>

AppendRun(c, batch) ==
    /\ phase[c] = "queue"
    /\ Len(sent[c]) < MaxBatches
    /\ sent' = [sent EXCEPT ![c] = Append(@, batch)]
    /\ obuf' = [obuf EXCEPT ![c] = Pieces(batch)]
    /\ phase' = [phase EXCEPT ![c] = "flush"]
    /\ UNCHANGED <<apiVars, server, backlog, up, down, received, done>>

WritePiece(c) ==
    /\ phase[c] = "flush" /\ obuf[c] # << >> /\ Len(up[c]) < UpCap
    /\ up' = [up EXCEPT ![c] = Append(@, Head(obuf[c]))]
    /\ obuf' = [obuf EXCEPT ![c] = Tail(@)]
    /\ phase' = [phase EXCEPT ![c] = IF Len(obuf[c]) = 1 THEN "fetch" ELSE @]
    /\ UNCHANGED <<apiVars, server, backlog, down, sent, received, done>>

Queued(c) == FlattenSeq(sent[c])

GetReply(c) ==
    /\ phase[c] = "fetch" /\ down[c] # << >>
    /\ received' = [received EXCEPT ![c] = Append(@, Head(down[c]))]
    /\ down' = [down EXCEPT ![c] = Tail(@)]
    /\ phase' = [phase EXCEPT ![c] = IF Len(received[c]) + 1 = Len(Queued(c)) THEN "queue" ELSE @]
    /\ UNCHANGED <<apiVars, server, backlog, up, obuf, sent, done>>

(* redisFree, or the end of the client: what is under way may get lost.    *)
Close(c) ==
    /\ phase[c] \notin {"new", "closed"}
    /\ phase' = [phase EXCEPT ![c] = "closed"]
    /\ \E n \in 0 .. Len(up[c]) : up' = [up EXCEPT ![c] = SubSeq(@, 1, n)]
    /\ down' = [down EXCEPT ![c] = << >>]
    /\ obuf' = [obuf EXCEPT ![c] = << >>]
    /\ UNCHANGED <<apiVars, server, backlog, sent, received, done>>

-----------------------------------------------------------------------------
ServerStep ==
    \/ Accept
    \/ ReadHead \/ ReadScalar \/ EndInner \/ ReadFails \/ ReadEof
    \/ Execute
    \/ Flush \/ FlushFails

ClientStep(c) == WritePiece(c) \/ GetReply(c)

ServerNext ==
    \/ ServerStep
    \/ \E c \in Conn :
          \/ Connect(c) \/ ClientStep(c) \/ Close(c)
          \/ \E batch \in Batches : AppendRun(c, batch)

ServerSpec == ServerInit /\ [][ServerNext]_serverVars

(* The server's thread and the clients' run on; a client that has started  *)
(* a batch fetches its answers, and no client stays for ever: programs end.*)
ServerFairness ==
    /\ WF_serverVars(ServerStep)
    /\ \A c \in Conn : WF_serverVars(ClientStep(c))
    /\ \A c \in Conn : WF_serverVars(phase[c] = "queue" /\ Close(c))

FairServerSpec == ServerSpec /\ ServerFairness

-----------------------------------------------------------------------------
(***************************************************************************)
(* Properties.                                                             *)
(***************************************************************************)
Replies(c) == [i \in DOMAIN done[c] |-> done[c][i].reply]
Unwritten(c) == IF conn = c THEN writeBuf ELSE << >>

(* Commands are executed whole, in the order in which their client queued  *)
(* them, and never a part of one whose rest was lost; the answers come     *)
(* back in the same order, none missing and none doubled, whatever became  *)
(* of the connections before.                                              *)
AnswersInOrder ==
    \A c \in Conn :
        /\ Len(done[c]) <= Len(Queued(c))
        /\ \A i \in DOMAIN done[c] : done[c][i].cmd = Queued(c)[i].cmd
        /\ IsPrefix(received[c], Replies(c))
        /\ alive /\ phase[c] # "closed" => received[c] \o down[c] \o Unwritten(c) = Replies(c)

(* Increments of k that clients queued, and that they have an answer to.   *)
Increments(k) ==
    {x \in Conn \X (1 .. MaxBatches * MaxBatch) :
        /\ x[2] \in DOMAIN Queued(x[1])
        /\ Queued(x[1])[x[2]].cmd = Command("incr", <<Bulk(k)>>)}
Acknowledged(k) == {x \in Increments(k) : x[2] \in DOMAIN received[x[1]]}

(* However connections end, an increment takes effect at most once, and    *)
(* one that was acknowledged exactly once, with a number of its own: the   *)
(* counter lies between the increments acknowledged and those queued.      *)
(* A client that lost an answer cannot tell which.                         *)
IncrementsOnce ==
    \A k \in DOMAIN map :
        /\ \A n \in ParseIntStrict(map[k]) :
              n \in Cardinality(Acknowledged(k)) .. Cardinality(Increments(k))
        /\ \A x, y \in Acknowledged(k) :
              x # y => received[x[1]][x[2]] # received[y[1]][y[2]]

(* A client that goes away, at whatever moment, does not end the server:   *)
(* that takes something it cannot read, or a handler that crashes.         *)
ServerOutlivesClients ==
    srv = "down" => \E i \in DOMAIN Queued(conn) : ~Queued(conn)[i].ok

(* Every client that waits for accept is served in the end, if those       *)
(* before it end and none ends the server.                                 *)
EveryoneServed ==
    \A c \in Conn : (c \in Range(backlog)) ~> (conn = c \/ srv = "down")

(* A client that has begun to write its queued commands gets all answers,  *)
(* although it reads none before it has written everything.                *)
BatchAnswered ==
    \A c \in Conn : (phase[c] = "flush") ~> (phase[c] \in {"queue", "closed"} \/ srv = "down")

=============================================================================

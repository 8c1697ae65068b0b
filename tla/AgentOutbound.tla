---------------------------- MODULE AgentOutbound ----------------------------
(***************************************************************************)
(* What the Agent sends to the Server (agent/connection/, agent/yeaft/     *)
(* asset-outbox.js), over a connection that breaks and is replaced.        *)
(*                                                                         *)
(* sendToServer queues a message while the socket is open and buffers it   *)
(* otherwise; one loop empties the queue, and encrypting a message lets    *)
(* other code run between the loop's look at the socket and the write.     *)
(* The `registered` frame of a new connection flushes the buffer.          *)
(* Generated images take another way: they are files of the asset outbox,  *)
(* which removes one only when the Server has acknowledged it.             *)
(*                                                                         *)
(* A message has a kind: "plain" and "terminal" ones may be buffered, a    *)
(* "chunk" belongs to the connection it was produced for, an "asset" comes *)
(* from the outbox.  Every message weighs 1, so that the byte budgets and  *)
(* the length of the buffer are counted in messages.  What becomes of a    *)
(* message after it was written is modelled for images only.               *)
(***************************************************************************)
EXTENDS Naturals, SequencesExt

CONSTANTS
    Loads,       \* bounds: how many messages and images are produced, and how many
                 \* crashes, broken connections and other faults there are;
                 \* and maxItems of the outbox
    QueueSize,   \* outboundSendQueueMaxBytes
    BufferSize,  \* messageBufferMaxSize and messageBufferMaxBytes
    MaxCopies    \* bound: a retry waits while so many copies of an image travel

ASSUME OutboundAssumption ==
    /\ Loads \subseteq [messages : Nat, images : Nat, faults : Nat, items : Nat \ {0}]
    /\ Loads # {} /\ IsFiniteSet(Loads)
    /\ {QueueSize, BufferSize, MaxCopies} \subseteq Nat \ {0}

VARIABLES
    up,        \* the Agent process runs
    conn,      \* its socket (ctx.ws): number and how far it has come
    mem,       \* its memory: queue, message being sent, buffer, flushes, drain;
               \* and, kept for the properties, which messages were buffered,
               \* which are given up, and what was written on which socket
    wire,      \* images and credentials travelling to the Server on each socket
    server,    \* the socket the Server holds as the Agent's
    acks,      \* yeaft_asset_ack frames travelling to the Agent
    outbox,    \* files of the asset outbox
    shelf,     \* images the Server has stored, refused for good, or that were
               \* deleted with their Session
    born,      \* for each message: its kind and the socket of its first call
    images,    \* images enqueued so far
    load,      \* the load of this behaviour
    faults     \* counter of its faults

vars == <<up, conn, mem, wire, server, acks, outbox, shelf, born, images, load, faults>>
peer == <<server, acks>>
made == <<born, images, load>>

Assets == 1..Max({l.images : l \in Loads})

Sockets == 1..(Max({l.faults : l \in Loads}) + 1)
Kinds == {"plain", "terminal", "chunk"}
Bufferable == {"plain", "terminal"}
Message(id) == [id |-> id, kind |-> born[id].kind]
Image(a) == [id |-> a, kind |-> "asset"]
Nobody == [id |-> 0, kind |-> "none"]

Fault == faults < load.faults /\ faults' = faults + 1
NoFault == UNCHANGED faults

Idle == [active |-> FALSE, answer |-> "none", rest |-> <<>>]
Fresh == [queue |-> <<>>, sending |-> {}, buffer |-> <<>>, flushes |-> <<>>,
          drain |-> Idle, timer |-> FALSE, parked |-> {}, lost |-> {}, written |-> <<>>]

Open == conn.state # "closed"
Encrypted == conn.state = "registered"    \* the frame brings the session key

-----------------------------------------------------------------------------
(* connection/buffer.js: each operator returns the new memory *)

\* What a call of sendToServer comes to; an image's drain reads it.
Answered(m, msg, outcome) ==
    LET n == IF outcome = "dropped" /\ msg.kind # "asset"
             THEN [m EXCEPT !.lost = @ \cup {msg.id}] ELSE m
    IN IF msg.kind = "asset" THEN [n EXCEPT !.drain.answer = outcome] ELSE n

Dispensable(msg) == msg.kind # "terminal"

\* The message that makes room in a full buffer.
Evicted_Oldest(buffer) == 1
Evicted(buffer) == SelectInSeq(buffer, Dispensable)

\* bufferMessage
Buffered(m, msg) ==
    LET full == Len(m.buffer) >= BufferSize
        old  == Evicted(m.buffer)
        room == [m EXCEPT !.buffer = RemoveAt(@, old), !.lost = @ \cup {m.buffer[old].id}]
        into(n) == [n EXCEPT !.buffer = Append(@, msg), !.parked = @ \cup {msg.id}]
    IN CASE msg.kind \notin Bufferable -> Answered(m, msg, "dropped")
         [] msg.kind \in Bufferable /\ ~full -> into(m)
         [] OTHER -> IF old > 0 THEN into(room) ELSE Answered(m, msg, "dropped")

\* sendToServer, up to its wait for the queue
Sent(m, msg) ==
    LET full == Len(m.queue) >= QueueSize
        old  == SelectInSeq(m.queue, LAMBDA item : Dispensable(item.msg))
        room == Answered([m EXCEPT !.queue = RemoveAt(@, old)], m.queue[old].msg, "dropped")
        into(n) == [n EXCEPT !.queue = Append(@, [msg |-> msg, socket |-> conn.n])]
    IN CASE ~Open -> Buffered(m, msg)
         [] Open /\ ~full -> into(m)
         [] OTHER -> IF msg.kind = "terminal" /\ old > 0 THEN into(room)
                     ELSE Answered(m, msg, "dropped")

\* The caller of sendToServer still waits for this message.
Waiting(m, msg) == \/ \E i \in DOMAIN m.queue : m.queue[i].msg = msg
                   \/ \E s \in m.sending : s.msg = msg

\* flushMessageBuffer takes the whole buffer, and sends it one at a time.
Spliced_Kept(m) ==
    [m EXCEPT !.flushes = Append(@, [at |-> Nobody, rest |-> m.buffer])]
Spliced(m) ==
    [m EXCEPT !.buffer = <<>>, !.flushes = Append(@, [at |-> Nobody, rest |-> m.buffer])]
Flushed(m, i) ==
    LET rest == m.flushes[i].rest IN
    Sent([m EXCEPT !.flushes[i] = [at |-> Head(rest), rest |-> Tail(rest)]], Head(rest))

-----------------------------------------------------------------------------
(* asset-outbox.js *)

\* The end of a drain: another follows later while a file is left.
Finished_NoRetry(m, box) == [m EXCEPT !.drain = Idle]
Finished(m, box) == [m EXCEPT !.drain = Idle, !.timer = box # {}]

\* The next file that is still there is sent.
Advanced(m, box) ==
    LET left == SelectSeq(m.drain.rest, LAMBDA a : a \in box) IN
    IF left = <<>> THEN Finished(m, box)
    ELSE Sent([m EXCEPT !.drain = [active |-> TRUE, answer |-> "none",
                                   rest |-> Tail(left)]], Image(Head(left)))

\* drain: one at a time, over the files there are when it begins.
Drained(m, box) ==
    IF m.drain.active THEN m
    ELSE Advanced([m EXCEPT !.timer = FALSE, !.drain.rest = SetToSortSeq(box, <)], box)

DrainStep ==
    /\ up /\ mem.drain.active /\ mem.drain.answer # "none"
    /\ mem' = IF mem.drain.answer = "sent" THEN Advanced(mem, outbox) ELSE Finished(mem, outbox)
    /\ UNCHANGED <<up, conn, wire, peer, outbox, shelf, made, faults>>

RetryFires ==
    /\ up /\ mem.timer
    /\ \A a \in outbox :
         FoldSet(LAMBDA s, n : n + Len(SelectSeq(wire[s], LAMBDA msg : msg = Image(a))), 0, Sockets)
           < MaxCopies
    /\ mem' = Drained([mem EXCEPT !.timer = FALSE], outbox)
    /\ UNCHANGED <<up, conn, wire, peer, outbox, shelf, made, faults>>

\* enqueue and drain; a full outbox refuses the image.
Enqueue(a) ==
    /\ up /\ a = images + 1 /\ a <= load.images
    /\ images' = a
    /\ IF Cardinality(outbox) < load.items
       THEN /\ outbox' = outbox \cup {a}
            /\ mem' = Drained(mem, outbox')
            /\ UNCHANGED shelf
       ELSE shelf' = [shelf EXCEPT !.gone = @ \cup {a}] /\ UNCHANGED <<outbox, mem>>
    /\ UNCHANGED <<up, conn, wire, peer, born, load, faults>>

\* The Session of an image is deleted.
RemoveSession(a) ==
    /\ up /\ a \in outbox
    /\ outbox' = outbox \ {a}
    /\ shelf' = [shelf EXCEPT !.gone = @ \cup {a}]
    /\ UNCHANGED <<up, conn, mem, wire, peer, made, faults>>

\* acknowledge, and the drain that follows it
Accepted(ack) == ack.verdict # "failed"

AckArrives ==
    \E ack \in acks :
      /\ up /\ Open /\ ack.socket = conn.n
      /\ acks' = acks \ {ack}
      /\ IF Accepted(ack) /\ ack.id \in outbox
         THEN outbox' = outbox \ {ack.id} /\ mem' = Drained(mem, outbox')
         ELSE UNCHANGED <<outbox, mem>>
      /\ UNCHANGED <<up, conn, wire, server, shelf, made, faults>>

-----------------------------------------------------------------------------
(* The queue's loop *)

Produce(kind) ==
    LET id == Len(born) + 1 IN
    /\ up /\ id <= load.messages
    /\ born' = Append(born, [kind |-> kind, socket |-> IF Open THEN conn.n ELSE 0])
    /\ mem' = Sent(mem, [id |-> id, kind |-> kind])
    /\ UNCHANGED <<up, conn, wire, peer, outbox, shelf, images, load, faults>>

\* The write; of a chunk the loop also awaits that it has left.
Write(m, msg) ==
    /\ wire' = IF msg.kind = "asset" THEN [wire EXCEPT ![conn.n] = Append(@, msg)] ELSE wire
    /\ LET n == IF msg.kind = "asset" THEN m
                ELSE [m EXCEPT !.written = Append(@, [id |-> msg.id, socket |-> conn.n])]
       IN mem' = IF msg.kind = "chunk"
                 THEN [n EXCEPT !.sending = @ \cup
                         {[msg |-> msg, socket |-> conn.n, step |-> "leaving"]}]
                 ELSE Answered(n, msg, "sent")

\* outboundSendQueueActive: there is one loop.
MayTake_Parallel(m) == m.queue # <<>>
MayTake(m) == m.queue # <<>> /\ m.sending = {}

\* A chunk is dropped unless the socket is the one it was produced for.
Misplaced_Never(item) == FALSE
Misplaced(item) == item.msg.kind = "chunk" /\ item.socket # conn.n

Take ==
    LET item == Head(mem.queue)
        m    == [mem EXCEPT !.queue = Tail(@)] IN
    /\ up /\ MayTake(mem)
    /\ CASE ~Open -> mem' = Buffered(m, item.msg) /\ UNCHANGED wire
         [] Open /\ Misplaced(item) ->
              mem' = Answered(m, item.msg, "dropped") /\ UNCHANGED wire
         [] Open /\ ~Misplaced(item) /\ ~Encrypted -> Write(m, item.msg)
         [] OTHER -> /\ mem' = [m EXCEPT !.sending = @ \cup
                          {[msg |-> item.msg, socket |-> conn.n, step |-> "encrypting"]}]
                     /\ UNCHANGED wire
    /\ UNCHANGED <<up, conn, peer, outbox, shelf, made, faults>>

\* The message is encrypted: is the socket still the one it was taken for?
Current(s) == Open /\ s.socket = conn.n

Encrypts(s) ==
    /\ up /\ s.step = "encrypting"
    /\ IF Current(s) THEN Write([mem EXCEPT !.sending = @ \ {s}], s.msg)
       ELSE mem' = Buffered([mem EXCEPT !.sending = @ \ {s}], s.msg) /\ UNCHANGED wire
    /\ UNCHANGED <<up, conn, peer, outbox, shelf, made, faults>>

\* encrypt or send throws
SendFails(s) ==
    /\ up /\ s.step = "encrypting" /\ Fault
    /\ mem' = Buffered([mem EXCEPT !.sending = @ \ {s}], s.msg)
    /\ UNCHANGED <<up, conn, wire, peer, outbox, shelf, made>>

\* The chunk has left, or its socket is gone, or ten seconds have passed.
ChunkEnds(s) ==
    /\ up /\ s.step = "leaving"
    /\ LET m == [mem EXCEPT !.sending = @ \ {s}] IN
       \/ Current(s) /\ mem' = Answered(m, s.msg, "sent") /\ NoFault
       \/ ~Current(s) /\ mem' = Buffered(m, s.msg) /\ NoFault
       \/ Current(s) /\ Fault /\ mem' = Buffered(m, s.msg)
    /\ UNCHANGED <<up, conn, wire, peer, outbox, shelf, made>>

\* A flush goes on once its message has been sent, buffered or dropped.
FlushStep(i) ==
    LET f == mem.flushes[i]
        m == [mem EXCEPT !.flushes = RemoveAt(@, i)] IN
    /\ up /\ ~Waiting(mem, f.at)
    /\ mem' = IF f.rest # <<>> THEN Flushed(mem, i) ELSE Drained(m, outbox)
    /\ UNCHANGED <<up, conn, wire, peer, outbox, shelf, made, faults>>

-----------------------------------------------------------------------------
(* The connection *)

\* A part of what travels still arrives.
Truncated(s, k) == [wire EXCEPT ![s] = SubSeq(@, 1, k)]

Close ==
    /\ up /\ Open /\ Fault
    /\ conn' = [conn EXCEPT !.state = "closed"]
    /\ \E k \in 0..Len(wire[conn.n]) : wire' = Truncated(conn.n, k)
    /\ acks' = {a \in acks : a.socket # conn.n}
    /\ UNCHANGED <<up, mem, server, outbox, shelf, made>>

Connect ==
    /\ up /\ ~Open /\ conn.n + 1 \in Sockets
    /\ conn' = [n |-> conn.n + 1, state |-> "open"]
    /\ UNCHANGED <<up, mem, wire, peer, outbox, shelf, made, faults>>

\* The Server's challenge is answered on the socket, past the queue.
Authenticate ==
    /\ up /\ conn.state = "open"
    /\ conn' = [conn EXCEPT !.state = "authenticating"]
    /\ wire' = [wire EXCEPT ![conn.n] = Append(@, [id |-> 0, kind |-> "auth"])]
    /\ UNCHANGED <<up, mem, peer, outbox, shelf, made, faults>>

\* The `registered` frame: flushMessageBuffer, then the outbox.
Register ==
    /\ up /\ conn.state = "authenticating" /\ server = conn.n
    /\ conn' = [conn EXCEPT !.state = "registered"]
    /\ mem' = IF mem.buffer = <<>> THEN Drained(mem, outbox)
              ELSE Flushed(Spliced(mem), Len(mem.flushes) + 1)
    /\ UNCHANGED <<up, wire, peer, outbox, shelf, made, faults>>

Crash ==
    /\ up /\ Fault
    /\ up' = FALSE
    /\ mem' = [Fresh EXCEPT !.parked = mem.parked, !.lost = 1..Len(born),
                            !.written = mem.written]
    /\ conn' = [conn EXCEPT !.state = "closed"]
    /\ acks' = {}
    /\ \E k \in 0..IF Open THEN Len(wire[conn.n]) ELSE 0 :
         wire' = IF Open THEN Truncated(conn.n, k) ELSE wire
    /\ UNCHANGED <<server, outbox, shelf, made>>

Boot ==
    /\ ~up /\ up' = TRUE
    /\ UNCHANGED <<conn, mem, wire, peer, outbox, shelf, made, faults>>

-----------------------------------------------------------------------------
(* The Server: server/ws-agent.js, server/handlers/agent-output.js *)

\* yeaft_asset_put: what the store makes of the image goes back as the answer.
Store(s, a) ==
    \/ /\ a \notin shelf.refused
       /\ shelf' = [shelf EXCEPT !.stored = @ \cup {a}]
       /\ acks' = acks \cup {[socket |-> s, id |-> a, verdict |-> "ok"]}
       /\ NoFault
    \/ /\ a \notin shelf.stored
       /\ shelf' = [shelf EXCEPT !.refused = @ \cup {a}]
       /\ acks' = acks \cup {[socket |-> s, id |-> a, verdict |-> "permanent"]}
       /\ NoFault
    \/ /\ Fault
       /\ acks' = acks \cup {[socket |-> s, id |-> a, verdict |-> "failed"]}
       /\ UNCHANGED shelf

\* A connection that is not the Agent's is heard only for its credentials.
Deliver(s) ==
    LET msg == Head(wire[s]) IN
    /\ wire[s] # <<>>
    /\ wire' = [wire EXCEPT ![s] = Tail(@)]
    /\ CASE msg.kind = "auth" -> /\ server' = IF s > server THEN s ELSE server
                                 /\ UNCHANGED <<acks, shelf>> /\ NoFault
         [] msg.kind # "auth" /\ s # server -> UNCHANGED <<peer, shelf>> /\ NoFault
         [] OTHER -> Store(s, msg.id) /\ UNCHANGED server
    /\ UNCHANGED <<up, conn, mem, outbox, made>>

-----------------------------------------------------------------------------
Init ==
    /\ up = TRUE
    /\ conn = [n |-> 1, state |-> "open"]
    /\ mem = Fresh
    /\ wire = [s \in Sockets |-> <<>>]
    /\ server = 0 /\ acks = {}
    /\ outbox = {} /\ shelf = [stored |-> {}, refused |-> {}, gone |-> {}]
    /\ born = <<>> /\ images = 0 /\ faults = 0 /\ load \in Loads

Sending == \E s \in mem.sending : Encrypts(s) \/ ChunkEnds(s)
Fails == \E s \in mem.sending : SendFails(s)
Flushing == \E i \in DOMAIN mem.flushes : FlushStep(i)
Delivering == \E s \in Sockets : Deliver(s)

Next ==
    \/ \E kind \in Kinds : Produce(kind)
    \/ \E a \in Assets : Enqueue(a)
    \/ \E a \in Assets : RemoveSession(a)
    \/ Take \/ Sending \/ Fails \/ Flushing
    \/ DrainStep \/ RetryFires \/ AckArrives
    \/ Connect \/ Authenticate \/ Register \/ Close \/ Crash \/ Boot
    \/ Delivering

Spec == Init /\ [][Next]_vars

\* Loops, timers, frames and reconnects go on; nothing makes anyone produce a
\* message, and no fault has to happen.
FairSpec ==
    /\ Spec
    /\ WF_vars(Take) /\ WF_vars(Sending) /\ WF_vars(Flushing)
    /\ WF_vars(DrainStep) /\ WF_vars(RetryFires) /\ WF_vars(AckArrives)
    /\ WF_vars(Connect) /\ WF_vars(Authenticate) /\ WF_vars(Register) /\ WF_vars(Boot)
    /\ WF_vars(Delivering)

-----------------------------------------------------------------------------
(* Properties *)

InQueue(id) == {i \in DOMAIN mem.queue : mem.queue[i].msg = Message(id)}
InFlushes(id) == {p \in (DOMAIN mem.flushes) \X (1..BufferSize) :
    /\ p[2] \in DOMAIN mem.flushes[p[1]].rest
    /\ mem.flushes[p[1]].rest[p[2]] = Message(id)}
InBuffer(id) == {i \in DOMAIN mem.buffer : mem.buffer[i] = Message(id)}
BeingSent(id) == {s \in mem.sending : s.msg = Message(id) /\ s.step = "encrypting"}
Written(id) == {i \in DOMAIN mem.written : mem.written[i].id = id}

\* The kinds of values the variables take.  The queue, the buffer and the
\* outbox stay within their limits, and one loop sends one message at a time
\* (buffer.js:119, asset-outbox.js:43).
TypeOK ==
    /\ up \in BOOLEAN /\ faults \in 0..load.faults /\ images \in Nat
    /\ conn \in [n : Sockets, state : {"closed", "open", "authenticating", "registered"}]
    /\ Len(mem.queue) <= QueueSize /\ Len(mem.buffer) <= BufferSize
    /\ Cardinality(mem.sending) <= 1 /\ Cardinality(outbox) <= load.items
    /\ \A i \in DOMAIN mem.queue : mem.queue[i].socket \in Sockets
    /\ mem.drain.answer \in {"none", "sent", "dropped"} /\ mem.timer \in BOOLEAN
    /\ server \in {0} \cup Sockets /\ outbox \subseteq Assets
    /\ Len(born) <= load.messages /\ \A i \in DOMAIN born : born[i].kind \in Kinds

\* No message is forgotten and none is sent twice: each one is queued, being
\* encrypted, buffered, waiting in a flush, written to a socket, or given up
\* by a limit or a crash, and it is in one of these places only, whatever
\* happens to the connection while it is sent or flushed (buffer.js:103-179).
InOnePlace ==
    \A id \in DOMAIN born :
        Cardinality(InQueue(id)) + Cardinality(InFlushes(id)) + Cardinality(InBuffer(id))
            + Cardinality(BeingSent(id)) + Cardinality(Written(id))
          = IF id \in mem.lost /\ Written(id) = {} THEN 0 ELSE 1

\* Messages overtake a message only if it was buffered: what finds the
\* connection open, and stays on it, is written in the order in which it was
\* produced, though every write follows an encryption (buffer.js:119-143).
OvertakenWereBuffered ==
    \A i, j \in DOMAIN mem.written :
        i < j /\ mem.written[j].id < mem.written[i].id => mem.written[j].id \in mem.parked

\* A file chunk or an upgrade acknowledgement is written only to the
\* connection that was open when it was produced (buffer.js:106).
ChunkStaysOnConnection ==
    \A i \in DOMAIN mem.written :
        LET m == born[mem.written[i].id] IN m.kind = "chunk" => mem.written[i].socket = m.socket

\* The end of a turn or of a conversation is given up, short of a crash, only
\* where nothing but such messages is kept: a full queue or a full buffer makes
\* room for it (buffer.js:45-52, 152-161).
TerminalsOutlive ==
    [][up' => \A id \in mem.lost' \ mem.lost :
         Message(id)'.kind = "terminal" =>
           \/ Len(mem'.queue) = QueueSize
              /\ \A i \in DOMAIN mem'.queue : mem'.queue[i].msg.kind = "terminal"
           \/ Len(mem'.buffer) = BufferSize
              /\ \A i \in DOMAIN mem'.buffer : mem'.buffer[i].kind = "terminal"]_vars

\* An image is in the outbox until the Server has stored it or refused it for
\* good, or its Session is deleted, through broken connections, restarts of
\* the Agent and failures of the store (asset-outbox.js, message-router.js:240).
ImageIsKept ==
    \A a \in 1..images : a \in outbox \cup shelf.stored \cup shelf.refused \cup shelf.gone

\* The memory has its types and limits, and no message or image is forgotten
\* or doubled.
PlacesInv == TypeOK /\ InOnePlace /\ ImageIsKept

\* Every image leaves the outbox: one that was enqueued while a drain was going
\* on, whose send was dropped, or that the Server never answered is sent again
\* (asset-outbox.js:69-100).
ImageArrives == \A a \in Assets : (a \in outbox) ~> (a \notin outbox)

=============================================================================

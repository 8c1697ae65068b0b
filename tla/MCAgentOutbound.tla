--------------------------- MODULE MCAgentOutbound ---------------------------
(* Loads for TLC: messages alone, images alone, and one of each, which share  *)
(* the queue; with one fault, and with two where less is produced; an outbox that is full.  *)
EXTENDS AgentOutbound

Load(m, i, f, n) == [messages |-> m, images |-> i, faults |-> f, items |-> n]
Mixed == {Load(3, 0, 1, 1), Load(2, 0, 2, 1), Load(1, 1, 1, 1), Load(0, 2, 1, 2),
          Load(0, 2, 0, 1), Load(0, 1, 2, 1)}

=============================================================================

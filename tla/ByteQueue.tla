------------------------------ MODULE ByteQueue ------------------------------
(***************************************************************************)
(* What CBOR::Buffer promises (doclib/cbor/buffer.rb): every buffer is a   *)
(* queue of bytes.  A call appends the bytes `in` at its end and hands out *)
(* the bytes `out` from its front, to the caller or to an io, and touches  *)
(* no other buffer.  Buffer implements this module.                        *)
(***************************************************************************)
EXTENDS Integers, Sequences

CONSTANTS Buffer,   \* the buffers
          IoBuffer  \* those opened on an io

VARIABLES content,  \* content[b]: the bytes of b nobody has read
          call      \* the last call: op, buffer, length asked for, bytes that
                    \* came in and went out, whether it raised an exception

NoCall == [op |-> "none", buf |-> CHOOSE b \in Buffer : TRUE, n |-> 0,
           in |-> <<>>, out |-> <<>>, raised |-> FALSE]

Init == content = [b \in Buffer |-> <<>>] /\ call = NoCall

\* The queue discipline all calls share.
Moved(b) == LET q == content[b] \o call'.in
                n == Len(call'.out)
            IN /\ n <= Len(q)
               /\ call'.out = SubSeq(q, 1, n)
               /\ content' = [content EXCEPT ![b] = SubSeq(q, n + 1, Len(q))]

\* A write is accepted whole or not at all, and only the io of a buffer may
\* make it raise or take bytes.
Write(b) == /\ call'.op = "write"
            /\ call'.in # <<>> => Len(call'.in) = call'.n
            /\ call'.raised <=> call'.in = <<>>
            /\ b \notin IoBuffer => ~call'.raised /\ call'.out = <<>>

\* One write of the io within a call that goes on
Sends(b) == call'.op = "sends" /\ call'.in = <<>>

\* read and skip are short only when they leave the buffer empty, and read
\* past the buffer only from its io, which may also raise when all is taken.
Read(b) == /\ call'.op = "read"
           /\ call'.raised => b \in IoBuffer /\ content'[b] = <<>>
           /\ Len(call'.out) <= call'.n
           /\ Len(call'.out) < call'.n => content'[b] = <<>>
           /\ call'.in # <<>> => b \in IoBuffer /\ content'[b] = <<>>

\* read_all and skip_all deliver all they were asked for, or raise EOFError
\* and consume nothing.
ReadAll(b) == /\ call'.op = "read_all" /\ call'.in = <<>>
              /\ IF call'.raised THEN call'.out = <<>> /\ Len(content'[b]) < call'.n
                                 ELSE Len(call'.out) = call'.n

\* A feed from the io keeps what it got.
Feed(b) == call'.op = "feed" /\ b \in IoBuffer /\ call'.out = <<>>

\* flush and write_to pass everything on unless the io raises.
Flush(b) == /\ call'.op = "flush" /\ call'.in = <<>>
            /\ ~call'.raised => content'[b] = <<>>

\* Only clear and the garbage collector drop bytes.
Clear(b) == call'.op \in {"clear", "collected"} /\ call'.in = <<>> /\ content'[b] = <<>>

Next == \E b \in Buffer :
          /\ call'.buf = b
          /\ Moved(b)
          /\ \/ Write(b) \/ Sends(b) \/ Read(b) \/ ReadAll(b)
             \/ Feed(b) \/ Flush(b) \/ Clear(b)

Spec == Init /\ [][Next]_<<content, call>>
=============================================================================

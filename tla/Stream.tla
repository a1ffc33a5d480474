------------------------------- MODULE Stream -------------------------------
(***************************************************************************)
(* A packer and an unpacker at the two ends of a stream of bytes, as with  *)
(* a pipe, a socket or a file (README.md; spec/unpacker_spec.rb feeds what *)
(* a packer wrote in the same way).  The io of the packer takes its bytes  *)
(* whenever the packer flushes; whoever reads the stream hands them to     *)
(* feed_each in pieces of any size.                                        *)
(***************************************************************************)
EXTENDS Integers, SequencesExt

CONSTANTS Object, Values, Heaps, Arguments, HasIo, Headers, MaxBytes, MaxDepth, MaxSize,
          MaxPending, StackCapacity, SymbolizeKeys

VARIABLES
  heap, buffer, sent, todo, written, mark, damaged,                  \* of Packer
  unread, head, stack, raw, last, pc, out, taken, within, lost,      \* of Unpacker
  carried,   \* the bytes sent that have come to the reader
  got        \* history: the objects yielded to the block of feed_each

writer == <<heap, buffer, sent, todo, written, mark, damaged>>
reader == <<unread, head, stack, raw, last, pc, out, taken, within, lost>>
vars == <<writer, reader, carried, got>>

\* Packer and Unpacker, with what is proved of them.  Any bytes may come, and
\* all of them through feed_each.
Writer == INSTANCE PackerReads
Reader == INSTANCE UnpackerProofs WITH Pieces <- Seq(0 .. 255), Methods <- {"feed_each"}

ASSUME WriterAssumptions ==
  /\ Writer!HeapsAssumption /\ Writer!IoAssumption /\ Writer!BoundAssumption
  /\ Writer!LengthAssumption /\ Writer!ValueAssumption
ASSUME ReaderAssumptions == Reader!StackAssumption /\ Reader!PendingAssumption

Init == Writer!Init /\ Reader!Init /\ carried = 0 /\ got = <<>>

\* Everything a caller of the packer does, and what that makes the packer do,
\* until an exception or a callback leaves half a value in the stream: then
\* the caller only flushes.
Writes ==
  /\ \/ ~damaged /\ Writer!Next
     \/ damaged /\ Writer!Flush
  /\ UNCHANGED <<reader, carried, got>>

\* the next n bytes of the stream go to feed_each
Receives(n) ==
  /\ carried + n <= Len(sent)
  /\ Reader!FeedEach(SubSeq(sent, carried + 1, carried + n))
  /\ carried' = carried + n
  /\ UNCHANGED <<writer, got>>

ReceivesSome == \E n \in 1 .. Len(sent) - carried : Receives(n)

\* a turn of the unpacker, which may yield an object
Yielded == pc'.r = "yield"

Reads ==
  /\ Reader!Step
  /\ got' = IF Yielded THEN Append(got, out'.v) ELSE got
  /\ UNCHANGED <<writer, carried>>

\* The block keeps the object and returns.
Keeps == Reader!BlockReturns /\ UNCHANGED <<writer, carried, got>>

Next == Writes \/ ReceivesSome \/ Reads \/ Keeps

\* The reader goes on as long as there is something to do; the writer, the
\* caller of the packer, may stop at any time.
Spec == /\ Init /\ [][Next]_vars
        /\ WF_vars(ReceivesSome) /\ WF_vars(Reads) /\ WF_vars(Keeps)
-----------------------------------------------------------------------------
\* What comes out is what went in, in order and nothing else, however the
\* packer flushed and however the stream was cut.  Half a value at the end of
\* the stream yields nothing and does no harm to the values before it.
InOrder == IsPrefix(got, written)

\* What the packer writes does no harm to the unpacker.
Unharmed == ~lost

\* Whatever is written and flushed comes out without any further byte, and
\* whatever becomes of the writer: no object waits in the unpacker for bytes
\* that are not its own.
Arrives ==
  \A n \in 1 .. MaxBytes + 1 :
    (~damaged /\ Len(written) >= n /\ buffer = <<>>) ~> Len(got) >= n
=============================================================================

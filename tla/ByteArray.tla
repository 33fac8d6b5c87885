------------------------------ MODULE ByteArray ------------------------------
(***************************************************************************)
(* ByteArray (bytearray.cc): bytes kept in a list of blocks of m_baseSize, *)
(* written and read at a position that the block pointer m_cur has to      *)
(* follow, and filled and emptied by the socket through the iovecs that    *)
(* SocketStream (streams/socket_stream.cc) takes from it.                  *)
(***************************************************************************)
EXTENDS Naturals, SequencesExt

CONSTANTS Bytes,     \* the values of a byte; one of them may be a string's length
          BaseSize,  \* m_baseSize
          MaxLen,    \* bound: bytes given to or asked of one call
          MaxCap     \* bound: m_capacity

ASSUME BytesAssumption ==
    /\ Bytes \subseteq Nat /\ BaseSize \in Nat \ {0} /\ MaxLen \in Nat /\ MaxCap \in Nat

VARIABLES ba,   \* the members, nodes being the list that m_root heads
          moved \* the bytes that the last call put or gave out

baVars == <<ba, moved>>

NULL == 0
Strings(n) == UNION {[1..k -> Bytes] : k \in 0..n}
Block(junk) == [o \in 0..BaseSize-1 |-> junk]

\* A ByteArray: a block that was never written holds whatever was there.
BaInit ==
    /\ \E junk \in Bytes :
         ba = [nodes |-> <<Block(junk)>>, cur |-> 1, pos |-> 0, cap |-> BaseSize,
               size |-> 0, crashed |-> FALSE]
    /\ moved = <<>>

NextNode(b, c) == IF c < Len(b.nodes) THEN c + 1 ELSE NULL
ReadSize(b) == b.size - b.pos

\* The loop that write(), read() and the functions for iovecs share: the pieces
\* of the blocks that n bytes from the position take. A piece of the block NULL
\* stands for m_cur->size with no block there.
RECURSIVE Pieces(_, _, _, _)
Pieces(b, c, npos, n) ==
    LET ncap == BaseSize - npos
    IN  IF c = NULL THEN <<[node |-> NULL, off |-> 0, len |-> 0]>>
        ELSE IF n = 0 THEN <<>>
        ELSE IF ncap >= n THEN <<[node |-> c, off |-> npos, len |-> n]>>
        ELSE <<[node |-> c, off |-> npos, len |-> ncap]>>
                \o Pieces(b, NextNode(b, c), 0, n - ncap)

PiecesAt(b, n) == Pieces(b, b.cur, b.pos % BaseSize, n)
Faults(ps) == \E i \in DOMAIN ps : ps[i].node = NULL

Cells(ps) == FlattenSeq([i \in DOMAIN ps |->
                 [k \in 1..ps[i].len |-> <<ps[i].node, ps[i].off + k - 1>>]])

Gather(b, ps) == [i \in DOMAIN Cells(ps) |-> b.nodes[Cells(ps)[i][1]][Cells(ps)[i][2]]]

\* memcpy of buf to the pieces, which may have room for more.
Scatter(b, ps, buf) ==
    LET at == SubSeq(Cells(ps), 1, Len(buf))
    IN  [c \in DOMAIN b.nodes |-> [o \in 0..BaseSize-1 |->
            IF Contains(at, <<c, o>>) THEN buf[CHOOSE i \in DOMAIN at : at[i] = <<c, o>>]
            ELSE b.nodes[c][o]]]

\* m_cur after the loop of write() and read().
CurAfter(b, ps) ==
    IF ps = <<>> THEN b.cur
    ELSE IF Last(ps).off + Last(ps).len = BaseSize THEN NextNode(b, Last(ps).node)
    ELSE Last(ps).node

Crash(b) == [b EXCEPT !.crashed = TRUE]
Grown(b) == [b EXCEPT !.size = IF b.pos > @ THEN b.pos ELSE @]

\* Mutant: a pointer that has run off the list stays where it is.
AddCapacityOnly(b, n, junk) ==
    LET old == b.cap - b.pos
        count == (n - old + BaseSize - 1) \div BaseSize
    IN  IF n = 0 \/ old >= n THEN b
        ELSE [b EXCEPT !.nodes = @ \o [i \in 1..count |-> Block(junk)],
                       !.cap = @ + count * BaseSize]

\* addCapacity(): blocks are added at the end; m_cur moves to the first of
\* them when there was no room left.
AddCapacity(b, n, junk) ==
    LET old == b.cap - b.pos
        count == (n - old + BaseSize - 1) \div BaseSize
    IN  IF n = 0 \/ old >= n THEN b
        ELSE [b EXCEPT !.nodes = @ \o [i \in 1..count |-> Block(junk)],
                       !.cap = @ + count * BaseSize,
                       !.cur = IF old = 0 THEN Len(b.nodes) + 1 ELSE @]

\* write(buf, size)
Written(b, buf, junk) ==
    LET big == AddCapacity(b, Len(buf), junk)
        ps == PiecesAt(big, Len(buf))
    IN  IF buf = <<>> THEN b
        ELSE IF Faults(ps) THEN Crash(big)
        ELSE Grown([big EXCEPT !.nodes = Scatter(big, ps, buf), !.cur = CurAfter(big, ps),
                               !.pos = @ + Len(buf)])

\* read(buf, size), for no more than getReadSize().
AfterRead(b, n) ==
    LET ps == PiecesAt(b, n)
    IN  IF Faults(ps) THEN Crash(b)
        ELSE [b EXCEPT !.cur = CurAfter(b, ps), !.pos = @ + n]

RECURSIVE NodeAt(_, _, _)
NodeAt(b, c, v) ==
    IF v > BaseSize THEN NodeAt(b, NextNode(b, c), v - BaseSize)
    ELSE IF v = BaseSize THEN NextNode(b, c)
    ELSE c

\* setPosition(v), for no more than m_capacity.
Positioned(b, v) == Grown([b EXCEPT !.pos = v, !.cur = NodeAt(b, 1, v)])

-----------------------------------------------------------------------------
Alive == ~ba.crashed
Room(n) == ba.pos + n <= MaxCap
Handles(bytes) == moved' = bytes

\* writeF*() and writeStringWithoutLength()
Write(buf, junk) ==
    /\ Alive /\ Room(Len(buf))
    /\ ba' = Written(ba, buf, junk) /\ Handles(buf)

\* readF*()
Read(n) ==
    /\ Alive /\ n <= ReadSize(ba)
    /\ ba' = AfterRead(ba, n)
    /\ Handles(IF ba'.crashed THEN <<>> ELSE Gather(ba, PiecesAt(ba, n)))

\* writeStringVint(): the length, and then the bytes.
WriteStringVint(buf, junk) ==
    /\ Alive /\ Room(Len(buf) + 1) /\ Len(buf) \in Bytes
    /\ ba' = Written(Written(ba, <<Len(buf)>>, junk), buf, junk)
    /\ Handles(<<Len(buf)>> \o buf)

\* readStringVint(): when the bytes are fewer than the length that was read,
\* read() throws and the length stays taken.
ReadStringVint ==
    /\ Alive /\ ReadSize(ba) > 0
    /\ LET len == Gather(ba, PiecesAt(ba, 1))[1]
           b == AfterRead(ba, 1)
       IN  IF len > ReadSize(b) THEN ba' = b /\ Handles(<<>>)
           ELSE /\ ba' = AfterRead(b, len)
                /\ Handles(IF ba'.crashed THEN <<>> ELSE Gather(b, PiecesAt(b, len)))

SetPosition(v) ==
    /\ Alive /\ v <= ba.cap
    /\ ba' = Positioned(ba, v) /\ Handles(<<>>)

\* clear(): only the first block is kept.
ClearAll ==
    /\ Alive
    /\ ba' = [ba EXCEPT !.nodes = <<@[1]>>, !.cur = 1, !.pos = 0, !.cap = BaseSize, !.size = 0]
    /\ Handles(<<>>)

\* toString() reads from m_position without moving.
StringOf ==
    /\ Alive /\ Handles(Gather(ba, IF ReadSize(ba) = 0 THEN <<>> ELSE PiecesAt(ba, ReadSize(ba))))
    /\ UNCHANGED ba

\* SocketStream::read(ba, n): recv() fills a part of getWriteBuffers().
Receive(n, data, junk) ==
    /\ Alive /\ Room(n) /\ n > 0 /\ Len(data) <= n
    /\ LET b == AddCapacity(ba, n, junk)
           ps == PiecesAt(b, n)
       IN  ba' = IF Faults(ps) THEN Crash(b)
                 ELSE IF data = <<>> THEN b
                 ELSE Positioned([b EXCEPT !.nodes = Scatter(b, ps, data)], b.pos + Len(data))
    /\ Handles(data)

\* SocketStream::write(ba, n): send() takes a part of getReadBuffers().
Send(n, taken) ==
    /\ Alive /\ 0 < taken /\ taken <= n /\ n <= ReadSize(ba)
    /\ LET ps == PiecesAt(ba, n)
       IN  IF Faults(ps) THEN ba' = Crash(ba) /\ Handles(<<>>)
           ELSE /\ ba' = Positioned(ba, ba.pos + taken)
                /\ Handles(SubSeq(Gather(ba, ps), 1, taken))

BaNext ==
    \/ \E junk \in Bytes :
         \/ \E buf \in Strings(MaxLen) : Write(buf, junk) \/ WriteStringVint(buf, junk)
         \/ \E n \in 1..MaxLen, data \in Strings(MaxLen) : Receive(n, data, junk)
    \/ \E n \in 1..MaxLen : Read(n) \/ \E taken \in 1..n : Send(n, taken)
    \/ \E v \in 0..MaxCap : SetPosition(v)
    \/ ReadStringVint \/ StringOf \/ ClearAll

-----------------------------------------------------------------------------
\* The blocks one after the other; a crash is a place no buffer has.
Flat == FlattenSeq([c \in DOMAIN ba.nodes |-> [k \in 1..BaseSize |-> ba.nodes[c][k-1]]])
Buffer == INSTANCE FlatBuffer WITH
              contents <- SubSeq(Flat, 1, ba.size),
              position <- IF ba.crashed THEN MaxCap + MaxLen + 2 ELSE ba.pos

\* Through growth, overwriting, setPosition(), clear(), partial sends and
\* receives that end inside and at the end of a block, a ByteArray is one
\* sequence of bytes with a position: what was put at a place is what is taken
\* from it, and m_cur is never followed off the list.
IsFlatBuffer == Buffer!FlatSpec

\* bytearray.h asks of readStringVint() no more than that the length and that
\* many bytes are there to be read: a caller that keeps to it gets its string,
\* and m_cur is not followed where there is no block.
StringsReadable == ~ba.crashed
=============================================================================

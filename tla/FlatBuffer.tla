----------------------------- MODULE FlatBuffer -----------------------------
(***************************************************************************)
(* What ByteArray (bytearray.h) promises: one sequence of bytes with a     *)
(* position, at which bytes are put, overwriting or extending it, and      *)
(* taken.                                                                  *)
(***************************************************************************)
EXTENDS Naturals, Sequences

CONSTANTS Bytes, MaxLen, MaxCap

VARIABLES contents, position,
          moved    \* the bytes that the last call put or gave out

flatVars == <<contents, position, moved>>

Rest == SubSeq(contents, position + 1, Len(contents))

FlatInit == contents = <<>> /\ position = 0 /\ moved = <<>>

Put ==
    /\ contents' = SubSeq(contents, 1, position) \o moved'
                     \o SubSeq(contents, position + Len(moved') + 1, Len(contents))
    /\ position' = position + Len(moved')

\* n bytes are taken, of which the caller is given those after the first skip.
Take(n, skip) ==
    /\ n <= Len(Rest)
    /\ moved' = SubSeq(Rest, skip + 1, n) /\ position' = position + n
    /\ UNCHANGED contents

Peek == moved' = Rest /\ UNCHANGED <<contents, position>>

\* The position may be set past the end: what is there then is not said.
Seek(v) ==
    /\ position' = v /\ moved' = <<>>
    /\ IF v <= Len(contents) THEN UNCHANGED contents
       ELSE \E junk \in [1..(v - Len(contents)) -> Bytes] : contents' = contents \o junk

Wipe == contents' = <<>> /\ position' = 0 /\ moved' = <<>>

FlatNext ==
    \/ Put \/ Peek \/ Wipe
    \/ \E n \in 0..MaxLen + 1, skip \in {0, 1} : Take(n, skip)
    \/ \E v \in 0..MaxCap : Seek(v)

FlatSpec == FlatInit /\ [][FlatNext]_flatVars
=============================================================================

------------------------------ MODULE ByteQueue ------------------------------
(***************************************************************************)
(* What a Buffer promises: a queue of bytes that is filled at its end,     *)
(* emptied from its front, and may have a header put before its front.     *)
(* Buffer.tla implements this module.                                      *)
(***************************************************************************)
EXTENDS Naturals, Sequences

CONSTANTS Bytes, MaxReadable   \* MaxReadable: what the callers let pile up

VARIABLES contents,  \* the unread bytes
          result     \* the last bytes handed to a caller

vars == <<contents, result>>

Strings == UNION {[1 .. n -> Bytes] : n \in 0 .. MaxReadable}

Init == contents = <<>> /\ result = <<>>

Put(data) ==
  /\ Len(contents) + Len(data) <= MaxReadable
  /\ contents' = contents \o data
  /\ UNCHANGED result

PutBefore(data) ==
  /\ Len(contents) + Len(data) <= MaxReadable
  /\ contents' = data \o contents
  /\ UNCHANGED result

Drop(n) ==
  /\ n <= Len(contents)
  /\ contents' = SubSeq(contents, n + 1, Len(contents))
  /\ UNCHANGED result

Take(n) ==
  /\ n <= Len(contents)
  /\ result' = SubSeq(contents, 1, n)
  /\ contents' = SubSeq(contents, n + 1, Len(contents))

Next ==
  \/ \E data \in Strings : Put(data) \/ PutBefore(data)
  \/ \E n \in 0 .. MaxReadable : Drop(n) \/ Take(n)

Spec == Init /\ [][Next]_vars
=============================================================================

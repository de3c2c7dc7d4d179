---------------------------- MODULE OutputStream ----------------------------
(* What a connection promises about the bytes handed to it for sending: they go
   out in the order they were accepted in, none twice and none skipped, and until
   the connection is closed the end of the stream is announced only behind the last
   byte accepted so far. *)
EXTENDS Naturals, Sequences, SequencesExt

CONSTANT Bytes

VARIABLES
  accepted,            \* every byte accepted, in order
  wire,                \* the bytes that went out
  fin,                 \* the end was announced
  closed               \* the connection was closed

streamVars == <<accepted, wire, fin, closed>>

Init ==
  /\ accepted = <<>>
  /\ wire = <<>>
  /\ fin = FALSE
  /\ closed = FALSE

(* More bytes are accepted; some of what is unsent by then may go out at once,
   unless the end was announced. *)
Accept ==
  /\ accepted' \in Seq(Bytes)
  /\ IsPrefix(accepted, accepted')
  /\ IsPrefix(wire, wire') /\ IsPrefix(wire', accepted')
  /\ fin => wire' = wire
  /\ UNCHANGED <<fin, closed>>

(* Some of what is unsent goes out. *)
Deliver ==
  /\ ~fin
  /\ IsPrefix(wire, wire') /\ IsPrefix(wire', accepted)
  /\ UNCHANGED <<accepted, fin, closed>>

(* The end is announced: what was still unsent goes out first, or never, if the
   connection is closed. *)
Finish ==
  /\ ~fin
  /\ fin' = TRUE
  /\ wire' = accepted \/ (closed /\ wire' = wire)
  /\ UNCHANGED <<accepted, closed>>

Close ==
  /\ ~closed
  /\ closed' = TRUE
  /\ UNCHANGED <<accepted, wire, fin>>

Next == Accept \/ Deliver \/ Finish \/ Close

Spec == Init /\ [][Next]_streamVars
=============================================================================

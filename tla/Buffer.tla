------------------------------- MODULE Buffer -------------------------------
(***************************************************************************)
(* One Buffer (src/Buffer.h, src/Buffer.cpp): a vector of bytes with a     *)
(* reader and a writer index.  The unread bytes lie between the two; room  *)
(* before the reader index is for prepend, room after the writer index for *)
(* append and readFd.                                                      *)
(*                                                                         *)
(*     0        readerIndex_         writerIndex_           size           *)
(*     | prependable |      readable      |     writable     |             *)
(*                                                                         *)
(* A buffer has one user at a time (TcpConnection touches its two from its *)
(* loop's thread alone), so each member function is one step.  What a      *)
(* member function makes of a buffer is an operator on a record of its     *)
(* three fields; the actions apply them to the variable buf.               *)
(***************************************************************************)
EXTENDS Naturals, Sequences

CONSTANTS
  Bytes,          \* the bytes a buffer may hold
  Zero,           \* the byte that a vector is filled with
  kCheapPrepend,  \* room kept for prepend (8 in the code)
  kInitialSize,   \* room for data at first (1024 in the code)
  ExtraSize,      \* sizeof extrabuf (65536 in the code)
  MaxReadable     \* bound: the bytes that the callers let pile up

ASSUME BufferAssumption ==
  /\ Zero \in Bytes
  /\ kCheapPrepend \in Nat
  /\ kInitialSize \in Nat
  /\ ExtraSize \in Nat
  /\ MaxReadable \in Nat

VARIABLES
  buf,            \* the fields of the Buffer
  result          \* history: what the last retrieveAsString or readInt returned

vars == <<buf, result>>

readableBytes(b)    == b.writerIndex_ - b.readerIndex_
writableBytes(b)    == Len(b.buffer_) - b.writerIndex_
prependableBytes(b) == b.readerIndex_

(* The unread bytes: what lies from peek() to beginWrite(). *)
Unread(b) == SubSeq(b.buffer_, b.readerIndex_ + 1, b.writerIndex_)

(* std::copy of data into a vector, from index at on. *)
Copy(bytes, data, at) ==
  [i \in 1 .. Len(bytes) |->
     IF i \in at + 1 .. at + Len(data) THEN data[i - at] ELSE bytes[i]]

Resize(bytes, n) == [i \in 1 .. n |-> IF i <= Len(bytes) THEN bytes[i] ELSE Zero]

Init ==
  /\ buf = [buffer_      |-> Resize(<<>>, kCheapPrepend + kInitialSize),
            readerIndex_ |-> kCheapPrepend,
            writerIndex_ |-> kCheapPrepend]
  /\ result = <<>>

-----------------------------------------------------------------------------
retrieveAll(b) == [b EXCEPT !.readerIndex_ = kCheapPrepend, !.writerIndex_ = kCheapPrepend]

(* Mutant for ImplementsByteQueue: the reader index catches up by one too few. *)
retrieveTooLittle(b, len) ==
  IF len + 1 < readableBytes(b)
  THEN [b EXCEPT !.readerIndex_ = @ + len]
  ELSE retrieveAll(b)

(* retrieve: its assertion len <= readableBytes() is the callers' duty. *)
retrieve(b, len) ==
  IF len < readableBytes(b)
  THEN [b EXCEPT !.readerIndex_ = @ + len]
  ELSE retrieveAll(b)

(* Mutant for BoundedGrowth: the vector grows whenever the data does not fit. *)
neverMovesToFront(b, len) == TRUE

(* Too little room, even when that before the unread bytes is counted. *)
mustGrow(b, len) == writableBytes(b) + prependableBytes(b) < len + kCheapPrepend

(* Mutant for PrependRoomKept: the unread bytes move to index 0. *)
moveToStart(b) ==
  [buffer_ |-> Copy(b.buffer_, Unread(b), 0),
   readerIndex_ |-> 0, writerIndex_ |-> readableBytes(b)]

moveToFront(b) ==
  [buffer_ |-> Copy(b.buffer_, Unread(b), kCheapPrepend),
   readerIndex_ |-> kCheapPrepend, writerIndex_ |-> kCheapPrepend + readableBytes(b)]

makeSpace(b, len) ==
  IF mustGrow(b, len)
  THEN [b EXCEPT !.buffer_ = Resize(@, b.writerIndex_ + len)]
  ELSE moveToFront(b)

(* Mutant for TypeOK: off by one, the writer index may pass the end. *)
ensureTooFewBytes(b, len) ==
  IF writableBytes(b) + 1 < len THEN makeSpace(b, len) ELSE b

ensureWritableBytes(b, len) ==
  IF writableBytes(b) < len THEN makeSpace(b, len) ELSE b

(* std::copy to beginWrite(), then hasWritten: there is room for data. *)
write(b, data) ==
  [b EXCEPT !.buffer_ = Copy(@, data, b.writerIndex_), !.writerIndex_ = @ + Len(data)]

append(b, data) == write(ensureWritableBytes(b, Len(data)), data)

(* prepend: its assertion len <= prependableBytes() is the callers' duty. *)
prepend(b, data) ==
  [b EXCEPT !.buffer_ = Copy(@, data, b.readerIndex_ - Len(data)),
            !.readerIndex_ = @ - Len(data)]

(* readFd when readv returns data: it fills the writable bytes first, and what
   does not fit goes by way of extrabuf. *)
readFd(b, data) ==
  LET writable == writableBytes(b)
  IN  IF Len(data) <= writable
      THEN write(b, data)
      ELSE append(write(b, SubSeq(data, 1, writable)), SubSeq(data, writable + 1, Len(data)))

-----------------------------------------------------------------------------
Strings == UNION {[1 .. n -> Bytes] : n \in 0 .. MaxReadable}
HasRoomFor(data) == readableBytes(buf) + Len(data) <= MaxReadable

(* append of a string, of a block of memory or of an integer in network order. *)
Append_(data) ==
  /\ HasRoomFor(data)
  /\ buf' = append(buf, data)
  /\ UNCHANGED result

(* prepend, prependInt32, prependInt16, prependInt8. *)
Prepend(data) ==
  /\ HasRoomFor(data)
  /\ Len(data) <= prependableBytes(buf)
  /\ buf' = prepend(buf, data)
  /\ UNCHANGED result

(* readFd; a readv that fails or meets the end of the stream changes nothing. *)
ReadFd(data) ==
  /\ HasRoomFor(data)
  /\ Len(data) <= writableBytes(buf) + ExtraSize
  /\ buf' = readFd(buf, data)
  /\ UNCHANGED result

(* retrieve, retrieveUntil, retrieveInt32, retrieveInt16, retrieveInt8, and
   retrieveAll as retrieve of everything. *)
Retrieve(len) ==
  /\ len <= readableBytes(buf)
  /\ buf' = retrieve(buf, len)
  /\ UNCHANGED result

(* retrieveAsString and retrieveAllAsString; readInt32, readInt16 and readInt8:
   the bytes are read before they are retrieved. *)
RetrieveAsString(len) ==
  /\ len <= readableBytes(buf)
  /\ result' = SubSeq(buf.buffer_, buf.readerIndex_ + 1, buf.readerIndex_ + len)
  /\ buf' = retrieve(buf, len)

(* ensureWritableBytes called by a user who then writes at beginWrite() himself. *)
EnsureWritableBytes(len) ==
  /\ readableBytes(buf) + len <= MaxReadable
  /\ buf' = ensureWritableBytes(buf, len)
  /\ UNCHANGED result

Next ==
  \/ \E data \in Strings : Append_(data) \/ Prepend(data) \/ ReadFd(data)
  \/ \E len \in 0 .. MaxReadable : Retrieve(len) \/ RetrieveAsString(len) \/ EnsureWritableBytes(len)

Spec == Init /\ [][Next]_vars

-----------------------------------------------------------------------------
(* The indices are in order and within the vector. *)
WellFormed(b) ==
  /\ b \in [buffer_ : Seq(Bytes), readerIndex_ : Nat, writerIndex_ : Nat]
  /\ b.readerIndex_ <= b.writerIndex_
  /\ b.writerIndex_ <= Len(b.buffer_)
  /\ kCheapPrepend + kInitialSize <= Len(b.buffer_)

TypeOK == WellFormed(buf) /\ result \in Seq(Bytes)

(* The vector does not grow with the traffic: what is read makes room for what
   comes, because makeSpace moves the unread bytes to the front before it grows. *)
Larger(m, n) == IF m < n THEN n ELSE m
BoundedGrowth ==
  Len(buf.buffer_) <= kCheapPrepend + Larger(kInitialSize, 2 * MaxReadable)

(* Only prepend uses up the cheap prepend: filling or emptying the buffer never
   leaves less of it than there was. *)
PrependRoomKept ==
  [][(\E data \in Strings : Prepend(data))
     \/ prependableBytes(buf') >= kCheapPrepend
     \/ prependableBytes(buf') >= prependableBytes(buf)]_vars

(* The buffer implements the queue of bytes: growing, moving to the front and
   the detour through extrabuf neither lose, repeat nor reorder a byte. *)
Queue == INSTANCE ByteQueue WITH contents <- Unread(buf)
ImplementsByteQueue == Queue!Spec
=============================================================================

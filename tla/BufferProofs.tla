---------------------------- MODULE BufferProofs ----------------------------
(***************************************************************************)
(* What holds of Buffer for any bytes, sizes and bound.                    *)
(***************************************************************************)
EXTENDS Buffer, Integers, SequenceTheorems, TLAPS

(* A sequence is known by its domain and its elements. *)
LEMMA IsSequence ==
  ASSUME NEW S, NEW n \in Nat, NEW f \in [1 .. n -> S]
  PROVE  f \in Seq(S) /\ Len(f) = n
<1>1. f \in Seq(S)
  BY SeqDef
<1>2. DOMAIN f = 1 .. n /\ DOMAIN f = 1 .. Len(f) /\ Len(f) \in Nat
  BY <1>1, LenProperties
<1> QED
  BY <1>1, <1>2

LEMMA CopyFacts ==
  ASSUME NEW bytes \in Seq(Bytes), NEW data \in Seq(Bytes), NEW at \in Nat
  PROVE  /\ Copy(bytes, data, at) \in Seq(Bytes)
         /\ Len(Copy(bytes, data, at)) = Len(bytes)
         /\ \A i \in 1 .. Len(bytes) :
              Copy(bytes, data, at)[i] =
                IF i \in at + 1 .. at + Len(data) THEN data[i - at] ELSE bytes[i]
<1>1. Len(bytes) \in Nat /\ Len(data) \in Nat
  BY LenProperties
<1>2. ASSUME NEW i \in 1 .. Len(bytes)
      PROVE  (IF i \in at + 1 .. at + Len(data) THEN data[i - at] ELSE bytes[i]) \in Bytes
  <2>1. CASE i \in at + 1 .. at + Len(data)
    <3>1. i - at \in 1 .. Len(data)
      BY <2>1, <1>1
    <3> QED
      BY <2>1, <3>1, ElementOfSeq
  <2>2. CASE i \notin at + 1 .. at + Len(data)
    BY <2>2, ElementOfSeq
  <2> QED
    BY <2>1, <2>2
<1>3. Copy(bytes, data, at) \in [1 .. Len(bytes) -> Bytes]
  BY <1>2 DEF Copy
<1>4. Copy(bytes, data, at) \in Seq(Bytes) /\ Len(Copy(bytes, data, at)) = Len(bytes)
  BY <1>1, <1>3, IsSequence
<1> QED
  BY <1>4 DEF Copy

LEMMA ResizeFacts ==
  ASSUME NEW bytes \in Seq(Bytes), NEW n \in Nat
  PROVE  /\ Resize(bytes, n) \in Seq(Bytes)
         /\ Len(Resize(bytes, n)) = n
         /\ \A i \in 1 .. n : i <= Len(bytes) => Resize(bytes, n)[i] = bytes[i]
<1>1. \A i \in 1 .. n : (IF i <= Len(bytes) THEN bytes[i] ELSE Zero) \in Bytes
  BY BufferAssumption, ElementOfSeq, LenProperties
<1>2. Resize(bytes, n) \in [1 .. n -> Bytes]
  BY <1>1 DEF Resize
<1>3. Resize(bytes, n) \in Seq(Bytes) /\ Len(Resize(bytes, n)) = n
  BY <1>2, IsSequence
<1> QED
  BY <1>3 DEF Resize

LEMMA SizesFacts ==
  ASSUME NEW b, WellFormed(b)
  PROVE  /\ Len(b.buffer_) \in Nat /\ b.readerIndex_ \in Nat /\ b.writerIndex_ \in Nat
         /\ b.buffer_ \in Seq(Bytes)
         /\ readableBytes(b) \in Nat /\ writableBytes(b) \in Nat /\ prependableBytes(b) \in Nat
         /\ b.writerIndex_ = b.readerIndex_ + readableBytes(b)
         /\ Len(b.buffer_) = b.writerIndex_ + writableBytes(b)
<1>1. b.buffer_ \in Seq(Bytes) /\ b.readerIndex_ \in Nat /\ b.writerIndex_ \in Nat
  BY DEF WellFormed
<1>2. Len(b.buffer_) \in Nat
  BY <1>1, LenProperties
<1> QED
  BY <1>1, <1>2 DEF WellFormed, readableBytes, writableBytes, prependableBytes

LEMMA UnreadFacts ==
  ASSUME NEW b, WellFormed(b)
  PROVE  /\ Unread(b) \in Seq(Bytes)
         /\ Len(Unread(b)) = readableBytes(b)
         /\ \A i \in 1 .. readableBytes(b) : Unread(b)[i] = b.buffer_[b.readerIndex_ + i]
<1>1. /\ b.buffer_ \in Seq(Bytes) /\ b.readerIndex_ \in Nat /\ readableBytes(b) \in Nat
      /\ b.writerIndex_ = b.readerIndex_ + readableBytes(b)
      /\ b.writerIndex_ <= Len(b.buffer_) /\ Len(b.buffer_) \in Nat
  BY SizesFacts DEF WellFormed
<1>2. \A i \in b.readerIndex_ + 1 .. b.writerIndex_ : b.buffer_[i] \in Bytes
  BY <1>1, ElementOfSeq
<1>3. /\ Unread(b) \in Seq(Bytes)
      /\ Len(Unread(b)) = IF b.readerIndex_ + 1 <= b.writerIndex_
                          THEN b.writerIndex_ - (b.readerIndex_ + 1) + 1 ELSE 0
      /\ \A i \in 1 .. b.writerIndex_ - (b.readerIndex_ + 1) + 1 :
           Unread(b)[i] = b.buffer_[(b.readerIndex_ + 1) + i - 1]
  <2>1. b.readerIndex_ + 1 \in Int /\ b.writerIndex_ \in Int
    BY <1>1
  <2> DEFINE m == b.readerIndex_ + 1
             n == b.writerIndex_
             s == b.buffer_
  <2> HIDE DEF m, n, s
  <2>2. m \in Int /\ n \in Int /\ \A i \in m .. n : s[i] \in Bytes
    BY <1>2, <2>1 DEF m, n, s
  <2>3. /\ SubSeq(s, m, n) \in Seq(Bytes)
        /\ Len(SubSeq(s, m, n)) = IF m <= n THEN n - m + 1 ELSE 0
        /\ \A i \in 1 .. n - m + 1 : SubSeq(s, m, n)[i] = s[m + i - 1]
    BY <2>2, SubSeqProperties
  <2> QED
    BY <2>3 DEF m, n, s, Unread
<1>4. b.writerIndex_ - (b.readerIndex_ + 1) + 1 = readableBytes(b)
  BY <1>1
<1>5. Len(Unread(b)) = readableBytes(b)
  BY <1>1, <1>3
<1>6. ASSUME NEW i \in 1 .. readableBytes(b)
      PROVE  Unread(b)[i] = b.buffer_[b.readerIndex_ + i]
  <2>1. Unread(b)[i] = b.buffer_[(b.readerIndex_ + 1) + i - 1]
    BY <1>3, <1>4
  <2>2. (b.readerIndex_ + 1) + i - 1 = b.readerIndex_ + i
    BY <1>1
  <2> QED
    BY <2>1, <2>2
<1> QED
  BY <1>3, <1>5, <1>6

(* Two well-formed buffers hold the same unread bytes if they agree on them one
   by one. *)
LEMMA SameUnread ==
  ASSUME NEW b, NEW c, WellFormed(b), WellFormed(c),
         readableBytes(b) = readableBytes(c),
         \A i \in 1 .. readableBytes(b) :
           b.buffer_[b.readerIndex_ + i] = c.buffer_[c.readerIndex_ + i]
  PROVE  Unread(b) = Unread(c)
<1>1. /\ Unread(b) \in Seq(Bytes) /\ Unread(c) \in Seq(Bytes)
      /\ Len(Unread(b)) = readableBytes(b) /\ Len(Unread(c)) = readableBytes(b)
  BY UnreadFacts
<1>2. \A i \in 1 .. readableBytes(b) : Unread(b)[i] = Unread(c)[i]
  BY UnreadFacts
<1> QED
  BY <1>1, <1>2, SeqEqual

-----------------------------------------------------------------------------
(* Writing within the writable bytes puts the data behind the unread ones. *)
LEMMA WriteFacts ==
  ASSUME NEW b, WellFormed(b), NEW data \in Seq(Bytes), Len(data) <= writableBytes(b)
  PROVE  /\ WellFormed(write(b, data))
         /\ Unread(write(b, data)) = Unread(b) \o data
         /\ readableBytes(write(b, data)) = readableBytes(b) + Len(data)
         /\ writableBytes(write(b, data)) = writableBytes(b) - Len(data)
         /\ prependableBytes(write(b, data)) = prependableBytes(b)
         /\ Len(write(b, data).buffer_) = Len(b.buffer_)
<1> DEFINE c == write(b, data)
           r == b.readerIndex_
           rd == readableBytes(b)
<1>1. /\ b.buffer_ \in Seq(Bytes) /\ Len(b.buffer_) \in Nat /\ Len(data) \in Nat
      /\ r \in Nat /\ rd \in Nat /\ writableBytes(b) \in Nat
      /\ b.writerIndex_ \in Nat /\ b.writerIndex_ = r + rd
      /\ Len(b.buffer_) = b.writerIndex_ + writableBytes(b)
      /\ b.readerIndex_ = r /\ readableBytes(b) = rd
  BY SizesFacts, LenProperties
<1>2. /\ c.buffer_ = Copy(b.buffer_, data, b.writerIndex_)
      /\ c.readerIndex_ = r /\ c.writerIndex_ = b.writerIndex_ + Len(data)
      /\ c \in [buffer_ : Seq(Bytes), readerIndex_ : Nat, writerIndex_ : Nat]
  <2>1. b \in [buffer_ : Seq(Bytes), readerIndex_ : Nat, writerIndex_ : Nat]
    BY DEF WellFormed
  <2>2. Copy(b.buffer_, data, b.writerIndex_) \in Seq(Bytes)
    BY <1>1, CopyFacts
  <2>3. b.writerIndex_ + Len(data) \in Nat
    BY <1>1
  <2> QED
    BY <2>1, <2>2, <2>3 DEF write
<1> HIDE DEF c, r, rd
<1>3. /\ Len(c.buffer_) = Len(b.buffer_)
      /\ \A i \in 1 .. Len(b.buffer_) :
           c.buffer_[i] = IF i \in b.writerIndex_ + 1 .. b.writerIndex_ + Len(data)
                          THEN data[i - b.writerIndex_] ELSE b.buffer_[i]
  BY <1>1, <1>2, CopyFacts, SMTT(30)
<1>4. WellFormed(c)
  BY <1>1, <1>2, <1>3 DEF WellFormed
<1>5. readableBytes(c) = rd + Len(data) /\ writableBytes(c) = writableBytes(b) - Len(data)
  BY <1>1, <1>2, <1>3 DEF readableBytes, writableBytes
<1>6. /\ Unread(c) \in Seq(Bytes) /\ Len(Unread(c)) = rd + Len(data)
      /\ \A i \in 1 .. rd + Len(data) : Unread(c)[i] = c.buffer_[r + i]
  BY <1>2, <1>4, <1>5, UnreadFacts
<1>7. /\ Unread(b) \o data \in Seq(Bytes) /\ Len(Unread(b) \o data) = rd + Len(data)
      /\ \A i \in 1 .. rd + Len(data) :
           (Unread(b) \o data)[i] = IF i <= rd THEN Unread(b)[i] ELSE data[i - rd]
  <2>1. Unread(b) \in Seq(Bytes) /\ Len(Unread(b)) = rd
    BY <1>1, UnreadFacts
  <2>2. /\ Unread(b) \o data \in Seq(Bytes)
        /\ Len(Unread(b) \o data) = Len(Unread(b)) + Len(data)
        /\ \A i \in 1 .. Len(Unread(b)) + Len(data) :
             (Unread(b) \o data)[i] = IF i <= Len(Unread(b)) THEN Unread(b)[i]
                                     ELSE data[i - Len(Unread(b))]
    BY <2>1, ConcatProperties
  <2> QED
    BY <2>1, <2>2
<1>8. ASSUME NEW i \in 1 .. rd + Len(data) PROVE Unread(c)[i] = (Unread(b) \o data)[i]
  <2>1. r + i \in 1 .. Len(b.buffer_)
    BY <1>1
  <2>2. CASE i <= rd
    <3>1. r + i \notin b.writerIndex_ + 1 .. b.writerIndex_ + Len(data)
      BY <1>1, <2>2
    <3>2. Unread(c)[i] = b.buffer_[r + i]
      BY <1>3, <1>6, <2>1, <3>1
    <3>3. i \in 1 .. rd
      BY <1>1, <2>2
    <3> QED
      BY <1>1, <1>7, <2>2, <3>2, <3>3, UnreadFacts
  <2>3. CASE ~(i <= rd)
    <3>1. r + i \in b.writerIndex_ + 1 .. b.writerIndex_ + Len(data)
          /\ (r + i) - b.writerIndex_ = i - rd
      BY <1>1, <2>3
    <3> QED
      BY <1>3, <1>6, <1>7, <2>1, <2>3, <3>1
  <2> QED
    BY <2>2, <2>3
<1>9. Unread(c) = Unread(b) \o data
  BY <1>1, <1>6, <1>7, <1>8, SeqEqual
<1> QED
  BY <1>1, <1>2, <1>3, <1>4, <1>5, <1>9 DEF prependableBytes, c

(* Moving to the front keeps the unread bytes. *)
LEMMA MoveFacts ==
  ASSUME NEW b, WellFormed(b), kCheapPrepend + readableBytes(b) <= Len(b.buffer_)
  PROVE  /\ WellFormed(moveToFront(b))
         /\ Unread(moveToFront(b)) = Unread(b)
         /\ readableBytes(moveToFront(b)) = readableBytes(b)
         /\ writableBytes(moveToFront(b)) = Len(b.buffer_) - (kCheapPrepend + readableBytes(b))
         /\ prependableBytes(moveToFront(b)) = kCheapPrepend
         /\ Len(moveToFront(b).buffer_) = Len(b.buffer_)
<1> DEFINE c == moveToFront(b)
           rd == readableBytes(b)
<1>1. /\ rd = readableBytes(b) /\ b.buffer_ \in Seq(Bytes) /\ Len(b.buffer_) \in Nat /\ rd \in Nat
      /\ kCheapPrepend \in Nat
      /\ Unread(b) \in Seq(Bytes) /\ Len(Unread(b)) = rd
      /\ \A i \in 1 .. rd : Unread(b)[i] = b.buffer_[b.readerIndex_ + i]
  BY SizesFacts, UnreadFacts, BufferAssumption
<1>2. /\ c.buffer_ = Copy(b.buffer_, Unread(b), kCheapPrepend)
      /\ c.readerIndex_ = kCheapPrepend /\ c.writerIndex_ = kCheapPrepend + rd
  BY DEF moveToFront
<1>2a. c \in [buffer_ : {c.buffer_}, readerIndex_ : {c.readerIndex_}, writerIndex_ : {c.writerIndex_}]
  BY DEF moveToFront
<1> HIDE DEF c, rd
<1>3. /\ c.buffer_ \in Seq(Bytes) /\ Len(c.buffer_) = Len(b.buffer_)
      /\ \A i \in 1 .. Len(b.buffer_) :
           c.buffer_[i] = IF i \in kCheapPrepend + 1 .. kCheapPrepend + rd
                          THEN Unread(b)[i - kCheapPrepend] ELSE b.buffer_[i]
  <2> DEFINE u == Copy(b.buffer_, Unread(b), kCheapPrepend)
  <2>1. /\ u \in Seq(Bytes) /\ Len(u) = Len(b.buffer_)
        /\ \A i \in 1 .. Len(b.buffer_) :
             u[i] = IF i \in kCheapPrepend + 1 .. kCheapPrepend + Len(Unread(b))
                    THEN Unread(b)[i - kCheapPrepend] ELSE b.buffer_[i]
    BY <1>1, CopyFacts, SMTT(30)
  <2>2. c.buffer_ = u
    BY <1>2
  <2> HIDE DEF u
  <2> QED
    BY <1>1, <2>1, <2>2
<1>4. c \in [buffer_ : Seq(Bytes), readerIndex_ : Nat, writerIndex_ : Nat]
  BY <1>1, <1>2, <1>2a, <1>3
<1>5. WellFormed(c)
  BY <1>1, <1>2, <1>3, <1>4 DEF WellFormed
<1>6. readableBytes(c) = rd /\ writableBytes(c) = Len(b.buffer_) - (kCheapPrepend + rd)
  BY <1>1, <1>2, <1>3 DEF readableBytes, writableBytes
<1>7. ASSUME NEW i \in 1 .. rd
      PROVE  c.buffer_[c.readerIndex_ + i] = b.buffer_[b.readerIndex_ + i]
  <2>1. /\ kCheapPrepend + i \in 1 .. Len(b.buffer_)
        /\ kCheapPrepend + i \in kCheapPrepend + 1 .. kCheapPrepend + rd
        /\ (kCheapPrepend + i) - kCheapPrepend = i
    BY <1>1
  <2> QED
    BY <2>1, <1>1, <1>2, <1>3
<1>8. Unread(c) = Unread(b)
  BY <1>1, <1>5, <1>6, <1>7, SameUnread
<1> QED
  BY <1>1, <1>2, <1>3, <1>5, <1>6, <1>8 DEF prependableBytes, c

(* So does growing the vector. *)
LEMMA GrowFacts ==
  ASSUME NEW b, WellFormed(b), NEW len \in Nat, writableBytes(b) < len
  PROVE  LET c == [b EXCEPT !.buffer_ = Resize(@, b.writerIndex_ + len)]
         IN  /\ WellFormed(c)
             /\ Unread(c) = Unread(b)
             /\ readableBytes(c) = readableBytes(b)
             /\ writableBytes(c) = len
             /\ prependableBytes(c) = prependableBytes(b)
             /\ Len(c.buffer_) = b.writerIndex_ + len
<1> DEFINE c == [b EXCEPT !.buffer_ = Resize(@, b.writerIndex_ + len)]
           rd == readableBytes(b)
<1>1. /\ rd = readableBytes(b) /\ b.buffer_ \in Seq(Bytes) /\ Len(b.buffer_) \in Nat
      /\ b.readerIndex_ \in Nat /\ b.writerIndex_ \in Nat /\ rd \in Nat
      /\ b.writerIndex_ = b.readerIndex_ + rd
      /\ writableBytes(b) \in Nat /\ Len(b.buffer_) = b.writerIndex_ + writableBytes(b)
      /\ b.writerIndex_ + len \in Nat
  BY SizesFacts
<1>1a. /\ b.readerIndex_ \in Nat /\ b.writerIndex_ \in Nat /\ rd \in Nat
       /\ Len(b.buffer_) \in Nat /\ b.writerIndex_ = b.readerIndex_ + rd
       /\ b.writerIndex_ <= Len(b.buffer_)
  <2>1. writableBytes(b) \in Nat /\ Len(b.buffer_) = b.writerIndex_ + writableBytes(b)
    BY <1>1
  <2> QED
    BY <1>1, <2>1
<1>2. b \in [buffer_ : Seq(Bytes), readerIndex_ : Nat, writerIndex_ : Nat]
  BY DEF WellFormed
<1>3. /\ c.buffer_ = Resize(b.buffer_, b.writerIndex_ + len)
      /\ c.readerIndex_ = b.readerIndex_ /\ c.writerIndex_ = b.writerIndex_
  BY <1>2
<1>3a. c \in [buffer_ : {c.buffer_}, readerIndex_ : {c.readerIndex_}, writerIndex_ : {c.writerIndex_}]
  BY <1>2
<1> HIDE DEF c, rd
<1>4. /\ c.buffer_ \in Seq(Bytes) /\ Len(c.buffer_) = b.writerIndex_ + len
      /\ \A i \in 1 .. b.writerIndex_ + len : i <= Len(b.buffer_) => c.buffer_[i] = b.buffer_[i]
  <2> DEFINE u == Resize(b.buffer_, b.writerIndex_ + len)
  <2>1. /\ u \in Seq(Bytes) /\ Len(u) = b.writerIndex_ + len
        /\ \A i \in 1 .. b.writerIndex_ + len : i <= Len(b.buffer_) => u[i] = b.buffer_[i]
    BY <1>1, ResizeFacts
  <2>2. c.buffer_ = u
    BY <1>3
  <2> HIDE DEF u
  <2> QED
    BY <2>1, <2>2
<1>5. c \in [buffer_ : Seq(Bytes), readerIndex_ : Nat, writerIndex_ : Nat]
  BY <1>1, <1>3, <1>3a, <1>4
<1>6. kCheapPrepend + kInitialSize <= Len(b.buffer_)
  BY DEF WellFormed
<1>7. WellFormed(c)
  BY <1>1, <1>3, <1>4, <1>5, <1>6, BufferAssumption, SMTT(30) DEF WellFormed
<1>8. readableBytes(c) = rd /\ writableBytes(c) = len /\ prependableBytes(c) = prependableBytes(b)
  BY <1>1, <1>3, <1>4 DEF readableBytes, writableBytes, prependableBytes
<1>9. ASSUME NEW i \in 1 .. rd
      PROVE  c.buffer_[c.readerIndex_ + i] = b.buffer_[b.readerIndex_ + i]
  <2>1. b.readerIndex_ + i \in 1 .. b.writerIndex_ + len /\ b.readerIndex_ + i <= Len(b.buffer_)
    <3>1. ASSUME NEW r \in Nat, NEW w \in Nat, NEW n \in Nat, w = r + rd, w <= n
          PROVE  r + i \in 1 .. w + len /\ r + i <= n
      BY <1>1a, <3>1
    <3> QED
      BY <1>1a, <3>1
  <2> QED
    BY <2>1, <1>3, <1>4
<1>10. Unread(c) = Unread(b)
  BY <1>1, <1>7, <1>8, <1>9, SameUnread
<1> QED
  BY <1>1, <1>4, <1>7, <1>8, <1>10 DEF c
-----------------------------------------------------------------------------
(* The assertion in makeSpace (src/Buffer.h:291) never fails: when the data fits
   after a move, the move is forward. *)
LEMMA MoveIsForward ==
  ASSUME NEW b, WellFormed(b), NEW len \in Nat, writableBytes(b) < len, ~mustGrow(b, len)
  PROVE  kCheapPrepend < b.readerIndex_ /\ kCheapPrepend + readableBytes(b) + len <= Len(b.buffer_)
BY SizesFacts, BufferAssumption, SMTT(30) DEF mustGrow, prependableBytes

(* ensureWritableBytes makes room, keeps the unread bytes, and grows the vector
   only as far as the data to come asks for. *)
LEMMA EnsureFacts ==
  ASSUME NEW b, WellFormed(b), NEW len \in Nat
  PROVE  LET e == ensureWritableBytes(b, len)
         IN  /\ WellFormed(e)
             /\ Unread(e) = Unread(b)
             /\ readableBytes(e) = readableBytes(b)
             /\ len <= writableBytes(e)
             /\ kCheapPrepend <= prependableBytes(e) \/ prependableBytes(e) = prependableBytes(b)
             /\ \/ Len(e.buffer_) = Len(b.buffer_)
                \/ Len(e.buffer_) <= kCheapPrepend + readableBytes(b) + 2 * len
<1>1. CASE ~(writableBytes(b) < len)
  BY <1>1, SizesFacts DEF ensureWritableBytes
<1>2. CASE writableBytes(b) < len /\ mustGrow(b, len)
  <2> DEFINE c == [b EXCEPT !.buffer_ = Resize(@, b.writerIndex_ + len)]
  <2>1. ensureWritableBytes(b, len) = c
    BY <1>2 DEF ensureWritableBytes, makeSpace
  <2>2. /\ WellFormed(c) /\ Unread(c) = Unread(b) /\ readableBytes(c) = readableBytes(b)
        /\ writableBytes(c) = len /\ prependableBytes(c) = prependableBytes(b)
        /\ Len(c.buffer_) = b.writerIndex_ + len
    BY <1>2, GrowFacts
  <2> HIDE DEF c
  <2>3. b.writerIndex_ + len <= kCheapPrepend + readableBytes(b) + 2 * len
    BY <1>2, SizesFacts, BufferAssumption, SMTT(30) DEF mustGrow, prependableBytes
  <2> QED
    BY <2>1, <2>2, <2>3
<1>3. CASE writableBytes(b) < len /\ ~mustGrow(b, len)
  <2>1. ensureWritableBytes(b, len) = moveToFront(b)
    BY <1>3 DEF ensureWritableBytes, makeSpace
  <2>2. kCheapPrepend + readableBytes(b) + len <= Len(b.buffer_)
    BY <1>3, MoveIsForward
  <2>3. kCheapPrepend + readableBytes(b) <= Len(b.buffer_)
    BY <2>2, SizesFacts, BufferAssumption
  <2>4. /\ WellFormed(moveToFront(b)) /\ Unread(moveToFront(b)) = Unread(b)
        /\ readableBytes(moveToFront(b)) = readableBytes(b)
        /\ writableBytes(moveToFront(b)) = Len(b.buffer_) - (kCheapPrepend + readableBytes(b))
        /\ prependableBytes(moveToFront(b)) = kCheapPrepend
        /\ Len(moveToFront(b).buffer_) = Len(b.buffer_)
    BY <2>3, MoveFacts
  <2>5. len <= Len(b.buffer_) - (kCheapPrepend + readableBytes(b))
    BY <2>2, SizesFacts, BufferAssumption
  <2> QED
    BY <2>1, <2>4, <2>5, BufferAssumption
<1> QED
  BY <1>1, <1>2, <1>3

(* append puts the data behind the unread bytes. *)
LEMMA AppendFacts ==
  ASSUME NEW b, WellFormed(b), NEW data \in Seq(Bytes)
  PROVE  LET c == append(b, data)
         IN  /\ WellFormed(c)
             /\ Unread(c) = Unread(b) \o data
             /\ kCheapPrepend <= prependableBytes(c) \/ prependableBytes(c) = prependableBytes(b)
             /\ \/ Len(c.buffer_) = Len(b.buffer_)
                \/ Len(c.buffer_) <= kCheapPrepend + readableBytes(b) + 2 * Len(data)
<1> DEFINE e == ensureWritableBytes(b, Len(data))
<1>1. Len(data) \in Nat
  BY LenProperties
<1>2. /\ WellFormed(e) /\ Unread(e) = Unread(b) /\ Len(data) <= writableBytes(e)
      /\ kCheapPrepend <= prependableBytes(e) \/ prependableBytes(e) = prependableBytes(b)
      /\ \/ Len(e.buffer_) = Len(b.buffer_)
         \/ Len(e.buffer_) <= kCheapPrepend + readableBytes(b) + 2 * Len(data)
  BY <1>1, EnsureFacts
<1>3. append(b, data) = write(e, data)
  BY DEF append
<1> HIDE DEF e
<1>4. /\ WellFormed(write(e, data)) /\ Unread(write(e, data)) = Unread(e) \o data
      /\ prependableBytes(write(e, data)) = prependableBytes(e)
      /\ Len(write(e, data).buffer_) = Len(e.buffer_)
  BY <1>2, WriteFacts
<1> QED
  BY <1>2, <1>3, <1>4

(* readFd does the same, extrabuf or not. *)
LEMMA ReadFdFacts ==
  ASSUME NEW b, WellFormed(b), NEW data \in Seq(Bytes)
  PROVE  LET c == readFd(b, data)
         IN  /\ WellFormed(c)
             /\ Unread(c) = Unread(b) \o data
             /\ kCheapPrepend <= prependableBytes(c) \/ prependableBytes(c) = prependableBytes(b)
             /\ \/ Len(c.buffer_) = Len(b.buffer_)
                \/ Len(c.buffer_) <= kCheapPrepend + readableBytes(b) + 2 * Len(data)
<1>1. Len(data) \in Nat /\ writableBytes(b) \in Nat /\ readableBytes(b) \in Nat
  BY LenProperties, SizesFacts
<1>2. CASE Len(data) <= writableBytes(b)
  <2>1. readFd(b, data) = write(b, data)
    BY <1>2 DEF readFd
  <2> QED
    BY <1>2, <2>1, WriteFacts
<1>3. CASE ~(Len(data) <= writableBytes(b))
  <2> DEFINE w  == writableBytes(b)
             s1 == SubSeq(data, 1, w)
             s2 == SubSeq(data, w + 1, Len(data))
             c  == write(b, s1)
  <2>1. readFd(b, data) = append(c, s2)
    BY <1>3 DEF readFd
  <2>2. w \in 1 - 1 .. Len(data) /\ 1 \in 1 .. Len(data) + 1 /\ Len(data) \in w .. Len(data)
    BY <1>1, <1>3
  <2>3. s1 \o s2 = SubSeq(data, 1, Len(data)) /\ SubSeq(data, 1, Len(data)) = data
    BY <2>2, ConcatAdjacentSubSeq, SubSeqFull
  <2>4. \A i \in 1 .. Len(data) : data[i] \in Bytes
    BY ElementOfSeq
  <2>5. s1 \in Seq(Bytes) /\ Len(s1) = w
    <3>1. \A i \in 1 .. w : data[i] \in Bytes
      BY <1>1, <1>3, <2>4
    <3>2. s1 \in Seq(Bytes) /\ Len(s1) = IF 1 <= w THEN w - 1 + 1 ELSE 0
      BY <1>1, <3>1, SubSeqProperties
    <3> QED
      BY <1>1, <3>2
  <2>6. s2 \in Seq(Bytes) /\ Len(s2) = Len(data) - w
    <3>1. \A i \in w + 1 .. Len(data) : data[i] \in Bytes
      BY <1>1, <1>3, <2>4
    <3>2. /\ s2 \in Seq(Bytes)
          /\ Len(s2) = IF w + 1 <= Len(data) THEN Len(data) - (w + 1) + 1 ELSE 0
      BY <1>1, <3>1, SubSeqProperties
    <3> QED
      BY <1>1, <1>3, <3>2
  <2>7. w = writableBytes(b)
    OBVIOUS
  <2> HIDE DEF w, s1, s2
  <2>8. /\ WellFormed(c) /\ Unread(c) = Unread(b) \o s1
        /\ readableBytes(c) = readableBytes(b) + w
        /\ prependableBytes(c) = prependableBytes(b) /\ Len(c.buffer_) = Len(b.buffer_)
    <3>1. Len(s1) <= writableBytes(b) /\ Len(s1) = w /\ s1 \in Seq(Bytes)
      BY <1>1, <2>5, <2>7
    <3> QED
      BY <3>1, WriteFacts
  <2> HIDE DEF c
  <2>9. /\ WellFormed(append(c, s2)) /\ Unread(append(c, s2)) = Unread(c) \o s2
        /\ \/ kCheapPrepend <= prependableBytes(append(c, s2))
           \/ prependableBytes(append(c, s2)) = prependableBytes(c)
        /\ \/ Len(append(c, s2).buffer_) = Len(c.buffer_)
           \/ Len(append(c, s2).buffer_) <= kCheapPrepend + readableBytes(c) + 2 * Len(s2)
    BY <2>6, <2>8, AppendFacts
  <2>10. (Unread(b) \o s1) \o s2 = Unread(b) \o data
    <3>1. Unread(b) \in Seq(Bytes)
      BY UnreadFacts
    <3>2. (Unread(b) \o s1) \o s2 = Unread(b) \o (s1 \o s2)
      <4>1. \A x \in Seq(Bytes), y \in Seq(Bytes), z \in Seq(Bytes) : (x \o y) \o z = x \o (y \o z)
        BY ConcatAssociative
      <4> QED
        BY <4>1, <3>1, <2>5, <2>6
    <3> QED
      BY <3>2, <2>3
  <2>11. ASSUME NEW k \in Nat, NEW l \in Nat, NEW rb \in Nat, NEW v \in Nat, ~(l <= v)
         PROVE  k + (rb + v) + 2 * (l - v) <= k + rb + 2 * l
    BY <2>11
  <2>12. kCheapPrepend + readableBytes(c) + 2 * Len(s2) <= kCheapPrepend + readableBytes(b) + 2 * Len(data)
    BY <1>1, <1>3, <2>6, <2>7, <2>8, <2>11, BufferAssumption
  <2>13. /\ Len(append(c, s2).buffer_) \in Nat /\ readableBytes(c) \in Nat /\ Len(s2) \in Nat
         /\ Len(b.buffer_) \in Nat
    BY <2>6, <2>8, <2>9, SizesFacts, LenProperties
  <2>14. \/ Len(append(c, s2).buffer_) = Len(b.buffer_)
         \/ Len(append(c, s2).buffer_) <= kCheapPrepend + readableBytes(b) + 2 * Len(data)
    <3>1. ASSUME NEW x \in Nat, NEW y \in Nat, NEW z \in Nat, x <= y, y <= z PROVE x <= z
      BY <3>1
    <3>2. /\ kCheapPrepend + readableBytes(c) + 2 * Len(s2) \in Nat
          /\ kCheapPrepend + readableBytes(b) + 2 * Len(data) \in Nat
      BY <1>1, <2>13, BufferAssumption, SMTT(30)
    <3> QED
      BY <2>8, <2>9, <2>12, <2>13, <3>1, <3>2
  <2> QED
    BY <2>1, <2>8, <2>9, <2>10, <2>14
<1> QED
  BY <1>2, <1>3
(* retrieve drops the oldest unread bytes. *)
LEMMA RetrieveFacts ==
  ASSUME NEW b, WellFormed(b), NEW len \in Nat, len <= readableBytes(b)
  PROVE  LET c == retrieve(b, len)
         IN  /\ WellFormed(c)
             /\ Unread(c) = SubSeq(Unread(b), len + 1, Len(Unread(b)))
             /\ readableBytes(c) = readableBytes(b) - len
             /\ kCheapPrepend <= prependableBytes(c) \/ prependableBytes(b) <= prependableBytes(c)
             /\ Len(c.buffer_) = Len(b.buffer_)
<1> DEFINE rd == readableBytes(b)
           u  == Unread(b)
<1>1. /\ rd = readableBytes(b) /\ u = Unread(b)
      /\ b.buffer_ \in Seq(Bytes) /\ Len(b.buffer_) \in Nat /\ rd \in Nat
      /\ b.readerIndex_ \in Nat /\ b.writerIndex_ \in Nat /\ b.writerIndex_ = b.readerIndex_ + rd
      /\ u \in Seq(Bytes) /\ Len(u) = rd
      /\ \A i \in 1 .. rd : u[i] = b.buffer_[b.readerIndex_ + i]
      /\ kCheapPrepend \in Nat /\ kInitialSize \in Nat
      /\ b \in [buffer_ : Seq(Bytes), readerIndex_ : Nat, writerIndex_ : Nat]
      /\ b.writerIndex_ <= Len(b.buffer_) /\ kCheapPrepend + kInitialSize <= Len(b.buffer_)
  BY SizesFacts, UnreadFacts, BufferAssumption DEF WellFormed
<1> HIDE DEF rd, u
<1>2. CASE len < rd
  <2> DEFINE c == [b EXCEPT !.readerIndex_ = @ + len]
  <2>1. retrieve(b, len) = c
    BY <1>1, <1>2 DEF retrieve
  <2>2. /\ c.buffer_ = b.buffer_ /\ c.readerIndex_ = b.readerIndex_ + len
        /\ c.writerIndex_ = b.writerIndex_
        /\ c \in [buffer_ : Seq(Bytes), readerIndex_ : Nat, writerIndex_ : Nat]
    <3>1. b.readerIndex_ + len \in Nat
      BY <1>1
    <3>2. b \in [buffer_ : Seq(Bytes), readerIndex_ : Nat, writerIndex_ : Nat]
      BY <1>1
    <3> QED
      BY <3>1, <3>2
  <2> HIDE DEF c
  <2>3. WellFormed(c)
    BY <1>1, <1>2, <2>2 DEF WellFormed
  <2>4. readableBytes(c) = rd - len
    BY <1>1, <1>2, <2>2 DEF readableBytes
  <2>5. /\ Unread(c) \in Seq(Bytes) /\ Len(Unread(c)) = rd - len
        /\ \A i \in 1 .. rd - len : Unread(c)[i] = b.buffer_[(b.readerIndex_ + len) + i]
    BY <2>2, <2>3, <2>4, UnreadFacts
  <2> DEFINE v == SubSeq(u, len + 1, rd)
  <2>6. /\ v \in Seq(Bytes) /\ Len(v) = rd - len
        /\ \A i \in 1 .. rd - len : v[i] = u[len + i]
    <3>1. \A i \in len + 1 .. rd : u[i] \in Bytes
      BY <1>1, ElementOfSeq
    <3>2. /\ v \in Seq(Bytes)
          /\ Len(v) = IF len + 1 <= rd THEN rd - (len + 1) + 1 ELSE 0
          /\ \A i \in 1 .. rd - (len + 1) + 1 : v[i] = u[(len + 1) + i - 1]
      BY <1>1, <3>1, SubSeqProperties
    <3>3. rd - (len + 1) + 1 = rd - len /\ len + 1 <= rd
      BY <1>1, <1>2
    <3>4. \A i \in 1 .. rd - len : (len + 1) + i - 1 = len + i
      BY <1>1
    <3> HIDE DEF v
    <3> QED
      BY <3>2, <3>3, <3>4
  <2> HIDE DEF v
  <2>7. ASSUME NEW i \in 1 .. rd - len PROVE Unread(c)[i] = v[i]
    <3>1. len + i \in 1 .. rd /\ (b.readerIndex_ + len) + i = b.readerIndex_ + (len + i)
      BY <1>1, <1>2
    <3> QED
      BY <1>1, <2>5, <2>6, <3>1
  <2>8. Unread(c) = v
    BY <2>5, <2>6, <2>7, SeqEqual
  <2>9. prependableBytes(b) <= prependableBytes(c)
    BY <1>1, <2>2 DEF prependableBytes
  <2>10. v = SubSeq(Unread(b), len + 1, Len(Unread(b)))
    BY <1>1 DEF v
  <2> QED
    BY <1>1, <2>1, <2>2, <2>3, <2>4, <2>8, <2>9, <2>10
<1>3. CASE ~(len < rd)
  <2> DEFINE c == retrieveAll(b)
  <2>1. retrieve(b, len) = c
    BY <1>1, <1>3 DEF retrieve
  <2>2. /\ c.buffer_ = b.buffer_ /\ c.readerIndex_ = kCheapPrepend /\ c.writerIndex_ = kCheapPrepend
        /\ c \in [buffer_ : Seq(Bytes), readerIndex_ : Nat, writerIndex_ : Nat]
    BY <1>1 DEF retrieveAll
  <2> HIDE DEF c
  <2>3. len = rd
    BY <1>1, <1>3
  <2>4. WellFormed(c)
    BY <1>1, <2>2 DEF WellFormed
  <2>5. readableBytes(c) = 0 /\ prependableBytes(c) = kCheapPrepend
    BY <1>1, <2>2 DEF readableBytes, prependableBytes
  <2>6. Unread(c) = <<>>
    <3>1. kCheapPrepend + 1 \in Int /\ kCheapPrepend \in Int /\ kCheapPrepend < kCheapPrepend + 1
      BY <1>1
    <3> QED
      BY <2>2, <3>1, SubSeqEmpty DEF Unread
  <2>7. SubSeq(u, len + 1, rd) = <<>>
    <3>1. len + 1 \in Int /\ rd \in Int /\ rd < len + 1
      BY <1>1, <2>3
    <3> QED
      BY <3>1, SubSeqEmpty
  <2>8. Len(Unread(b)) = rd
    BY <1>1
  <2> QED
    BY <1>1, <2>1, <2>2, <2>3, <2>4, <2>5, <2>6, <2>7, <2>8
<1> QED
  BY <1>2, <1>3

(* What retrieveAsString copies out is the front of the unread bytes. *)
LEMMA FrontFacts ==
  ASSUME NEW b, WellFormed(b), NEW len \in Nat, len <= readableBytes(b)
  PROVE  /\ SubSeq(b.buffer_, b.readerIndex_ + 1, b.readerIndex_ + len) = SubSeq(Unread(b), 1, len)
         /\ SubSeq(Unread(b), 1, len) \in Seq(Bytes)
<1> DEFINE rd == readableBytes(b)
           u  == Unread(b)
           r  == b.readerIndex_
           s  == b.buffer_
<1>1. /\ s \in Seq(Bytes) /\ Len(s) \in Nat /\ rd \in Nat /\ r \in Nat /\ r + rd <= Len(s)
      /\ len <= rd /\ u \in Seq(Bytes) /\ Len(u) = rd
      /\ \A i \in 1 .. rd : u[i] = s[r + i]
  BY SizesFacts, UnreadFacts DEF WellFormed
<1> HIDE DEF rd, u, r, s
<1>2. /\ SubSeq(s, r + 1, r + len) \in Seq(Bytes) /\ Len(SubSeq(s, r + 1, r + len)) = len
      /\ \A i \in 1 .. len : SubSeq(s, r + 1, r + len)[i] = s[r + i]
  <2> DEFINE v == SubSeq(s, r + 1, r + len)
  <2>1. \A i \in r + 1 .. r + len : s[i] \in Bytes
    BY <1>1, ElementOfSeq
  <2>2. /\ v \in Seq(Bytes)
        /\ Len(v) = IF r + 1 <= r + len THEN (r + len) - (r + 1) + 1 ELSE 0
        /\ \A i \in 1 .. (r + len) - (r + 1) + 1 : v[i] = s[(r + 1) + i - 1]
    BY <1>1, <2>1, SubSeqProperties
  <2>3. (r + len) - (r + 1) + 1 = len
    BY <1>1
  <2>4. \A i \in 1 .. len : (r + 1) + i - 1 = r + i
    BY <1>1
  <2> HIDE DEF v
  <2>5. Len(v) = len
    BY <1>1, <2>2, <2>3
  <2> QED
    BY <2>2, <2>3, <2>4, <2>5 DEF v
<1>3. /\ SubSeq(u, 1, len) \in Seq(Bytes) /\ Len(SubSeq(u, 1, len)) = len
      /\ \A i \in 1 .. len : SubSeq(u, 1, len)[i] = u[i]
  <2> DEFINE v == SubSeq(u, 1, len)
  <2>1. \A i \in 1 .. len : u[i] \in Bytes
    BY <1>1, ElementOfSeq
  <2>2. /\ v \in Seq(Bytes)
        /\ Len(v) = IF 1 <= len THEN len - 1 + 1 ELSE 0
        /\ \A i \in 1 .. len - 1 + 1 : v[i] = u[1 + i - 1]
    BY <1>1, <2>1, SubSeqProperties
  <2>3. len - 1 + 1 = len /\ \A i \in 1 .. len : 1 + i - 1 = i
    BY <1>1
  <2> HIDE DEF v
  <2>4. Len(v) = len
    BY <1>1, <2>2, <2>3
  <2> QED
    BY <2>2, <2>3, <2>4 DEF v
<1>4. \A i \in 1 .. len : i \in 1 .. rd
  BY <1>1
<1>5. SubSeq(s, r + 1, r + len) = SubSeq(u, 1, len)
  <2>1. \A i \in 1 .. len : SubSeq(s, r + 1, r + len)[i] = SubSeq(u, 1, len)[i]
    BY <1>1, <1>2, <1>3, <1>4
  <2> QED
    BY <1>2, <1>3, <2>1, SeqEqual
<1> QED
  BY <1>3, <1>5 DEF s, r, u
(* prepend puts the data before the unread bytes. *)
LEMMA PrependFacts ==
  ASSUME NEW b, WellFormed(b), NEW data \in Seq(Bytes), Len(data) <= prependableBytes(b)
  PROVE  LET c == prepend(b, data)
         IN  /\ WellFormed(c)
             /\ Unread(c) = data \o Unread(b)
             /\ readableBytes(c) = Len(data) + readableBytes(b)
             /\ Len(c.buffer_) = Len(b.buffer_)
<1> DEFINE c  == prepend(b, data)
           rd == readableBytes(b)
           n  == Len(data)
           u  == Unread(b)
           r  == b.readerIndex_
           p  == r - n
<1>1. /\ rd = readableBytes(b) /\ n = Len(data) /\ u = Unread(b)
      /\ b.buffer_ \in Seq(Bytes) /\ Len(b.buffer_) \in Nat /\ rd \in Nat /\ n \in Nat
      /\ b.readerIndex_ \in Nat /\ b.writerIndex_ \in Nat /\ b.writerIndex_ = r + rd
      /\ u \in Seq(Bytes) /\ Len(u) = rd
      /\ \A i \in 1 .. rd : u[i] = b.buffer_[r + i]
      /\ r = b.readerIndex_ /\ r \in Nat /\ n <= r /\ p \in Nat /\ p + n = r
  BY SizesFacts, UnreadFacts, LenProperties DEF prependableBytes
<1>2. /\ b \in [buffer_ : Seq(Bytes), readerIndex_ : Nat, writerIndex_ : Nat]
      /\ b.writerIndex_ <= Len(b.buffer_) /\ kCheapPrepend + kInitialSize <= Len(b.buffer_)
  BY DEF WellFormed
<1> HIDE DEF rd, n, u, r, p
<1>2a. /\ p \in Nat /\ n \in Nat /\ r \in Nat /\ rd \in Nat /\ Len(b.buffer_) \in Nat
       /\ p + n = r /\ r + rd <= Len(b.buffer_)
  BY <1>1, <1>2
<1>3. /\ Copy(b.buffer_, data, p) \in Seq(Bytes)
      /\ Len(Copy(b.buffer_, data, p)) = Len(b.buffer_)
      /\ \A i \in 1 .. Len(b.buffer_) :
           Copy(b.buffer_, data, p)[i] =
             IF i \in p + 1 .. p + n THEN data[i - p] ELSE b.buffer_[i]
  <2>1. p \in Nat /\ b.buffer_ \in Seq(Bytes)
    BY <1>1
  <2>2. /\ Copy(b.buffer_, data, p) \in Seq(Bytes)
        /\ Len(Copy(b.buffer_, data, p)) = Len(b.buffer_)
        /\ \A i \in 1 .. Len(b.buffer_) :
             Copy(b.buffer_, data, p)[i] =
               IF i \in p + 1 .. p + Len(data) THEN data[i - p] ELSE b.buffer_[i]
    BY <2>1, CopyFacts
  <2>3. n = Len(data)
    BY <1>1
  <2> QED
    BY <2>2, <2>3
<1>4. /\ c.buffer_ = Copy(b.buffer_, data, p)
      /\ c.readerIndex_ = p /\ c.writerIndex_ = b.writerIndex_
      /\ c \in [buffer_ : Seq(Bytes), readerIndex_ : Nat, writerIndex_ : Nat]
  <2>1. b.readerIndex_ - Len(data) = p
    BY DEF p, n, r
  <2> QED
    BY <1>1, <1>2, <1>3, <2>1 DEF prepend
<1> HIDE DEF c
<1>5. /\ c.buffer_ \in Seq(Bytes) /\ Len(c.buffer_) = Len(b.buffer_)
      /\ \A i \in 1 .. Len(b.buffer_) :
           c.buffer_[i] = IF i \in p + 1 .. p + n
                          THEN data[i - p] ELSE b.buffer_[i]
  BY <1>3, <1>4
<1>6. WellFormed(c)
  BY <1>1, <1>2, <1>4, <1>5 DEF WellFormed
<1>7. readableBytes(c) = n + rd
  BY <1>1, <1>4 DEF readableBytes
<1>8. /\ Unread(c) \in Seq(Bytes) /\ Len(Unread(c)) = n + rd
      /\ \A i \in 1 .. n + rd : Unread(c)[i] = c.buffer_[p + i]
  BY <1>4, <1>6, <1>7, UnreadFacts
<1>9. /\ data \o u \in Seq(Bytes) /\ Len(data \o u) = n + rd
      /\ \A i \in 1 .. n + rd : (data \o u)[i] = IF i <= n THEN data[i] ELSE u[i - n]
  <2>1. /\ data \o u \in Seq(Bytes) /\ Len(data \o u) = Len(data) + Len(u)
        /\ \A i \in 1 .. Len(data) + Len(u) :
             (data \o u)[i] = IF i <= Len(data) THEN data[i] ELSE u[i - Len(data)]
    BY <1>1, ConcatProperties, ZenonT(30)
  <2> QED
    BY <1>1, <2>1
<1>10. ASSUME NEW i \in 1 .. n + rd PROVE Unread(c)[i] = (data \o u)[i]
  <2>1. p + i \in 1 .. Len(b.buffer_)
    BY <1>2a
  <2>2. CASE i <= n
    <3>1. /\ p + i \in p + 1 .. p + n
          /\ (p + i) - p = i
      BY <1>2a, <2>2
    <3> QED
      BY <1>5, <1>8, <1>9, <2>1, <2>2, <3>1
  <2>3. CASE ~(i <= n)
    <3>1. /\ p + i \notin p + 1 .. p + n
          /\ i - n \in 1 .. rd /\ r + (i - n) = p + i
      BY <1>2a, <2>3
    <3> QED
      BY <1>1, <1>5, <1>8, <1>9, <2>1, <2>3, <3>1, ZenonT(30)
  <2> QED
    BY <2>2, <2>3
<1>11. Unread(c) = data \o u
  BY <1>1, <1>8, <1>9, <1>10, SeqEqual
<1> QED
  BY <1>1, <1>5, <1>6, <1>7, <1>11 DEF c

-----------------------------------------------------------------------------
(* The inductive invariant: what is unread stays within the callers' bound, and
   with it the vector. *)
BInv == TypeOK /\ BoundedGrowth /\ readableBytes(buf) <= MaxReadable

LEMMA StringFacts ==
  ASSUME NEW data \in Strings
  PROVE  data \in Seq(Bytes) /\ Len(data) \in 0 .. MaxReadable
<1>1. PICK n \in 0 .. MaxReadable : data \in [1 .. n -> Bytes]
  BY DEF Strings
<1>2. n \in Nat
  BY <1>1, BufferAssumption
<1> QED
  BY <1>1, <1>2, IsSequence

LEMMA BInvInit == Init => BInv /\ Unread(buf) = <<>>
<1> SUFFICES ASSUME Init PROVE BInv /\ Unread(buf) = <<>>
  OBVIOUS
<1> DEFINE bytes == Resize(<<>>, kCheapPrepend + kInitialSize)
<1>1. <<>> \in Seq(Bytes) /\ kCheapPrepend \in Nat /\ kInitialSize \in Nat /\ MaxReadable \in Nat
  BY BufferAssumption
<1>2. bytes \in Seq(Bytes) /\ Len(bytes) = kCheapPrepend + kInitialSize
  <2>1. kCheapPrepend + kInitialSize \in Nat
    BY <1>1
  <2> QED
    BY <1>1, <2>1, ResizeFacts
<1>3. /\ buf = [buffer_ |-> bytes, readerIndex_ |-> kCheapPrepend, writerIndex_ |-> kCheapPrepend]
      /\ result = <<>>
  BY DEF Init
<1> HIDE DEF bytes
<1>4. WellFormed(buf)
  BY <1>1, <1>2, <1>3 DEF WellFormed
<1>5. BoundedGrowth
  BY <1>1, <1>2, <1>3 DEF BoundedGrowth, Larger
<1>6. readableBytes(buf) = 0
  BY <1>1, <1>3 DEF readableBytes
<1>7. Unread(buf) = <<>>
  BY <1>4, <1>6, UnreadFacts, EmptySeq
<1> QED
  BY <1>1, <1>3, <1>4, <1>5, <1>6, <1>7 DEF BInv, TypeOK
(* What one step of the buffer does, in terms of its unread bytes. *)
StepFacts ==
  /\ TypeOK' /\ BoundedGrowth' /\ readableBytes(buf') <= MaxReadable
  /\ \/ \E data \in Strings : Prepend(data)
     \/ prependableBytes(buf') >= kCheapPrepend
     \/ prependableBytes(buf') >= prependableBytes(buf)
  /\ [Queue!Next]_(Queue!vars)

(* The vector a step leaves stays within the bound of BoundedGrowth. *)
LEMMA GrowthBound ==
  ASSUME BInv, NEW n \in Nat, NEW size \in Nat, readableBytes(buf) + n <= MaxReadable,
         size = Len(buf.buffer_) \/ size <= kCheapPrepend + readableBytes(buf) + 2 * n
  PROVE  size <= kCheapPrepend + Larger(kInitialSize, 2 * MaxReadable)
<1>1. /\ readableBytes(buf) \in Nat /\ kCheapPrepend \in Nat /\ kInitialSize \in Nat
      /\ MaxReadable \in Nat
  BY SizesFacts, BufferAssumption DEF BInv, TypeOK
<1>2. 2 * MaxReadable <= Larger(kInitialSize, 2 * MaxReadable)
      /\ Larger(kInitialSize, 2 * MaxReadable) \in Nat
  BY <1>1 DEF Larger
<1>3. readableBytes(buf) + 2 * n <= 2 * MaxReadable
  BY <1>1
<1>4. CASE size = Len(buf.buffer_)
  BY <1>4 DEF BInv, BoundedGrowth
<1>5. CASE size <= kCheapPrepend + readableBytes(buf) + 2 * n
  BY <1>1, <1>2, <1>3, <1>5
<1> QED
  BY <1>4, <1>5

LEMMA BufferStep == BInv /\ [Next]_vars => StepFacts
<1> SUFFICES ASSUME BInv, [Next]_vars PROVE StepFacts
  OBVIOUS
<1>1. /\ WellFormed(buf) /\ result \in Seq(Bytes) /\ readableBytes(buf) <= MaxReadable
      /\ readableBytes(buf) \in Nat /\ prependableBytes(buf) \in Nat
      /\ Unread(buf) \in Seq(Bytes) /\ Len(Unread(buf)) = readableBytes(buf)
      /\ kCheapPrepend \in Nat /\ MaxReadable \in Nat
  BY SizesFacts, UnreadFacts, BufferAssumption DEF BInv, TypeOK
<1>2. Queue!Strings = Strings
  BY DEF Queue!Strings, Strings
(* The two ways of putting data behind the unread bytes. *)
<1>3. ASSUME NEW data \in Strings, HasRoomFor(data), WellFormed(buf'), result' = result,
             Unread(buf') = Unread(buf) \o data,
             kCheapPrepend <= prependableBytes(buf') \/ prependableBytes(buf') = prependableBytes(buf),
             \/ Len(buf'.buffer_) = Len(buf.buffer_)
             \/ Len(buf'.buffer_) <= kCheapPrepend + readableBytes(buf) + 2 * Len(data)
      PROVE  StepFacts
  <2>1. data \in Seq(Bytes) /\ Len(data) \in Nat
    BY StringFacts, BufferAssumption
  <2>2. TypeOK'
    BY <1>1, <1>3 DEF TypeOK
  <2>3. Len(buf'.buffer_) \in Nat /\ prependableBytes(buf') \in Nat /\ readableBytes(buf') = Len(Unread(buf'))
    BY <1>3, SizesFacts, UnreadFacts
  <2>4. BoundedGrowth'
    BY <1>3, <2>1, <2>3, GrowthBound DEF HasRoomFor, BoundedGrowth
  <2>5. Len(Unread(buf) \o data) = readableBytes(buf) + Len(data)
    BY <1>1, <2>1, ConcatProperties
  <2>6. readableBytes(buf') <= MaxReadable
    BY <1>3, <2>3, <2>5 DEF HasRoomFor
  <2>7. Queue!Put(data)
    BY <1>1, <1>3 DEF Queue!Put, HasRoomFor
  <2>8. prependableBytes(buf') >= kCheapPrepend \/ prependableBytes(buf') >= prependableBytes(buf)
    BY <1>1, <1>3, <2>3
  <2> QED
    BY <1>2, <2>2, <2>4, <2>6, <2>7, <2>8 DEF StepFacts, Queue!Next
<1>4. ASSUME NEW data \in Strings, Append_(data) PROVE StepFacts
  <2>1. data \in Seq(Bytes) /\ buf' = append(buf, data)
    BY <1>4, StringFacts DEF Append_
  <2> QED
    BY <1>1, <1>3, <1>4, <2>1, AppendFacts DEF Append_
<1>5. ASSUME NEW data \in Strings, ReadFd(data) PROVE StepFacts
  <2>1. data \in Seq(Bytes) /\ buf' = readFd(buf, data)
    BY <1>5, StringFacts DEF ReadFd
  <2> QED
    BY <1>1, <1>3, <1>5, <2>1, ReadFdFacts DEF ReadFd
<1>6. ASSUME NEW data \in Strings, Prepend(data) PROVE StepFacts
  <2>1. /\ data \in Seq(Bytes) /\ Len(data) \in Nat /\ Len(data) <= prependableBytes(buf)
        /\ HasRoomFor(data) /\ buf' = prepend(buf, data) /\ result' = result
    BY <1>6, StringFacts, BufferAssumption DEF Prepend
  <2>2. /\ WellFormed(buf') /\ Unread(buf') = data \o Unread(buf)
        /\ readableBytes(buf') = Len(data) + readableBytes(buf)
        /\ Len(buf'.buffer_) = Len(buf.buffer_)
    BY <1>1, <2>1, PrependFacts
  <2>3. TypeOK' /\ BoundedGrowth' /\ readableBytes(buf') <= MaxReadable
    BY <1>1, <2>1, <2>2 DEF TypeOK, BInv, BoundedGrowth, HasRoomFor
  <2>4. Queue!PutBefore(data)
    BY <1>1, <2>1, <2>2 DEF Queue!PutBefore, HasRoomFor
  <2> QED
    BY <1>2, <1>6, <2>3, <2>4 DEF StepFacts, Queue!Next
<1>7. ASSUME NEW len \in 0 .. MaxReadable, Retrieve(len) \/ RetrieveAsString(len)
      PROVE  StepFacts
  <2>1. len \in Nat /\ len <= readableBytes(buf) /\ buf' = retrieve(buf, len)
    BY <1>1, <1>7 DEF Retrieve, RetrieveAsString
  <2>2. /\ WellFormed(buf')
        /\ Unread(buf') = SubSeq(Unread(buf), len + 1, Len(Unread(buf)))
        /\ readableBytes(buf') = readableBytes(buf) - len
        /\ kCheapPrepend <= prependableBytes(buf') \/ prependableBytes(buf) <= prependableBytes(buf')
        /\ Len(buf'.buffer_) = Len(buf.buffer_)
    BY <1>1, <2>1, RetrieveFacts
  <2>3. prependableBytes(buf') \in Nat
    BY <2>2, SizesFacts
  <2>4. /\ BoundedGrowth' /\ readableBytes(buf') <= MaxReadable
        /\ prependableBytes(buf') >= kCheapPrepend \/ prependableBytes(buf') >= prependableBytes(buf)
    BY <1>1, <2>1, <2>2, <2>3 DEF BInv, BoundedGrowth
  <2>5. /\ SubSeq(buf.buffer_, buf.readerIndex_ + 1, buf.readerIndex_ + len) = SubSeq(Unread(buf), 1, len)
        /\ SubSeq(Unread(buf), 1, len) \in Seq(Bytes)
    BY <1>1, <2>1, FrontFacts
  <2>6. CASE Retrieve(len)
    <3>1. Queue!Drop(len) /\ TypeOK'
      BY <1>1, <2>1, <2>2, <2>6 DEF Queue!Drop, Retrieve, TypeOK
    <3> QED
      BY <2>4, <3>1 DEF StepFacts, Queue!Next
  <2>7. CASE RetrieveAsString(len)
    <3>1. Queue!Take(len) /\ TypeOK'
      BY <1>1, <2>1, <2>2, <2>5, <2>7 DEF Queue!Take, RetrieveAsString, TypeOK
    <3> QED
      BY <2>4, <3>1 DEF StepFacts, Queue!Next
  <2> QED
    BY <1>7, <2>6, <2>7
<1>8. ASSUME NEW len \in 0 .. MaxReadable, EnsureWritableBytes(len) PROVE StepFacts
  <2>1. /\ len \in Nat /\ readableBytes(buf) + len <= MaxReadable
        /\ buf' = ensureWritableBytes(buf, len) /\ result' = result
    BY <1>1, <1>8 DEF EnsureWritableBytes
  <2>2. /\ WellFormed(buf') /\ Unread(buf') = Unread(buf)
        /\ readableBytes(buf') = readableBytes(buf)
        /\ kCheapPrepend <= prependableBytes(buf') \/ prependableBytes(buf') = prependableBytes(buf)
        /\ \/ Len(buf'.buffer_) = Len(buf.buffer_)
           \/ Len(buf'.buffer_) <= kCheapPrepend + readableBytes(buf) + 2 * len
    BY <1>1, <2>1, EnsureFacts
  <2>3. Len(buf'.buffer_) \in Nat /\ prependableBytes(buf') \in Nat
    BY <2>2, SizesFacts
  <2>4. BoundedGrowth'
    BY <2>1, <2>2, <2>3, GrowthBound DEF BoundedGrowth
  <2>5. TypeOK' /\ readableBytes(buf') <= MaxReadable
    BY <1>1, <2>1, <2>2 DEF TypeOK
  <2>6. prependableBytes(buf') >= kCheapPrepend \/ prependableBytes(buf') >= prependableBytes(buf)
    BY <1>1, <2>2, <2>3
  <2>7. UNCHANGED Queue!vars
    BY <2>1, <2>2 DEF Queue!vars
  <2> QED
    BY <2>4, <2>5, <2>6, <2>7 DEF StepFacts
<1>9. CASE UNCHANGED vars
  <2>1. buf' = buf /\ result' = result
    BY <1>9 DEF vars
  <2> QED
    BY <1>1, <2>1 DEF StepFacts, BInv, TypeOK, BoundedGrowth, Queue!vars
<1> QED
  BY <1>4, <1>5, <1>6, <1>7, <1>8, <1>9 DEF Next

THEOREM BufferInvariant == Spec => []BInv
<1>1. BInv /\ [Next]_vars => BInv'
  BY BufferStep DEF StepFacts, BInv
<1> QED
  BY <1>1, BInvInit, PTL DEF Spec

(* The indices of a buffer stay in order and within its vector, whatever the
   sizes and the operations. *)
THEOREM BufferTypeCorrect == Spec => []TypeOK
<1>1. BInv => TypeOK
  BY DEF BInv
<1> QED
  BY <1>1, BufferInvariant, PTL

(* The vector never grows past a bound that depends on the unread bytes alone. *)
THEOREM GrowthIsBounded == Spec => []BoundedGrowth
<1>1. BInv => BoundedGrowth
  BY DEF BInv
<1> QED
  BY <1>1, BufferInvariant, PTL

(* Nothing but prepend uses up the room for prepend. *)
THEOREM PrependRoomIsKept == Spec => PrependRoomKept
<1>1. BInv /\ [Next]_vars =>
        [\/ \E data \in Strings : Prepend(data)
         \/ prependableBytes(buf') >= kCheapPrepend
         \/ prependableBytes(buf') >= prependableBytes(buf)]_vars
  BY BufferStep DEF StepFacts
<1> QED
  BY <1>1, BufferInvariant, PTL DEF Spec, PrependRoomKept

(* A buffer is a queue of bytes: append, readFd, prepend and the retrieve
   functions see the same bytes in the same order however the vector is laid
   out, moved or grown. *)
THEOREM BufferIsQueue == Spec => ImplementsByteQueue
<1>1. Init => Queue!Init
  BY BInvInit DEF Init, Queue!Init
<1>2. BInv /\ [Next]_vars => [Queue!Next]_(Queue!vars)
  BY BufferStep DEF StepFacts
<1> QED
  BY <1>1, <1>2, BufferInvariant, PTL DEF Spec, ImplementsByteQueue, Queue!Spec
=============================================================================

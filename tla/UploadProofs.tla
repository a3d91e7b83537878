---------------------------- MODULE UploadProofs ----------------------------
(***************************************************************************)
(* Theorems about upload_file_cb, for every file and every size of the     *)
(* buffer and of the connection.                                           *)
(***************************************************************************)
EXTENDS Upload, SequenceTheorems, TLAPS

-----------------------------------------------------------------------------
(* Sequences.                                                              *)

\* u is s followed by the n elements of t that come after the first a.
Piece(S, s, t, a, n, u) ==
    /\ u \in Seq(S)
    /\ Len(u) = Len(s) + n
    /\ \A i \in 1 .. Len(s) : u[i] = s[i]
    /\ \A i \in 1 .. n : u[Len(s) + i] = t[a + i]

(* Appending a piece of a sequence to another.                             *)
LEMMA PieceFacts ==
    ASSUME NEW S, NEW s \in Seq(S), NEW t \in Seq(S),
           NEW a \in Nat, NEW n \in Nat, a + n <= Len(t),
           NEW u, u = s \o SubSeq(t, a + 1, a + n)
    PROVE  Piece(S, s, t, a, n, u)
<1> DEFINE p == SubSeq(t, a + 1, a + n)
<1>1. \A i \in a + 1 .. a + n : t[i] \in S
  OBVIOUS
<1>2. /\ p \in Seq(S)
      /\ Len(p) = n
      /\ \A i \in 1 .. n : p[i] = t[a + i]
  BY <1>1, SubSeqProperties
<1>3. u = s \o p
  OBVIOUS
<1> HIDE DEF p
<1>4. /\ u \in Seq(S)
      /\ Len(u) = Len(s) + n
      /\ \A i \in 1 .. Len(s) + n : u[i] = IF i <= Len(s) THEN s[i] ELSE p[i - Len(s)]
  <2>1. /\ s \o p \in Seq(S)
        /\ Len(s \o p) = Len(s) + Len(p)
        /\ \A i \in 1 .. Len(s) + Len(p) :
              (s \o p)[i] = IF i <= Len(s) THEN s[i] ELSE p[i - Len(s)]
    BY <1>2, ConcatProperties
  <2>. QED
    BY <1>2, <1>3, <2>1
<1>5. ASSUME NEW i \in 1 .. n
      PROVE  u[Len(s) + i] = t[a + i]
  <2>1. Len(s) \in Nat
    OBVIOUS
  <2>2. Len(s) + i \in 1 .. Len(s) + n /\ ~(Len(s) + i <= Len(s))
        /\ (Len(s) + i) - Len(s) = i
    BY <2>1
  <2>. QED
    BY <2>2, <1>2, <1>4
<1>6. \A i \in 1 .. Len(s) : u[i] = s[i]
  BY <1>4
<1>. QED
  BY <1>4, <1>5, <1>6 DEF Piece

-----------------------------------------------------------------------------
(* Upload: the inductive invariant.                                        *)

\* How much of what was read has been dealt with: all but the bytes of the
\* buffer that are still to be written.
Settled == Taken - Len(buf) + written

ControlInv ==
    /\ pc # "store" => written = 0
    /\ pc = "loop" => buf = <<>>
    /\ final # "none" <=> pc = "ended"

\* The buffer holds the bytes read last.
BufferInv ==
    /\ Settled \in Nat
    /\ \A i \in 1 .. Len(buf) : buf[i] = Taken - Len(buf) + i

\* The file has no byte that is still to be dealt with.
StoredInv ==
    /\ StoredInOrder
    /\ \A i \in 1 .. Len(stored) : stored[i] <= Settled

\* Without a cut the file is what was dealt with.
WholeInv ==
    cut = {} => /\ Len(stored) = Settled
                /\ \A i \in 1 .. Len(stored) : stored[i] = i

\* 226 is replied at the end of the connection, with nothing left to store,
\* and the client closes it after its last byte.
CompleteInv ==
    /\ client = "closed" => put = FileLen
    /\ final = "226" => inflight = 0 /\ client = "closed" /\ buf = <<>>

IInv ==
    /\ TypeOK
    /\ ControlInv
    /\ BufferInv
    /\ StoredInv
    /\ WholeInv
    /\ CompleteInv

-----------------------------------------------------------------------------
(* Nothing is read at first.                                               *)
LEMMA InitIInv == Init => IInv
<1> SUFFICES ASSUME Init PROVE IInv
  OBVIOUS
<1> USE ConstAssumption DEF Init
<1>1. TypeOK
  BY DEF TypeOK
<1>2. Settled = 0 /\ Taken = 0
  <2>1. Len(buf) = 0 /\ written = 0
    OBVIOUS
  <2>2. Taken = 0
    BY DEF Taken
  <2> HIDE DEF Init
  <2>. QED
    BY <2>1, <2>2 DEF Settled
<1>3. ControlInv /\ CompleteInv
  BY DEF ControlInv, CompleteInv
<1>4. BufferInv /\ StoredInv /\ WholeInv
  BY <1>2 DEF BufferInv, StoredInv, StoredInOrder, WholeInv
<1>. QED
  BY <1>1, <1>3, <1>4 DEF IInv

(* The client's steps do not touch what the server has read.               *)
LEMMA ClientPreserves == IInv /\ (Put \/ Leave) => IInv'
<1> SUFFICES ASSUME IInv, Put \/ Leave PROVE IInv'
  OBVIOUS
<1> USE ConstAssumption DEF IInv, TypeOK
<1>1. /\ UNCHANGED <<pc, buf, written, stored, cut, final>>
      /\ put' \in 0 .. FileLen /\ inflight' \in 0 .. SockSize /\ inflight' <= put'
      /\ put' - inflight' = put - inflight
      /\ client = "sending" /\ client' \in {"sending", "closed", "reset"}
      /\ client' = "closed" => put' = FileLen
  <2>1. CASE Leave
    BY <2>1 DEF Leave
  <2>2. ASSUME NEW n \in Upto(FileLen - put, SockSize - inflight),
               put' = put + n, inflight' = inflight + n
        PROVE  /\ put' \in 0 .. FileLen /\ inflight' \in 0 .. SockSize
               /\ inflight' <= put' /\ put' - inflight' = put - inflight
    BY <2>2 DEF Upto
  <2>. QED
    BY <2>1, <2>2 DEF Put
<1>2. TypeOK'
  BY <1>1
<1>3. Settled' = Settled /\ Taken' = Taken
  BY <1>1 DEF Settled, Taken
<1>4. ControlInv' /\ BufferInv' /\ StoredInv' /\ WholeInv' /\ CompleteInv'
  BY <1>1, <1>3 DEF ControlInv, BufferInv, StoredInv, StoredInOrder, WholeInv,
     CompleteInv
<1>. QED
  BY <1>2, <1>4

-----------------------------------------------------------------------------
(* readn appends what it reads to the buffer (file_opr.cpp:166-190).       *)
LEMMA ReadPreserves == IInv /\ ReadSome => IInv'
<1> SUFFICES ASSUME IInv, ReadSome PROVE IInv'
  OBVIOUS
<1>1. PICK n \in Upto(Room, inflight) :
          /\ buf' = buf \o SubSeq(Source, Taken + 1, Taken + n)
          /\ inflight' = inflight - n
  BY DEF ReadSome
<1>2. /\ pc = "read" /\ Len(buf) < BufSize
      /\ UNCHANGED <<pc, client, put, written, stored, cut, final>>
  BY DEF ReadSome, ClientVars
<1>3. /\ buf \in Seq(1 .. FileLen) /\ Len(buf) \in Nat
      /\ put \in 0 .. FileLen /\ inflight \in 0 .. SockSize /\ inflight <= put
      /\ FileLen \in Nat /\ SockSize \in Nat /\ BufSize \in Nat
      /\ written \in 0 .. Len(buf)
  BY ConstAssumption DEF IInv, TypeOK
<1>4. /\ n \in Nat /\ n >= 1 /\ n <= inflight /\ n <= BufSize - Len(buf)
      /\ Taken \in Nat /\ Taken + n <= FileLen
  BY <1>1, <1>3 DEF Upto, Room, Taken
<1>5. /\ buf' \in Seq(1 .. FileLen)
      /\ Len(buf') = Len(buf) + n
      /\ \A i \in 1 .. Len(buf) : buf'[i] = buf[i]
      /\ \A i \in 1 .. n : buf'[Len(buf) + i] = Taken + i
  <2>1. /\ Source \in Seq(1 .. FileLen) /\ Len(Source) = FileLen
        /\ \A i \in 1 .. FileLen : Source[i] = i
    BY <1>3 DEF Source
  <2>2. /\ buf' \in Seq(1 .. FileLen)
        /\ Len(buf') = Len(buf) + n
        /\ \A i \in 1 .. Len(buf) : buf'[i] = buf[i]
        /\ \A i \in 1 .. n : buf'[Len(buf) + i] = Source[Taken + i]
    <3>1. buf \in Seq(1 .. FileLen) /\ Source \in Seq(1 .. FileLen)
      BY <1>3, <2>1
    <3>2. Taken \in Nat /\ n \in Nat /\ Taken + n <= Len(Source)
      BY <1>4, <2>1
    <3>3. Piece(1 .. FileLen, buf, Source, Taken, n, buf')
      BY <1>1, <3>1, <3>2, PieceFacts
    <3>. QED
      BY <3>3 DEF Piece
  <2>3. \A i \in 1 .. n : Taken + i \in 1 .. FileLen
    BY <1>3, <1>4
  <2>. QED
    BY <2>1, <2>2, <2>3
<1>6. Taken' = Taken + n /\ Settled' = Settled
  BY <1>1, <1>2, <1>3, <1>4, <1>5 DEF Taken, Settled
<1>7. TypeOK'
  BY <1>1, <1>2, <1>3, <1>4, <1>5 DEF IInv, TypeOK
<1>8. BufferInv'
  <2>1. ASSUME NEW i \in 1 .. Len(buf') PROVE buf'[i] = Taken' - Len(buf') + i
    <3>1. CASE i <= Len(buf)
      BY <1>3, <1>4, <1>5, <1>6, <3>1 DEF IInv, BufferInv
    <3>2. CASE i > Len(buf)
      <4> DEFINE j == i - Len(buf)
      <4>1. j \in 1 .. n /\ i = Len(buf) + j
        BY <1>3, <1>4, <1>5, <3>2
      <4>2. buf'[i] = Taken + j
        BY <1>5, <4>1
      <4>. QED
        BY <1>3, <1>4, <1>5, <1>6, <4>1, <4>2
    <3>. QED
      BY <1>3, <1>4, <1>5, <3>1, <3>2
  <2>. QED
    BY <1>6, <2>1 DEF IInv, BufferInv
<1>9. ControlInv' /\ StoredInv' /\ WholeInv' /\ CompleteInv'
  BY <1>1, <1>2, <1>6
     DEF IInv, ControlInv, StoredInv, StoredInOrder, WholeInv, CompleteInv
<1>. QED
  BY <1>7, <1>8, <1>9 DEF IInv

(* writen appends bytes of the buffer to the file (file_opr.cpp:193-217).  *)
LEMMA StorePreserves == IInv /\ StoreSome => IInv'
<1> SUFFICES ASSUME IInv, StoreSome PROVE IInv'
  OBVIOUS
<1>1. PICK n \in 1 .. Len(buf) - written :
          /\ stored' = stored \o NextBytes(n)
          /\ written' = written + n
  BY DEF StoreSome
<1>2. /\ pc = "store"
      /\ UNCHANGED <<pc, client, put, inflight, buf, cut, final>>
  BY DEF StoreSome, ClientVars
<1>3. /\ buf \in Seq(1 .. FileLen) /\ Len(buf) \in Nat
      /\ stored \in Seq(1 .. FileLen) /\ Len(stored) \in Nat
      /\ DOMAIN stored = 1 .. Len(stored)
      /\ put \in Nat /\ inflight \in Nat /\ inflight <= put /\ FileLen \in Nat
  BY ConstAssumption DEF IInv, TypeOK
<1>4. /\ n \in Nat /\ n >= 1 /\ written \in Nat /\ written + n <= Len(buf)
      /\ Settled \in Nat /\ Taken \in Nat
  BY <1>3 DEF Taken, BufferInv, IInv, TypeOK
<1>5. Taken' = Taken /\ Settled' = Settled + n
  BY <1>1, <1>2, <1>3, <1>4 DEF Taken, Settled
<1>6. /\ stored' \in Seq(1 .. FileLen)
      /\ Len(stored') = Len(stored) + n
      /\ \A i \in 1 .. Len(stored) : stored'[i] = stored[i]
      /\ \A i \in 1 .. n : stored'[Len(stored) + i] = Settled + i
  <2>1. /\ stored' \in Seq(1 .. FileLen)
        /\ Len(stored') = Len(stored) + n
        /\ \A i \in 1 .. Len(stored) : stored'[i] = stored[i]
        /\ \A i \in 1 .. n : stored'[Len(stored) + i] = buf[written + i]
    <3>1. stored' = stored \o SubSeq(buf, written + 1, written + n)
      BY <1>1 DEF NextBytes
    <3>2. written \in Nat /\ n \in Nat /\ written + n <= Len(buf)
      BY <1>3, <1>4
    <3>3. stored \in Seq(1 .. FileLen) /\ buf \in Seq(1 .. FileLen)
      BY <1>3
    <3>4. Piece(1 .. FileLen, stored, buf, written, n, stored')
      BY <3>1, <3>2, <3>3, PieceFacts
    <3>. QED
      BY <3>4 DEF Piece
  <2>2. \A i \in 1 .. n : buf[written + i] = Settled + i
    BY <1>3, <1>4 DEF IInv, BufferInv, Settled
  <2>. QED
    BY <2>1, <2>2
<1>7. TypeOK'
  BY <1>1, <1>2, <1>4, <1>6 DEF IInv, TypeOK
<1> DEFINE old == 1 .. Len(stored)
           new == Len(stored) + 1 .. Len(stored) + n
<1>8. /\ DOMAIN stored' = old \cup new
      /\ \A i \in old : /\ stored'[i] = stored[i] /\ stored'[i] \in Nat
                        /\ stored'[i] <= Settled
      /\ \A i \in new : stored'[i] = Settled + (i - Len(stored))
  <2>1. DOMAIN stored' = old \cup new
    <3>1. DOMAIN stored' = 1 .. Len(stored')
      BY <1>6
    <3>2. Len(stored) \in Nat /\ n \in Nat /\ Len(stored') = Len(stored) + n
      BY <1>3, <1>4, <1>6
    <3>. QED
      BY <3>1, <3>2
  <2>2. \A i \in old : stored[i] \in Nat /\ stored[i] <= Settled
    BY <1>3 DEF IInv, StoredInv
  <2>3. ASSUME NEW i \in new PROVE stored'[i] = Settled + (i - Len(stored))
    <3> DEFINE j == i - Len(stored)
    <3>1. j \in 1 .. n /\ i = Len(stored) + j
      BY <1>3, <1>4
    <3>. QED
      BY <1>6, <3>1
  <2>. QED
    BY <1>6, <2>1, <2>2, <2>3
<1>9. StoredInv'
  <2>1. ASSUME NEW i \in DOMAIN stored', NEW j \in DOMAIN stored', i < j
        PROVE  stored'[i] < stored'[j]
    <3>1. CASE j \in old
      <4>1. i \in old
        BY <1>3, <1>4, <1>8, <2>1, <3>1
      <4>. QED
        BY <1>3, <1>8, <2>1, <3>1, <4>1 DEF IInv, StoredInv, StoredInOrder
    <3>2. CASE i \in old /\ j \in new
      BY <1>3, <1>4, <1>8, <3>2
    <3>3. CASE i \in new /\ j \in new
      BY <1>3, <1>4, <1>8, <2>1, <3>3
    <3>. QED
      BY <1>3, <1>4, <1>8, <2>1, <3>1, <3>2, <3>3
  <2>2. \A i \in DOMAIN stored' : stored'[i] <= Settled'
    BY <1>3, <1>4, <1>5, <1>8
  <2>3. DOMAIN stored' = 1 .. Len(stored')
    BY <1>6
  <2>. QED
    BY <2>1, <2>2, <2>3 DEF StoredInv, StoredInOrder
<1>10. WholeInv'
  <2> SUFFICES ASSUME cut = {}
               PROVE  /\ Len(stored') = Settled'
                      /\ \A i \in 1 .. Len(stored') : stored'[i] = i
    BY <1>2 DEF WholeInv
  <2>1. Len(stored) = Settled /\ \A i \in old : stored[i] = i
    BY DEF IInv, WholeInv
  <2>2. \A i \in DOMAIN stored' : stored'[i] = i
    BY <1>3, <1>4, <1>8, <2>1
  <2>. QED
    BY <1>5, <1>6, <2>1, <2>2
<1>11. ControlInv' /\ BufferInv' /\ CompleteInv'
  BY <1>2, <1>4, <1>5 DEF IInv, ControlInv, BufferInv, CompleteInv
<1>. QED
  BY <1>7, <1>9, <1>10, <1>11 DEF IInv

-----------------------------------------------------------------------------
(* The other steps of the callback.                                        *)
LEMMA CallbackPreserves ==
    IInv /\ (Callback \/ ReadZero \/ ReadBlocked \/ ReadError) => IInv'
<1> SUFFICES ASSUME IInv, Callback \/ ReadZero \/ ReadBlocked \/ ReadError
             PROVE  IInv'
  OBVIOUS
<1>1. UNCHANGED <<inflight, put, client, written, stored>>
  BY DEF Callback, ReadZero, ReadBlocked, ReadError, ClientVars
<1>2. CASE UNCHANGED <<buf, cut>>
  <2>1. Settled' = Settled /\ Taken' = Taken
    BY <1>1, <1>2 DEF Settled, Taken
  <2>2. BufferInv' /\ StoredInv' /\ WholeInv'
    BY <1>1, <1>2, <2>1 DEF IInv, BufferInv, StoredInv, StoredInOrder, WholeInv
  <2>3. TypeOK' /\ ControlInv' /\ CompleteInv'
    BY <1>1, <1>2, ConstAssumption
       DEF IInv, TypeOK, ControlInv, CompleteInv, Callback, ReadZero, AtEnd, Block,
           End, ReadBlocked, ReadError
  <2>. QED
    BY <2>2, <2>3 DEF IInv
<1>3. CASE ReadBlocked
  <2>1. /\ pc = "read" /\ pc' = "loop" /\ buf' = <<>> /\ UNCHANGED final
        /\ client = "sending"
        /\ cut' \in SUBSET {"blocked", "disk"}
        /\ cut \subseteq cut' /\ (buf # <<>> => cut' # {})
    BY <1>3 DEF ReadBlocked, CutIf, IInv, TypeOK
  <2>2. written = 0 /\ buf \in Seq(1 .. FileLen) /\ put \in Nat /\ inflight \in Nat
        /\ inflight <= put
    BY <2>1, ConstAssumption DEF IInv, ControlInv, TypeOK
  <2>3. Taken' = Taken /\ Settled' = Taken /\ Settled' >= Settled /\ Settled' \in Nat
        /\ Settled \in Nat /\ (buf = <<>> => Settled' = Settled)
    BY <1>1, <2>1, <2>2 DEF Taken, Settled, IInv, BufferInv
  <2>4. TypeOK' /\ ControlInv' /\ CompleteInv'
    BY <1>1, <2>1, <2>2, ConstAssumption DEF IInv, TypeOK, ControlInv, CompleteInv
  <2>5. BufferInv'
    BY <2>1, <2>3 DEF BufferInv
  <2>6. StoredInv'
    <3>1. \A i \in 1 .. Len(stored) : stored[i] \in Nat /\ stored[i] <= Settled
      <4>1. stored \in Seq(1 .. FileLen) /\ FileLen \in Nat
        BY ConstAssumption DEF IInv, TypeOK
      <4>. QED
        BY <4>1 DEF IInv, StoredInv
    <3>. QED
      BY <1>1, <2>3, <3>1 DEF IInv, StoredInv, StoredInOrder
  <2>7. WholeInv'
    BY <1>1, <2>1, <2>3 DEF IInv, WholeInv
  <2>. QED
    BY <2>4, <2>5, <2>6, <2>7 DEF IInv
<1>. QED
  BY <1>2, <1>3 DEF Callback, ReadZero, ReadError

(* The end of a block: all of it is stored, or a write failed.             *)
LEMMA BlockPreserves == IInv /\ (StoredAll \/ StoreError) => IInv'
<1> SUFFICES ASSUME IInv, StoredAll \/ StoreError PROVE IInv'
  OBVIOUS
<1>1. pc = "store" /\ UNCHANGED <<inflight, put, client, stored>>
  BY DEF StoredAll, StoreError, ClientVars
<1>2. /\ buf \in Seq(1 .. FileLen) /\ Len(buf) \in Nat
      /\ written \in 0 .. Len(buf) /\ put \in Nat /\ inflight \in Nat
      /\ inflight <= put
  BY ConstAssumption DEF IInv, TypeOK
<1>3. CASE NextBlock
  <2>1. /\ pc' = "read" /\ written' = 0 /\ buf' = <<>> /\ UNCHANGED final
        /\ cut' \in SUBSET {"blocked", "disk"} /\ cut \subseteq cut'
        /\ written # Len(buf) => cut' # {}
    BY <1>3 DEF NextBlock, StoredAll, StoreError, CutIf, IInv, TypeOK
  <2>2. Taken' = Taken /\ Settled' = Taken /\ Settled' >= Settled /\ Settled' \in Nat
        /\ Settled \in Nat /\ (written = Len(buf) => Settled' = Settled)
    BY <1>1, <1>2, <2>1 DEF Taken, Settled, IInv, BufferInv
  <2>3. TypeOK' /\ ControlInv' /\ CompleteInv'
    BY <1>1, <1>2, <2>1, ConstAssumption
       DEF IInv, TypeOK, ControlInv, CompleteInv
  <2>4. BufferInv'
    BY <2>1, <2>2 DEF BufferInv
  <2>5. StoredInv'
    <3>1. \A i \in 1 .. Len(stored) : stored[i] \in Nat /\ stored[i] <= Settled
      <4>1. stored \in Seq(1 .. FileLen) /\ FileLen \in Nat
        BY ConstAssumption DEF IInv, TypeOK
      <4>. QED
        BY <4>1 DEF IInv, StoredInv
    <3>. QED
      BY <1>1, <2>2, <3>1 DEF IInv, StoredInv, StoredInOrder
  <2>6. WholeInv'
    BY <1>1, <2>1, <2>2 DEF IInv, WholeInv
  <2>. QED
    BY <2>3, <2>4, <2>5, <2>6 DEF IInv
<1>4. CASE written = 0 /\ End("426") /\ UNCHANGED <<buf, written, cut>>
  <2>1. Settled' = Settled /\ Taken' = Taken
    BY <1>1, <1>4 DEF Settled, Taken
  <2>2. BufferInv' /\ StoredInv' /\ WholeInv'
    BY <1>1, <1>4, <2>1 DEF IInv, BufferInv, StoredInv, StoredInOrder, WholeInv
  <2>3. TypeOK' /\ ControlInv' /\ CompleteInv'
    BY <1>1, <1>2, <1>4, ConstAssumption
       DEF IInv, TypeOK, ControlInv, CompleteInv, End
  <2>. QED
    BY <2>2, <2>3 DEF IInv
<1>. QED
  BY <1>3, <1>4 DEF StoredAll, StoreError

-----------------------------------------------------------------------------
(* IInv holds in every state of every behaviour of an upload.              *)
THEOREM IInvHolds == Spec => []IInv
<1>1. IInv /\ [Next]_vars => IInv'
  <2> SUFFICES ASSUME IInv, [Next]_vars PROVE IInv'
    OBVIOUS
  <2>1. CASE Server
    BY <2>1, ReadPreserves, StorePreserves, CallbackPreserves, BlockPreserves
       DEF Server
  <2>2. CASE Put \/ Leave
    BY <2>2, ClientPreserves
  <2>3. CASE UNCHANGED vars
    BY <2>3 DEF vars, IInv, TypeOK, ControlInv, BufferInv, Settled, Taken,
       StoredInv, StoredInOrder, WholeInv, CompleteInv
  <2>. QED
    BY <2>1, <2>2, <2>3 DEF Next
<1>. QED
  BY InitIInv, <1>1, PTL DEF Spec

(* What was read and is not cut short is in the file or in the buffer:     *)
(* the invariant's account of it, as one sequence.                         *)
LEMMA NothingIsDropped == IInv => NothingDropped
<1> SUFFICES ASSUME IInv, cut = {}
             PROVE  SubSeq(Source, 1, Taken)
                        = stored \o SubSeq(buf, written + 1, Len(buf))
  BY DEF NothingDropped
<1>1. /\ buf \in Seq(1 .. FileLen) /\ Len(buf) \in Nat
      /\ stored \in Seq(1 .. FileLen) /\ Len(stored) \in Nat
      /\ written \in Nat /\ written <= Len(buf)
      /\ Taken \in Nat /\ Taken <= FileLen /\ FileLen \in Nat
  BY ConstAssumption DEF IInv, TypeOK, Taken
<1>2. Settled = Len(stored) /\ \A i \in 1 .. Len(stored) : stored[i] = i
  BY DEF IInv, WholeInv
<1> DEFINE n == Len(buf) - written
           u == stored \o SubSeq(buf, written + 1, Len(buf))
           p == SubSeq(Source, 1, Taken)
<1>3. n \in Nat /\ written + n = Len(buf) /\ Len(stored) + n = Taken
  BY <1>1, <1>2 DEF Settled
<1>4. /\ u \in Seq(1 .. FileLen) /\ Len(u) = Taken
      /\ \A i \in 1 .. Len(stored) : u[i] = stored[i]
      /\ \A i \in 1 .. n : u[Len(stored) + i] = buf[written + i]
  <2> DEFINE last == Len(buf)
  <2>1. /\ last = written + n /\ written \in Nat /\ n \in Nat
        /\ written + n <= Len(buf)
    BY <1>1, <1>3
  <2>2. u = stored \o SubSeq(buf, written + 1, last)
    OBVIOUS
  <2> HIDE DEF n, u, last
  <2>3. u = stored \o SubSeq(buf, written + 1, written + n)
    BY <2>1, <2>2
  <2>4. stored \in Seq(1 .. FileLen) /\ buf \in Seq(1 .. FileLen)
    BY <1>1
  <2>5. Piece(1 .. FileLen, stored, buf, written, n, u)
    BY <2>1, <2>3, <2>4, PieceFacts
  <2>. QED
    BY <1>3, <2>5 DEF Piece
<1>5. \A i \in 1 .. Taken : u[i] = i
  <2> HIDE DEF n, u
  <2> SUFFICES ASSUME NEW i \in 1 .. Taken PROVE u[i] = i
    OBVIOUS
  <2>1. CASE i <= Len(stored)
    BY <1>1, <1>2, <1>4, <2>1
  <2>2. CASE i > Len(stored)
    <3> DEFINE j == i - Len(stored)
    <3>1. j \in 1 .. n /\ i = Len(stored) + j
      BY <1>1, <1>3, <2>2
    <3> HIDE DEF j
    <3>2. u[i] = buf[written + j]
      BY <1>4, <3>1
    <3>3. buf[written + j] = Taken - Len(buf) + (written + j)
      <4>1. written + j \in 1 .. Len(buf)
        BY <1>1, <1>3, <3>1
      <4>. QED
        BY <4>1 DEF IInv, BufferInv
    <3>4. Taken - Len(buf) + (written + j) = i
      <4>1. n \in Int /\ j \in Int /\ i \in Int
        BY <1>3, <3>1
      <4>2. Taken = Len(stored) + n /\ Len(buf) = written + n
        BY <1>3
      <4>. QED
        BY <1>1, <3>1, <4>1, <4>2
    <3>. QED
      BY <3>2, <3>3, <3>4
  <2>. QED
    BY <1>1, <2>1, <2>2
<1>6. /\ p \in Seq(1 .. FileLen) /\ Len(p) = Taken
      /\ \A i \in 1 .. Taken : p[i] = i
  <2>1. \A i \in 1 .. Taken : Source[i] \in 1 .. FileLen /\ Source[i] = i
    BY <1>1 DEF Source
  <2>. QED
    BY <1>1, <2>1, SubSeqProperties
<1>7. p = u
  <2> HIDE DEF p, u
  <2>. QED
    BY <1>4, <1>5, <1>6, SeqEqual
<1>. QED
  BY <1>3, <1>7

(* The state invariant of an upload: the file holds no byte twice or out   *)
(* of order, and as long as no block was cut short every byte read is in   *)
(* the file or in the buffer (ftp_server.cpp:855-881).                     *)
THEOREM UploadInvariant == Spec => []Inv
<1>1. IInv => Inv
  BY NothingIsDropped DEF IInv, StoredInv, Inv
<1>. QED
  BY IInvHolds, <1>1, PTL

(* 226 is replied for a file that is whole, as long as no block was cut    *)
(* short (ftp_server.cpp:867-871).                                         *)
THEOREM WholeOnSuccess == Spec => []WholeUnlessCut
<1>1. IInv => WholeUnlessCut
  <2> SUFFICES ASSUME IInv, final = "226", cut = {} PROVE stored = Source
    BY DEF WholeUnlessCut
  <2>1. /\ stored \in Seq(1 .. FileLen) /\ FileLen \in Nat
        /\ written \in 0 .. Len(buf)
    BY ConstAssumption DEF IInv, TypeOK
  <2>2. inflight = 0 /\ put = FileLen /\ buf = <<>>
    BY DEF IInv, CompleteInv
  <2>3. Settled = FileLen
    BY <2>1, <2>2 DEF Settled, Taken
  <2>4. Len(stored) = FileLen /\ \A i \in 1 .. FileLen : stored[i] = i
    BY <2>3 DEF IInv, WholeInv
  <2>5. /\ Source \in Seq(1 .. FileLen) /\ Len(Source) = FileLen
        /\ \A i \in 1 .. FileLen : Source[i] = i
    BY <2>1 DEF Source
  <2>. QED
    BY <2>1, <2>4, <2>5, SeqEqual
<1>. QED
  BY IInvHolds, <1>1, PTL

=============================================================================

--------------------------- MODULE DownloadProofs ---------------------------
(***************************************************************************)
(* Theorems about download_file_cb, for every file and every size of the   *)
(* buffer and of the connection.                                           *)
(***************************************************************************)
EXTENDS Download, SequenceTheorems, TLAPS

-----------------------------------------------------------------------------
(* Sequences.                                                              *)

\* u is s followed by the n elements of t that come after the first a.
Piece(S, s, t, a, n, u) ==
    /\ u \in Seq(S)
    /\ Len(u) = Len(s) + n
    /\ \A i \in 1 .. Len(s) : u[i] = s[i]
    /\ \A i \in 1 .. n : u[Len(s) + i] = t[a + i]

(* Appending a piece of a sequence to another.                             *)
LEMMA PieceFacts ==
    ASSUME NEW S, NEW s \in Seq(S), NEW t \in Seq(S),
           NEW a \in Nat, NEW n \in Nat, a + n <= Len(t),
           NEW u, u = s \o SubSeq(t, a + 1, a + n)
    PROVE  Piece(S, s, t, a, n, u)
<1> DEFINE p == SubSeq(t, a + 1, a + n)
<1>1. \A i \in a + 1 .. a + n : t[i] \in S
  OBVIOUS
<1>2. /\ p \in Seq(S)
      /\ Len(p) = n
      /\ \A i \in 1 .. n : p[i] = t[a + i]
  BY <1>1, SubSeqProperties
<1>3. u = s \o p
  OBVIOUS
<1> HIDE DEF p
<1>4. /\ u \in Seq(S)
      /\ Len(u) = Len(s) + n
      /\ \A i \in 1 .. Len(s) + n : u[i] = IF i <= Len(s) THEN s[i] ELSE p[i - Len(s)]
  <2>1. /\ s \o p \in Seq(S)
        /\ Len(s \o p) = Len(s) + Len(p)
        /\ \A i \in 1 .. Len(s) + Len(p) :
              (s \o p)[i] = IF i <= Len(s) THEN s[i] ELSE p[i - Len(s)]
    BY <1>2, ConcatProperties
  <2>. QED
    BY <1>2, <1>3, <2>1
<1>5. ASSUME NEW i \in 1 .. n
      PROVE  u[Len(s) + i] = t[a + i]
  <2>1. Len(s) \in Nat
    OBVIOUS
  <2>2. Len(s) + i \in 1 .. Len(s) + n /\ ~(Len(s) + i <= Len(s))
        /\ (Len(s) + i) - Len(s) = i
    BY <2>1
  <2>. QED
    BY <2>2, <1>2, <1>4
<1>6. \A i \in 1 .. Len(s) : u[i] = s[i]
  BY <1>4
<1>. QED
  BY <1>4, <1>5, <1>6 DEF Piece

(* A sequence that agrees with another one is a prefix of it.              *)
LEMMA PrefixFacts ==
    ASSUME NEW S, NEW s \in Seq(S), NEW t \in Seq(S), Len(s) <= Len(t),
           \A i \in 1 .. Len(s) : s[i] = t[i]
    PROVE  s = SubSeq(t, 1, Len(s))
<1> DEFINE p == SubSeq(t, 1, Len(s))
<1>1. Len(s) \in Nat
  OBVIOUS
<1>2. /\ p \in Seq(S)
      /\ Len(p) = Len(s)
      /\ \A i \in 1 .. Len(s) : p[i] = t[i]
  <2>1. \A i \in 1 .. Len(s) : t[i] \in S
    OBVIOUS
  <2>. QED
    BY <1>1, <2>1, SubSeqProperties
<1> HIDE DEF p
<1>3. s = p
  BY <1>1, <1>2, SeqEqual
<1>. QED
  BY <1>3 DEF p

-----------------------------------------------------------------------------
(* Download: the inductive invariant.                                      *)

\* What was sent is a prefix of what was read.
SentPrefix ==
    /\ Len(sent) <= pos
    /\ \A i \in 1 .. Len(sent) : sent[i] = File[i]

\* The buffer holds the block that was read last.
BufBlock ==
    /\ Len(buf) <= pos
    /\ \A i \in 1 .. Len(buf), j \in Nat :
          j + Len(buf) = pos + i => buf[i] = File[j]

\* What was sent ends where the rest of the buffer begins.
Position ==
    size # Wrapped =>
        /\ offset + written <= Len(buf)
        /\ Len(sent) + Len(buf) = pos + offset + written

\* Between two calls of readn the size is the length of the block.
SizeInv ==
    /\ pc \in {"loop", "fill", "send"} => size \in {Len(buf), Wrapped}
    /\ pc \in {"loop", "fill", "read"} => size # Wrapped /\ written = 0
    /\ pc = "read" => size = 0 /\ offset = 0
    /\ size = Wrapped => offset = 0 /\ written = 0 /\ pc \in {"send", "ended"}

FinalInv ==
    /\ final = "none" <=> pc # "ended"
    /\ final = "226" => sent = File /\ size # Wrapped

IInv ==
    /\ TypeOK
    /\ SentPrefix
    /\ BufBlock
    /\ Position
    /\ SizeInv
    /\ FinalInv

-----------------------------------------------------------------------------
(* The initial states satisfy the invariant.                               *)
LEMMA InitIInv == Init => IInv
<1> SUFFICES ASSUME Init PROVE IInv
  OBVIOUS
<1> USE ConstAssumption DEF Init
<1>1. TypeOK
  BY DEF TypeOK, MarkBound
<1>2. SentPrefix /\ BufBlock
  BY DEF SentPrefix, BufBlock
<1>3. Position
  <2>1. Len(buf) = 0 /\ Len(sent) = 0
    OBVIOUS
  <2>. QED
    BY <2>1 DEF Position
<1>4. SizeInv /\ FinalInv
  BY DEF SizeInv, FinalInv, Wrapped
<1>. QED
  BY <1>1, <1>2, <1>3, <1>4 DEF IInv

-----------------------------------------------------------------------------
(* The steps that move bytes.                                              *)

LEMMA ReadSomePreserves == IInv /\ ReadSome => IInv'
<1> SUFFICES ASSUME IInv, ReadSome PROVE IInv'
  OBVIOUS
<1>1. /\ pos \in Nat /\ Len(buf) \in Nat /\ buf \in Seq(Byte) /\ File \in Seq(Byte)
      /\ Len(File) \in Nat /\ BufSize \in Nat
  BY ConstAssumption DEF IInv, TypeOK
<1>2. PICK n \in Upto(BufSize - Len(buf), Len(File) - pos) :
         buf' = buf \o SubSeq(File, pos + 1, pos + n) /\ pos' = pos + n
  BY DEF ReadSome
<1>3. n \in Nat /\ n <= BufSize - Len(buf) /\ n <= Len(File) - pos
  BY <1>1 DEF Upto
<1>4. Len(buf) + n <= BufSize /\ pos + n <= Len(File)
  BY <1>1, <1>3
<1>5. pos' = pos + n
  BY <1>2
<1>6. /\ buf' \in Seq(Byte)
      /\ Len(buf') = Len(buf) + n
      /\ \A i \in 1 .. Len(buf) : buf'[i] = buf[i]
      /\ \A i \in 1 .. n : buf'[Len(buf) + i] = File[pos + i]
  <2>1. buf' = buf \o SubSeq(File, pos + 1, pos + n)
    BY <1>2
  <2>2. /\ buf \in Seq(Byte) /\ File \in Seq(Byte) /\ pos \in Nat /\ n \in Nat
        /\ pos + n <= Len(File)
    BY <1>1, <1>3, <1>4
  <2>3. Piece(Byte, buf, File, pos, n, buf')
    BY <2>1, <2>2, PieceFacts
  <2>. QED
    BY <2>3 DEF Piece
<1>7. Len(buf') = Len(buf) + n
  BY <1>6
<1>8. TypeOK'
  <2>1. pos' \in 0 .. Len(File) /\ Len(buf') <= BufSize
    BY <1>1, <1>3, <1>4, <1>5, <1>7
  <2>. QED
    BY <2>1, <1>6 DEF ReadSome, ConnVars, IInv, TypeOK
<1>9. SentPrefix'
  <2>1. sent' = sent /\ Len(sent) <= pos /\ Len(sent) \in Nat
    BY DEF ReadSome, ConnVars, IInv, SentPrefix, TypeOK
  <2>2. Len(sent) <= pos'
    BY <2>1, <1>1, <1>3, <1>5
  <2>. QED
    BY <2>1, <2>2 DEF IInv, SentPrefix
<1>10. BufBlock'
  <2>1. Len(buf') <= pos'
    <3>1. Len(buf) <= pos
      BY DEF IInv, BufBlock
    <3>. QED
      BY <3>1, <1>1, <1>3, <1>5, <1>7
  <2>2. ASSUME NEW i \in 1 .. Len(buf'), NEW j \in Nat, j + Len(buf') = pos' + i
        PROVE  buf'[i] = File[j]
    <3>1. i \in Nat /\ i <= Len(buf) + n /\ 1 <= i
      BY <1>1, <1>3, <1>7
    <3>2. j + Len(buf) = pos + i
      <4>1. /\ j \in Int /\ i \in Int /\ n \in Int /\ Len(buf) \in Int /\ pos \in Int
            /\ j + (Len(buf) + n) = (pos + n) + i
        BY <1>1, <1>3, <1>5, <1>7, <2>2, <3>1
      <4>. QED
        BY <4>1
    <3>3. CASE i <= Len(buf)
      <4>1. i \in 1 .. Len(buf)
        BY <1>1, <3>1, <3>3
      <4>. QED
        BY <1>6, <3>2, <4>1 DEF IInv, BufBlock
    <3>4. CASE i > Len(buf)
      <4>1. PICK k \in 1 .. n : i = Len(buf) + k
        <5>1. i - Len(buf) \in 1 .. n /\ i = Len(buf) + (i - Len(buf))
          BY <1>1, <1>3, <3>1, <3>4
        <5>. QED
          BY <5>1
      <4>2. j = pos + k
        BY <1>1, <1>3, <3>2, <4>1
      <4>. QED
        BY <1>6, <4>1, <4>2
    <3>. QED
      BY <1>1, <3>1, <3>3, <3>4
  <2>. QED
    BY <2>1, <2>2 DEF BufBlock
<1>11. Position'
  <2>1. size # Wrapped /\ offset = 0 /\ written = 0
    BY DEF ReadSome, IInv, SizeInv
  <2>2. Len(sent) + Len(buf) = pos + 0 + 0 /\ Len(sent) \in Nat
    BY <2>1 DEF IInv, Position, TypeOK
  <2>3. Len(sent) + Len(buf') = pos' + 0 + 0 /\ 0 + 0 <= Len(buf')
    BY <2>2, <1>1, <1>3, <1>5, <1>7
  <2>. QED
    BY <2>1, <2>3 DEF ReadSome, ConnVars, Position
<1>12. SizeInv' /\ FinalInv'
  BY DEF ReadSome, ConnVars, IInv, SizeInv, FinalInv, Wrapped
<1>. QED
  BY <1>8, <1>9, <1>10, <1>11, <1>12 DEF IInv

\* What a step of write does to the connection.
LEMMA WriteSomeFacts ==
    ASSUME IInv, WriteSome
    PROVE  \E n \in Nat \ {0} :
             /\ size # Wrapped
             /\ size = Len(buf)
             /\ offset + written + n <= Len(buf)
             /\ written' = written + n
             /\ unread' \in 0 .. SockSize
             /\ sent' \in Seq(Byte)
             /\ Len(sent') = Len(sent) + n
             /\ Len(sent') <= pos
             /\ \A i \in 1 .. Len(sent') : sent'[i] = File[i]
<1>1. /\ pos \in Nat /\ offset \in Nat /\ written \in Nat /\ unread \in Nat
      /\ Len(buf) \in Nat /\ Len(sent) \in Nat /\ buf \in Seq(Byte) /\ sent \in Seq(Byte)
      /\ SockSize \in Nat /\ SizeValues \in Nat /\ SizeValues > 2 /\ size \in Nat
      /\ unread <= SockSize
  BY ConstAssumption DEF IInv, TypeOK
<1>2. PICK n \in Upto(Count - written, SockSize - unread) :
         /\ sent' = sent \o SubSeq(buf, offset + written + 1, offset + written + n)
         /\ unread' = unread + n
         /\ written' = written + n
  BY DEF WriteSome
<1>3. size # Wrapped /\ size = Len(buf)
  <2>1. pc = "send" /\ Count < SizeValues \div 2
    BY DEF WriteSome, CountAccepted
  <2>2. size = Wrapped => offset = 0
    BY DEF IInv, SizeInv
  <2>3. size # Wrapped
    BY <1>1, <2>1, <2>2 DEF Count, Wrapped
  <2>. QED
    BY <2>1, <2>3 DEF IInv, SizeInv
<1> DEFINE a == offset + written
<1>4. n \in Nat \ {0} /\ a \in Nat /\ a + n <= Len(buf) /\ unread + n <= SockSize
  BY <1>1, <1>3 DEF Upto, Count
<1>5. Len(sent) + Len(buf) = pos + a
  <2>1. Len(sent) + Len(buf) = pos + offset + written
    BY <1>3 DEF IInv, Position
  <2>. QED
    BY <2>1, <1>1
<1>6. sent' = sent \o SubSeq(buf, a + 1, a + n)
  BY <1>2
<1>7. written' = written + n /\ unread' = unread + n /\ offset + written + n <= Len(buf)
  BY <1>2, <1>4
<1> HIDE DEF a
<1>8. /\ sent' \in Seq(Byte)
      /\ Len(sent') = Len(sent) + n
      /\ \A i \in 1 .. Len(sent) : sent'[i] = sent[i]
      /\ \A i \in 1 .. n : sent'[Len(sent) + i] = buf[a + i]
  <2>1. /\ sent \in Seq(Byte) /\ buf \in Seq(Byte) /\ a \in Nat /\ n \in Nat
        /\ a + n <= Len(buf)
    BY <1>1, <1>4
  <2>2. Piece(Byte, sent, buf, a, n, sent')
    BY <1>6, <2>1, PieceFacts
  <2>. QED
    BY <2>2 DEF Piece
<1>9. Len(sent') = Len(sent) + n
  BY <1>8
<1>10. Len(sent') <= pos /\ unread' \in 0 .. SockSize
  BY <1>1, <1>4, <1>5, <1>7, <1>9
<1>11. ASSUME NEW i \in 1 .. Len(sent')
       PROVE  sent'[i] = File[i]
  <2>1. i \in Nat /\ 1 <= i /\ i <= Len(sent) + n
    BY <1>1, <1>4, <1>9
  <2>2. CASE i <= Len(sent)
    <3>1. i \in 1 .. Len(sent)
      BY <1>1, <2>1, <2>2
    <3>. QED
      BY <3>1, <1>8 DEF IInv, SentPrefix
  <2>3. CASE i > Len(sent)
    <3>1. PICK k \in 1 .. n : i = Len(sent) + k
      <4>1. i - Len(sent) \in 1 .. n /\ i = Len(sent) + (i - Len(sent))
        BY <1>1, <1>4, <2>1, <2>3
      <4>. QED
        BY <4>1
    <3>2. a + k \in 1 .. Len(buf) /\ i + Len(buf) = pos + (a + k)
      BY <1>1, <1>4, <1>5, <3>1
    <3>3. sent'[i] = buf[a + k]
      BY <1>8, <3>1
    <3>4. buf[a + k] = File[i]
      BY <2>1, <3>2 DEF IInv, BufBlock
    <3>. QED
      BY <3>3, <3>4
  <2>. QED
    BY <1>1, <2>1, <2>2, <2>3
<1>. QED
  BY <1>3, <1>4, <1>7, <1>8, <1>10, <1>11

LEMMA WriteSomePreserves == IInv /\ WriteSome => IInv'
<1> SUFFICES ASSUME IInv, WriteSome PROVE IInv'
  OBVIOUS
<1>1. PICK n \in Nat \ {0} :
             /\ size # Wrapped
             /\ size = Len(buf)
             /\ offset + written + n <= Len(buf)
             /\ written' = written + n
             /\ unread' \in 0 .. SockSize
             /\ sent' \in Seq(Byte)
             /\ Len(sent') = Len(sent) + n
             /\ Len(sent') <= pos
             /\ \A i \in 1 .. Len(sent') : sent'[i] = File[i]
  BY WriteSomeFacts
<1>2. UNCHANGED <<pos, buf, size, offset>> /\ UNCHANGED <<pc, client, marks, final>>
  BY DEF WriteSome, RequestVars
<1>3. /\ pc = "send" /\ pos \in Nat /\ offset \in Nat /\ written \in Nat
      /\ Len(buf) \in Nat /\ Len(buf) <= BufSize /\ Len(sent) \in Nat /\ BufSize \in Nat
  BY ConstAssumption DEF WriteSome, IInv, TypeOK
<1>4. written' \in 0 .. BufSize
  BY <1>1, <1>3
<1>5. TypeOK'
  BY <1>1, <1>2, <1>4 DEF IInv, TypeOK
<1>6. SentPrefix' /\ BufBlock'
  BY <1>1, <1>2 DEF IInv, SentPrefix, BufBlock
<1>7. Position'
  <2>1. Len(sent) + Len(buf) = pos + offset + written
    BY <1>1 DEF IInv, Position
  <2>2. /\ Len(sent') = Len(sent) + n /\ written' = written + n /\ n \in Nat
        /\ offset + written + n <= Len(buf)
    BY <1>1
  <2>3. Len(sent') + Len(buf) = pos + offset + written' /\ offset + written' <= Len(buf)
    BY <1>3, <2>1, <2>2
  <2>. QED
    BY <1>2, <2>3 DEF Position
<1>8. SizeInv' /\ FinalInv'
  BY <1>1, <1>2, <1>3 DEF IInv, SizeInv, FinalInv, Wrapped
<1>. QED
  BY <1>5, <1>6, <1>7, <1>8 DEF IInv

-----------------------------------------------------------------------------
(* The steps that move only the position in the request.                   *)

\* Where Advance is taken the whole write counts.
LEMMA AdvancePreserves ==
    ASSUME IInv, pc = "send", Advance, size = Wrapped => written # 0,
           UNCHANGED <<pos, buf, size, marks>>, UNCHANGED ConnVars
    PROVE  IInv'
<1> USE ConstAssumption DEF IInv, TypeOK, ConnVars, Advance, AfterWrite
<1>1. size # Wrapped /\ size = Len(buf) /\ Len(buf) \in Nat
  BY DEF SizeInv
<1>2. offset + written <= Len(buf)
  BY <1>1 DEF Position
<1>3. TypeOK'
  BY <1>1, <1>2
<1>4. SentPrefix' /\ BufBlock'
  BY DEF SentPrefix, BufBlock
<1>5. Position'
  BY <1>1, <1>2 DEF Position, Wrapped
<1>6. SizeInv' /\ FinalInv'
  BY <1>1 DEF SizeInv, FinalInv, Wrapped
<1>. QED
  BY <1>3, <1>4, <1>5, <1>6

(* Every step of the server and of the client preserves the invariant.     *)
LEMMA NextPreserves == IInv /\ [Next]_vars => IInv'
<1> SUFFICES ASSUME IInv, [Next]_vars PROVE IInv'
  OBVIOUS
<1> USE ConstAssumption DEF IInv, TypeOK, ConnVars, RequestVars
<1>0. Len(buf) \in Nat /\ Len(sent) \in Nat /\ Len(File) \in Nat
  OBVIOUS
<1>1. CASE Callback
  BY <1>1 DEF Callback, MarkBound, SentPrefix, BufBlock, Position, SizeInv, FinalInv,
     Wrapped
<1>2. CASE Fill
  <2>1. CASE Buffered
    BY <1>2, <2>1 DEF Fill, SentPrefix, BufBlock, Position, SizeInv, FinalInv, Wrapped
  <2>2. CASE ~Buffered
    <3>1. /\ pc = "fill" /\ pc' = "read"
          /\ size' = 0 /\ offset' = 0 /\ buf' = <<>>
          /\ UNCHANGED <<pos, written, marks, final, sent, unread, client>>
      BY <1>2, <2>2 DEF Fill
    <3>2. size # Wrapped /\ size = Len(buf) /\ written = 0
      BY <3>1 DEF SizeInv
    <3>3. offset = Len(buf) /\ Len(sent) = pos
      BY <1>0, <2>2, <3>2 DEF Buffered, Position
    <3>4. TypeOK'
      BY <3>1
    <3>5. SentPrefix' /\ BufBlock'
      BY <3>1 DEF SentPrefix, BufBlock
    <3>6. Position'
      BY <3>1, <3>2, <3>3 DEF Position, Wrapped
    <3>7. SizeInv' /\ FinalInv'
      BY <3>1, <3>2 DEF SizeInv, FinalInv, Wrapped
    <3>. QED
      BY <3>4, <3>5, <3>6, <3>7
  <2>. QED
    BY <2>1, <2>2
<1>3. CASE ReadSome
  BY <1>3, ReadSomePreserves
<1>4. CASE ReadZero
  <2>1. CASE buf = <<>>
    <3>1. /\ pc = "read" /\ pc' = "ended" /\ final' = "226"
          /\ UNCHANGED <<pos, buf, size, offset, written, marks, sent, unread, client>>
      BY <1>4, <2>1 DEF ReadZero, End
    <3>2. pos = Len(File) /\ size # Wrapped /\ Len(sent) = Len(File)
      BY <1>4, <2>1, <3>1 DEF ReadZero, SizeInv, Position
    <3>3. sent = File
      BY <3>2, SeqEqual DEF SentPrefix
    <3>4. TypeOK'
      BY <3>1
    <3>5. SentPrefix' /\ BufBlock' /\ Position' /\ SizeInv'
      BY <3>1, <3>2 DEF SentPrefix, BufBlock, Position, SizeInv, Wrapped
    <3>6. FinalInv'
      BY <3>1, <3>2, <3>3 DEF FinalInv, Wrapped
    <3>. QED
      BY <3>4, <3>5, <3>6
  <2>2. CASE buf # <<>>
    <3>1. /\ pc = "read" /\ pc' = "send" /\ size' = Len(buf)
          /\ UNCHANGED <<pos, buf, offset, written, marks, final, sent, unread, client>>
      BY <1>4, <2>2 DEF ReadZero
    <3>2. Len(buf) < Wrapped
      BY <1>0 DEF Wrapped
    <3>. QED
      BY <1>0, <3>1, <3>2 DEF SentPrefix, BufBlock, Position, SizeInv, FinalInv, Wrapped
  <2>. QED
    BY <2>1, <2>2
<1>5. CASE ReadError
  BY <1>5 DEF ReadError, SentPrefix, BufBlock, Position, SizeInv, FinalInv, Wrapped
<1>6. CASE WriteSome
  BY <1>6, WriteSomePreserves
<1>7. CASE WrittenAll
  <2>1. size = Wrapped => written # 0
    BY <1>7 DEF WrittenAll, Count, Wrapped, SizeInv
  <2>. QED
    BY <1>7, <2>1, AdvancePreserves DEF WrittenAll
<1>8. CASE WriteBlocked
  <2>1. CASE written = 0
    BY <1>8, <2>1 DEF WriteBlocked, SentPrefix, BufBlock, Position, SizeInv, FinalInv,
       Wrapped, CountAccepted, Count
  <2>2. CASE written # 0
    BY <1>8, <2>2, AdvancePreserves DEF WriteBlocked
  <2>. QED
    BY <2>1, <2>2
<1>9. CASE WriteError
  <2>1. CASE written = 0
    BY <1>9, <2>1 DEF WriteError, End, SentPrefix, BufBlock, Position, SizeInv, FinalInv,
       Wrapped
  <2>2. CASE written # 0
    BY <1>9, <2>2, AdvancePreserves DEF WriteError
  <2>. QED
    BY <2>1, <2>2
<1>10. CASE Killed
  BY <1>10 DEF Killed, SentPrefix, BufBlock, Position, SizeInv, FinalInv, Wrapped,
     CountAccepted, Count
<1>11. CASE Receive
  BY <1>11 DEF Receive, SentPrefix, BufBlock, Position, SizeInv, FinalInv, Wrapped
<1>12. CASE Leave
  BY <1>12 DEF Leave, SentPrefix, BufBlock, Position, SizeInv, FinalInv, Wrapped
<1>13. CASE UNCHANGED vars
  BY <1>13 DEF vars, SentPrefix, BufBlock, Position, SizeInv, FinalInv, Wrapped
<1>. QED
  BY <1>1, <1>2, <1>3, <1>4, <1>5, <1>6, <1>7, <1>8, <1>9, <1>10, <1>11, <1>12,
     <1>13 DEF Next, Server

-----------------------------------------------------------------------------
(* The theorems.                                                           *)

THEOREM IInvHolds == Spec => []IInv
<1>. QED
  BY InitIInv, NextPreserves, PTL DEF Spec

(* Type correctness: no step puts a value where the code could not have    *)
(* it, the size that a failed read wraps around to included.               *)
THEOREM TypeCorrect == Spec => []TypeOK
<1>1. IInv => TypeOK
  BY DEF IInv
<1>. QED
  BY <1>1, IInvHolds, PTL

(* Every byte read from the file was sent or is still in the buffer of the *)
(* request (download_file_cb and get_download_data_ready).                 *)
THEOREM NoByteSkipped == Spec => []NothingSkipped
<1>1. IInv => NothingSkipped
  <2> SUFFICES ASSUME IInv, size # Wrapped
               PROVE  SubSeq(File, 1, pos) =
                          sent \o SubSeq(buf, offset + written + 1, Len(buf))
    BY DEF NothingSkipped
  <2>1. /\ pos \in Nat /\ offset \in Nat /\ written \in Nat
        /\ Len(buf) \in Nat /\ Len(sent) \in Nat
        /\ pos <= Len(File) /\ Len(File) \in Nat
    BY ConstAssumption DEF IInv, TypeOK
  <2>2. buf \in Seq(Byte) /\ sent \in Seq(Byte) /\ File \in Seq(Byte)
    BY ConstAssumption DEF IInv, TypeOK
  <2>3. /\ offset + written <= Len(buf)
        /\ Len(sent) + Len(buf) = pos + offset + written
    BY DEF IInv, Position
  <2> DEFINE a == offset + written
             u == sent \o SubSeq(buf, a + 1, Len(buf))
  <2>4. a \in Nat /\ a <= Len(buf) /\ Len(sent) + Len(buf) = pos + a
    BY <2>1, <2>3
  <2>5. PICK m \in Nat : Len(buf) = a + m
    <3>1. Len(buf) - a \in Nat /\ Len(buf) = a + (Len(buf) - a)
      BY <2>1, <2>4
    <3>. QED
      BY <3>1
  <2>6. u = sent \o SubSeq(buf, a + 1, a + m)
    BY <2>5
  <2> HIDE DEF a, u
  <2>7. /\ u \in Seq(Byte)
        /\ Len(u) = Len(sent) + m
        /\ \A i \in 1 .. Len(sent) : u[i] = sent[i]
        /\ \A i \in 1 .. m : u[Len(sent) + i] = buf[a + i]
    <3>1. a + m <= Len(buf)
      BY <2>1, <2>4, <2>5
    <3>2. sent \in Seq(Byte) /\ buf \in Seq(Byte) /\ a \in Nat /\ m \in Nat
      BY <2>2, <2>4, <2>5
    <3>3. Piece(Byte, sent, buf, a, m, u)
      BY <2>6, <3>1, <3>2, PieceFacts
    <3>. QED
      BY <3>3 DEF Piece
  <2>8. Len(u) = Len(sent) + m
    BY <2>7
  <2>9. Len(u) = pos
    BY <2>1, <2>4, <2>5, <2>8
  <2>10. ASSUME NEW i \in 1 .. pos
         PROVE  u[i] = File[i]
    <3>1. CASE i <= Len(sent)
      <4>1. i \in 1 .. Len(sent)
        BY <2>1, <2>10, <3>1
      <4>. QED
        BY <4>1, <2>7 DEF IInv, SentPrefix
    <3>2. CASE i > Len(sent)
      <4>1. PICK k \in 1 .. m : i = Len(sent) + k
        <5>1. i - Len(sent) \in 1 .. m /\ i = Len(sent) + (i - Len(sent))
          BY <2>1, <2>4, <2>5, <2>10, <3>2
        <5>. QED
          BY <5>1
      <4>2. a + k \in 1 .. Len(buf) /\ i + Len(buf) = pos + (a + k) /\ i \in Nat
        BY <2>1, <2>4, <2>5, <4>1
      <4>3. u[i] = buf[a + k]
        BY <2>7, <4>1
      <4>4. buf[a + k] = File[i]
        BY <4>2 DEF IInv, BufBlock
      <4>. QED
        BY <4>3, <4>4
    <3>. QED
      BY <2>1, <2>10, <3>1, <3>2
  <2>11. u = SubSeq(File, 1, pos)
    <3>1. u \in Seq(Byte)
      BY <2>7
    <3>. QED
      BY <2>1, <2>2, <2>9, <2>10, <3>1, PrefixFacts
  <2>. QED
    BY <2>11 DEF a, u
<1>. QED
  BY <1>1, IInvHolds, PTL

(* After a failed read nothing more is sent, and the transfer is not       *)
(* called complete, for every number of values of size_t that is more than *)
(* twice the size of the buffer.                                           *)
THEOREM ErrorStops == Spec => ReadErrorStops
<1>1. IInv /\ [Next]_vars => [size = Wrapped => sent' = sent /\ final' # "226"]_vars
  <2> SUFFICES ASSUME IInv, Next, size = Wrapped
               PROVE  sent' = sent /\ final' # "226"
    OBVIOUS
  <2>1. /\ pc \in {"send", "ended"} /\ offset = 0 /\ final # "226"
        /\ SizeValues \in Nat /\ SizeValues > 2
    BY ConstAssumption DEF IInv, SizeInv, FinalInv
  <2>2. ~CountAccepted
    BY <2>1 DEF CountAccepted, Count, Wrapped
  <2>. QED
    BY <2>1, <2>2 DEF Next, Server, Callback, Fill, ReadSome, ReadZero, ReadError, WriteSome,
       WrittenAll, WriteBlocked, WriteError, Killed, Receive, Leave, Advance, End, ConnVars
<1>. QED
  BY <1>1, IInvHolds, PTL DEF Spec, ReadErrorStops

(* The download implements the abstract transfer: the bytes of the file go *)
(* out in order and once each, and 226 only follows the last of them.      *)
THEOREM Implements == Spec => ImplementsTransfer
<1>1. Init => Abstract!Init
  BY DEF Init, Abstract!Init
<1>2. IInv /\ IInv' /\ [Next]_vars => [Abstract!Next]_(Abstract!vars)
  <2> SUFFICES ASSUME IInv, IInv', [Next]_vars
               PROVE  Abstract!Next \/ UNCHANGED <<sent, final>>
    BY DEF Abstract!vars
  <2>1. CASE WriteSome
    <3>1. /\ Len(sent) \in Nat /\ Len(File) \in Nat
          /\ sent' \in Seq(Byte) /\ File \in Seq(Byte)
          /\ pos \in Nat /\ pos <= Len(File)
      <4>1. sent \in Seq(Byte) /\ sent' \in Seq(Byte) /\ pos \in 0 .. Len(File)
        BY DEF IInv, TypeOK
      <4>2. File \in Seq(Byte)
        BY ConstAssumption
      <4>. QED
        BY <4>1, <4>2
    <3>2. PICK n \in Nat \ {0} :
             /\ Len(sent') = Len(sent) + n
             /\ Len(sent') <= pos
             /\ \A i \in 1 .. Len(sent') : sent'[i] = File[i]
      BY <2>1, WriteSomeFacts
    <3>3. Len(sent') \in Len(sent) + 1 .. Len(File)
      BY <3>1, <3>2
    <3>4. sent' = SubSeq(File, 1, Len(sent'))
      BY <3>1, <3>2, <3>3, PrefixFacts
    <3>5. final = "none" /\ final' = final
      BY <2>1 DEF WriteSome, IInv, FinalInv
    <3>6. Abstract!Emit
      BY <3>3, <3>4, <3>5 DEF Abstract!Emit
    <3>. QED
      BY <3>6 DEF Abstract!Next
  <2>2. CASE ReadZero
    <3>1. CASE buf = <<>>
      <4>1. final = "none" /\ final' = "226" /\ sent' = sent
        BY <2>2, <3>1 DEF ReadZero, End, ConnVars, IInv, FinalInv
      <4>2. sent = File
        BY <4>1 DEF IInv, FinalInv
      <4>. QED
        BY <4>1, <4>2 DEF Abstract!Next, Abstract!Complete
    <3>2. CASE buf # <<>>
      BY <2>2, <3>2 DEF ReadZero, ConnVars
    <3>. QED
      BY <3>1, <3>2
  <2>3. CASE WriteError
    <3>1. CASE written = 0
      <4>1. final = "none" /\ final' = "426" /\ sent' = sent
        BY <2>3, <3>1 DEF WriteError, End, ConnVars, IInv, FinalInv
      <4>. QED
        BY <4>1 DEF Abstract!Next, Abstract!Abort
    <3>2. CASE written # 0
      BY <2>3, <3>2 DEF WriteError, Advance, ConnVars
    <3>. QED
      BY <3>1, <3>2
  <2>4. CASE \/ Callback \/ Fill \/ ReadSome \/ ReadError \/ WrittenAll
            \/ WriteBlocked \/ Killed \/ Receive \/ Leave
    BY <2>4 DEF Callback, Fill, ReadSome, ReadError, WrittenAll, WriteBlocked, Killed,
       Receive, Leave, Advance, ConnVars
  <2>5. CASE UNCHANGED vars
    BY <2>5 DEF vars
  <2>. QED
    BY <2>1, <2>2, <2>3, <2>4, <2>5 DEF Next, Server
<1>. QED
  BY <1>1, <1>2, IInvHolds, PTL DEF Spec, ImplementsTransfer, Abstract!Spec

=============================================================================

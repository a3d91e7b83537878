--------------------------- MODULE ControlProofs ----------------------------
(***************************************************************************)
(* Theorems about the control connections, from SessionCommands and from   *)
(* CommandStream: about the list of users and the address that all         *)
(* sessions share, for any file of users, any sessions, addresses, names   *)
(* and passwords and any number of commands; and about the way from bytes  *)
(* to commands, for any lines, any commands and any size of the buffer.    *)
(***************************************************************************)
EXTENDS SessionCommands, CommandStream, FiniteSetTheorems,
        WellFoundedInduction, TLAPS

-----------------------------------------------------------------------------
(* SessionCommands: the inductive invariant.                               *)

\* Where the line that is being read begins.
LineBegin == pos - Len(line)
EntriesRead == {b \in EntryStarts : b < LineBegin}

\* buf has the line so far; after the last line there is none.
LineInv ==
    /\ file \in UserFiles
    /\ pos \in 0 .. Len(file)
    /\ line \in Seq(STRING) /\ Len(line) <= pos
    /\ start = "reading" => Len(line) < LineSize
    /\ line = SubSeq(file, LineBegin + 1, pos)
    /\ \A i \in LineBegin + 1 .. pos : file[i] # Newline
    /\ LineBegin \in Breaks \/ (pos = Len(file) /\ Len(line) = 0)

\* The list has the entries of the lines that were read, in their order.
ListInv ==
    /\ users \in Seq({EntryAfter(b) : b \in EntryStarts})
    /\ Len(users) = Cardinality(EntriesRead)
    /\ \A b \in EntriesRead : users[Place(b)] = EntryAfter(b)
    /\ start = "ready" => EntriesRead = EntryStarts

\* A session that has named a user has named one of the list, and the reply
\* to PASS is about the user it has named last.
LoginInv ==
    \A s \in Sessions :
        /\ user[s] # <<>> => start = "ready" /\ is_user_valid(user[s])
        /\ reply[s].to = "PASS" =>
               /\ start = "ready"
               /\ reply[s].code = "230" <=> reply[s].arg = get_user_password(user[s])

\* With one interface the address is stored as often as workers find it
\* missing, but always the same characters over the same characters.  What an
\* assign that was torn adds stands behind them.
Stored(a) == \A i \in 1 .. Len(a) : chars[i] = a[i]
SharedInv(a) ==
    /\ length = 0 \/ (length >= Len(a) /\ Stored(a))
    /\ ~torn => length \in {0, Len(a)}
    /\ \A s \in Sessions :
          /\ pc[s] = "length" => Stored(a)
          /\ pc[s] \in {"copy", "chars"} => length # 0
          /\ pc[s] = "chars" => ipLen[s] >= Len(a)
          /\ reply[s].to = "PASV" => IsPrefix(a, reply[s].arg)
UntornInv(a) ==
    \A s \in Sessions :
        /\ pc[s] \in {"assign", "length"} => oldSize[s] = replaced[s]
        /\ pc[s] = "chars" => ipLen[s] = Len(a)
        /\ reply[s].to = "PASV" => reply[s].arg = a
AddressInv ==
    \A a \in Addresses : (\A s \in Sessions : address[s] = a) =>
        SharedInv(a) /\ (~torn => UntornInv(a))

CharType == STRING \cup {Nul}
StateInv ==
    /\ TypeOK
    /\ reply \in [Sessions -> [to : {"none", "USER", "PASS", "PASV"},
                               code : {"none", "331", "530", "230", "227"},
                               arg : Names \cup Passwords \cup Seq(CharType)]]
    /\ chars \in [Room -> CharType]
    /\ \A s \in Sessions : pc[s] = "length" => InPlace(s)

IInv == StateInv /\ LineInv /\ ListInv /\ LoginInv /\ AddressInv

-----------------------------------------------------------------------------
(* The least of a set of numbers, and the buffer.                          *)

LEMMA MinIsLeast ==
    ASSUME NEW S, S \subseteq Nat, S # {}
    PROVE  Min(S) \in S /\ \A y \in S : Min(S) =< y
<1> DEFINE LT == {p \in Nat \X Nat : p[1] < p[2]}
<1>1. IsWellFoundedOn(LT, Nat)
  BY NatLessThanWellFounded DEF OpToRel
<1> HIDE DEF LT
<1>2. PICK x \in S : \A y \in S : ~ (<<y, x>> \in LT)
  BY <1>1, WFMin
<1>3. \A y \in S : x =< y
  <2>1. TAKE y \in S
  <2>2. x \in Nat /\ y \in Nat
    BY <1>2
  <2>3. ~ (y < x)
    BY <1>2, <2>2 DEF LT
  <2>. QED
    BY <2>2, <2>3
<1>. QED
  BY <1>2, <1>3 DEF Min

LEMMA MinUnique ==
    ASSUME NEW S, S \subseteq Nat, NEW x \in S, \A y \in S : x =< y
    PROVE  Min(S) = x
<1>1. Min(S) \in S /\ \A y \in S : Min(S) =< y
  BY MinIsLeast
<1>2. Min(S) =< x /\ x =< Min(S) /\ Min(S) \in Nat /\ x \in Nat
  BY <1>1
<1>. QED
  BY <1>2

\* The buffer has room for every address and the NUL behind it.
LEMMA RoomFacts ==
    /\ Capacity \in Nat /\ Room = 1 .. Capacity + 1
    /\ \A a \in Addresses : a \in Seq(STRING) /\ Len(a) \in Nat \ {0} /\ Len(a) <= Capacity
<1>1. \A a \in Addresses : a \in Seq(STRING) /\ Len(a) \in 1 .. Capacity
  BY SessionAssumption
<1>2. \A n \in 1 .. Capacity : n \in Nat \ {0} /\ n <= Capacity
  BY SessionAssumption
<1>. QED
  BY <1>1, <1>2, SessionAssumption DEF Room

-----------------------------------------------------------------------------
(* The file's lines, and where reading stands among them.                  *)

LEMMA FileFacts ==
    ASSUME file \in UserFiles
    PROVE  /\ file \in Seq(STRING) /\ Len(file) \in Nat
           /\ Breaks \subseteq 0 .. Len(file) + 1
           /\ EntryStarts \subseteq Breaks /\ EntryStarts \subseteq 0 .. Len(file)
           /\ IsFiniteSet(EntryStarts)
<1>1. file \in Seq(STRING) /\ Len(file) \in Nat /\ DOMAIN file = 1 .. Len(file)
  BY UserFileAssumption
<1>2. Breaks \subseteq 0 .. Len(file) + 1
  BY <1>1 DEF Breaks
<1>3. EntryStarts \subseteq Breaks /\ EntryStarts \in SUBSET (0 .. Len(file))
  <2>1. \A b \in Breaks : b <= Len(file) => b \in 0 .. Len(file)
    BY <1>1, <1>2
  <2>. QED
    BY <2>1 DEF EntryStarts, LineStarts
<1>4. IsFiniteSet(0 .. Len(file))
  BY <1>1, FS_Interval
<1>. QED
  BY <1>1, <1>2, <1>3, <1>4, FS_Subset

LEMMA LineBetween ==
    ASSUME file \in UserFiles, NEW b \in Breaks, NEW p \in 0 .. Len(file), b <= p,
           \A i \in b + 1 .. p : file[i] # Newline,
           p < Len(file) => file[p + 1] = Newline
    PROVE  /\ LineAfter(b) = SubSeq(file, b + 1, p)
           /\ Len(LineAfter(b)) = p - b
           /\ Terminated(b) <=> p < Len(file)
           /\ \A c \in Breaks : c <= b \/ c > p
<1> DEFINE After == {c \in Breaks : c > b}
<1>1. /\ file \in Seq(STRING) /\ Len(file) \in Nat /\ Breaks \subseteq 0 .. Len(file) + 1
      /\ DOMAIN file = 1 .. Len(file) /\ b \in Nat /\ p \in Nat
  BY FileFacts
<1>2. p + 1 \in Breaks
  <2>1. CASE p < Len(file)
    BY <1>1, <2>1 DEF Breaks
  <2>2. CASE p = Len(file)
    BY <2>2 DEF Breaks
  <2>3. p < Len(file) \/ p = Len(file)
    <3>1. p \in Int /\ Len(file) \in Int /\ p <= Len(file)
      BY <1>1
    <3>. QED
      BY <3>1
  <2>. QED
    BY <2>1, <2>2, <2>3
<1>3. ASSUME NEW c \in Breaks PROVE c <= b \/ c > p
  <2>1. c \in Nat
    BY <1>1
  <2>2. CASE c = 0
    BY <1>1, <2>2
  <2>3. CASE c = Len(file) + 1
    BY <1>1, <2>3
  <2>4. CASE c \in DOMAIN file /\ file[c] = Newline
    <3>1. c \notin b + 1 .. p
      BY <2>4
    <3>. QED
      BY <1>1, <2>1, <3>1
  <2>. QED
    BY <2>2, <2>3, <2>4 DEF Breaks
<1>4. Min(After) = p + 1
  <2>1. After \subseteq Nat
    <3>1. \A c \in Breaks : c \in Nat
      BY <1>1
    <3>. QED
      BY <3>1
  <2>2. p + 1 \in After
    BY <1>1, <1>2
  <2>3. \A y \in After : p + 1 =< y
    <3>1. TAKE y \in After
    <3>2. y \in Nat /\ y > b /\ (y <= b \/ y > p)
      BY <1>1, <1>3
    <3>. QED
      BY <1>1, <3>2
  <2> HIDE DEF After
  <2>. QED
    BY <2>1, <2>2, <2>3, MinUnique
<1>5. LineAfter(b) = SubSeq(file, b + 1, p)
  <2>1. LineAfter(b) = SubSeq(file, b + 1, (p + 1) - 1)
    BY <1>4 DEF LineAfter
  <2>2. (p + 1) - 1 = p
    BY <1>1
  <2>. QED
    BY <2>1, <2>2
<1>6. Len(SubSeq(file, b + 1, p)) = p - b
  BY <1>1
<1>7. Terminated(b) <=> p < Len(file)
  BY <1>1, <1>5, <1>6 DEF Terminated
<1>. QED
  BY <1>3, <1>5, <1>6, <1>7

\* What is in buf at the end of a line.
LEMMA LineEndFacts ==
    ASSUME LineInv, LineBegin \in Breaks,
           pos < Len(file) => file[pos + 1] = Newline
    PROVE  /\ LineAfter(LineBegin) = line
           /\ LineBegin \in EntryStarts <=>
                  Len(line) >= (IF pos < Len(file) THEN 3 ELSE 2)
           /\ \A c \in EntryStarts : c <= LineBegin \/ c > pos
<1> DEFINE b == LineBegin
<1>1. /\ file \in UserFiles /\ pos \in Nat /\ pos \in 0 .. Len(file) /\ Len(line) \in Nat
      /\ Len(file) \in Nat /\ b \in Nat /\ b = pos - Len(line) /\ b <= pos
  BY FileFacts DEF LineInv, LineBegin
<1>2. \A i \in b + 1 .. pos : file[i] # Newline
  BY DEF LineInv
<1>3. line = SubSeq(file, b + 1, pos)
  BY DEF LineInv
<1> HIDE DEF b
<1>4. b \in Breaks
  BY DEF b
<1>5. /\ LineAfter(b) = line /\ (Terminated(b) <=> pos < Len(file))
      /\ \A c \in Breaks : c <= b \/ c > pos
  BY <1>1, <1>2, <1>3, <1>4, LineBetween
<1>6. b <= Len(file)
  BY <1>1
<1>7. b \in EntryStarts <=> Len(line) >= (IF pos < Len(file) THEN 3 ELSE 2)
  BY <1>4, <1>5, <1>6 DEF EntryStarts, LineStarts
<1>. QED
  BY <1>1, <1>5, <1>7, FileFacts DEF b

LEMMA PlaceFacts ==
    ASSUME file \in UserFiles
    PROVE  /\ \A b \in EntryStarts : Place(b) \in 1 .. Cardinality(EntryStarts)
           /\ \A b, c \in EntryStarts : b < c => Place(b) < Place(c)
<1> DEFINE Upto(b) == {c \in EntryStarts : c <= b}
<1>1. IsFiniteSet(EntryStarts) /\ EntryStarts \subseteq Nat
  BY FileFacts
<1>2. \A b : IsFiniteSet(Upto(b)) /\ Cardinality(Upto(b)) \in Nat
  <2>1. TAKE b
  <2>2. Upto(b) \in SUBSET EntryStarts
    OBVIOUS
  <2>. QED
    BY <1>1, <2>2, FS_Subset, FS_CardinalityType
<1>3. ASSUME NEW b \in EntryStarts
      PROVE  Place(b) \in 1 .. Cardinality(EntryStarts)
  <2>1. Upto(b) \in SUBSET EntryStarts /\ b \in Upto(b)
    BY <1>1
  <2>2. Cardinality(Upto(b)) <= Cardinality(EntryStarts)
    BY <1>1, <2>1, FS_Subset
  <2>3. Cardinality(Upto(b)) # 0
    BY <1>2, <2>1, FS_EmptySet
  <2>4. Place(b) = Cardinality(Upto(b))
    BY DEF Place
  <2>5. Cardinality(Upto(b)) \in Nat /\ Cardinality(EntryStarts) \in Nat
    BY <1>1, <1>2, FS_CardinalityType
  <2> HIDE DEF Upto
  <2>. QED
    BY <2>2, <2>3, <2>4, <2>5
<1>4. ASSUME NEW b \in EntryStarts, NEW c \in EntryStarts, b < c
      PROVE  Place(b) < Place(c)
  <2>1. b \in Nat /\ c \in Nat
    BY <1>1
  <2>2. \A x \in EntryStarts : x <= b => x <= c
    BY <1>1, <1>4, <2>1
  <2>3. Upto(b) \in SUBSET Upto(c) /\ c \in Upto(c) /\ c \notin Upto(b)
    <3>1. c <= c /\ ~ (c <= b)
      BY <1>4, <2>1
    <3>2. c \in Upto(c) /\ c \notin Upto(b)
      BY <3>1
    <3>. QED
      BY <2>2, <3>2
  <2>4. Cardinality(Upto(b)) <= Cardinality(Upto(c))
    BY <1>2, <2>3, FS_Subset
  <2>5. Cardinality(Upto(b)) # Cardinality(Upto(c))
    BY <1>2, <2>3, FS_Subset
  <2>6. Place(b) = Cardinality(Upto(b)) /\ Place(c) = Cardinality(Upto(c))
    BY DEF Place
  <2>7. Cardinality(Upto(b)) \in Nat /\ Cardinality(Upto(c)) \in Nat
    BY <1>2
  <2> HIDE DEF Upto
  <2>. QED
    BY <2>4, <2>5, <2>6, <2>7
<1>. QED
  BY <1>3, <1>4

\* Every entry of a complete list has its line.
LEMMA PlacesAll ==
    ASSUME file \in UserFiles, NEW i \in 1 .. Cardinality(EntryStarts)
    PROVE  \E b \in EntryStarts : Place(b) = i
<1> DEFINE T == 1 .. Cardinality(EntryStarts)
           f == [b \in EntryStarts |-> Place(b)]
<1>1. /\ IsFiniteSet(EntryStarts) /\ EntryStarts \subseteq Nat
      /\ Cardinality(EntryStarts) \in Nat
  BY FileFacts, FS_CardinalityType
<1>2. IsFiniteSet(T) /\ Cardinality(T) = Cardinality(EntryStarts)
  BY <1>1, FS_Interval
<1>3. ASSUME NEW a \in EntryStarts, NEW b \in EntryStarts, Place(a) = Place(b)
      PROVE  a = b
  <2>1. a \in Nat /\ b \in Nat /\ Place(a) \in Nat
    BY <1>1, PlaceFacts
  <2>2. ~ (a < b) /\ ~ (b < a)
    BY <1>3, <2>1, PlaceFacts
  <2>. QED
    BY <2>1, <2>2
<1>4. f \in Injection(EntryStarts, T)
  BY <1>3, PlaceFacts DEF Injection, IsInjective
<1> HIDE DEF T, f
<1>5. f \in Surjection(EntryStarts, T)
  BY <1>2, <1>4, FS_Injection
<1>6. \E b \in EntryStarts : f[b] = i
  BY <1>5 DEF Surjection, T
<1>. QED
  BY <1>6 DEF f

-----------------------------------------------------------------------------
(* The steps that read the file.                                           *)

LEMMA FileStays ==
    ASSUME file' = file
    PROVE  /\ EntryStarts' = EntryStarts /\ Breaks' = Breaks
           /\ \A b : Place(b)' = Place(b) /\ EntryAfter(b)' = EntryAfter(b)
  BY DEF EntryStarts, Breaks, LineStarts, LineAfter, Terminated, Place, EntryAfter

\* A line is read to its end: LineRead or SkipLine.
LEMMA ListGrows ==
    ASSUME LineInv, ListInv, file' = file, start # "ready", start' # "ready",
           LineBegin \in EntryStarts,
           EntriesRead' = EntriesRead \cup {LineBegin},
           users' = Append(users, EntryAfter(LineBegin))
    PROVE  ListInv'
<1> DEFINE b == LineBegin
           E == {EntryAfter(c) : c \in EntryStarts}
<1>1. /\ IsFiniteSet(EntryStarts) /\ EntryStarts \subseteq Nat
      /\ EntriesRead \in SUBSET EntryStarts /\ b \in EntryStarts
      /\ \A c \in EntriesRead : c < b
  BY FileFacts DEF LineInv, EntriesRead
<1>2. IsFiniteSet(EntriesRead) /\ Cardinality(EntriesRead) \in Nat
  BY <1>1, FS_Subset, FS_CardinalityType
<1>3. b \notin EntriesRead /\ \A c \in EntriesRead : c <= b /\ ~(b <= c)
  <2>1. ~(b < b) /\ b \in Nat
    BY <1>1
  <2>2. \A c \in EntriesRead : c \in Nat /\ c < b
    BY <1>1
  <2>. QED
    BY <2>1, <2>2
<1>4. Cardinality(EntriesRead \cup {b}) = Cardinality(EntriesRead) + 1
  BY <1>2, <1>3, FS_AddElement
<1>5. Place(b) = Cardinality(EntriesRead) + 1
  <2>1. \A c \in EntryStarts : c <= b <=> c < b \/ c = b
    BY <1>1
  <2>2. {c \in EntryStarts : c <= b} = EntriesRead \cup {b}
    BY <1>1, <2>1 DEF EntriesRead
  <2>. QED
    BY <1>4, <2>2 DEF Place
<1>6. \A c \in EntriesRead : Place(c) \in 1 .. Cardinality(EntriesRead)
  <2>1. TAKE c \in EntriesRead
  <2>2. c \in EntryStarts /\ c < b
    BY <1>1
  <2>3. Place(c) \in Nat \ {0} /\ Place(c) < Place(b)
    BY <1>1, <2>2, PlaceFacts DEF LineInv
  <2>. QED
    BY <1>2, <1>5, <2>3
<1>7. users \in Seq(E) /\ Len(users) = Cardinality(EntriesRead) /\ EntryAfter(b) \in E
  BY <1>1 DEF ListInv
<1>8. users' = Append(users, EntryAfter(b))
  OBVIOUS
<1>9. /\ EntriesRead' = EntriesRead \cup {b}
      /\ \A c \in EntriesRead : users[Place(c)] = EntryAfter(c)
  BY DEF ListInv
<1>10. {EntryAfter(c)' : c \in EntryStarts'} = E
  BY FileStays
<1> HIDE DEF b, E
<1>11. /\ users' \in Seq(E) /\ Len(users') = Cardinality(EntriesRead) + 1
       /\ users'[Cardinality(EntriesRead) + 1] = EntryAfter(b)
       /\ \A i \in 1 .. Cardinality(EntriesRead) : users'[i] = users[i]
  BY <1>7, <1>8
<1>12. \A c \in EntriesRead' : users'[Place(c)] = EntryAfter(c)
  BY <1>5, <1>6, <1>9, <1>11
<1>13. \A c : Place(c)' = Place(c) /\ EntryAfter(c)' = EntryAfter(c)
  BY FileStays
<1>14. \A c \in EntriesRead' : users'[Place(c)'] = EntryAfter(c)'
  BY <1>12, <1>13
<1>15. users' \in Seq({EntryAfter(c)' : c \in EntryStarts'})
  BY <1>10, <1>11
<1>16. Len(users') = Cardinality(EntriesRead')
  BY <1>4, <1>9, <1>11
<1>. QED
  BY <1>14, <1>15, <1>16 DEF ListInv

LEMMA ListStays ==
    ASSUME ListInv, file' = file, users' = users, EntriesRead' = EntriesRead,
           start' = "ready" => EntriesRead = EntryStarts
    PROVE  ListInv'
<1>1. \A c : Place(c)' = Place(c) /\ EntryAfter(c)' = EntryAfter(c)
  BY FileStays
<1>2. EntryStarts' = EntryStarts
  BY FileStays
<1>3. \A c \in EntriesRead' : users'[Place(c)'] = EntryAfter(c)'
  BY <1>1 DEF ListInv
<1>4. {EntryAfter(c)' : c \in EntryStarts'} = {EntryAfter(c) : c \in EntryStarts}
  BY <1>1, <1>2
<1>5. users' \in Seq({EntryAfter(c)' : c \in EntryStarts'})
  BY <1>4 DEF ListInv
<1>. QED
  BY <1>2, <1>3, <1>5 DEF ListInv

LEMMA LineFacts ==
    ASSUME LineInv
    PROVE  /\ file \in Seq(STRING) /\ Len(file) \in Nat /\ DOMAIN file = 1 .. Len(file)
           /\ pos \in Nat /\ pos <= Len(file)
           /\ line \in Seq(STRING) /\ Len(line) \in Nat /\ Len(line) <= pos
           /\ LineBegin \in Nat /\ LineBegin <= pos /\ LineBegin + Len(line) = pos
           /\ \A c \in EntryStarts : c \in Nat /\ c <= Len(file) /\ c \in Breaks
           /\ \A i \in 1 .. Len(line) : line[i] = file[LineBegin + i]
<1>1. file \in Seq(STRING) /\ Len(file) \in Nat /\ DOMAIN file = 1 .. Len(file)
  BY FileFacts DEF LineInv
<1>2. /\ pos \in Nat /\ pos <= Len(file)
      /\ line \in Seq(STRING) /\ Len(line) \in Nat /\ Len(line) <= pos
  <2>1. pos \in 0 .. Len(file) /\ line \in Seq(STRING) /\ Len(line) <= pos
    BY DEF LineInv
  <2>2. Len(line) \in Nat
    BY <2>1
  <2>3. pos \in Nat /\ pos <= Len(file)
    BY <1>1, <2>1
  <2>. QED
    BY <2>1, <2>2, <2>3
<1>3. LineBegin \in Nat /\ LineBegin <= pos /\ LineBegin + Len(line) = pos
  BY <1>2 DEF LineBegin
<1>4. \A c \in EntryStarts : c \in Nat /\ c <= Len(file) /\ c \in Breaks
  <2>1. EntryStarts \subseteq Breaks /\ EntryStarts \subseteq 0 .. Len(file)
    BY FileFacts DEF LineInv
  <2>. QED
    BY <1>1, <2>1
<1>5. line = SubSeq(file, LineBegin + 1, pos)
  BY DEF LineInv
<1>6. \A i \in 1 .. Len(line) : line[i] = file[LineBegin + i]
  <2> DEFINE b == LineBegin
  <2>1. b \in Nat /\ line = SubSeq(file, b + 1, pos) /\ b <= pos
    BY <1>3, <1>5
  <2> HIDE DEF b
  <2>2. \A i \in 1 .. Len(line) : line[i] = file[(b + 1) + i - 1]
    BY <1>1, <1>2, <2>1
  <2>3. \A i \in 1 .. Len(line) : (b + 1) + i - 1 = b + i
    BY <2>1
  <2>. QED
    BY <2>2, <2>3 DEF b
<1>. QED
  BY <1>1, <1>2, <1>3, <1>4, <1>6

LEMMA ReadCharLine ==
    ASSUME LineInv, ListInv, ReadChar
    PROVE  LineInv' /\ ListInv' /\ Len(line') <= LineSize
<1> DEFINE c == file[pos + 1]
<1>1. /\ start = "reading" /\ pos < Len(file) /\ c # Newline
      /\ line' = Append(line, c) /\ pos' = pos + 1 /\ UNCHANGED <<file, users>>
      /\ start' = IF Len(line') >= LineSize THEN "exit" ELSE "reading"
  BY DEF ReadChar
<1>2. c \in STRING /\ pos + 1 \in 1 .. Len(file)
  BY <1>1, LineFacts
<1>3. /\ line' \in Seq(STRING) /\ Len(line') = Len(line) + 1
      /\ line'[Len(line) + 1] = c
      /\ \A i \in 1 .. Len(line) : line'[i] = line[i]
  BY <1>1, <1>2, LineFacts
<1>4. LineBegin' = LineBegin
  BY <1>1, <1>3, LineFacts DEF LineBegin
<1>5. line' = SubSeq(file, LineBegin + 1, pos + 1)
  <2> DEFINE b == LineBegin
             r == SubSeq(file, b + 1, pos + 1)
  <2>1. b \in Nat /\ b + Len(line) = pos
    BY LineFacts
  <2> HIDE DEF b
  <2>2. r \in Seq(STRING) /\ Len(r) = pos + 1 - b
    BY <1>1, <1>2, <2>1, LineFacts
  <2>3. \A i \in 1 .. pos + 1 - b : r[i] = file[b + i]
    <3>1. \A i \in 1 .. pos + 1 - b : r[i] = file[(b + 1) + i - 1]
      BY <1>1, <1>2, <2>1, LineFacts
    <3>2. \A i \in 1 .. pos + 1 - b : (b + 1) + i - 1 = b + i
      BY <2>1
    <3>. QED
      BY <3>1, <3>2
  <2>4. pos + 1 - b = Len(line) + 1 /\ b + (Len(line) + 1) = pos + 1
    BY <2>1, LineFacts
  <2>5. \A i \in 1 .. Len(line) + 1 : line'[i] = file[b + i]
    <3>1. TAKE i \in 1 .. Len(line) + 1
    <3>2. CASE i = Len(line) + 1
      BY <1>3, <2>4, <3>2
    <3>3. CASE i \in 1 .. Len(line)
      BY <1>3, <3>3, LineFacts DEF b
    <3>. QED
      BY <3>2, <3>3, LineFacts
  <2> HIDE DEF r
  <2>6. Len(r) = Len(line') /\ \A i \in 1 .. Len(line') : line'[i] = r[i]
    BY <1>3, <2>2, <2>3, <2>4, <2>5
  <2>7. line' = r
    BY <1>3, <2>2, <2>6
  <2>. QED
    BY <2>7 DEF b, r
<1>6. \A i \in LineBegin + 1 .. pos + 1 : file[i] # Newline
  <2>1. TAKE i \in LineBegin + 1 .. pos + 1
  <2>2. i = pos + 1 \/ i \in LineBegin + 1 .. pos
    BY LineFacts
  <2>. QED
    BY <1>1, <2>2 DEF LineInv
<1>7. LineBegin \in Breaks
  BY <1>1, LineFacts DEF LineInv
<1>8. Len(line') <= LineSize /\ (start' = "reading" => Len(line') < LineSize)
  BY <1>1, <1>3, LineFacts, UserFileAssumption DEF LineInv
<1>9. LineInv'
  <2>1. pos' \in 0 .. Len(file') /\ Len(line') <= pos' /\ file' \in UserFiles
    <3>1. file' \in UserFiles
      BY <1>1 DEF LineInv
    <3>2. pos + 1 \in 0 .. Len(file) /\ Len(line) + 1 <= pos + 1
      BY <1>1, LineFacts
    <3>. QED
      BY <1>1, <1>3, <3>1, <3>2
  <2>2. \A i \in LineBegin' + 1 .. pos' : file'[i] # Newline
    BY <1>1, <1>4, <1>6
  <2>3. line' = SubSeq(file', LineBegin' + 1, pos')
    BY <1>1, <1>4, <1>5
  <2>4. LineBegin' \in Breaks'
    BY <1>1, <1>4, <1>7, FileStays
  <2>. QED
    BY <1>3, <1>8, <2>1, <2>2, <2>3, <2>4 DEF LineInv, Newline
<1>10. ListInv'
  <2>1. EntriesRead' = EntriesRead
    BY <1>1, <1>4, FileStays DEF EntriesRead
  <2>2. start' # "ready"
    BY <1>1
  <2>. QED
    BY <1>1, <2>1, <2>2, ListStays
<1>. QED
  BY <1>8, <1>9, <1>10

\* After a newline, and after the last line, buf is empty.
LEMMA EmptyLine ==
    ASSUME LineInv, file' = file, line' = <<>>, pos' \in pos .. Len(file),
           pos' \in Breaks \/ pos' = Len(file)
    PROVE  LineInv' /\ LineBegin' = pos'
<1>1. Len(line') = 0 /\ line' \in Seq(STRING)
  OBVIOUS
<1>2. pos' \in Nat /\ LineBegin' = pos'
  <2>1. pos' \in Nat
    BY LineFacts
  <2>2. LineBegin' = pos' - Len(line')
    BY DEF LineBegin
  <2>3. \A n \in Nat : n - 0 = n
    OBVIOUS
  <2>. QED
    BY <1>1, <2>1, <2>2, <2>3
<1>3. SubSeq(file', LineBegin' + 1, pos') = <<>>
  <2>1. \A n \in Nat : SubSeq(file, n + 1, n) = <<>>
    BY LineFacts
  <2>. QED
    BY <1>2, <2>1
<1>4. LineBegin' + 1 .. pos' = {}
  <2>1. \A n \in Nat : n + 1 .. n = {}
    OBVIOUS
  <2>. QED
    BY <1>2, <2>1
<1>5. LineBegin' \in Breaks' \/ (pos' = Len(file') /\ Len(line') = 0)
  BY <1>1, <1>2, FileStays
<1>6. file' \in UserFiles /\ pos' \in 0 .. Len(file') /\ Len(line') <= pos'
  BY <1>1, <1>2, LineFacts DEF LineInv
<1>7. start' = "reading" => Len(line') < LineSize
  BY <1>1, UserFileAssumption
<1>. QED
  BY <1>1, <1>2, <1>3, <1>4, <1>5, <1>6, <1>7 DEF LineInv

LEMMA ReadNewlineLine ==
    ASSUME LineInv, ListInv, ReadNewline
    PROVE  LineInv' /\ ListInv' /\ Len(line') <= LineSize
<1>1. /\ start = "reading" /\ start' = "reading" /\ pos < Len(file)
      /\ file[pos + 1] = Newline /\ pos' = pos + 1 /\ file' = file
      /\ IF Len(line) < 3 THEN SkipLine ELSE LineRead
  BY DEF ReadNewline
<1>2. line' = <<>>
  BY <1>1 DEF SkipLine, LineRead
<1>3. pos' \in Breaks /\ pos' \in pos .. Len(file)
  BY <1>1, LineFacts DEF Breaks
<1>4. LineInv' /\ LineBegin' = pos + 1
  BY <1>1, <1>2, <1>3, EmptyLine
<1>5. LineBegin \in Breaks
  BY <1>1, LineFacts DEF LineInv
<1>6. /\ LineAfter(LineBegin) = line
      /\ LineBegin \in EntryStarts <=> Len(line) >= 3
      /\ \A c \in EntryStarts : c <= LineBegin \/ c > pos
  BY <1>1, <1>5, LineEndFacts
<1>7. EntriesRead' = {c \in EntryStarts : c <= LineBegin}
  <2>1. \A c \in EntryStarts : c < pos + 1 <=> c <= LineBegin
    BY <1>6, LineFacts
  <2>. QED
    BY <1>1, <1>4, <2>1, FileStays DEF EntriesRead
<1>8. \A c \in EntryStarts : c <= LineBegin <=> c < LineBegin \/ c = LineBegin
  BY LineFacts
<1>9. CASE Len(line) < 3
  <2>1. LineBegin \notin EntryStarts
    BY <1>6, <1>9, LineFacts
  <2>2. EntriesRead' = EntriesRead
    BY <1>7, <1>8, <2>1 DEF EntriesRead
  <2>. QED
    BY <1>1, <1>2, <1>4, <1>9, <2>2, ListStays, UserFileAssumption DEF SkipLine
<1>10. CASE ~ (Len(line) < 3)
  <2>1. LineBegin \in EntryStarts
    BY <1>6, <1>10, LineFacts
  <2>2. EntriesRead' = EntriesRead \cup {LineBegin}
    BY <1>7, <1>8, <2>1 DEF EntriesRead
  <2>3. users' = Append(users, EntryAfter(LineBegin))
    BY <1>1, <1>6, <1>10 DEF LineRead, EntryAfter
  <2>4. ListInv'
    BY <1>1, <2>1, <2>2, <2>3, ListGrows
  <2>. QED
    BY <1>2, <1>4, <2>4, UserFileAssumption
<1>. QED
  BY <1>9, <1>10

LEMMA ReadEndLine ==
    ASSUME LineInv, ListInv, ReadEnd
    PROVE  LineInv' /\ ListInv' /\ Len(line') <= LineSize
<1>1. /\ start = "reading" /\ pos = Len(file) /\ pos' = pos /\ file' = file
      /\ line' = <<>>
  BY DEF ReadEnd, LineRead
<1>2. pos' = Len(file) /\ pos' \in pos .. Len(file)
  BY <1>1, LineFacts
<1>3. LineInv' /\ LineBegin' = pos
  BY <1>1, <1>2, EmptyLine
<1>4. Len(line') <= LineSize
  BY <1>1, UserFileAssumption
<1>5. \A c \in EntryStarts : c <= LineBegin
  <2>1. CASE LineBegin \in Breaks
    <3>1. \A c \in EntryStarts : c <= LineBegin \/ c > pos
      BY <1>1, <2>1, LineEndFacts, LineFacts
    <3>. QED
      BY <1>1, <3>1, LineFacts
  <2>2. CASE Len(line) = 0
    BY <1>1, <2>2, LineFacts
  <2>. QED
    BY <2>1, <2>2 DEF LineInv
<1>6. LineBegin \in EntryStarts <=> LineBegin \in Breaks /\ Len(line) >= 2
  BY <1>1, LineEndFacts, LineFacts
<1>7. \A c \in EntryStarts : c <= LineBegin <=> c < LineBegin \/ c = LineBegin
  BY LineFacts
<1>8. CASE Len(line) <= 1
  <2>1. start' = "ready" /\ users' = users
    BY <1>8 DEF ReadEnd
  <2>2. LineBegin \notin EntryStarts
    BY <1>6, <1>8, LineFacts
  <2>3. EntriesRead = EntryStarts
    BY <1>5, <1>7, <2>2 DEF EntriesRead
  <2>4. \A c \in EntryStarts : c < pos
    BY <1>5, <1>7, <2>2, LineFacts
  <2>5. EntriesRead' = EntryStarts
    BY <1>1, <1>3, <2>4, FileStays DEF EntriesRead
  <2>. QED
    BY <1>1, <1>3, <1>4, <2>1, <2>3, <2>5, ListStays
<1>9. CASE ~ (Len(line) <= 1)
  <2>1. LineRead /\ start' = start
    BY <1>9 DEF ReadEnd
  <2>2. LineBegin \in Breaks
    BY <1>9, LineFacts DEF LineInv
  <2>3. LineBegin \in EntryStarts /\ LineBegin < pos
    BY <1>6, <1>9, <2>2, LineFacts
  <2>4. \A c \in EntryStarts : c < pos
    BY <1>5, <2>3, LineFacts
  <2>5. EntriesRead' = EntryStarts
    BY <1>1, <1>3, <2>4, FileStays DEF EntriesRead
  <2>6. EntriesRead' = EntriesRead \cup {LineBegin}
    BY <1>5, <1>7, <2>3, <2>5 DEF EntriesRead
  <2>7. LineAfter(LineBegin) = line
    BY <1>1, <2>2, LineEndFacts, LineFacts
  <2>8. users' = Append(users, EntryAfter(LineBegin))
    BY <2>1, <2>7 DEF LineRead, EntryAfter
  <2>9. ListInv'
    BY <1>1, <2>1, <2>3, <2>6, <2>8, ListGrows
  <2>. QED
    BY <1>3, <1>4, <2>9
<1>. QED
  BY <1>8, <1>9

-----------------------------------------------------------------------------
(* Every step keeps the invariant.                                         *)

Replies == [to : {"none", "USER", "PASS", "PASV"},
            code : {"none", "331", "530", "230", "227"},
            arg : Names \cup Passwords \cup Seq(CharType)]

Places == {"idle", "size", "replace", "assign", "length", "copy", "chars"}

LEMMA StateFacts ==
    ASSUME StateInv
    PROVE  /\ address \in [Sessions -> Addresses]
           /\ user \in [Sessions -> Names \cup {<<>>}]
           /\ reply \in [Sessions -> Replies]
           /\ pc \in [Sessions -> Places]
           /\ replaced \in [Sessions -> 0 .. Capacity]
           /\ oldSize \in [Sessions -> 0 .. Capacity]
           /\ ipLen \in [Sessions -> 0 .. Capacity]
           /\ chars \in [Room -> CharType]
           /\ length \in 0 .. Capacity /\ torn \in BOOLEAN
           /\ commands \in Nat
           /\ \A s \in Sessions : pc[s] = "length" => InPlace(s)
<1>1. commands \in Nat
  <2>1. commands \in 0 .. MaxCommands
    BY DEF StateInv, TypeOK
  <2>. QED
    BY <2>1, SessionAssumption
<1>. QED
  BY <1>1 DEF StateInv, TypeOK, Replies, Places

\* The state of PASV has its types and PASV leaves the rest as it is.
PasvTypes ==
    /\ pc \in [Sessions -> Places]
    /\ replaced \in [Sessions -> 0 .. Capacity]
    /\ oldSize \in [Sessions -> 0 .. Capacity]
    /\ ipLen \in [Sessions -> 0 .. Capacity]
    /\ chars \in [Room -> CharType]
    /\ length \in 0 .. Capacity /\ torn \in BOOLEAN
    /\ \A s \in Sessions : pc[s] = "length" => InPlace(s)

LEMMA PasvKeepsState ==
    ASSUME StateInv, PasvTypes', UNCHANGED userVars, UNCHANGED <<address, user>>,
           reply' \in [Sessions -> Replies], commands' \in 0 .. MaxCommands
    PROVE  StateInv'
<1>1. UNCHANGED <<file, pos, line, users, start>>
  BY DEF userVars
<1>2. Room' = Room /\ DOMAIN chars' = Room
  BY DEF Room, PasvTypes
<1>3. TypeOK'
  BY <1>1, <1>2 DEF StateInv, TypeOK, PasvTypes, Places
<1>. QED
  BY <1>1, <1>2, <1>3 DEF StateInv, PasvTypes, Replies

LEMMA InPlaceStays ==
    ASSUME StateInv, address' = address, oldSize' = oldSize, replaced' = replaced,
           pc' = pc
    PROVE  \A s \in Sessions : pc'[s] = "length" => InPlace(s)'
  BY DEF StateInv, InPlace, NewSize

LEMMA ReadUsersPreserves ==
    ASSUME IInv, ReadUsers, UNCHANGED <<address, user, reply, pasvVars, commands>>
    PROVE  IInv'
<1>1. StateInv /\ LineInv /\ ListInv /\ LoginInv /\ AddressInv /\ start = "reading"
  BY DEF IInv, ReadUsers, ReadChar, ReadNewline, ReadEnd, ReadFails
<1>2. UNCHANGED <<address, user, reply, pc, replaced, oldSize, ipLen, chars, length, torn, commands>>
  BY DEF pasvVars
<1>3. /\ LineInv' /\ ListInv' /\ Len(line') \in 0 .. LineSize
      /\ start' \in {"reading", "ready", "exit"}
  <2>1. CASE ReadChar
    <3>1. LineInv' /\ ListInv' /\ Len(line') <= LineSize
      BY <1>1, <2>1, ReadCharLine
    <3>2. Len(line') \in Nat
      BY <3>1 DEF LineInv
    <3>. QED
      BY <2>1, <3>1, <3>2, UserFileAssumption DEF ReadChar
  <2>2. CASE ReadNewline
    <3>1. LineInv' /\ ListInv' /\ Len(line') <= LineSize
      BY <1>1, <2>2, ReadNewlineLine
    <3>2. Len(line') \in Nat
      BY <3>1 DEF LineInv
    <3>. QED
      BY <1>1, <2>2, <3>1, <3>2, UserFileAssumption DEF ReadNewline
  <2>3. CASE ReadEnd
    <3>1. LineInv' /\ ListInv' /\ Len(line') <= LineSize
      BY <1>1, <2>3, ReadEndLine
    <3>2. Len(line') \in Nat
      BY <3>1 DEF LineInv
    <3>. QED
      BY <1>1, <2>3, <3>1, <3>2, UserFileAssumption DEF ReadEnd
  <2>4. CASE ReadFails
    <3>1. start' = "exit" /\ UNCHANGED <<file, pos, line, users>>
      BY <2>4 DEF ReadFails
    <3>2. LineBegin' = LineBegin /\ EntriesRead' = EntriesRead
      BY <3>1, FileStays DEF LineBegin, EntriesRead
    <3>3. LineInv'
      BY <1>1, <3>1, <3>2, FileStays DEF LineInv
    <3>4. ListInv'
      BY <1>1, <3>1, <3>2, ListStays
    <3>5. Len(line') \in 0 .. LineSize
      BY <1>1, <3>1 DEF StateInv, TypeOK
    <3>. QED
      BY <3>1, <3>3, <3>4, <3>5
  <2>. QED
    BY <2>1, <2>2, <2>3, <2>4 DEF ReadUsers
<1>4. pos' \in 0 .. Len(file')
  BY <1>3 DEF LineInv
<1>5. StateInv'
  <2>1. Room' = Room
    BY DEF Room
  <2>. QED
    BY <1>1, <1>2, <1>3, <1>4, <2>1, InPlaceStays DEF StateInv, TypeOK
<1>6. LoginInv'
  <2>1. \A s \in Sessions : user[s] = <<>> /\ reply[s].to # "PASS"
    BY <1>1 DEF LoginInv
  <2>. QED
    BY <1>2, <2>1 DEF LoginInv
<1>7. AddressInv'
  BY <1>1, <1>2 DEF AddressInv, SharedInv, UntornInv, Stored
<1>. QED
  BY <1>3, <1>5, <1>6, <1>7 DEF IInv

\* A command of a session leaves the file and the list as they are.
LEMMA UsersStay ==
    ASSUME LineInv, ListInv, UNCHANGED userVars
    PROVE  /\ LineInv' /\ ListInv'
           /\ \A name : /\ is_user_valid(name)' <=> is_user_valid(name)
                        /\ get_user_password(name)' = get_user_password(name)
<1>1. UNCHANGED <<file, pos, line, users, start>>
  BY DEF userVars
<1>2. LineBegin' = LineBegin /\ EntriesRead' = EntriesRead
  BY <1>1, FileStays DEF LineBegin, EntriesRead
<1>3. LineInv'
  BY <1>1, <1>2, FileStays DEF LineInv
<1>4. ListInv'
  BY <1>1, <1>2, ListStays DEF ListInv
<1>5. \A name : is_user_valid(name)' <=> is_user_valid(name)
  BY <1>1 DEF is_user_valid
<1>6. \A name : get_user_password(name)' = get_user_password(name)
  BY <1>1, <1>5 DEF get_user_password
<1>. QED
  BY <1>3, <1>4, <1>5, <1>6

LEMMA UserPreserves ==
    ASSUME IInv, NEW s \in Sessions, NEW name \in Names, User(s, name)
    PROVE  IInv'
<1>1. StateInv /\ LineInv /\ ListInv /\ LoginInv /\ AddressInv
  BY DEF IInv
<1>2. /\ start = "ready" /\ commands < MaxCommands /\ commands' = commands + 1
      /\ UNCHANGED userVars /\ UNCHANGED <<file, pos, line, users, start>>
      /\ UNCHANGED <<address, pc, replaced, oldSize, ipLen, chars, length, torn>>
  BY DEF User, Handle, userVars, pasvVars
<1>3. /\ LineInv' /\ ListInv'
      /\ \A n : /\ is_user_valid(n)' <=> is_user_valid(n)
                /\ get_user_password(n)' = get_user_password(n)
  BY <1>1, <1>2, UsersStay
<1>4. PICK code \in {"331", "530"} :
          reply' = [reply EXCEPT ![s] = [to |-> "USER", code |-> code, arg |-> name]]
  BY DEF User, Reply
<1>5. /\ user' \in [Sessions -> Names \cup {<<>>}]
      /\ \A r \in Sessions : r # s => user'[r] = user[r]
      /\ user'[s] = user[s] \/ (user'[s] = name /\ is_user_valid(name))
  BY <1>1, StateFacts DEF User
<1>6. /\ reply' \in [Sessions -> Replies]
      /\ reply'[s].to = "USER"
      /\ \A r \in Sessions : r # s => reply'[r] = reply[r]
  BY <1>1, <1>4, StateFacts DEF Replies
<1>7. StateInv'
  <2>1. commands' \in 0 .. MaxCommands
    BY <1>1, <1>2, StateFacts, SessionAssumption
  <2>2. Room' = Room
    BY DEF Room
  <2>. QED
    BY <1>1, <1>2, <1>5, <1>6, <2>1, <2>2, InPlaceStays DEF StateInv, TypeOK, Replies
<1>8. LoginInv'
  <2>1. ASSUME NEW r \in Sessions, user'[r] # <<>>
        PROVE  start' = "ready" /\ is_user_valid(user'[r])
    BY <1>1, <1>2, <1>5, <2>1 DEF LoginInv
  <2>2. ASSUME NEW r \in Sessions, reply'[r].to = "PASS"
        PROVE  /\ start' = "ready"
               /\ reply'[r].code = "230" <=> reply'[r].arg = get_user_password(user'[r])
    BY <1>1, <1>2, <1>5, <1>6, <2>2 DEF LoginInv
  <2>. QED
    BY <1>2, <2>1, <2>2 DEF LoginInv, is_user_valid, get_user_password
<1>9. AddressInv'
  BY <1>1, <1>2, <1>6 DEF AddressInv, SharedInv, UntornInv, Stored
<1>. QED
  BY <1>3, <1>7, <1>8, <1>9 DEF IInv

LEMMA PassPreserves ==
    ASSUME IInv, NEW s \in Sessions, NEW password \in Passwords, Pass(s, password)
    PROVE  IInv'
<1>1. StateInv /\ LineInv /\ ListInv /\ LoginInv /\ AddressInv
  BY DEF IInv
<1>2. /\ start = "ready" /\ commands < MaxCommands /\ commands' = commands + 1
      /\ UNCHANGED userVars /\ UNCHANGED <<file, pos, line, users, start>>
      /\ UNCHANGED <<address, user, pc, replaced, oldSize, ipLen, chars, length, torn>>
  BY DEF Pass, Handle, userVars, pasvVars
<1>3. LineInv' /\ ListInv'
  BY <1>1, <1>2, UsersStay
<1>4. PICK code \in {"230", "530"} :
          /\ code = "230" <=> password = get_user_password(user[s])
          /\ reply' = [reply EXCEPT ![s] = [to |-> "PASS", code |-> code, arg |-> password]]
  BY DEF Pass, Reply
<1>5. /\ reply' \in [Sessions -> Replies]
      /\ reply'[s].to = "PASS" /\ reply'[s].code = code /\ reply'[s].arg = password
      /\ \A r \in Sessions : r # s => reply'[r] = reply[r]
  BY <1>1, <1>4, StateFacts DEF Replies
<1>6. StateInv'
  <2>1. commands' \in 0 .. MaxCommands
    BY <1>1, <1>2, StateFacts, SessionAssumption
  <2>2. Room' = Room
    BY DEF Room
  <2>. QED
    BY <1>1, <1>2, <1>5, <2>1, <2>2, InPlaceStays DEF StateInv, TypeOK, Replies
<1>7. LoginInv'
  <2>1. ASSUME NEW r \in Sessions, reply'[r].to = "PASS"
        PROVE  /\ start' = "ready"
               /\ reply'[r].code = "230" <=> reply'[r].arg = get_user_password(user[r])
    BY <1>1, <1>2, <1>4, <1>5, <2>1 DEF LoginInv
  <2>2. ASSUME NEW r \in Sessions, user[r] # <<>>
        PROVE  start' = "ready" /\ is_user_valid(user[r])
    BY <1>1, <1>2, <2>2 DEF LoginInv
  <2>. QED
    BY <1>2, <2>1, <2>2 DEF LoginInv, is_user_valid, get_user_password
<1>8. AddressInv'
  BY <1>1, <1>2, <1>5 DEF AddressInv, SharedInv, UntornInv, Stored
<1>. QED
  BY <1>3, <1>6, <1>7, <1>8 DEF IInv

\* PASV changes no user, and no reply to PASS but that of its own session.
LEMMA PasvKeepsLogin ==
    ASSUME LoginInv, UNCHANGED userVars, user' = user,
           \A r \in Sessions : reply'[r] = reply[r] \/ reply'[r].to = "PASV"
    PROVE  LoginInv'
<1>1. UNCHANGED <<users, start>>
  BY DEF userVars
<1>2. ASSUME NEW r \in Sessions, reply'[r].to = "PASS"
      PROVE  /\ start' = "ready"
             /\ reply'[r].code = "230" <=> reply'[r].arg = get_user_password(user[r])
  <2>1. reply'[r] = reply[r]
    BY <1>2
  <2>. QED
    BY <1>1, <1>2, <2>1 DEF LoginInv
<1>3. ASSUME NEW r \in Sessions, user[r] # <<>>
      PROVE  start' = "ready" /\ is_user_valid(user[r])
  BY <1>1, <1>3 DEF LoginInv
<1>. QED
  BY <1>1, <1>2, <1>3 DEF LoginInv, is_user_valid, get_user_password

LEMMA TestAddressPreserves ==
    ASSUME IInv, NEW s \in Sessions, TestAddress(s) PROVE IInv'
<1>1. StateInv /\ LineInv /\ ListInv /\ LoginInv /\ AddressInv
  BY DEF IInv
<1>2. /\ commands < MaxCommands /\ commands' = commands + 1 /\ pc[s] = "idle"
      /\ pc' = [pc EXCEPT ![s] = IF length = 0 THEN "size" ELSE "copy"]
      /\ UNCHANGED userVars /\ UNCHANGED <<file, pos, line, users, start>>
      /\ UNCHANGED <<address, user, reply>>
      /\ UNCHANGED <<replaced, oldSize, ipLen, chars, length, torn>>
  BY DEF TestAddress, Handle, Goto, userVars
<1>3. LineInv' /\ ListInv' /\ LoginInv'
  BY <1>1, <1>2, UsersStay, PasvKeepsLogin
<1>4. /\ pc' \in [Sessions -> Places]
      /\ \A r \in Sessions : /\ r # s => pc'[r] = pc[r]
                             /\ pc'[s] \in {"size", "copy"}
                             /\ pc'[s] = "copy" => length # 0
  <2>1. pc \in [Sessions -> Places]
    BY <1>1, StateFacts
  <2>. QED
    BY <1>2, <2>1 DEF Places
<1>5. StateInv'
  <2>1. commands' \in 0 .. MaxCommands
    BY <1>1, <1>2, StateFacts, SessionAssumption
  <2>2. PasvTypes'
    <3>1. \A r \in Sessions : pc'[r] = "length" => InPlace(r)'
      BY <1>1, <1>2, <1>4, StateFacts DEF InPlace, NewSize
    <3>. QED
      BY <1>1, <1>2, <1>4, <3>1, StateFacts DEF PasvTypes, Room
  <2>. QED
    BY <1>1, <1>2, <2>1, <2>2, StateFacts, PasvKeepsState
<1>6. AddressInv'
  BY <1>1, <1>2, <1>4 DEF AddressInv, SharedInv, UntornInv, Stored
<1>. QED
  BY <1>3, <1>5, <1>6 DEF IInv

LEMMA ReadSizePreserves ==
    ASSUME IInv, NEW s \in Sessions, AssignAddress(s), ReadSize(s) PROVE IInv'
<1>1. StateInv /\ LineInv /\ ListInv /\ LoginInv /\ AddressInv
  BY DEF IInv
<1>2. /\ pc[s] = "size" /\ pc' = [pc EXCEPT ![s] = "replace"]
      /\ replaced' = [replaced EXCEPT ![s] = length]
      /\ UNCHANGED userVars /\ UNCHANGED <<file, pos, line, users, start>>
      /\ UNCHANGED <<address, user, reply, commands>>
      /\ UNCHANGED <<oldSize, ipLen, chars, length, torn>>
  BY DEF AssignAddress, ReadSize, Goto, userVars
<1>3. LineInv' /\ ListInv' /\ LoginInv'
  BY <1>1, <1>2, UsersStay, PasvKeepsLogin
<1>4. /\ pc' \in [Sessions -> Places] /\ replaced' \in [Sessions -> 0 .. Capacity]
      /\ pc'[s] = "replace"
      /\ \A r \in Sessions : r # s => pc'[r] = pc[r] /\ replaced'[r] = replaced[r]
  <2>1. /\ pc \in [Sessions -> Places] /\ length \in 0 .. Capacity
        /\ replaced \in [Sessions -> 0 .. Capacity]
    BY <1>1, StateFacts
  <2>. QED
    BY <1>2, <2>1 DEF Places
<1>5. StateInv'
  <2>1. PasvTypes'
    <3>1. \A r \in Sessions : pc'[r] = "length" => InPlace(r)'
      BY <1>1, <1>2, <1>4, StateFacts DEF InPlace, NewSize
    <3>. QED
      BY <1>1, <1>2, <1>4, <3>1, StateFacts DEF PasvTypes, Room
  <2>2. commands' \in 0 .. MaxCommands
    BY <1>1, <1>2 DEF StateInv, TypeOK
  <2>. QED
    BY <1>1, <1>2, <2>1, <2>2, StateFacts, PasvKeepsState
<1>6. AddressInv'
  BY <1>1, <1>2, <1>4 DEF AddressInv, SharedInv, UntornInv, Stored
<1>. QED
  BY <1>3, <1>5, <1>6 DEF IInv

\* An assign that is not torn has read one length.
LEMMA ReadOldSizePreserves ==
    ASSUME IInv, NEW s \in Sessions, AssignAddress(s), ReadOldSize(s) PROVE IInv'
<1>1. StateInv /\ LineInv /\ ListInv /\ LoginInv /\ AddressInv
  BY DEF IInv
<1>2. /\ pc[s] = "replace" /\ pc' = [pc EXCEPT ![s] = "assign"]
      /\ oldSize' = [oldSize EXCEPT ![s] = length]
      /\ torn' = (torn \/ length # replaced[s])
      /\ UNCHANGED userVars /\ UNCHANGED <<file, pos, line, users, start>>
      /\ UNCHANGED <<address, user, reply, commands>>
      /\ UNCHANGED <<replaced, ipLen, chars, length>>
  BY DEF AssignAddress, ReadOldSize, Goto, userVars
<1>3. LineInv' /\ ListInv' /\ LoginInv'
  BY <1>1, <1>2, UsersStay, PasvKeepsLogin
<1>4. /\ pc' \in [Sessions -> Places] /\ oldSize' \in [Sessions -> 0 .. Capacity]
      /\ pc'[s] = "assign" /\ oldSize'[s] = length
      /\ \A r \in Sessions : r # s => pc'[r] = pc[r] /\ oldSize'[r] = oldSize[r]
  <2>1. /\ pc \in [Sessions -> Places] /\ length \in 0 .. Capacity
        /\ oldSize \in [Sessions -> 0 .. Capacity]
    BY <1>1, StateFacts
  <2>. QED
    BY <1>2, <2>1 DEF Places
<1>5. StateInv'
  <2>1. PasvTypes'
    <3>1. \A r \in Sessions : pc'[r] = "length" => InPlace(r)'
      BY <1>1, <1>2, <1>4, StateFacts DEF InPlace, NewSize
    <3>2. torn' \in BOOLEAN
      BY <1>2
    <3>. QED
      BY <1>1, <1>2, <1>4, <3>1, <3>2, StateFacts DEF PasvTypes, Room
  <2>2. commands' \in 0 .. MaxCommands
    BY <1>1, <1>2 DEF StateInv, TypeOK
  <2>. QED
    BY <1>1, <1>2, <2>1, <2>2, StateFacts, PasvKeepsState
<1>6. AddressInv'
  <2> SUFFICES ASSUME NEW a \in Addresses, \A r \in Sessions : address[r] = a
               PROVE  SharedInv(a)' /\ (~torn' => UntornInv(a)')
    BY <1>2 DEF AddressInv
  <2>1. SharedInv(a) /\ (~torn => UntornInv(a))
    BY <1>1 DEF AddressInv
  <2>2. SharedInv(a)'
    <3>1. ~torn' => ~torn
      BY <1>2
    <3>. QED
      BY <1>2, <1>4, <2>1, <3>1 DEF SharedInv, Stored
  <2>3. ASSUME ~torn' PROVE UntornInv(a)'
    <3>1. ~torn /\ length = replaced[s]
      BY <1>2, <2>3
    <3>. QED
      BY <1>2, <1>4, <2>1, <3>1 DEF UntornInv
  <2>. QED
    BY <2>2, <2>3
<1>. QED
  BY <1>3, <1>5, <1>6 DEF IInv

\* Who shares one address finds it in the buffer when it was stored.
LEMMA SetCharsPreserves ==
    ASSUME IInv, NEW s \in Sessions, AssignAddress(s),
           Goto(s, "assign", "length") /\ SetChars(s) /\ UNCHANGED <<replaced, oldSize>>
    PROVE  IInv'
<1> DEFINE n == Len(address[s])
<1>1. StateInv /\ LineInv /\ ListInv /\ LoginInv /\ AddressInv
  BY DEF IInv
<1>2. /\ pc[s] = "assign" /\ pc' = [pc EXCEPT ![s] = "length"] /\ InPlace(s)
      /\ chars' = [i \in Room |->
             CASE i <= n -> address[s][i]
               [] i > n /\ i <= NewSize(s) -> chars[i - n + replaced[s]]
               [] OTHER -> chars[i]]
      /\ UNCHANGED userVars /\ UNCHANGED <<file, pos, line, users, start>>
      /\ UNCHANGED <<address, user, reply, commands>>
      /\ UNCHANGED <<replaced, oldSize, ipLen, length, torn>>
  BY DEF AssignAddress, Goto, SetChars, userVars
<1>3. LineInv' /\ ListInv' /\ LoginInv'
  BY <1>1, <1>2, UsersStay, PasvKeepsLogin
<1>4. /\ address[s] \in Seq(STRING) /\ n \in Nat \ {0} /\ n <= Capacity
      /\ replaced[s] \in Nat /\ oldSize[s] \in Nat /\ oldSize[s] <= Capacity
      /\ Capacity \in Nat /\ Room = 1 .. Capacity + 1
      /\ NewSize(s) = oldSize[s] - replaced[s] + n
  <2>1. address[s] \in Addresses /\ replaced[s] \in 0 .. Capacity /\ oldSize[s] \in 0 .. Capacity
    BY <1>1, StateFacts
  <2>2. \A m \in 0 .. Capacity : m \in Nat /\ m <= Capacity
    BY RoomFacts
  <2>. QED
    BY <2>1, <2>2, RoomFacts DEF NewSize
<1>5. chars' \in [Room -> CharType]
  <2>1. \A i \in Room : i <= n => address[s][i] \in CharType
    BY <1>4 DEF CharType
  <2>2. \A i \in Room : i > n /\ i <= NewSize(s) => i - n + replaced[s] \in Room
    BY <1>4
  <2>3. \A i \in Room : chars[i] \in CharType
    BY <1>1, StateFacts
  <2> HIDE DEF n
  <2>4. \A i \in Room : chars'[i] \in CharType
    BY <1>2, <2>1, <2>2, <2>3
  <2>. QED
    BY <1>2, <2>4
<1>6. \A i \in 1 .. n : chars'[i] = address[s][i]
  <2>1. \A i \in 1 .. n : i \in Room /\ i <= n
    BY <1>4
  <2>. QED
    BY <1>2, <2>1
<1> HIDE DEF n
<1>7. /\ pc' \in [Sessions -> Places] /\ pc'[s] = "length"
      /\ \A r \in Sessions : r # s => pc'[r] = pc[r]
  <2>1. pc \in [Sessions -> Places]
    BY <1>1, StateFacts
  <2>. QED
    BY <1>2, <2>1 DEF Places
<1>8. StateInv'
  <2>1. PasvTypes'
    <3>1. \A r \in Sessions : pc'[r] = "length" => InPlace(r)'
      BY <1>1, <1>2, <1>7, StateFacts DEF InPlace, NewSize
    <3>. QED
      BY <1>1, <1>2, <1>5, <1>7, <3>1, StateFacts DEF PasvTypes, Room
  <2>2. commands' \in 0 .. MaxCommands
    BY <1>1, <1>2 DEF StateInv, TypeOK
  <2>. QED
    BY <1>1, <1>2, <2>1, <2>2, StateFacts, PasvKeepsState
<1>9. AddressInv'
  <2> SUFFICES ASSUME NEW a \in Addresses, \A r \in Sessions : address[r] = a
               PROVE  SharedInv(a)' /\ (~torn' => UntornInv(a)')
    BY <1>2 DEF AddressInv
  <2>1. SharedInv(a) /\ (~torn => UntornInv(a))
    BY <1>1 DEF AddressInv
  <2>2. Stored(a)'
    BY <1>6 DEF Stored, n
  <2>3. SharedInv(a)'
    BY <1>2, <1>7, <2>1, <2>2 DEF SharedInv
  <2>4. ASSUME ~torn' PROVE UntornInv(a)'
    BY <1>2, <1>7, <2>1, <2>4 DEF UntornInv
  <2>. QED
    BY <2>3, <2>4
<1>. QED
  BY <1>3, <1>8, <1>9 DEF IInv

LEMMA SetLengthPreserves ==
    ASSUME IInv, NEW s \in Sessions, AssignAddress(s),
           Goto(s, "length", "copy") /\ SetLength(s) /\ Return(s)
    PROVE  IInv'
<1> DEFINE n == Len(address[s])
<1>1. StateInv /\ LineInv /\ ListInv /\ LoginInv /\ AddressInv
  BY DEF IInv
<1>2. /\ pc[s] = "length" /\ pc' = [pc EXCEPT ![s] = "copy"] /\ length' = NewSize(s)
      /\ chars' = [chars EXCEPT ![NewSize(s) + 1] = Nul]
      /\ replaced' = [replaced EXCEPT ![s] = 0] /\ oldSize' = [oldSize EXCEPT ![s] = 0]
      /\ UNCHANGED userVars /\ UNCHANGED <<file, pos, line, users, start>>
      /\ UNCHANGED <<address, user, reply, commands, ipLen, torn>>
  BY DEF AssignAddress, Goto, SetLength, Return, userVars
<1>3. LineInv' /\ ListInv' /\ LoginInv'
  BY <1>1, <1>2, UsersStay, PasvKeepsLogin
<1>4. /\ address[s] \in Seq(STRING) /\ n \in Nat \ {0}
      /\ replaced[s] \in Nat /\ oldSize[s] \in Nat /\ oldSize[s] >= replaced[s]
      /\ NewSize(s) <= Capacity /\ Capacity \in Nat /\ Room = 1 .. Capacity + 1
      /\ NewSize(s) = oldSize[s] - replaced[s] + n
  <2>1. address[s] \in Addresses /\ replaced[s] \in 0 .. Capacity /\ oldSize[s] \in 0 .. Capacity
    BY <1>1, StateFacts
  <2>2. \A m \in 0 .. Capacity : m \in Nat
    BY RoomFacts
  <2>3. InPlace(s)
    BY <1>1, <1>2, StateFacts
  <2>. QED
    BY <2>1, <2>2, <2>3, RoomFacts DEF NewSize, InPlace
<1> HIDE DEF n
<1>5. NewSize(s) \in Nat /\ NewSize(s) >= n /\ NewSize(s) # 0
  <2>1. \A x, y \in Nat : x >= y => x - y \in Nat
    OBVIOUS
  <2>2. oldSize[s] - replaced[s] \in Nat
    BY <1>4, <2>1
  <2>. QED
    BY <1>4, <2>2
<1>6. /\ pc' \in [Sessions -> Places] /\ pc'[s] = "copy"
      /\ replaced' \in [Sessions -> 0 .. Capacity] /\ oldSize' \in [Sessions -> 0 .. Capacity]
      /\ \A r \in Sessions :
            r # s => pc'[r] = pc[r] /\ replaced'[r] = replaced[r] /\ oldSize'[r] = oldSize[r]
  <2>1. /\ pc \in [Sessions -> Places] /\ 0 \in 0 .. Capacity
        /\ replaced \in [Sessions -> 0 .. Capacity] /\ oldSize \in [Sessions -> 0 .. Capacity]
    BY <1>1, StateFacts, RoomFacts
  <2>. QED
    BY <1>2, <2>1 DEF Places
<1>7. StateInv'
  <2>1. PasvTypes'
    <3>1. \A r \in Sessions : pc'[r] = "length" => InPlace(r)'
      BY <1>1, <1>2, <1>6, StateFacts DEF InPlace, NewSize
    <3>2. chars' \in [Room -> CharType]
      BY <1>1, <1>2, StateFacts DEF CharType
    <3>3. length' \in 0 .. Capacity
      BY <1>2, <1>4, <1>5
    <3>. QED
      BY <1>1, <1>2, <1>6, <3>1, <3>2, <3>3, StateFacts DEF PasvTypes, Room
  <2>2. commands' \in 0 .. MaxCommands
    BY <1>1, <1>2 DEF StateInv, TypeOK
  <2>. QED
    BY <1>1, <1>2, <2>1, <2>2, StateFacts, PasvKeepsState
<1>8. AddressInv'
  <2> SUFFICES ASSUME NEW a \in Addresses, \A r \in Sessions : address[r] = a
               PROVE  SharedInv(a)' /\ (~torn' => UntornInv(a)')
    BY <1>2 DEF AddressInv
  <2>1. SharedInv(a) /\ (~torn => UntornInv(a)) /\ n = Len(a)
    BY <1>1 DEF AddressInv, n
  <2>2. Stored(a)'
    <3>1. Stored(a)
      BY <1>2, <2>1 DEF SharedInv
    <3>2. \A i \in 1 .. Len(a) : i \in Room /\ i # NewSize(s) + 1
      BY <1>4, <1>5, <2>1
    <3>3. chars \in [Room -> CharType]
      BY <1>1, StateFacts
    <3>. QED
      BY <1>2, <3>1, <3>2, <3>3 DEF Stored
  <2>3. ~torn' => length' = Len(a)
    <3>1. ~torn => oldSize[s] = replaced[s]
      BY <1>2, <2>1 DEF UntornInv
    <3>. QED
      BY <1>2, <1>4, <2>1, <3>1
  <2>4. SharedInv(a)'
    BY <1>2, <1>5, <1>6, <2>1, <2>2, <2>3 DEF SharedInv
  <2>5. ASSUME ~torn' PROVE UntornInv(a)'
    BY <1>2, <1>6, <2>1, <2>5 DEF UntornInv
  <2>. QED
    BY <2>4, <2>5
<1>. QED
  BY <1>3, <1>7, <1>8 DEF IInv

LEMMA CopyLengthPreserves ==
    ASSUME IInv, NEW s \in Sessions, CopyLength(s) PROVE IInv'
<1>1. StateInv /\ LineInv /\ ListInv /\ LoginInv /\ AddressInv
  BY DEF IInv
<1>2. /\ pc[s] = "copy" /\ pc' = [pc EXCEPT ![s] = "chars"]
      /\ ipLen' = [ipLen EXCEPT ![s] = length]
      /\ UNCHANGED userVars /\ UNCHANGED <<file, pos, line, users, start>>
      /\ UNCHANGED <<address, user, reply, commands>>
      /\ UNCHANGED <<replaced, oldSize, chars, length, torn>>
  BY DEF CopyLength, Goto, userVars
<1>3. LineInv' /\ ListInv' /\ LoginInv'
  BY <1>1, <1>2, UsersStay, PasvKeepsLogin
<1>4. /\ pc' \in [Sessions -> Places] /\ ipLen' \in [Sessions -> 0 .. Capacity]
      /\ pc'[s] = "chars" /\ ipLen'[s] = length
      /\ \A r \in Sessions : r # s => pc'[r] = pc[r] /\ ipLen'[r] = ipLen[r]
  <2>1. /\ pc \in [Sessions -> Places] /\ length \in 0 .. Capacity
        /\ ipLen \in [Sessions -> 0 .. Capacity]
    BY <1>1, StateFacts
  <2>. QED
    BY <1>2, <2>1 DEF Places
<1>5. StateInv'
  <2>1. PasvTypes'
    <3>1. \A r \in Sessions : pc'[r] = "length" => InPlace(r)'
      BY <1>1, <1>2, <1>4, StateFacts DEF InPlace, NewSize
    <3>. QED
      BY <1>1, <1>2, <1>4, <3>1, StateFacts DEF PasvTypes, Room
  <2>2. commands' \in 0 .. MaxCommands
    BY <1>1, <1>2 DEF StateInv, TypeOK
  <2>. QED
    BY <1>1, <1>2, <2>1, <2>2, StateFacts, PasvKeepsState
<1>6. AddressInv'
  <2> SUFFICES ASSUME NEW a \in Addresses, \A r \in Sessions : address[r] = a
               PROVE  SharedInv(a)' /\ (~torn' => UntornInv(a)')
    BY <1>2 DEF AddressInv
  <2>1. SharedInv(a) /\ (~torn => UntornInv(a))
    BY <1>1 DEF AddressInv
  <2>2. length # 0 /\ length >= Len(a)
    BY <1>2, <2>1 DEF SharedInv
  <2>3. ~torn => length = Len(a)
    BY <2>1, <2>2 DEF SharedInv
  <2>4. SharedInv(a)'
    BY <1>2, <1>4, <2>1, <2>2 DEF SharedInv, Stored
  <2>5. ASSUME ~torn' PROVE UntornInv(a)'
    BY <1>2, <1>4, <2>1, <2>3, <2>5 DEF UntornInv
  <2>. QED
    BY <2>4, <2>5
<1>. QED
  BY <1>3, <1>5, <1>6 DEF IInv

LEMMA PrefixByChars ==
    ASSUME NEW T, NEW a \in Seq(T), NEW b \in Seq(T), Len(b) >= Len(a),
           \A i \in 1 .. Len(a) : a[i] = b[i]
    PROVE  IsPrefix(a, b)
<1> DEFINE x == SubSeq(a, 1, Len(a))
           y == SubSeq(b, 1, Len(a))
<1>1. Len(a) \in Nat /\ Len(b) \in Nat /\ Len(a) <= Len(b)
  OBVIOUS
<1>2. /\ x \in Seq(T) /\ Len(x) = Len(a)
      /\ y \in Seq(T) /\ Len(y) = Len(a)
      /\ \A i \in 1 .. Len(a) : x[i] = a[i] /\ y[i] = b[i]
  BY <1>1
<1> HIDE DEF x, y
<1>3. \A i \in 1 .. Len(a) : x[i] = y[i]
  BY <1>2
<1>4. x = y
  BY <1>2, <1>3
<1>. QED
  BY <1>1, <1>4 DEF IsPrefix, x, y

LEMMA CopyCharsPreserves ==
    ASSUME IInv, NEW s \in Sessions, CopyChars(s) PROVE IInv'
<1> DEFINE text == SubSeq(chars, 1, ipLen[s])
<1>1. StateInv /\ LineInv /\ ListInv /\ LoginInv /\ AddressInv
  BY DEF IInv
<1>2. /\ pc[s] = "chars" /\ pc' = [pc EXCEPT ![s] = "idle"]
      /\ reply' = [reply EXCEPT ![s] = [to |-> "PASV", code |-> "227", arg |-> text]]
      /\ UNCHANGED userVars /\ UNCHANGED <<file, pos, line, users, start>>
      /\ UNCHANGED <<address, user, commands>>
      /\ UNCHANGED <<replaced, oldSize, ipLen, chars, length, torn>>
  BY DEF CopyChars, Goto, Reply, userVars
<1>3. /\ text \in Seq(CharType) /\ Len(text) = ipLen[s] /\ ipLen[s] \in Nat
      /\ \A i \in 1 .. ipLen[s] : text[i] = chars[i]
  <2>1. chars \in Seq(CharType) /\ Len(chars) = Capacity + 1
    <3>1. chars \in [1 .. Capacity + 1 -> CharType] /\ Capacity + 1 \in Nat
      BY <1>1, StateFacts, RoomFacts
    <3>. QED
      BY <3>1
  <2>2. ipLen[s] \in Nat /\ ipLen[s] <= Capacity
    <3>1. ipLen[s] \in 0 .. Capacity
      BY <1>1, StateFacts
    <3>. QED
      BY <3>1, RoomFacts
  <2>3. \A i \in 1 .. ipLen[s] : 1 + i - 1 = i
    BY <2>2
  <2>. QED
    BY <2>1, <2>2, <2>3, RoomFacts
<1> HIDE DEF text
<1>4. /\ reply' \in [Sessions -> Replies]
      /\ reply'[s].to = "PASV" /\ reply'[s].arg = text
      /\ \A r \in Sessions : r # s => reply'[r] = reply[r]
  BY <1>1, <1>2, <1>3, StateFacts DEF Replies
<1>5. LineInv' /\ ListInv' /\ LoginInv'
  BY <1>1, <1>2, <1>4, UsersStay, PasvKeepsLogin
<1>6. /\ pc' \in [Sessions -> Places] /\ pc'[s] = "idle"
      /\ \A r \in Sessions : r # s => pc'[r] = pc[r]
  <2>1. pc \in [Sessions -> Places]
    BY <1>1, StateFacts
  <2>. QED
    BY <1>2, <2>1 DEF Places
<1>7. StateInv'
  <2>1. PasvTypes'
    <3>1. \A r \in Sessions : pc'[r] = "length" => InPlace(r)'
      BY <1>1, <1>2, <1>6, StateFacts DEF InPlace, NewSize
    <3>. QED
      BY <1>1, <1>2, <1>6, <3>1, StateFacts DEF PasvTypes, Room
  <2>2. commands' \in 0 .. MaxCommands
    BY <1>1, <1>2 DEF StateInv, TypeOK
  <2>. QED
    BY <1>1, <1>2, <1>4, <2>1, <2>2, PasvKeepsState
<1>8. AddressInv'
  <2> SUFFICES ASSUME NEW a \in Addresses, \A r \in Sessions : address[r] = a
               PROVE  SharedInv(a)' /\ (~torn' => UntornInv(a)')
    BY <1>2 DEF AddressInv
  <2>1. SharedInv(a) /\ (~torn => UntornInv(a))
    BY <1>1 DEF AddressInv
  <2>2. Stored(a) /\ ipLen[s] >= Len(a)
    BY <1>2, <2>1 DEF SharedInv
  <2>3. a \in Seq(CharType) /\ Len(a) \in Nat
    <3>1. a \in Seq(STRING) /\ Len(a) \in Nat
      BY RoomFacts
    <3>2. DOMAIN a = 1 .. Len(a) /\ \A i \in 1 .. Len(a) : a[i] \in CharType
      BY <3>1 DEF CharType
    <3>3. a = [i \in 1 .. Len(a) |-> a[i]]
      BY <3>1, <3>2
    <3>. QED
      BY <3>1, <3>2, <3>3
  <2>4. \A i \in 1 .. Len(a) : a[i] = text[i]
    <3>1. \A i \in 1 .. Len(a) : i \in 1 .. ipLen[s]
      BY <1>3, <2>2, <2>3
    <3>. QED
      BY <1>3, <2>2, <3>1 DEF Stored
  <2>5. IsPrefix(a, text)
    BY <1>3, <2>2, <2>3, <2>4, PrefixByChars
  <2>6. SharedInv(a)'
    BY <1>2, <1>4, <1>6, <2>1, <2>5 DEF SharedInv, Stored
  <2>7. ASSUME ~torn' PROVE UntornInv(a)'
    <3>1. ipLen[s] = Len(a)
      BY <1>2, <2>1, <2>7 DEF UntornInv
    <3>2. text = a
      BY <1>3, <2>3, <2>4, <3>1
    <3>. QED
      BY <1>2, <1>4, <1>6, <2>1, <2>7, <3>2 DEF UntornInv
  <2>. QED
    BY <2>6, <2>7
<1>. QED
  BY <1>5, <1>7, <1>8 DEF IInv

-----------------------------------------------------------------------------
(* The theorems.                                                           *)

LEMMA InitIInv == Init => IInv
<1> SUFFICES ASSUME Init PROVE IInv
  OBVIOUS
<1>1. /\ file \in UserFiles /\ pos = 0 /\ line = <<>> /\ users = <<>> /\ start = "reading"
      /\ Len(line) = 0
  BY DEF Init, UserFileInit
<1>2. file \in Seq(STRING) /\ Len(file) \in Nat /\ EntryStarts \subseteq 0 .. Len(file)
  BY <1>1, FileFacts
<1>3. LineBegin = 0 /\ EntriesRead = {}
  <2>1. LineBegin = 0
    <3>1. 0 - 0 = 0
      OBVIOUS
    <3>. QED
      BY <1>1, <3>1 DEF LineBegin
  <2>2. \A b \in EntryStarts : ~ (b < 0)
    BY <1>2
  <2>. QED
    BY <2>1, <2>2 DEF EntriesRead
<1>4. LineInv
  <2>1. 0 \in Breaks
    BY DEF Breaks
  <2>2. SubSeq(file, 0 + 1, 0) = <<>> /\ 0 + 1 .. 0 = {}
    BY <1>2
  <2>3. line \in Seq(STRING)
    BY <1>1
  <2>. QED
    BY <1>1, <1>2, <1>3, <2>1, <2>2, <2>3, UserFileAssumption DEF LineInv
<1>5. ListInv
  <2>1. Cardinality({}) = 0
    BY FS_EmptySet
  <2>2. users \in Seq({EntryAfter(b) : b \in EntryStarts}) /\ Len(users) = 0
    BY <1>1
  <2>. QED
    BY <1>1, <1>3, <2>1, <2>2 DEF ListInv
<1>6. /\ address \in [Sessions -> Addresses]
      /\ user = [s \in Sessions |-> <<>>]
      /\ reply = [s \in Sessions |-> NoReply]
      /\ pc = [s \in Sessions |-> "idle"]
      /\ replaced = [s \in Sessions |-> 0] /\ oldSize = [s \in Sessions |-> 0]
      /\ ipLen = [s \in Sessions |-> 0] /\ torn = FALSE
      /\ chars = [i \in Room |-> Nul] /\ length = 0 /\ commands = 0
  BY DEF Init
<1>7. StateInv
  <2>1. 0 \in 0 .. Capacity
    BY RoomFacts
  <2>2. TypeOK
    <3>1. /\ pc \in [Sessions -> Places]
          /\ replaced \in [Sessions -> 0 .. Capacity] /\ oldSize \in [Sessions -> 0 .. Capacity]
          /\ ipLen \in [Sessions -> 0 .. Capacity] /\ length \in 0 .. Capacity
          /\ torn \in BOOLEAN /\ DOMAIN chars = Room
          /\ user \in [Sessions -> Names \cup {<<>>}]
      BY <1>6, <2>1 DEF Places
    <3>2. pos \in 0 .. Len(file) /\ Len(line) \in 0 .. LineSize /\ commands \in 0 .. MaxCommands
      BY <1>1, <1>2, <1>6, SessionAssumption, UserFileAssumption
    <3>. QED
      BY <1>1, <1>6, <3>1, <3>2 DEF TypeOK, Places
  <2>3. NoReply \in Replies
    <3>1. <<>> \in Seq(CharType)
      OBVIOUS
    <3>. QED
      BY <3>1 DEF NoReply, Replies
  <2>4. reply \in [Sessions -> Replies]
    BY <1>6, <2>3
  <2>6. chars \in [Room -> CharType]
    BY <1>6 DEF CharType
  <2>. QED
    BY <1>6, <2>2, <2>4, <2>6 DEF StateInv, Replies
<1>8. LoginInv
  BY <1>6 DEF LoginInv, NoReply
<1>9. AddressInv
  BY <1>6 DEF AddressInv, SharedInv, UntornInv, NoReply
<1>. QED
  BY <1>4, <1>5, <1>7, <1>8, <1>9 DEF IInv

LEMMA StutterIInv ==
    ASSUME IInv, UNCHANGED vars PROVE IInv'
<1>1. StateInv /\ LineInv /\ ListInv /\ LoginInv /\ AddressInv
  BY DEF IInv
<1>2. /\ UNCHANGED userVars /\ UNCHANGED <<file, pos, line, users, start>>
      /\ UNCHANGED <<address, user, reply, pc, replaced, oldSize, ipLen, chars, length, torn, commands>>
  BY DEF vars, userVars, pasvVars
<1>3. LineInv' /\ ListInv' /\ LoginInv'
  BY <1>1, <1>2, UsersStay, PasvKeepsLogin
<1>4. StateInv'
  <2>1. Room' = Room
    BY DEF Room
  <2>. QED
    BY <1>1, <1>2, <2>1, InPlaceStays DEF StateInv, TypeOK
<1>5. AddressInv'
  BY <1>1, <1>2 DEF AddressInv, SharedInv, UntornInv, Stored
<1>. QED
  BY <1>3, <1>4, <1>5 DEF IInv

LEMMA StepIInv == IInv /\ [Next]_vars => IInv'
<1> SUFFICES ASSUME IInv, [Next]_vars PROVE IInv'
  OBVIOUS
<1>1. CASE UNCHANGED vars
  BY <1>1, StutterIInv
<1>2. CASE ReadUsers /\ UNCHANGED <<address, user, reply, pasvVars, commands>>
  BY <1>2, ReadUsersPreserves
<1>3. ASSUME NEW s \in Sessions, NEW name \in Names, User(s, name) PROVE IInv'
  BY <1>3, UserPreserves
<1>4. ASSUME NEW s \in Sessions, NEW password \in Passwords, Pass(s, password) PROVE IInv'
  BY <1>4, PassPreserves
<1>5. ASSUME NEW s \in Sessions, TestAddress(s) PROVE IInv'
  BY <1>5, TestAddressPreserves
<1>6. ASSUME NEW s \in Sessions, AssignAddress(s) PROVE IInv'
  <2>1. CASE ReadSize(s)
    BY <1>6, <2>1, ReadSizePreserves
  <2>2. CASE ReadOldSize(s)
    BY <1>6, <2>2, ReadOldSizePreserves
  <2>3. CASE Goto(s, "assign", "length") /\ SetChars(s) /\ UNCHANGED <<replaced, oldSize>>
    BY <1>6, <2>3, SetCharsPreserves
  <2>4. CASE Goto(s, "length", "copy") /\ SetLength(s) /\ Return(s)
    BY <1>6, <2>4, SetLengthPreserves
  <2>. QED
    BY <1>6, <2>1, <2>2, <2>3, <2>4 DEF AssignAddress, Store
<1>7. ASSUME NEW s \in Sessions, CopyLength(s) PROVE IInv'
  BY <1>7, CopyLengthPreserves
<1>8. ASSUME NEW s \in Sessions, CopyChars(s) PROVE IInv'
  BY <1>8, CopyCharsPreserves
<1>. QED
  BY <1>1, <1>2, <1>3, <1>4, <1>5, <1>6, <1>7, <1>8 DEF Next, Pasv

(* The inductive invariant holds in every state: the list has the entries  *)
(* of the lines that were read, what is in the buffer is the line so far,  *)
(* the last reply to PASS is about the user named last, and, on a server   *)
(* with one interface, what stands in local_ip_ after each of the steps of *)
(* several workers begins with the address (ftp_server.cpp:98-180,         *)
(* 201-290).                                                               *)
THEOREM IInvHolds == Spec => []IInv
<1>1. Init => IInv
  BY InitIInv
<1>2. IInv /\ [Next]_vars => IInv'
  BY StepIInv
<1>. QED
  BY <1>1, <1>2, PTL DEF Spec

(* The state invariant: a server that has started has the users that its   *)
(* file names, all of them and in their order, however the file ends and   *)
(* whatever lines it skips (ftp_server.cpp:98-180).                        *)
THEOREM SessionInvariant == Spec => []Inv
<1>1. ASSUME IInv PROVE Inv
  <2>1. TypeOK
    BY <1>1 DEF IInv, StateInv
  <2>2. UsersAsWritten
    BY <1>1 DEF IInv, ListInv, UsersAsWritten
  <2>. QED
    BY <2>1, <2>2 DEF Inv
<1>. QED
  BY <1>1, IInvHolds, PTL

(* A session that has named a user logs in with the password on the first  *)
(* line of that user and with no other, also after further USER commands,  *)
(* refused ones among them (ftp_server.cpp:201-243).                       *)
THEOREM LoginIsByFile == Spec => []LoginByFile
<1>1. ASSUME IInv PROVE LoginByFile
  <2> SUFFICES ASSUME NEW s \in Sessions, reply[s].to = "PASS", user[s] # <<>>,
                      NEW lines, lines = {b \in EntryStarts : EntryAfter(b)[1] = user[s]}
               PROVE  reply[s].code = "230" <=> reply[s].arg = EntryAfter(Min(lines))[2]
    BY DEF LoginByFile
  <2> DEFINE name == user[s]
             at == {i \in DOMAIN users : users[i][1] = name}
             n == Cardinality(EntryStarts)
  <2>1. LineInv /\ ListInv /\ LoginInv /\ start = "ready" /\ file \in UserFiles
    BY <1>1 DEF IInv, LoginInv, LineInv
  <2>2. /\ n \in Nat /\ DOMAIN users = 1 .. n /\ EntryStarts \subseteq Nat
        /\ \A b \in EntryStarts : users[Place(b)] = EntryAfter(b)
    BY <2>1, FileFacts, FS_CardinalityType DEF ListInv
  <2>3. /\ is_user_valid(name)
        /\ reply[s].code = "230" <=> reply[s].arg = get_user_password(name)
    BY <2>1 DEF LoginInv
  <2>4. get_user_password(name) = users[Min(at)][2]
    BY <2>3 DEF get_user_password
  <2>5. lines \subseteq Nat /\ \A b \in lines : Place(b) \in at
    BY <2>1, <2>2, PlaceFacts
  <2>6. \A i \in at : \E b \in lines : Place(b) = i
    <3>1. TAKE i \in at
    <3>2. PICK b \in EntryStarts : Place(b) = i
      BY <2>1, <2>2, PlacesAll
    <3>3. b \in lines
      BY <2>2, <3>2
    <3>. QED
      BY <3>2, <3>3
  <2>7. at # {}
    BY <2>3 DEF is_user_valid
  <2>8. lines # {}
    BY <2>6, <2>7
  <2>9. Min(lines) \in lines /\ \A b \in lines : Min(lines) =< b
    BY <2>5, <2>8, MinIsLeast
  <2> DEFINE first == Min(lines)
  <2>10. \A b \in lines : Place(first) =< Place(b)
    <3>1. TAKE b \in lines
    <3>2. first \in EntryStarts /\ b \in EntryStarts /\ first =< b /\ first \in Nat /\ b \in Nat
      BY <2>2, <2>9
    <3>3. Place(first) \in Nat /\ Place(b) \in Nat
      BY <2>1, <3>2, PlaceFacts
    <3>4. CASE first = b
      BY <3>3, <3>4
    <3>5. CASE first < b
      BY <2>1, <3>2, <3>3, <3>5, PlaceFacts
    <3>. QED
      BY <3>2, <3>4, <3>5
  <2>11. Min(at) = Place(first)
    <3>1. at \subseteq Nat /\ Place(first) \in at
      BY <2>2, <2>5, <2>9
    <3>2. \A i \in at : Place(first) =< i
      BY <2>6, <2>10
    <3> HIDE DEF at, first
    <3>. QED
      BY <3>1, <3>2, MinUnique
  <2>12. users[Place(first)] = EntryAfter(first)
    BY <2>2, <2>9
  <2>. QED
    BY <2>3, <2>4, <2>11, <2>12
<1>. QED
  BY <1>1, IInvHolds, PTL

(* On a server with one interface every reply to PASV begins with the      *)
(* server's whole address, however many workers test, store and copy it at *)
(* the same time without a lock, and has nothing more as long as no assign *)
(* was torn between its two reads of the length (ftp_server.cpp:281-290).  *)
THEOREM AddressIsWhole == Spec => []WholeAddress
<1>1. ASSUME IInv PROVE WholeAddress
  <2> SUFFICES ASSUME \A r, s \in Sessions : address[r] = address[s],
                      NEW s \in Sessions, reply[s].to = "PASV"
               PROVE  /\ IsPrefix(address[s], reply[s].arg)
                      /\ ~torn => reply[s].arg = address[s]
    BY DEF WholeAddress
  <2>1. address[s] \in Addresses
    BY <1>1, StateFacts DEF IInv
  <2>2. SharedInv(address[s]) /\ (~torn => UntornInv(address[s]))
    BY <1>1, <2>1 DEF IInv, AddressInv
  <2>. QED
    BY <2>2 DEF SharedInv, UntornInv
<1>. QED
  BY <1>1, IInvHolds, PTL

-----------------------------------------------------------------------------
(* CommandStream: the inductive invariant.                                 *)

\* What the callback has not taken yet.
Stream == input \o wire

\* The byte that the client sends after b.
NextByte(b) == IF EndsLine(b) THEN <<b[1] + 1, 1>> ELSE <<b[1], b[2] + 1>>

\* The bytes of s are neighbours in what the client has sent.
Segment(s) ==
    /\ s \in Seq(Byte)
    /\ \A j \in 2 .. Len(s) : s[j] = NextByte(s[j - 1])

\* What was not taken is the end of what was sent.
RestInv ==
    /\ Segment(Stream)
    /\ Stream # <<>> =>
          Stream[Len(Stream)] = <<Len(sent), Len(sent[Len(sent)])>>

\* As long as no line was cut, a line begins there.
CutInv == ~cut /\ Stream # <<>> => Stream[1][2] = 1

\* The lines that were handled are before those that were not taken.
OrderInv ==
    \A i \in Handled :
        /\ calls[i].name # <<>>
        /\ LineOf(calls[i]) <= Len(sent)
        /\ Stream # <<>> => LineOf(calls[i]) < Stream[1][1]

\* The call for a line says if it begins with a command.
CallOfLine(k) ==
    IF FirstWord(sent[k]) \in Commands
    THEN calls[k] # Unknown /\ LineOf(calls[k]) = k
    ELSE calls[k] = Unknown

\* A client that waits has at most its last line under way.
WaitInv ==
    ~unasked /\ ~cut =>
        /\ \A k \in DOMAIN calls : k \in DOMAIN sent /\ CallOfLine(k)
        /\ input = <<>>
        /\ \/ wire = <<>> /\ Len(calls) = Len(sent)
           \/ /\ Len(calls) = Len(sent) - 1
              /\ wire # <<>> /\ wire[1] = <<Len(sent), 1>>

StreamIInv == StreamTypeOK /\ OneLineEach /\ RestInv /\ CutInv /\ OrderInv /\ WaitInv

-----------------------------------------------------------------------------
(* Induction over numbers.                                                 *)

\* What holds of a, and with each number of the next, holds up to b.
LEMMA UpTo ==
    ASSUME NEW a \in Nat, NEW b \in Nat, NEW S, a \in S,
           \A n \in a + 1 .. b : n - 1 \in S => n \in S
    PROVE  a .. b \subseteq S
<1> DEFINE Missing == {n \in a .. b : n \notin S}
<1>1. SUFFICES ASSUME Missing # {} PROVE FALSE
  OBVIOUS
<1>2. Missing \subseteq Nat
  OBVIOUS
<1>3. Min(Missing) \in Missing /\ \A y \in Missing : Min(Missing) =< y
  BY <1>1, <1>2, MinIsLeast
<1>4. PICK m \in Missing : \A y \in Missing : m =< y
  BY <1>3
<1>5. m \in a + 1 .. b
  BY <1>4
<1>6. m - 1 \in a .. b /\ m - 1 \notin Missing
  BY <1>4, <1>5
<1>. QED
  BY <1>4, <1>5, <1>6

-----------------------------------------------------------------------------
(* Sequences of bytes and lines.                                           *)

LEMMA SubSeqFacts ==
    ASSUME NEW S, NEW s \in Seq(S), NEW m \in 1 .. Len(s) + 1, NEW n \in 0 .. Len(s)
    PROVE  /\ SubSeq(s, m, n) \in Seq(S)
           /\ m =< n + 1 => Len(SubSeq(s, m, n)) = n - m + 1
           /\ \A i \in 1 .. n - m + 1 : SubSeq(s, m, n)[i] = s[m + i - 1]
  OBVIOUS

LEMMA SameSeq ==
    ASSUME NEW S, NEW s \in Seq(S), NEW t \in Seq(S), Len(s) = Len(t),
           \A i \in 1 .. Len(s) : s[i] = t[i]
    PROVE  s = t
  OBVIOUS

LEMMA ConcatFacts ==
    ASSUME NEW S, NEW s \in Seq(S), NEW t \in Seq(S)
    PROVE  /\ s \o t \in Seq(S)
           /\ Len(s \o t) = Len(s) + Len(t)
           /\ \A i \in 1 .. Len(s) : (s \o t)[i] = s[i]
           /\ \A i \in Len(s) + 1 .. Len(s) + Len(t) : (s \o t)[i] = t[i - Len(s)]
  OBVIOUS

LEMMA WiderType ==
    ASSUME NEW S, NEW T, S \subseteq T, NEW s \in Seq(S)
    PROVE  s \in Seq(T)
  OBVIOUS

LEMMA Between ==
    ASSUME NEW S, NEW s \in Seq(S), NEW t \in Seq(S), NEW x
    PROVE  Len(s) + 1 \in DOMAIN (s \o <<x>> \o t)
<1>1. PICK T : T = S \cup {x}
  OBVIOUS
<1>2. s \in Seq(T) /\ t \in Seq(T) /\ <<x>> \in Seq(T) /\ Len(<<x>>) = 1
  BY <1>1
<1>3. s \o <<x>> \in Seq(T) /\ Len(s \o <<x>>) = Len(s) + 1
  BY <1>2, ConcatFacts
<1>4. PICK r : r = s \o <<x>>
  OBVIOUS
<1>5. r \o t \in Seq(T) /\ Len(r \o t) = Len(r) + Len(t)
  BY <1>2, <1>3, <1>4, ConcatFacts
<1>6. Len(s) \in Nat /\ Len(t) \in Nat /\ Len(r) = Len(s) + 1
  BY <1>2, <1>3, <1>4
<1>7. Len(s) + 1 \in 1 .. Len(r \o t)
  BY <1>5, <1>6
<1>8. Len(s) + 1 \in DOMAIN (r \o t)
  BY <1>5, <1>7
<1>. QED
  BY <1>4, <1>8

LEMMA ElementType ==
    ASSUME NEW S, NEW s \in Seq(S), NEW i \in DOMAIN s
    PROVE  s[i] \in S
  OBVIOUS

\* A line has its end where its length says, and nowhere else.
LEMMA SentLineFacts ==
    ASSUME StreamTypeOK, NEW k \in DOMAIN sent
    PROVE  /\ k \in Nat \ {0} /\ k =< Len(sent)
           /\ sent[k] \in Seq(STRING) /\ Len(sent[k]) \in Nat /\ Len(sent[k]) > 2
           /\ DOMAIN sent[k] = 1 .. Len(sent[k])
           /\ \A i \in 1 .. Len(sent[k]) :
                 /\ sent[k][i] = CR <=> i = Len(sent[k]) - 1
                 /\ sent[k][i] = LF <=> i = Len(sent[k])
<1>1. sent[k] \in Lines /\ k \in 1 .. Len(sent)
  BY DEF StreamTypeOK
<1>2. sent[k] \in Seq(STRING) /\ IsLine(sent[k])
  BY <1>1, ConstAssumption
<1>. QED
  BY <1>1, <1>2 DEF IsLine, CR, LF

LEMMA ByteFacts ==
    ASSUME StreamTypeOK, NEW b \in Byte
    PROVE  /\ b = <<b[1], b[2]>>
           /\ b[1] \in DOMAIN sent /\ b[2] \in 1 .. Len(sent[b[1]])
           /\ b[1] \in Nat /\ b[2] \in Nat
<1>1. PICK k \in DOMAIN sent : b \in {k} \X DOMAIN sent[k]
  BY DEF Byte
<1>. QED
  BY <1>1, SentLineFacts

LEMMA IsByte ==
    ASSUME StreamTypeOK, NEW k \in DOMAIN sent, NEW i \in 1 .. Len(sent[k])
    PROVE  <<k, i>> \in Byte
  BY SentLineFacts DEF Byte

-----------------------------------------------------------------------------
(* What a handler gets of a piece.                                         *)

\* Up to the first end of a line, and with it, a piece has bytes of one
\* line, unless it begins in the middle of such an end.
LEMMA OneLine ==
    ASSUME StreamTypeOK, NEW p, Segment(p), NEW e \in LineEnds(p),
           \A j \in LineEnds(p) : e =< j, Char(p[1]) # LF
    PROVE  /\ e \in Nat \ {0} /\ e < Len(p)
           /\ \A j \in 1 .. e + 1 : p[j] = <<p[1][1], p[1][2] + j - 1>>
           /\ p[1][2] + e = Len(sent[p[1][1]])
<1>1. p \in Seq(Byte) /\ Len(p) \in Nat /\ DOMAIN p = 1 .. Len(p)
  BY DEF Segment
<1>2. e \in 1 .. Len(p) /\ e < Len(p) /\ Char(p[e]) = CR
  BY <1>1 DEF LineEnds
<1>3. p[1] \in Byte
  BY <1>1, <1>2
<1>4. PICK k, first :
         /\ k \in DOMAIN sent /\ first \in 1 .. Len(sent[k]) /\ p[1] = <<k, first>>
         /\ k \in Nat /\ first \in Nat /\ Len(sent[k]) \in Nat
         /\ \A i \in 1 .. Len(sent[k]) :
               /\ sent[k][i] = CR <=> i = Len(sent[k]) - 1
               /\ sent[k][i] = LF <=> i = Len(sent[k])
  BY <1>3, ByteFacts, SentLineFacts
<1> DEFINE Same == {j \in 1 .. e + 1 : p[j] = <<k, first + j - 1>>}
<1>5. 1 \in Same
  BY <1>2, <1>4
<1>6. ASSUME NEW n \in 1 + 1 .. e + 1, n - 1 \in Same PROVE n \in Same
  <2>1. p[n - 1] = <<k, first + n - 2>> /\ n - 1 \in 1 .. Len(p) /\ n \in 2 .. Len(p)
    <3>1. p[n - 1] = <<k, first + (n - 1) - 1>> /\ n - 1 \in 1 .. e + 1
      BY <1>6
    <3>2. first + (n - 1) - 1 = first + n - 2
      BY <1>4, <1>6
    <3>3. n \in 2 .. Len(p)
      BY <1>1, <1>2, <1>6
    <3>4. n - 1 \in 1 .. Len(p)
      BY <1>1, <3>3
    <3>. QED
      BY <3>1, <3>2, <3>3, <3>4
  <2>2. p[n - 1] \in Byte
    BY <1>1, <2>1
  <2>3. first + n - 2 \in 1 .. Len(sent[k])
    BY <2>1, <2>2, ByteFacts
  <2>4. first + n - 2 # Len(sent[k])
    <3>1. SUFFICES ASSUME first + n - 2 = Len(sent[k]) PROVE FALSE
      OBVIOUS
    <3>2. Char(p[n - 1]) = LF
      <4>1. p[n - 1][1] = k /\ p[n - 1][2] = Len(sent[k])
        BY <2>1, <3>1
      <4>. QED
        BY <2>3, <3>1, <4>1, <1>4 DEF Char
    <3>3. n - 1 # 1
      BY <3>2
    <3>4. n - 1 \in 2 .. Len(p) /\ (n - 1) - 1 = n - 2 /\ n - 2 \in 1 .. Len(p)
      BY <2>1, <3>3
    <3>5. p[n - 1] = NextByte(p[n - 2]) /\ p[n - 2] \in Byte
      BY <1>1, <3>4 DEF Segment
    <3>6. PICK h, i : /\ p[n - 2] = <<h, i>> /\ h \in Nat /\ i \in Nat
                      /\ h \in DOMAIN sent /\ i \in 1 .. Len(sent[h])
      BY <3>5, ByteFacts
    <3>7. p[n - 1] = IF i = Len(sent[h]) THEN <<h + 1, 1>> ELSE <<h, i + 1>>
      BY <3>5, <3>6 DEF NextByte, EndsLine
    <3>8. first + n - 2 # 1
      BY <3>1, <1>4, SentLineFacts
    <3>9. h = k /\ i + 1 = Len(sent[k])
      BY <2>1, <3>1, <3>7, <3>8
    <3>10. Char(p[n - 2]) = CR
      BY <3>6, <3>9, <1>4 DEF Char
    <3>11. (n - 2) + 1 = n - 1 /\ n - 2 < Len(p)
      BY <3>4
    <3>12. n - 2 \in LineEnds(p)
      BY <1>1, <3>2, <3>4, <3>10, <3>11 DEF LineEnds
    <3>13. e =< n - 2
      BY <3>12
    <3>. QED
      BY <3>13, <1>2, <1>6
  <2>5. p[n] = NextByte(p[n - 1])
    BY <2>1 DEF Segment
  <2>6. p[n] = <<k, first + n - 1>>
    <3>1. p[n - 1][1] = k /\ p[n - 1][2] = first + n - 2
      BY <2>1
    <3>2. (first + n - 2) + 1 = first + n - 1
      BY <1>4, <2>1
    <3>. QED
      BY <2>4, <2>5, <3>1, <3>2 DEF NextByte, EndsLine
  <2>. QED
    BY <2>6, <1>6
<1>7. 1 .. e + 1 \subseteq Same
  <2> HIDE DEF Same
  <2>1. e + 1 \in Nat
    BY <1>2
  <2>. QED
    BY <2>1, <1>5, <1>6, UpTo
<1>8. \A j \in 1 .. e + 1 : p[j] = <<k, first + j - 1>>
  BY <1>7
<1>9. first + e = Len(sent[k])
  <2>1. p[e] = <<k, first + e - 1>> /\ p[e] \in Byte
    BY <1>1, <1>2, <1>8
  <2>2. first + e - 1 \in 1 .. Len(sent[k])
    BY <2>1, ByteFacts
  <2>3. p[e][1] = k /\ p[e][2] = first + e - 1
    BY <2>1
  <2>4. sent[k][first + e - 1] = CR
    BY <2>3, <1>2 DEF Char
  <2>. QED
    BY <2>2, <2>4, <1>1, <1>2, <1>4
<1>. QED
  BY <1>2, <1>4, <1>8, <1>9

\* A name and an argument are bytes of the piece, or there are none.
LEMMA CallType ==
    ASSUME StreamTypeOK, NEW p, Segment(p)
    PROVE  Call(p) \in [name : Seq(Byte), arg : Seq(Byte)]
<1>1. p \in Seq(Byte) /\ DOMAIN p = 1 .. Len(p) /\ Len(p) \in Nat
  BY DEF Segment
<1>2. Unknown \in [name : Seq(Byte), arg : Seq(Byte)]
  BY DEF Unknown
<1>3. LineEnds(p) # {} => ArgumentEnd(p) \in 1 .. Len(p)
  <2>1. LineEnds(p) \subseteq Nat /\ LineEnds(p) \subseteq 1 .. Len(p)
    BY <1>1 DEF LineEnds
  <2>. QED
    BY <2>1, MinIsLeast DEF ArgumentEnd
<1>4. Spaces(p) # {} => Min(Spaces(p)) \in 1 .. Len(p)
  <2>1. Spaces(p) \subseteq Nat /\ Spaces(p) \subseteq 1 .. Len(p)
    BY <1>1 DEF Spaces
  <2>. QED
    BY <2>1, MinIsLeast
<1>5. Parsed(p) \in [name : Seq(Byte), arg : Seq(Byte)]
  <2>1. CASE LineEnds(p) = {}
    BY <1>2, <2>1 DEF Parsed
  <2>2. CASE LineEnds(p) # {} /\ Spaces(p) = {}
    <3>1. SubSeq(p, 1, ArgumentEnd(p) - 1) \in Seq(Byte)
      BY <1>1, <1>3, <2>2, SubSeqFacts
    <3>. QED
      BY <2>2, <3>1 DEF Parsed, ArgumentEnd
  <2>3. CASE LineEnds(p) # {} /\ Spaces(p) # {}
    <3>1. SubSeq(p, 1, Min(Spaces(p)) - 1) \in Seq(Byte)
      BY <1>1, <1>4, <2>3, SubSeqFacts
    <3>2. SubSeq(p, Min(Spaces(p)) + 1, ArgumentEnd(p) - 1) \in Seq(Byte)
      BY <1>1, <1>3, <1>4, <2>3, SubSeqFacts
    <3>. QED
      BY <2>3, <3>1, <3>2 DEF Parsed
  <2>. QED
    BY <2>1, <2>2, <2>3
<1>. QED
  BY <1>2, <1>5 DEF Call

\* A name that has a handler is not empty, and has no space and no part of
\* an end of a line.
LEMMA HandlerName ==
    ASSUME NEW nm, NEW S, nm \in Seq(S), HasHandler(nm)
    PROVE  /\ Len(nm) \in Nat \ {0} /\ nm # <<>>
           /\ \A j \in 1 .. Len(nm) : Char(nm[j]) \notin {CR, LF, Blank}
<1>1. Text(nm) \in Seq(STRING \ {CR, LF, Blank}) /\ Text(nm) # <<>>
  BY ConstAssumption DEF HasHandler
<1>2. DOMAIN nm = 1 .. Len(nm) /\ Len(nm) \in Nat
  OBVIOUS
<1>3. DOMAIN Text(nm) = 1 .. Len(nm) /\ \A j \in 1 .. Len(nm) : Text(nm)[j] = Char(nm[j])
  BY <1>2 DEF Text
<1>4. Len(Text(nm)) = Len(nm)
  BY <1>1, <1>2, <1>3
<1>5. Len(nm) # 0
  BY <1>1, <1>4
<1>. QED
  BY <1>1, <1>2, <1>3, <1>4, <1>5

LEMMA HandledPiece ==
    ASSUME StreamTypeOK, NEW p, Segment(p), Call(p) # Unknown
    PROVE  /\ Len(p) > 0 /\ Call(p).name # <<>>
           /\ Call(p).name[1] = p[1]
           /\ RestOfLine(Call(p))
           /\ \E j \in 1 .. Len(p) : p[j] = <<p[1][1], Len(sent[p[1][1]])>>
<1>1. p \in Seq(Byte) /\ Len(p) \in Nat /\ DOMAIN p = 1 .. Len(p)
  BY DEF Segment
<1>2. Call(p) = Parsed(p) /\ HasHandler(Parsed(p).name)
  BY DEF Call
<1>3. LineEnds(p) # {}
  <2>1. SUFFICES ASSUME LineEnds(p) = {} PROVE FALSE
    OBVIOUS
  <2>2. Parsed(p) = Unknown
    BY <2>1 DEF Parsed
  <2>. QED
    BY <1>2, <2>2
<1>4. LineEnds(p) \subseteq Nat /\ Spaces(p) \subseteq Nat
  BY <1>1 DEF LineEnds, Spaces
<1>5. PICK e \in LineEnds(p) : e = ArgumentEnd(p) /\ \A j \in LineEnds(p) : e =< j
  BY <1>3, <1>4, MinIsLeast DEF ArgumentEnd
<1>6. e \in 1 .. Len(p) - 1 /\ Char(p[e]) = CR
  BY <1>1, <1>5 DEF LineEnds
<1> DEFINE m == IF Spaces(p) = {} THEN e ELSE Min(Spaces(p))
<1>7. m \in 1 .. Len(p) /\ Parsed(p).name = SubSeq(p, 1, m - 1)
  <2>1. CASE Spaces(p) = {}
    BY <1>3, <1>5, <1>6, <2>1 DEF Parsed, ArgumentEnd
  <2>2. CASE Spaces(p) # {}
    <3>1. Min(Spaces(p)) \in Spaces(p)
      BY <1>4, <2>2, MinIsLeast
    <3>. QED
      BY <1>1, <1>3, <2>2, <3>1 DEF Parsed, Spaces
  <2>. QED
    BY <2>1, <2>2
<1> HIDE DEF m
<1> DEFINE nm == SubSeq(p, 1, m - 1)
<1>8. /\ nm \in Seq(Byte) /\ Len(nm) = m - 1
      /\ \A j \in 1 .. m - 1 : nm[j] = p[j]
  BY <1>1, <1>7, SubSeqFacts
<1> HIDE DEF nm
<1>9. HasHandler(nm)
  BY <1>2, <1>7 DEF nm
<1>10. /\ m > 1 /\ nm # <<>> /\ nm[1] = p[1]
       /\ \A j \in 1 .. m - 1 : Char(p[j]) \notin {CR, LF, Blank}
  BY <1>7, <1>8, <1>9, HandlerName
<1>11. m =< e
  BY <1>6, <1>7, <1>10
<1>12. PICK k, first :
          /\ p[1] = <<k, first>> /\ k \in DOMAIN sent /\ first \in Nat
          /\ Len(sent[k]) \in Nat
          /\ \A j \in 1 .. e + 1 : p[j] = <<k, first + j - 1>>
          /\ first + e = Len(sent[k])
  <2>1. Char(p[1]) # LF
    BY <1>7, <1>10
  <2>2. /\ \A j \in 1 .. e + 1 : p[j] = <<p[1][1], p[1][2] + j - 1>>
        /\ p[1][2] + e = Len(sent[p[1][1]])
    BY <1>5, <2>1, OneLine
  <2>3. p[1] \in Byte
    BY <1>1, <1>6
  <2>. QED
    BY <2>2, <2>3, ByteFacts, SentLineFacts
<1>13. Bytes(k, first, Len(sent[k]) - 2) = SubSeq(p, 1, e - 1)
  <2>1. (Len(sent[k]) - 2) - first + 1 = e - 1
    BY <1>6, <1>12
  <2>2. Bytes(k, first, Len(sent[k]) - 2) = [j \in 1 .. e - 1 |-> <<k, first + j - 1>>]
    BY <2>1 DEF Bytes
  <2>3. \A j \in 1 .. e - 1 : p[j] = <<k, first + j - 1>>
    BY <1>6, <1>12
  <2>4. SubSeq(p, 1, e - 1) = [j \in 1 .. e - 1 |-> p[j]]
    BY <1>1, <1>6
  <2>. QED
    BY <2>2, <2>3, <2>4
<1>14. LineOf(Call(p)) = k /\ Head(Call(p).name)[2] = first
  BY <1>2, <1>7, <1>8, <1>10, <1>12 DEF LineOf, nm
<1>15. RestOfLine(Call(p))
  <2>1. CASE Spaces(p) = {}
    <3>1. m = e /\ Call(p).arg = <<>>
      BY <1>2, <1>3, <2>1 DEF m, Parsed
    <3>2. Call(p).name = Bytes(k, first, Len(sent[k]) - 2)
      BY <1>2, <1>7, <1>13, <3>1
    <3>. QED
      BY <1>14, <3>1, <3>2 DEF RestOfLine
  <2>2. CASE Spaces(p) # {}
    <3>1. m \in Spaces(p) /\ Char(p[m]) = Blank
      BY <1>4, <2>2, MinIsLeast DEF m, Spaces
    <3>2. m # e
      BY <1>6, <3>1 DEF CR, Blank
    <3>3. Call(p).arg = SubSeq(p, m + 1, e - 1)
      <4>1. Parsed(p).arg = SubSeq(p, Min(Spaces(p)) + 1, ArgumentEnd(p) - 1)
        BY <1>3, <2>2 DEF Parsed
      <4>. QED
        BY <1>2, <1>5, <2>2, <4>1 DEF m
    <3>4. Call(p).name = nm
      BY <1>2, <1>7 DEF nm
    <3> DEFINE whole == SubSeq(p, 1, e - 1)
               arg == SubSeq(p, m + 1, e - 1)
    <3>5. whole \in Seq(Byte) /\ Len(whole) = e - 1 /\ \A j \in 1 .. e - 1 : whole[j] = p[j]
      BY <1>1, <1>6, SubSeqFacts
    <3>6. arg \in Seq(Byte) /\ Len(arg) = e - 1 - m /\ \A j \in 1 .. e - 1 - m : arg[j] = p[m + j]
      <4>1. m + 1 \in 1 .. Len(p) + 1 /\ e - 1 \in 0 .. Len(p) /\ m + 1 =< (e - 1) + 1
        BY <1>6, <1>7, <1>11, <3>2
      <4>2. /\ arg \in Seq(Byte) /\ Len(arg) = (e - 1) - (m + 1) + 1
            /\ \A j \in 1 .. (e - 1) - (m + 1) + 1 : arg[j] = p[(m + 1) + j - 1]
        BY <1>1, <4>1, SubSeqFacts
      <4>3. e \in Nat /\ m \in Nat
        BY <1>6, <1>7
      <4> HIDE DEF arg
      <4>4. (e - 1) - (m + 1) + 1 = e - 1 - m
        BY <4>3
      <4>5. \A j \in 1 .. e - 1 - m : (m + 1) + j - 1 = m + j
        BY <4>3
      <4>. QED
        BY <4>2, <4>4, <4>5
    <3> HIDE DEF whole, arg
    <3>7. whole[m] = p[m] /\ p[m] \in Byte
      BY <1>1, <1>6, <1>7, <1>11, <3>2, <3>5
    <3>8. whole = nm \o <<p[m]>> \o arg
      <4>1. nm \o <<p[m]>> \in Seq(Byte) /\ Len(nm \o <<p[m]>>) = m
            /\ \A j \in 1 .. m : (nm \o <<p[m]>>)[j] = p[j]
        BY <1>7, <1>8, <1>10, <3>7
      <4>2. /\ nm \o <<p[m]>> \o arg \in Seq(Byte)
            /\ Len(nm \o <<p[m]>> \o arg) = e - 1
        <5>1. Len((nm \o <<p[m]>>) \o arg) = m + (e - 1 - m)
          BY <4>1, <3>6, ConcatFacts
        <5>. QED
          BY <4>1, <5>1, <3>6, <1>6, <1>7, ConcatFacts
      <4>3. \A j \in 1 .. e - 1 : (nm \o <<p[m]>> \o arg)[j] = p[j]
        <5>1. TAKE j \in 1 .. e - 1
        <5>2. CASE j =< m
          BY <1>7, <3>6, <4>1, <5>2, ConcatFacts
        <5>3. CASE j > m
          <6>1. /\ j \in m + 1 .. m + Len(arg) /\ j - m \in 1 .. e - 1 - m
                /\ m + (j - m) = j
            BY <1>6, <1>7, <1>11, <3>2, <3>6, <5>3
          <6>2. (nm \o <<p[m]>> \o arg)[j] = arg[j - m]
            BY <3>6, <4>1, <6>1, ConcatFacts
          <6>. QED
            BY <3>6, <6>1, <6>2
        <5>. QED
          <6>1. j =< m \/ j > m
            BY <1>1, <1>6, <1>7
          <6>. QED
            BY <6>1, <5>2, <5>3
      <4>. QED
        BY <3>5, <4>2, <4>3, <1>6, SameSeq
    <3>9. Len(Call(p).name) + 1 = m
      BY <3>4, <1>7, <1>8
    <3>. QED
      BY <1>13, <1>14, <3>1, <3>3, <3>4, <3>7, <3>8, <3>9 DEF RestOfLine, whole, arg
  <2>. QED
    BY <2>1, <2>2
<1>16. e + 1 \in 1 .. Len(p) /\ p[e + 1] = <<p[1][1], Len(sent[p[1][1]])>>
  <2>1. e + 1 \in 1 .. Len(p) /\ e + 1 \in 1 .. e + 1 /\ first + (e + 1) - 1 = first + e
    BY <1>6, <1>12
  <2>2. p[1][1] = k
    BY <1>12
  <2>. QED
    BY <1>12, <2>1, <2>2
<1>17. Len(p) > 0 /\ Len(p) \in Nat
  BY <1>1, <1>16
<1>18. Call(p).name = nm
  BY <1>2, <1>7 DEF nm
<1>19. nm # <<>> /\ nm[1] = p[1]
  BY <1>7, <1>10
<1> HIDE DEF nm
<1>. QED
  BY <1>15, <1>16, <1>17, <1>18, <1>19

\* A piece that is a line is handled as the command the line begins with.
LEMMA WholeLine ==
    ASSUME StreamTypeOK, NEW k \in DOMAIN sent, NEW p, Segment(p),
           Len(p) = Len(sent[k]), \A j \in 1 .. Len(p) : p[j] = <<k, j>>
    PROVE  IF FirstWord(sent[k]) \in Commands
           THEN Call(p) # Unknown /\ LineOf(Call(p)) = k
           ELSE Call(p) = Unknown
<1> DEFINE l == sent[k]
           n == Len(l)
           ends == {i \in DOMAIN l : l[i] \in {Blank, CR}}
<1>1. /\ k \in Nat /\ l \in Seq(STRING) /\ n \in Nat /\ n > 2 /\ DOMAIN l = 1 .. n
      /\ \A i \in 1 .. n : (l[i] = CR <=> i = n - 1) /\ (l[i] = LF <=> i = n)
  BY SentLineFacts
<1>2. p \in Seq(Byte) /\ DOMAIN p = 1 .. n /\ \A j \in 1 .. n : Char(p[j]) = l[j]
  <2>1. p \in Seq(Byte) /\ DOMAIN p = 1 .. n
    BY DEF Segment
  <2>2. ASSUME NEW j \in 1 .. n PROVE Char(p[j]) = l[j]
    <3>1. p[j][1] = k /\ p[j][2] = j
      OBVIOUS
    <3>. QED
      BY <3>1 DEF Char
  <2>. QED
    BY <2>1, <2>2
<1> HIDE DEF l, n
<1>3. LineEnds(p) = {n - 1}
  <2>1. Len(p) = n
    BY DEF n, l
  <2>2. ASSUME NEW i \in LineEnds(p) PROVE i = n - 1
    <3>1. i \in 1 .. n /\ Char(p[i]) = CR
      BY <1>2, <2>2 DEF LineEnds
    <3>. QED
      BY <1>1, <1>2, <3>1
  <2>3. n - 1 \in 1 .. n /\ n - 1 < n /\ (n - 1) + 1 = n
    BY <1>1
  <2>4. Char(p[n - 1]) = CR /\ Char(p[n]) = LF
    BY <1>1, <1>2, <2>3
  <2>5. n - 1 \in LineEnds(p)
    BY <1>2, <2>1, <2>3, <2>4 DEF LineEnds
  <2>. QED
    BY <2>2, <2>5
<1>4. ends = Spaces(p) \cup {n - 1}
  <2>1. ends = {i \in 1 .. n : Char(p[i]) \in {Blank, CR}}
    BY <1>1, <1>2 DEF ends
  <2>. QED
    BY <1>1, <1>2, <2>1 DEF Spaces
<1>5. Spaces(p) \subseteq 1 .. n - 2
  <2>1. SUFFICES ASSUME NEW i \in Spaces(p) PROVE i \in 1 .. n - 2
    OBVIOUS
  <2>2. i \in 1 .. n /\ l[i] = Blank
    BY <1>2 DEF Spaces
  <2>3. i # n /\ i # n - 1
    BY <1>1, <2>2 DEF Blank, CR, LF
  <2>. QED
    BY <1>1, <2>2, <2>3
<1> DEFINE m == Min(ends)
<1>6. /\ m \in 1 .. n - 1
      /\ m = IF Spaces(p) = {} THEN n - 1 ELSE Min(Spaces(p))
  <2>1. ends \subseteq Nat /\ n - 1 \in Nat
    BY <1>1, <1>4, <1>5
  <2>2. CASE Spaces(p) = {}
    <3>1. \A y \in ends : n - 1 =< y
      BY <1>4, <2>1, <2>2
    <3>2. n - 1 \in ends
      BY <1>4
    <3>3. m = n - 1
      BY <2>1, <3>1, <3>2, MinUnique
    <3>. QED
      BY <1>1, <2>2, <3>3
  <2>3. CASE Spaces(p) # {}
    <3>1. Spaces(p) \subseteq Nat
      BY <1>5
    <3>2. Min(Spaces(p)) \in Spaces(p) /\ \A y \in Spaces(p) : Min(Spaces(p)) =< y
      BY <2>3, <3>1, MinIsLeast
    <3>3. PICK x \in Spaces(p) : x = Min(Spaces(p)) /\ \A y \in Spaces(p) : x =< y
      BY <3>2
    <3>4. x \in 1 .. n - 2 /\ x \in ends
      BY <1>4, <1>5
    <3>5. \A y \in ends : x =< y
      BY <1>1, <1>4, <3>3, <3>4
    <3>6. m = x
      BY <2>1, <3>4, <3>5, MinUnique
    <3>. QED
      BY <1>1, <2>3, <3>3, <3>4, <3>6
  <2>. QED
    BY <2>2, <2>3
<1>7. Parsed(p).name = SubSeq(p, 1, m - 1)
  <2>1. Min(LineEnds(p)) = n - 1
    <3>1. LineEnds(p) \subseteq Nat /\ n - 1 \in LineEnds(p) /\ \A y \in LineEnds(p) : n - 1 =< y
      BY <1>1, <1>3
    <3>. QED
      BY <3>1, MinUnique
  <2>2. LineEnds(p) # {}
    BY <1>3
  <2>3. CASE Spaces(p) = {}
    BY <1>6, <2>1, <2>2, <2>3 DEF Parsed
  <2>4. CASE Spaces(p) # {}
    BY <1>6, <2>2, <2>4 DEF Parsed
  <2>. QED
    BY <2>3, <2>4
<1>8. FirstWord(sent[k]) = SubSeq(l, 1, m - 1)
  BY DEF FirstWord, ends, l, m
<1> HIDE DEF m, ends
<1>9. Text(SubSeq(p, 1, m - 1)) = SubSeq(l, 1, m - 1)
  <2>1. m - 1 \in 0 .. n /\ Len(p) = n /\ Len(l) = n
    BY <1>1, <1>6 DEF n, l
  <2>2. SubSeq(l, 1, m - 1) = [i \in 1 .. m - 1 |-> l[i]]
    BY <1>1, <2>1
  <2>3. SubSeq(p, 1, m - 1) = [i \in 1 .. m - 1 |-> p[i]]
    BY <1>2, <2>1
  <2>4. \A i \in 1 .. m - 1 : Char(p[i]) = l[i]
    BY <1>1, <1>2, <1>6
  <2>. QED
    BY <2>2, <2>3, <2>4 DEF Text
<1>10. HasHandler(Parsed(p).name) <=> FirstWord(sent[k]) \in Commands
  BY <1>7, <1>8, <1>9 DEF HasHandler
<1>11. ASSUME FirstWord(sent[k]) \in Commands
       PROVE  Call(p) # Unknown /\ LineOf(Call(p)) = k
  <2>1. Call(p) = Parsed(p) /\ HasHandler(Parsed(p).name)
    BY <1>10, <1>11 DEF Call
  <2>2. m - 1 \in 0 .. Len(p) /\ 1 \in 1 .. Len(p) + 1 /\ 1 =< (m - 1) + 1
    BY <1>1, <1>6 DEF n, l
  <2>3. /\ SubSeq(p, 1, m - 1) \in Seq(Byte)
        /\ Len(SubSeq(p, 1, m - 1)) = (m - 1) - 1 + 1
        /\ \A i \in 1 .. (m - 1) - 1 + 1 : SubSeq(p, 1, m - 1)[i] = p[1 + i - 1]
    BY <1>2, <2>2, SubSeqFacts
  <2>4. SubSeq(p, 1, m - 1) # <<>> /\ m - 1 # 0
    <3>1. Len(SubSeq(p, 1, m - 1)) \in Nat \ {0} /\ SubSeq(p, 1, m - 1) # <<>>
      BY <1>7, <2>1, <2>3, HandlerName
    <3>. QED
      BY <1>6, <2>3, <3>1
  <2>5. SubSeq(p, 1, m - 1)[1] = p[1]
    BY <1>6, <2>3, <2>4
  <2>6. p[1] = <<k, 1>>
    <3>1. 1 \in 1 .. Len(p)
      BY <1>1 DEF n, l
    <3>. QED
      BY <3>1
  <2>7. Call(p).name # <<>> /\ Call(p).name[1] = <<k, 1>>
    BY <1>7, <2>1, <2>4, <2>5, <2>6
  <2>. QED
    BY <2>7 DEF Unknown, LineOf
<1>12. ASSUME FirstWord(sent[k]) \notin Commands PROVE Call(p) = Unknown
  BY <1>10, <1>12 DEF Call
<1>. QED
  BY <1>11, <1>12

-----------------------------------------------------------------------------
(* The stream.                                                             *)

LEMMA Parts ==
    ASSUME NEW s, Segment(s), NEW m \in 0 .. Len(s)
    PROVE  Segment(SubSeq(s, 1, m)) /\ Segment(SubSeq(s, m + 1, Len(s)))
<1>1. s \in Seq(Byte) /\ Len(s) \in Nat
  BY DEF Segment
<1>2. /\ SubSeq(s, 1, m) \in Seq(Byte) /\ Len(SubSeq(s, 1, m)) = m
      /\ \A i \in 1 .. m : SubSeq(s, 1, m)[i] = s[i]
  BY <1>1, SubSeqFacts
<1>3. Segment(SubSeq(s, 1, m))
  <2>1. ASSUME NEW j \in 2 .. m
        PROVE  SubSeq(s, 1, m)[j] = NextByte(SubSeq(s, 1, m)[j - 1])
    <3>1. j \in 1 .. m /\ j - 1 \in 1 .. m /\ j \in 2 .. Len(s)
      BY <1>1
    <3>. QED
      BY <1>2, <3>1 DEF Segment
  <2>. QED
    BY <1>2, <2>1 DEF Segment
<1>4. /\ SubSeq(s, m + 1, Len(s)) \in Seq(Byte)
      /\ Len(SubSeq(s, m + 1, Len(s))) = Len(s) - m
      /\ \A i \in 1 .. Len(s) - m : SubSeq(s, m + 1, Len(s))[i] = s[m + i]
  BY <1>1
<1>5. ASSUME NEW j \in 2 .. Len(s) - m
      PROVE  SubSeq(s, m + 1, Len(s))[j] = NextByte(SubSeq(s, m + 1, Len(s))[j - 1])
  <2>1. /\ j \in 1 .. Len(s) - m /\ j - 1 \in 1 .. Len(s) - m
        /\ m + j \in 2 .. Len(s) /\ m + (j - 1) = (m + j) - 1
    BY <1>1
  <2>2. s[m + j] = NextByte(s[(m + j) - 1])
    BY <2>1 DEF Segment
  <2>. QED
    BY <1>4, <2>1, <2>2
<1>. QED
  BY <1>3, <1>4, <1>5 DEF Segment

\* The lines of a segment come in order.
LEMMA Monotone ==
    ASSUME StreamTypeOK, NEW s, Segment(s), NEW i \in 1 .. Len(s), NEW j \in i .. Len(s)
    PROVE  s[i][1] =< s[j][1]
<1>1. s \in Seq(Byte) /\ Len(s) \in Nat
  BY DEF Segment
<1>2. \A h \in 1 .. Len(s) : s[h][1] \in Nat /\ s[h][2] \in Nat
  BY <1>1, ByteFacts
<1> DEFINE After == {h \in i .. Len(s) : s[i][1] =< s[h][1]}
<1>3. i \in After
  BY <1>1, <1>2
<1>4. ASSUME NEW h \in i + 1 .. Len(s), h - 1 \in After PROVE h \in After
  <2>1. s[h] = NextByte(s[h - 1]) /\ s[i][1] =< s[h - 1][1] /\ h - 1 \in 1 .. Len(s)
    BY <1>1, <1>4 DEF Segment
  <2>2. s[h][1] \in {s[h - 1][1], s[h - 1][1] + 1}
    BY <2>1 DEF NextByte
  <2>. QED
    BY <1>1, <1>2, <1>4, <2>1, <2>2
<1> HIDE DEF After
<1>5. i .. Len(s) \subseteq After
  <2>1. i \in Nat /\ Len(s) \in Nat
    BY <1>1
  <2>2. \A h \in i + 1 .. Len(s) : h - 1 \in After => h \in After
    BY <1>4
  <2>. QED
    BY <1>3, <2>1, <2>2, UpTo
<1>. QED
  BY <1>5 DEF After

LEMMA StreamFacts ==
    ASSUME StreamTypeOK
    PROVE  /\ Stream \in Seq(Byte) /\ Len(Stream) \in Nat
           /\ Len(Stream) = Len(input) + Len(wire)
           /\ Len(input) \in Nat /\ Len(wire) \in Nat
           /\ \A i \in 1 .. Len(input) : Stream[i] = input[i]
           /\ \A i \in Len(input) + 1 .. Len(input) + Len(wire) :
                 Stream[i] = wire[i - Len(input)]
  BY ConcatFacts DEF StreamTypeOK, Stream

\* The callback takes the first bytes of what it has not taken.
LEMMA ReadTakes ==
    ASSUME StreamTypeOK, ReadEvent
    PROVE  \E m \in 1 .. Len(Stream) :
              /\ sent' = sent /\ unasked' = unasked
              /\ input' \in Seq(Byte) /\ wire' \in Seq(Byte)
              /\ Stream' = SubSeq(Stream, m + 1, Len(Stream))
              /\ calls' = Append(calls, Call(SubSeq(Stream, 1, m)))
              /\ silent' \subseteq silent \cup {Len(calls')} /\ opens' = opens
              /\ cut' = (cut \/ ~EndsLine(Stream[m])) /\ broken' \in BOOLEAN
<1>1. input \in Seq(Byte) /\ wire \in Seq(Byte)
  BY DEF StreamTypeOK
<1>2. PICK n \in 1 .. Len(wire) :
         LET bytes == input \o SubSeq(wire, 1, n)
             piece == Piece(bytes)
         IN /\ wire' = SubSeq(wire, n + 1, Len(wire))
            /\ input' = Rest(bytes)
            /\ calls' = Append(calls, Call(piece))
            /\ \/ silent' = silent
               \/ Quiet(Call(piece)) /\ silent' = silent \cup {Len(calls')}
            /\ cut' = (cut \/ ~EndsLine(Last(piece)))
            /\ broken' \in {FALSE, Len(piece) = BufSize}
  BY DEF ReadEvent
<1> DEFINE bytes == input \o SubSeq(wire, 1, n)
           some == SubSeq(wire, 1, n)
<1>3. /\ some \in Seq(Byte) /\ Len(some) = n /\ \A i \in 1 .. n : some[i] = wire[i]
  BY <1>1, SubSeqFacts
<1>4. /\ bytes \in Seq(Byte) /\ Len(bytes) = Len(input) + n
      /\ \A i \in 1 .. Len(input) : bytes[i] = input[i]
      /\ \A i \in Len(input) + 1 .. Len(input) + n : bytes[i] = wire[i - Len(input)]
  <2> HIDE DEF some
  <2>1. /\ input \o some \in Seq(Byte) /\ Len(input \o some) = Len(input) + n
        /\ \A i \in 1 .. Len(input) : (input \o some)[i] = input[i]
        /\ \A i \in Len(input) + 1 .. Len(input) + n :
              (input \o some)[i] = some[i - Len(input)]
    <3>1. some \in Seq(Byte) /\ Len(some) = n
      BY <1>3
    <3>2. /\ input \o some \in Seq(Byte) /\ Len(input \o some) = Len(input) + Len(some)
          /\ \A i \in 1 .. Len(input) : (input \o some)[i] = input[i]
          /\ \A i \in Len(input) + 1 .. Len(input) + Len(some) :
                (input \o some)[i] = some[i - Len(input)]
      BY <1>1, <3>1, ConcatFacts
    <3>. QED
      BY <3>1, <3>2
  <2>2. \A i \in Len(input) + 1 .. Len(input) + n : i - Len(input) \in 1 .. n
    BY <1>1
  <2>. QED
    BY <1>3, <2>1, <2>2 DEF some
<1>5. \A i \in 1 .. Len(bytes) : i \in 1 .. Len(Stream) /\ bytes[i] = Stream[i]
  <2>1. TAKE i \in 1 .. Len(bytes)
  <2>2. i \in 1 .. Len(input) \/ i \in Len(input) + 1 .. Len(input) + n
    BY <1>1, <1>4
  <2> HIDE DEF bytes
  <2>. QED
    BY <1>1, <1>4, <2>2, StreamFacts
<1> DEFINE m == Min({BufSize, Len(bytes)})
<1>6. m \in 1 .. Len(bytes) /\ m \in {BufSize, Len(bytes)} /\ m =< BufSize
  <2>1. BufSize \in Nat \ {0} /\ Len(bytes) \in Nat \ {0}
    BY <1>1, <1>4, ConstAssumption
  <2> DEFINE S == {BufSize, Len(bytes)}
  <2>2. S \subseteq Nat /\ S # {}
    BY <2>1
  <2> HIDE DEF S
  <2>3. Min(S) \in S /\ \A y \in S : Min(S) =< y
    BY <2>2, MinIsLeast
  <2>. QED
    BY <2>1, <2>3 DEF S
<1>7. /\ Piece(bytes) = SubSeq(bytes, 1, m)
      /\ Rest(bytes) = SubSeq(bytes, BufSize + 1, Len(bytes))
  BY DEF Piece, Rest
<1>8. /\ wire' = SubSeq(wire, n + 1, Len(wire)) /\ input' = Rest(bytes)
      /\ calls' = Append(calls, Call(Piece(bytes)))
      /\ cut' = (cut \/ ~EndsLine(Last(Piece(bytes))))
      /\ silent' \subseteq silent \cup {Len(calls')}
      /\ broken' \in BOOLEAN
  <2> HIDE DEF Quiet, Call, Piece, Rest
  <2>. QED
    BY <1>2
<1> HIDE DEF bytes, m
<1>9. m \in 1 .. Len(Stream)
  BY <1>5, <1>6
<1>10. Piece(bytes) = SubSeq(Stream, 1, m)
  <2>1. /\ SubSeq(bytes, 1, m) \in Seq(Byte) /\ Len(SubSeq(bytes, 1, m)) = m
        /\ \A i \in 1 .. m : SubSeq(bytes, 1, m)[i] = bytes[i]
    BY <1>4, <1>6, SubSeqFacts
  <2>2. /\ SubSeq(Stream, 1, m) \in Seq(Byte) /\ Len(SubSeq(Stream, 1, m)) = m
        /\ \A i \in 1 .. m : SubSeq(Stream, 1, m)[i] = Stream[i]
    BY <1>9, StreamFacts, SubSeqFacts
  <2>3. \A i \in 1 .. m : i \in 1 .. Len(bytes)
    BY <1>4, <1>6
  <2>4. SubSeq(bytes, 1, m) = SubSeq(Stream, 1, m)
    BY <1>5, <2>1, <2>2, <2>3, SameSeq
  <2>. QED
    BY <1>7, <2>4
<1>11. Last(Piece(bytes)) = Stream[m]
  <2>1. Len(SubSeq(Stream, 1, m)) = m /\ SubSeq(Stream, 1, m)[m] = Stream[m]
    BY <1>9, StreamFacts, SubSeqFacts
  <2>. QED
    BY <1>10, <2>1 DEF Last
<1>12. /\ input' \in Seq(Byte) /\ Len(input') = Len(bytes) - m
       /\ \A i \in 1 .. Len(bytes) - m : input'[i] = bytes[m + i]
  <2>1. CASE m = BufSize
    <3>1. /\ BufSize + 1 \in 1 .. Len(bytes) + 1 /\ Len(bytes) \in 0 .. Len(bytes)
          /\ BufSize + 1 =< Len(bytes) + 1
      BY <1>4, <1>6, <2>1
    <3>2. /\ input' \in Seq(Byte) /\ Len(input') = Len(bytes) - (BufSize + 1) + 1
          /\ \A i \in 1 .. Len(bytes) - (BufSize + 1) + 1 :
                input'[i] = bytes[(BufSize + 1) + i - 1]
      <4>1. /\ SubSeq(bytes, BufSize + 1, Len(bytes)) \in Seq(Byte)
            /\ Len(SubSeq(bytes, BufSize + 1, Len(bytes))) = Len(bytes) - (BufSize + 1) + 1
            /\ \A i \in 1 .. Len(bytes) - (BufSize + 1) + 1 :
                  SubSeq(bytes, BufSize + 1, Len(bytes))[i] = bytes[(BufSize + 1) + i - 1]
        BY <1>4, <3>1, SubSeqFacts
      <4>. QED
        BY <1>7, <1>8, <4>1
    <3>3. BufSize \in Nat /\ Len(bytes) \in Nat
      BY <1>4, <1>6, ConstAssumption
    <3>4. /\ Len(bytes) - (BufSize + 1) + 1 = Len(bytes) - BufSize
          /\ \A i \in 1 .. Len(bytes) - BufSize : (BufSize + 1) + i - 1 = BufSize + i
      BY <3>3
    <3>. QED
      BY <2>1, <3>2, <3>4
  <2>2. CASE m = Len(bytes)
    <3>1. Len(bytes) =< BufSize /\ Len(bytes) \in Nat /\ BufSize \in Nat
      BY <1>1, <1>4, <1>6, <2>2, ConstAssumption
    <3>2. input' = <<>>
      BY <1>4, <1>7, <1>8, <3>1
    <3>. QED
      BY <2>2, <3>1, <3>2
  <2>. QED
    BY <1>6, <2>1, <2>2
<1>13. /\ wire' \in Seq(Byte) /\ Len(wire') = Len(wire) - n
       /\ \A i \in 1 .. Len(wire) - n : wire'[i] = wire[n + i]
  BY <1>1, <1>8
<1>14. Stream' = SubSeq(Stream, m + 1, Len(Stream))
  <2>1. /\ SubSeq(Stream, m + 1, Len(Stream)) \in Seq(Byte)
        /\ Len(SubSeq(Stream, m + 1, Len(Stream))) = Len(Stream) - m
        /\ \A i \in 1 .. Len(Stream) - m : SubSeq(Stream, m + 1, Len(Stream))[i] = Stream[m + i]
    BY <1>9, StreamFacts
  <2>2. /\ Stream' \in Seq(Byte) /\ Len(Stream') = (Len(bytes) - m) + (Len(wire) - n)
        /\ \A i \in 1 .. Len(bytes) - m : Stream'[i] = bytes[m + i]
        /\ \A i \in (Len(bytes) - m) + 1 .. (Len(bytes) - m) + (Len(wire) - n) :
              Stream'[i] = wire'[i - (Len(bytes) - m)]
    <3>1. /\ input' \o wire' \in Seq(Byte)
          /\ Len(input' \o wire') = Len(input') + Len(wire')
          /\ \A i \in 1 .. Len(input') : (input' \o wire')[i] = input'[i]
          /\ \A i \in Len(input') + 1 .. Len(input') + Len(wire') :
                (input' \o wire')[i] = wire'[i - Len(input')]
      BY <1>12, <1>13, ConcatFacts
    <3>2. Len(input') = Len(bytes) - m /\ Len(wire') = Len(wire) - n
      BY <1>12, <1>13
    <3>3. Stream' = input' \o wire'
      BY DEF Stream
    <3>. QED
      BY <1>12, <3>1, <3>2, <3>3
  <2>3. Len(bytes) \in Nat /\ Len(wire) \in Nat /\ Len(input) \in Nat /\ n \in 1 .. Len(wire)
        /\ Len(bytes) = Len(input) + n /\ m \in 1 .. Len(bytes)
        /\ Len(Stream) = Len(input) + Len(wire)
    BY <1>1, <1>4, <1>6, StreamFacts
  <2>4. Len(Stream') = Len(Stream) - m
    BY <2>2, <2>3
  <2>5. ASSUME NEW i \in 1 .. Len(Stream) - m PROVE Stream'[i] = Stream[m + i]
    <3>1. CASE i =< Len(bytes) - m
      <4>1. i \in 1 .. Len(bytes) - m /\ m + i \in 1 .. Len(bytes)
        BY <2>3, <3>1
      <4>. QED
        BY <1>5, <2>2, <4>1
    <3>2. CASE i > Len(bytes) - m
      <4>1. /\ i \in (Len(bytes) - m) + 1 .. (Len(bytes) - m) + (Len(wire) - n)
            /\ i - (Len(bytes) - m) \in 1 .. Len(wire) - n
            /\ n + (i - (Len(bytes) - m)) = (m + i) - Len(input)
            /\ m + i \in Len(input) + 1 .. Len(input) + Len(wire)
        BY <2>3, <3>2
      <4>2. Stream'[i] = wire[(m + i) - Len(input)]
        BY <1>13, <2>2, <4>1
      <4>. QED
        BY <4>1, <4>2, StreamFacts
    <3>. QED
      BY <2>3, <3>1, <3>2
  <2>. QED
    BY <2>1, <2>2, <2>4, <2>5, SameSeq
<1>15. sent' = sent /\ unasked' = unasked /\ opens' = opens
  BY DEF ReadEvent
<1>. QED
  BY <1>8, <1>9, <1>10, <1>11, <1>12, <1>13, <1>14, <1>15

\* What the invariant says of a call does not change.
LEMMA CallsStay ==
    ASSUME calls \in Seq([name : Seq(Byte), arg : Seq(Byte)]),
           NEW a, calls' = Append(calls, a)
    PROVE  /\ DOMAIN calls = 1 .. Len(calls) /\ Len(calls) \in Nat
           /\ Len(calls') = Len(calls) + 1
           /\ DOMAIN calls' = 1 .. Len(calls) + 1
           /\ calls'[Len(calls) + 1] = a
           /\ \A i \in DOMAIN calls : calls'[i] = calls[i]
           /\ \A i \in Handled' :
                 i \in Handled \/ (i = Len(calls) + 1 /\ a # Unknown)
<1>1. /\ DOMAIN calls = 1 .. Len(calls) /\ Len(calls) \in Nat
      /\ Len(calls') = Len(calls) + 1
      /\ DOMAIN calls' = 1 .. Len(calls) + 1
      /\ calls'[Len(calls) + 1] = a
      /\ \A i \in DOMAIN calls : calls'[i] = calls[i]
  OBVIOUS
<1>2. ASSUME NEW i \in Handled'
      PROVE  i \in Handled \/ (i = Len(calls) + 1 /\ a # Unknown)
  <2>1. i \in DOMAIN calls' /\ calls'[i] # Unknown
    BY DEF Handled, Unknown
  <2>2. i \in DOMAIN calls \/ i = Len(calls) + 1
    BY <1>1, <2>1
  <2>. QED
    BY <1>1, <2>1, <2>2 DEF Handled
<1>. QED
  BY <1>1, <1>2

\* The line of the last byte is the last line.
LEMMA WaitingStream ==
    ASSUME StreamIInv, ~unasked, ~cut, Stream # <<>>
    PROVE  /\ input = <<>> /\ Stream = wire /\ Len(sent) \in DOMAIN sent
           /\ Len(calls) = Len(sent) - 1
           /\ Len(Stream) = Len(sent[Len(sent)])
           /\ \A j \in 1 .. Len(Stream) : Stream[j] = <<Len(sent), j>>
<1>1. StreamTypeOK /\ Segment(Stream)
  BY DEF StreamIInv, RestInv
<1>2. input = <<>> /\ Stream = wire
  BY DEF StreamIInv, WaitInv, StreamTypeOK, Stream
<1>3. Len(calls) = Len(sent) - 1 /\ Stream[1] = <<Len(sent), 1>>
  BY <1>2 DEF StreamIInv, WaitInv
<1>4. Stream \in Seq(Byte) /\ Len(Stream) \in Nat /\ Len(Stream) # 0
  BY <1>1, StreamFacts
<1>5. PICK N, L : N = Len(sent) /\ L = Len(sent[N]) /\ Stream[Len(Stream)] = <<N, L>>
  BY DEF StreamIInv, RestInv
<1>6. N \in DOMAIN sent /\ N \in Nat /\ L \in Nat
  <2>1. Stream[1] \in Byte
    BY <1>4
  <2>2. N \in DOMAIN sent
    BY <1>1, <1>3, <1>5, <2>1, ByteFacts
  <2>. QED
    BY <1>1, <1>5, <2>2, SentLineFacts
<1>7. \A j \in 1 .. Len(Stream) : /\ Stream[j] = <<N, Stream[j][2]>>
                                  /\ Stream[j][2] \in 1 .. L
  <2>1. TAKE j \in 1 .. Len(Stream)
  <2>2. Stream[1][1] =< Stream[j][1] /\ Stream[j][1] =< Stream[Len(Stream)][1]
    <3>1. 1 \in 1 .. Len(Stream) /\ j \in 1 .. Len(Stream) /\ Len(Stream) \in j .. Len(Stream)
      BY <1>4
    <3>. QED
      BY <1>1, <3>1, Monotone
  <2>3. Stream[1][1] = N /\ Stream[Len(Stream)][1] = N
    BY <1>3, <1>5
  <2>4. Stream[j] \in Byte
    BY <1>4
  <2>5. Stream[j] = <<Stream[j][1], Stream[j][2]>> /\ Stream[j][1] \in Nat
        /\ Stream[j][2] \in 1 .. Len(sent[Stream[j][1]])
    BY <1>1, <2>4, ByteFacts
  <2>6. Stream[j][1] = N
    BY <1>6, <2>2, <2>3, <2>5
  <2>. QED
    BY <1>5, <2>5, <2>6
<1> DEFINE Own == {j \in 1 .. Len(Stream) : Stream[j] = <<N, j>>}
<1>8. 1 \in Own
  BY <1>3, <1>4, <1>5
<1>9. ASSUME NEW j \in 1 + 1 .. Len(Stream), j - 1 \in Own PROVE j \in Own
  <2>1. Stream[j] = NextByte(Stream[j - 1]) /\ Stream[j - 1] = <<N, j - 1>>
    BY <1>1, <1>4, <1>9 DEF Segment
  <2>2. Stream[j - 1][1] = N /\ Stream[j - 1][2] = j - 1
    BY <2>1
  <2>3. Stream[j] = IF j - 1 = L THEN <<N + 1, 1>> ELSE <<N, (j - 1) + 1>>
    BY <1>5, <2>1, <2>2 DEF NextByte, EndsLine
  <2>4. Stream[j] = <<N, Stream[j][2]>> /\ j \in 1 .. Len(Stream)
    BY <1>4, <1>7
  <2>5. j - 1 # L
    BY <1>6, <2>3, <2>4
  <2>. QED
    BY <1>4, <2>3, <2>4, <2>5
<1>10. \A j \in 1 .. Len(Stream) : Stream[j] = <<N, j>>
  <2> HIDE DEF Own
  <2>1. 1 .. Len(Stream) \subseteq Own
    BY <1>4, <1>8, <1>9, UpTo
  <2>. QED
    BY <2>1 DEF Own
<1>11. Len(Stream) = L
  BY <1>4, <1>5, <1>10
<1>. QED
  BY <1>2, <1>3, <1>5, <1>6, <1>10, <1>11

-----------------------------------------------------------------------------
(* Every step keeps the invariant.                                         *)

LEMMA InitEstablishes == StreamInit => StreamIInv
<1> SUFFICES ASSUME StreamInit PROVE StreamIInv
  OBVIOUS
<1>1. /\ sent = <<>> /\ wire = <<>> /\ input = <<>> /\ calls = <<>>
      /\ silent = {} /\ opens \in BOOLEAN
      /\ unasked = FALSE /\ cut = FALSE /\ broken = FALSE
  BY DEF StreamInit
<1>2. Stream = <<>>
  BY <1>1 DEF Stream
<1>3. Handled = {}
  BY <1>1 DEF Handled
<1>4. StreamTypeOK
  <2>1. \A S : <<>> \in Seq(S)
    OBVIOUS
  <2>2. Len(sent) <= MaxLines
    BY <1>1, ConstAssumption
  <2>. QED
    BY <1>1, <2>1, <2>2 DEF StreamTypeOK
<1>5. RestInv
  BY <1>2 DEF RestInv, Segment
<1>6. WaitInv
  BY <1>1 DEF WaitInv
<1>. QED
  BY <1>2, <1>3, <1>4, <1>5, <1>6 DEF StreamIInv, OneLineEach, CutInv, OrderInv

LEMMA ReadKeeps ==
    ASSUME StreamIInv, ReadEvent
    PROVE  StreamIInv'
<1>1. StreamTypeOK /\ Segment(Stream)
  BY DEF StreamIInv, RestInv
<1>2. PICK m \in 1 .. Len(Stream) :
         /\ sent' = sent /\ unasked' = unasked
         /\ input' \in Seq(Byte) /\ wire' \in Seq(Byte)
         /\ Stream' = SubSeq(Stream, m + 1, Len(Stream))
         /\ calls' = Append(calls, Call(SubSeq(Stream, 1, m)))
         /\ silent' \subseteq silent \cup {Len(calls')} /\ opens' = opens
         /\ cut' = (cut \/ ~EndsLine(Stream[m])) /\ broken' \in BOOLEAN
  BY <1>1, ReadTakes
<1> DEFINE p == SubSeq(Stream, 1, m)
           a == Call(p)
           new == Len(calls) + 1
<1>3. Stream \in Seq(Byte) /\ Len(Stream) \in Nat /\ m \in Nat /\ m \in 0 .. Len(Stream)
  BY <1>1, StreamFacts
<1>4. Segment(p) /\ Segment(SubSeq(Stream, m + 1, Len(Stream)))
  BY <1>1, <1>3, Parts
<1>5. /\ Len(p) = m /\ \A j \in 1 .. m : p[j] = Stream[j]
  BY <1>3, SubSeqFacts
<1>6. /\ Len(Stream') = Len(Stream) - m
      /\ \A j \in 1 .. Len(Stream) - m : Stream'[j] = Stream[m + j]
  BY <1>2, <1>3
<1>7. calls \in Seq([name : Seq(Byte), arg : Seq(Byte)])
  BY <1>1 DEF StreamTypeOK
<1>8. a \in [name : Seq(Byte), arg : Seq(Byte)]
  BY <1>1, <1>4, CallType
<1>9. /\ DOMAIN calls = 1 .. Len(calls) /\ Len(calls) \in Nat
      /\ Len(calls') = new /\ DOMAIN calls' = 1 .. new /\ calls'[new] = a
      /\ \A i \in DOMAIN calls : calls'[i] = calls[i]
      /\ \A i \in Handled' : i \in Handled \/ (i = new /\ a # Unknown)
  BY <1>2, <1>7, CallsStay
<1>10. a # Unknown =>
          /\ a.name # <<>> /\ a.name[1] = Stream[1] /\ RestOfLine(a)
          /\ \E j \in 1 .. m : Stream[j] = <<Stream[1][1], Len(sent[Stream[1][1]])>>
  <2>1. SUFFICES ASSUME a # Unknown
                 PROVE  /\ a.name # <<>> /\ a.name[1] = Stream[1] /\ RestOfLine(a)
                        /\ \E j \in 1 .. m : Stream[j] = <<Stream[1][1], Len(sent[Stream[1][1]])>>
    OBVIOUS
  <2> HIDE DEF p
  <2>2. /\ a.name # <<>> /\ a.name[1] = p[1] /\ RestOfLine(a)
        /\ \E j \in 1 .. Len(p) : p[j] = <<p[1][1], Len(sent[p[1][1]])>>
    BY <1>1, <1>4, <2>1, HandledPiece
  <2>3. p[1] = Stream[1]
    BY <1>2, <1>3, <1>5
  <2>. QED
    BY <1>5, <2>2, <2>3
<1> HIDE DEF p, a
<1>11. StreamTypeOK'
  <2>1. Byte' = Byte
    BY <1>2 DEF Byte
  <2>2. calls' \in Seq([name : Seq(Byte), arg : Seq(Byte)])
    BY <1>2, <1>7, <1>8 DEF a, p
  <2>3. cut' \in BOOLEAN
    BY <1>1, <1>2 DEF StreamTypeOK, EndsLine
  <2>4. silent' \subseteq DOMAIN calls' /\ opens' \in BOOLEAN
    BY <1>1, <1>2, <1>9 DEF StreamTypeOK
  <2>. QED
    BY <1>1, <1>2, <2>1, <2>2, <2>3, <2>4 DEF StreamTypeOK
<1>12. RestInv'
  <2>1. Segment(SubSeq(Stream, m + 1, Len(Stream)))' = Segment(SubSeq(Stream, m + 1, Len(Stream)))'
    OBVIOUS
  <2>2. Stream' \in Seq(Byte) /\ \A j \in 2 .. Len(Stream') : Stream'[j] = NextByte(Stream'[j - 1])
    BY <1>2, <1>4 DEF Segment
  <2>3. Byte' = Byte /\ \A b : NextByte(b)' = NextByte(b)
    BY <1>2 DEF Byte, NextByte, EndsLine
  <2>4. Segment(Stream)'
    BY <2>2, <2>3 DEF Segment
  <2>5. ASSUME Stream' # <<>>
        PROVE  Stream'[Len(Stream')] = <<Len(sent), Len(sent[Len(sent)])>>
    <3>1. Len(Stream') # 0 /\ Len(Stream) - m \in 1 .. Len(Stream) - m
      BY <1>3, <1>6, <2>2, <2>5
    <3>2. Stream'[Len(Stream')] = Stream[Len(Stream)] /\ Stream # <<>>
      BY <1>3, <1>6, <3>1
    <3>. QED
      BY <3>2 DEF StreamIInv, RestInv
  <2>. QED
    BY <1>2, <2>4, <2>5 DEF RestInv
<1>13. Stream' # <<>> => m + 1 \in 2 .. Len(Stream) /\ Stream'[1] = Stream[m + 1]
  BY <1>2, <1>3, <1>6
<1>14. CutInv'
  <2>1. SUFFICES ASSUME ~cut', Stream' # <<>> PROVE Stream'[1][2] = 1
    BY DEF CutInv
  <2>2. EndsLine(Stream[m])
    BY <1>2, <2>1
  <2>3. Stream[m + 1] = NextByte(Stream[m])
    <3>1. (m + 1) - 1 = m /\ m + 1 \in 2 .. Len(Stream)
      BY <1>3, <1>13, <2>1
    <3>. QED
      BY <1>1, <3>1 DEF Segment
  <2>. QED
    BY <1>13, <2>1, <2>2, <2>3 DEF NextByte
<1>15. Stream # <<>> /\ Stream[1] \in Byte /\ 1 \in 1 .. Len(Stream)
  BY <1>3
<1>16. PICK k : k = Stream[1][1] /\ k \in Nat /\ k \in DOMAIN sent /\ k =< Len(sent)
  BY <1>1, <1>15, ByteFacts, SentLineFacts
<1>17. \A i \in Handled : /\ i \in DOMAIN calls /\ calls[i].name # <<>>
                          /\ LineOf(calls[i]) =< Len(sent) /\ LineOf(calls[i]) < k
                          /\ LineOf(calls[i]) \in Nat
  <2>1. TAKE i \in Handled
  <2>2. i \in DOMAIN calls /\ calls[i].name # <<>>
        /\ LineOf(calls[i]) =< Len(sent) /\ LineOf(calls[i]) < k
    BY <1>15, <1>16 DEF StreamIInv, OrderInv, Handled
  <2>3. calls[i].name \in Seq(Byte)
    <3>1. calls[i] \in [name : Seq(Byte), arg : Seq(Byte)]
      BY <1>7, <2>2, ElementType
    <3>. QED
      BY <3>1
  <2>4. calls[i].name[1] \in Byte
    BY <2>2, <2>3
  <2>. QED
    BY <1>1, <2>2, <2>4, ByteFacts DEF LineOf
<1>18. a # Unknown => a.name # <<>> /\ LineOf(a) = k /\ Head(a.name) = Stream[1]
  <2>1. a.name \in Seq(Byte)
    BY <1>8
  <2>. QED
    BY <1>10, <1>16, <2>1 DEF LineOf
<1>19. OrderInv'
  <2>1. SUFFICES ASSUME NEW i \in Handled'
                 PROVE  /\ calls'[i].name # <<>>
                        /\ LineOf(calls'[i]) =< Len(sent)
                        /\ Stream' # <<>> => LineOf(calls'[i]) < Stream'[1][1]
    BY <1>2 DEF OrderInv, LineOf
  <2>2. Stream' # <<>> => k =< Stream'[1][1] /\ Stream'[1][1] \in Nat
    <3>1. SUFFICES ASSUME Stream' # <<>> PROVE k =< Stream'[1][1] /\ Stream'[1][1] \in Nat
      OBVIOUS
    <3>2. m + 1 \in 1 .. Len(Stream) /\ Stream[m + 1] \in Byte
      BY <1>3, <1>13, <3>1
    <3>3. Stream[1][1] =< Stream[m + 1][1]
      BY <1>1, <1>15, <3>2, Monotone
    <3>4. Stream[m + 1][1] \in Nat
      BY <1>1, <3>2, ByteFacts
    <3>. QED
      BY <1>13, <1>16, <3>1, <3>3, <3>4
  <2>3. CASE i \in Handled
    <3>1. calls'[i] = calls[i]
      BY <1>9, <1>17, <2>3
    <3>. QED
      BY <1>16, <1>17, <2>2, <2>3, <3>1
  <2>4. CASE i = new /\ a # Unknown
    <3>1. calls'[i] = a /\ LineOf(a) = k
      BY <1>9, <1>18, <2>4
    <3>2. PICK j \in 1 .. m : Stream[j] = <<k, Len(sent[k])>>
      BY <1>10, <1>16, <2>4
    <3>3. ASSUME Stream' # <<>> PROVE k < Stream'[1][1]
      <4>1. j + 1 \in 2 .. Len(Stream) /\ (j + 1) - 1 = j /\ m + 1 \in j + 1 .. Len(Stream)
            /\ j + 1 \in 1 .. Len(Stream)
        BY <1>3, <1>13, <3>3
      <4>2. Stream[j + 1] = NextByte(Stream[j])
        BY <1>1, <4>1 DEF Segment
      <4>3. Stream[j][1] = k /\ Stream[j][2] = Len(sent[k])
        BY <3>2
      <4>4. Stream[j + 1] = <<k + 1, 1>>
        BY <4>2, <4>3 DEF NextByte, EndsLine
      <4>5. Stream[j + 1][1] = k + 1
        BY <4>4
      <4>6. k + 1 =< Stream[m + 1][1]
        BY <1>1, <4>1, <4>5, Monotone
      <4>. QED
        BY <1>13, <1>16, <2>2, <3>3, <4>6
    <3>. QED
      BY <1>16, <1>18, <2>4, <3>1, <3>3
  <2>. QED
    BY <1>9, <2>3, <2>4
<1>20. OneLineEach'
  <2>1. \A x : RestOfLine(x)' = RestOfLine(x) /\ LineOf(x)' = LineOf(x)
    BY <1>2 DEF RestOfLine, LineOf, Bytes, Char
  <2>2. ASSUME NEW i \in Handled'
        PROVE  RestOfLine(calls'[i]) /\ (Head(calls'[i].name)[2] = 1 \/ cut')
    <3>1. CASE i \in Handled
      <4>1. calls'[i] = calls[i]
        BY <1>9, <1>17, <3>1
      <4>2. RestOfLine(calls[i]) /\ (Head(calls[i].name)[2] = 1 \/ cut)
        BY <3>1 DEF StreamIInv, OneLineEach
      <4>. QED
        BY <1>2, <4>1, <4>2
    <3>2. CASE i = new /\ a # Unknown
      <4>1. calls'[i] = a /\ RestOfLine(a) /\ Head(a.name) = Stream[1]
        BY <1>9, <1>10, <1>18, <3>2
      <4>2. Stream[1][2] = 1 \/ cut
        BY <1>15 DEF StreamIInv, CutInv
      <4>. QED
        BY <1>2, <4>1, <4>2
    <3>. QED
      BY <1>9, <2>2, <3>1, <3>2
  <2>3. ASSUME NEW i \in Handled', NEW j \in Handled', i < j
        PROVE  LineOf(calls'[i]) < LineOf(calls'[j])
    <3>1. CASE i \in Handled /\ j \in Handled
      <4>1. calls'[i] = calls[i] /\ calls'[j] = calls[j]
        BY <1>9, <1>17, <3>1
      <4>. QED
        BY <2>3, <3>1, <4>1 DEF StreamIInv, OneLineEach
    <3>2. CASE i \in Handled /\ j = new /\ a # Unknown
      BY <1>9, <1>17, <1>18, <3>2
    <3>3. CASE i = new
      <4>1. j \in 1 .. new
        BY <1>9, <1>17
      <4>. QED
        BY <1>9, <2>3, <3>3, <4>1
    <3>. QED
      BY <1>9, <2>3, <3>1, <3>2, <3>3
  <2>. QED
    BY <2>1, <2>2, <2>3 DEF OneLineEach
<1>21. WaitInv'
  <2>1. SUFFICES ASSUME ~unasked', ~cut'
                 PROVE  /\ \A k_1 \in DOMAIN calls' : k_1 \in DOMAIN sent' /\ CallOfLine(k_1)'
                        /\ input' = <<>> /\ wire' = <<>> /\ Len(calls') = Len(sent')
    BY DEF WaitInv
  <2>2. ~unasked /\ ~cut /\ EndsLine(Stream[m])
    BY <1>2, <2>1
  <2> DEFINE N == Len(sent)
  <2>3. /\ N \in DOMAIN sent /\ Len(calls) = N - 1 /\ Len(Stream) = Len(sent[N])
        /\ \A j \in 1 .. Len(Stream) : Stream[j] = <<N, j>>
    BY <1>15, <2>2, WaitingStream
  <2>4. m = Len(Stream)
    <3>1. Stream[m][1] = N /\ Stream[m][2] = m
      BY <2>3
    <3>. QED
      BY <2>2, <2>3, <3>1 DEF EndsLine
  <2>5. input' = <<>> /\ wire' = <<>>
    <3>1. Len(Stream') = 0 /\ Len(input') \in Nat /\ Len(wire') \in Nat
      BY <1>2, <1>3, <1>6, <2>4
    <3>2. Len(Stream') = Len(input') + Len(wire')
      BY <1>2, ConcatFacts DEF Stream
    <3>3. Len(input') = 0 /\ Len(wire') = 0
      <4>1. \A x, y \in Nat : 0 = x + y => x = 0 /\ y = 0
        OBVIOUS
      <4>. QED
        BY <3>1, <3>2, <4>1
    <3>. QED
      BY <1>2, <3>3
  <2>6. N \in Nat /\ new = N /\ Len(calls') = Len(sent')
    BY <1>1, <1>2, <1>9, <2>3, SentLineFacts
  <2>7. IF FirstWord(sent[N]) \in Commands
        THEN a # Unknown /\ LineOf(a) = N
        ELSE a = Unknown
    <3>1. Len(p) = Len(sent[N]) /\ \A j \in 1 .. Len(p) : p[j] = <<N, j>>
      BY <1>5, <2>3, <2>4 DEF p
    <3>. QED
      BY <1>1, <1>4, <2>3, <3>1, WholeLine DEF a, p
  <2>8. ASSUME NEW i \in DOMAIN calls' PROVE i \in DOMAIN sent' /\ CallOfLine(i)'
    <3>1. CASE i \in DOMAIN calls
      <4>1. calls'[i] = calls[i] /\ i \in DOMAIN sent /\ CallOfLine(i)
        BY <1>9, <2>2, <3>1 DEF StreamIInv, WaitInv
      <4>. QED
        BY <1>2, <4>1 DEF CallOfLine, FirstWord, LineOf, Unknown
    <3>2. CASE i = N
      <4>1. calls'[i] = a
        BY <1>9, <2>6, <3>2
      <4>. QED
        BY <1>2, <2>3, <2>7, <3>2, <4>1 DEF CallOfLine, FirstWord, LineOf, Unknown
    <3>. QED
      BY <1>9, <2>6, <3>1, <3>2
  <2>. QED
    BY <2>5, <2>6, <2>8
<1>. QED
  BY <1>11, <1>12, <1>14, <1>19, <1>20, <1>21 DEF StreamIInv

\* What was sent before stays what it was, and the new line is behind it.
LEMMA SendGrows ==
    ASSUME StreamIInv, NEW l \in Lines, Send(l)
    PROVE  /\ sent' = Append(sent, l) /\ sent' \in Seq(Lines) /\ Len(sent') <= MaxLines
           /\ Len(sent) \in Nat /\ Len(sent') = Len(sent) + 1
           /\ DOMAIN sent' = DOMAIN sent \cup {Len(sent) + 1}
           /\ sent'[Len(sent) + 1] = l /\ l \in Seq(STRING) /\ Len(l) \in Nat /\ Len(l) > 2
           /\ \A k \in DOMAIN sent : k \in 1 .. Len(sent) /\ sent'[k] = sent[k]
           /\ Byte \subseteq Byte'
           /\ \A i \in 1 .. Len(l) : <<Len(sent) + 1, i>> \in Byte'
<1>1. sent \in Seq(Lines) /\ sent' = Append(sent, l) /\ Len(sent) < MaxLines
  BY DEF StreamIInv, StreamTypeOK, Send
<1>2. l \in Seq(STRING) /\ Len(l) \in Nat /\ Len(l) > 2 /\ DOMAIN l = 1 .. Len(l)
  BY ConstAssumption DEF IsLine
<1>3. /\ sent' \in Seq(Lines) /\ Len(sent) \in Nat /\ Len(sent') = Len(sent) + 1
      /\ DOMAIN sent' = DOMAIN sent \cup {Len(sent) + 1}
      /\ sent'[Len(sent) + 1] = l
      /\ \A k \in DOMAIN sent : k \in 1 .. Len(sent) /\ sent'[k] = sent[k]
  BY <1>1
<1>4. Len(sent') <= MaxLines
  BY <1>1, <1>3, ConstAssumption
<1>5. Byte \subseteq Byte'
  BY <1>3 DEF Byte
<1>6. \A i \in 1 .. Len(l) : <<Len(sent) + 1, i>> \in Byte'
  BY <1>2, <1>3 DEF Byte
<1>. QED
  BY <1>1, <1>2, <1>3, <1>4, <1>5, <1>6

LEMMA SendKeeps ==
    ASSUME StreamIInv, NEW l \in Lines, Send(l)
    PROVE  StreamIInv'
<1> DEFINE N == Len(sent) + 1
           added == [i \in DOMAIN l |-> <<N, i>>]
<1>1. StreamTypeOK /\ Segment(Stream)
  BY DEF StreamIInv, RestInv
<1>2. /\ wire' = wire \o added /\ unasked' = (unasked \/ Len(calls) < Len(sent) \/ silent # {})
      /\ input' = input /\ calls' = calls /\ cut' = cut /\ broken' = broken
  BY DEF Send
<1>19. silent' = silent /\ opens' = opens
  BY DEF Send
<1>3. /\ sent' \in Seq(Lines) /\ Len(sent') <= MaxLines
      /\ Len(sent) \in Nat /\ Len(sent') = N
      /\ DOMAIN sent' = DOMAIN sent \cup {N}
      /\ sent'[N] = l /\ l \in Seq(STRING) /\ Len(l) \in Nat /\ Len(l) > 2
      /\ \A k \in DOMAIN sent : k \in 1 .. Len(sent) /\ sent'[k] = sent[k]
      /\ Byte \subseteq Byte'
      /\ \A i \in 1 .. Len(l) : <<N, i>> \in Byte'
  BY SendGrows
<1>4. /\ added \in Seq(Byte') /\ Len(added) = Len(l)
      /\ \A i \in 1 .. Len(l) : added[i] = <<N, i>>
  BY <1>3
<1>5. wire \in Seq(Byte) /\ input \in Seq(Byte) /\ Stream \in Seq(Byte) /\ Len(Stream) \in Nat
  BY <1>1, StreamFacts DEF StreamTypeOK
<1>6. \A s \in Seq(Byte) : s \in Seq(Byte')
  BY <1>3
<1> HIDE DEF added
<1>7. wire' \in Seq(Byte') /\ input' \in Seq(Byte') /\ wire' # <<>>
  BY <1>2, <1>3, <1>4, <1>5, <1>6, ConcatFacts
<1>8. /\ Stream' = Stream \o added /\ Stream' \in Seq(Byte') /\ Len(Stream') = Len(Stream) + Len(l)
      /\ \A j \in 1 .. Len(Stream) : Stream'[j] = Stream[j]
      /\ \A j \in Len(Stream) + 1 .. Len(Stream) + Len(l) :
            Stream'[j] = <<N, j - Len(Stream)>>
  <2>1. Stream' = input \o (wire \o added)
    BY <1>2 DEF Stream
  <2>2. Stream' = Stream \o added
    BY <1>4, <1>5, <1>6, <2>1 DEF Stream
  <2>3. Stream \in Seq(Byte') /\ Len(added) = Len(l)
    BY <1>4, <1>5, <1>6
  <2>4. /\ Stream \o added \in Seq(Byte') /\ Len(Stream \o added) = Len(Stream) + Len(added)
        /\ \A j \in 1 .. Len(Stream) : (Stream \o added)[j] = Stream[j]
        /\ \A j \in Len(Stream) + 1 .. Len(Stream) + Len(added) :
              (Stream \o added)[j] = added[j - Len(Stream)]
    BY <1>4, <2>3, ConcatFacts
  <2>5. \A j \in Len(Stream) + 1 .. Len(Stream) + Len(l) : j - Len(Stream) \in 1 .. Len(l)
    BY <1>3, <1>5
  <2>. QED
    BY <1>4, <2>2, <2>3, <2>4, <2>5
<1>9. \A b \in Byte : EndsLine(b)' = EndsLine(b) /\ NextByte(b)' = NextByte(b) /\ Char(b)' = Char(b)
  BY <1>1, <1>3, ByteFacts DEF EndsLine, NextByte, Char
<1>10. StreamTypeOK'
  <2>1. calls' \in Seq([name : Seq(Byte'), arg : Seq(Byte')])
    <3>1. calls \in Seq([name : Seq(Byte), arg : Seq(Byte)])
      BY <1>1 DEF StreamTypeOK
    <3>2. [name : Seq(Byte), arg : Seq(Byte)] \subseteq [name : Seq(Byte'), arg : Seq(Byte')]
      BY <1>6
    <3>. QED
      BY <1>2, <3>1, <3>2, WiderType
  <2>. QED
    BY <1>1, <1>2, <1>3, <1>7, <1>19, <2>1 DEF StreamTypeOK
<1>11. RestInv'
  <2>1. ASSUME NEW j \in 2 .. Len(Stream')
        PROVE  Stream'[j] = IF Stream'[j - 1][2] = Len(sent'[Stream'[j - 1][1]])
                            THEN <<Stream'[j - 1][1] + 1, 1>>
                            ELSE <<Stream'[j - 1][1], Stream'[j - 1][2] + 1>>
    <3>0. j \in Nat /\ j - 1 \in Nat /\ 2 =< j /\ j =< Len(Stream) + Len(l)
      BY <1>3, <1>5, <1>8
    <3>1. CASE j =< Len(Stream)
      <4>1. j \in 2 .. Len(Stream) /\ j - 1 \in 1 .. Len(Stream) /\ j \in 1 .. Len(Stream)
        BY <1>5, <3>0, <3>1
      <4>2. Stream[j] = NextByte(Stream[j - 1]) /\ Stream[j - 1] \in Byte
        BY <1>1, <1>5, <4>1 DEF Segment
      <4>3. sent'[Stream[j - 1][1]] = sent[Stream[j - 1][1]]
        BY <1>1, <1>3, <4>2, ByteFacts
      <4>4. Stream'[j - 1] = Stream[j - 1] /\ Stream'[j] = Stream[j]
        BY <1>8, <4>1
      <4>. QED
        BY <4>2, <4>3, <4>4 DEF NextByte, EndsLine
    <3>2. CASE j = Len(Stream) + 1
      <4>1. Len(Stream) \in 1 .. Len(Stream) /\ Stream # <<>> /\ j - 1 = Len(Stream)
        BY <1>5, <3>0, <3>2
      <4>2. Stream'[j] = <<N, 1>> /\ Stream'[j - 1] = <<Len(sent), Len(sent[Len(sent)])>>
        <5>1. Stream[Len(Stream)] = <<Len(sent), Len(sent[Len(sent)])>>
          BY <4>1 DEF StreamIInv, RestInv
        <5>2. j \in Len(Stream) + 1 .. Len(Stream) + Len(l) /\ j - Len(Stream) = 1
          BY <1>3, <1>5, <3>2
        <5>. QED
          BY <1>8, <4>1, <5>1, <5>2
      <4>3. Len(sent) \in DOMAIN sent
        <5>1. Stream[Len(Stream)] \in Byte /\ Stream[Len(Stream)][1] = Len(sent)
          BY <1>5, <1>8, <4>1, <4>2
        <5>. QED
          BY <1>1, <5>1, ByteFacts
      <4>4. Stream'[j - 1][1] = Len(sent) /\ Stream'[j - 1][2] = Len(sent'[Len(sent)])
        BY <1>3, <4>2, <4>3
      <4>. QED
        BY <4>2, <4>4
    <3>3. CASE j > Len(Stream) + 1
      <4>1. /\ j \in Len(Stream) + 1 .. Len(Stream) + Len(l)
            /\ j - 1 \in Len(Stream) + 1 .. Len(Stream) + Len(l)
            /\ (j - 1) - Len(Stream) # Len(l)
            /\ j - Len(Stream) = ((j - 1) - Len(Stream)) + 1
        BY <1>3, <1>5, <3>0, <3>3
      <4>2. /\ Stream'[j] = <<N, j - Len(Stream)>>
            /\ Stream'[j - 1] = <<N, (j - 1) - Len(Stream)>>
        BY <1>8, <4>1
      <4>3. Stream'[j - 1][1] = N /\ Stream'[j - 1][2] = (j - 1) - Len(Stream)
        BY <4>2
      <4>4. Len(sent'[Stream'[j - 1][1]]) = Len(l)
        BY <1>3, <4>3
      <4>5. Stream'[j - 1][2] # Len(sent'[Stream'[j - 1][1]])
        BY <4>1, <4>3, <4>4
      <4>. QED
        BY <4>1, <4>2, <4>3, <4>5
    <3>. QED
      BY <1>5, <3>0, <3>1, <3>2, <3>3
  <2>2. Segment(Stream)'
    BY <1>8, <2>1 DEF Segment, NextByte, EndsLine
  <2>3. Stream'[Len(Stream')] = <<Len(sent'), Len(sent'[Len(sent')])>>
    <3>1. Len(Stream') \in Len(Stream) + 1 .. Len(Stream) + Len(l)
          /\ Len(Stream') - Len(Stream) = Len(l)
      BY <1>3, <1>5, <1>8
    <3>. QED
      BY <1>3, <1>8, <3>1
  <2>. QED
    BY <2>2, <2>3 DEF RestInv
<1>12. /\ Stream # <<>> => Stream'[1] = Stream[1]
       /\ Stream = <<>> => Stream'[1] = <<N, 1>>
  <2>1. CASE Stream # <<>>
    <3>1. 1 \in 1 .. Len(Stream)
      BY <1>5, <2>1
    <3>. QED
      BY <1>8, <2>1, <3>1
  <2>2. CASE Stream = <<>>
    <3>1. 1 \in Len(Stream) + 1 .. Len(Stream) + Len(l) /\ 1 - Len(Stream) = 1
      BY <1>3, <2>2
    <3>. QED
      BY <1>8, <2>2, <3>1
  <2>. QED
    BY <2>1, <2>2
<1>13. CutInv'
  BY <1>2, <1>12 DEF StreamIInv, CutInv
<1>14. \A i \in Handled :
          /\ i \in DOMAIN calls /\ calls[i].name \in Seq(Byte) /\ calls[i].name # <<>>
          /\ Head(calls[i].name) \in Byte /\ LineOf(calls[i]) = Head(calls[i].name)[1]
          /\ LineOf(calls[i]) \in DOMAIN sent /\ LineOf(calls[i]) =< Len(sent)
          /\ LineOf(calls[i]) \in Nat
          /\ Stream # <<>> => LineOf(calls[i]) < Stream[1][1]
  <2>1. TAKE i \in Handled
  <2>2. /\ i \in DOMAIN calls /\ calls[i].name # <<>> /\ LineOf(calls[i]) =< Len(sent)
        /\ Stream # <<>> => LineOf(calls[i]) < Stream[1][1]
    BY DEF StreamIInv, OrderInv, Handled
  <2>3. calls[i] \in [name : Seq(Byte), arg : Seq(Byte)]
    <3>1. calls \in Seq([name : Seq(Byte), arg : Seq(Byte)])
      BY <1>1 DEF StreamTypeOK
    <3>. QED
      BY <2>2, <3>1, ElementType
  <2>4. calls[i].name \in Seq(Byte)
    BY <2>3
  <2>5. Head(calls[i].name) \in Byte /\ Head(calls[i].name) = calls[i].name[1]
    BY <2>2, <2>4
  <2>6. LineOf(calls[i]) = Head(calls[i].name)[1]
    BY <2>5 DEF LineOf
  <2>7. LineOf(calls[i]) \in DOMAIN sent /\ LineOf(calls[i]) \in Nat
    BY <1>1, <2>5, <2>6, ByteFacts
  <2>. QED
    BY <2>2, <2>4, <2>5, <2>6, <2>7
<1>15. Handled' = Handled
  BY <1>2 DEF Handled, Unknown
<1>16. OrderInv'
  <2>1. SUFFICES ASSUME NEW i \in Handled
                 PROVE  /\ calls[i].name # <<>>
                        /\ LineOf(calls[i]) <= Len(sent')
                        /\ LineOf(calls[i]) < Stream'[1][1]
    BY <1>2, <1>15 DEF OrderInv, LineOf
  <2>2. LineOf(calls[i]) < N
    BY <1>3, <1>14
  <2>. QED
    BY <1>3, <1>12, <1>14, <2>2
<1>17. OneLineEach'
  <2>1. ASSUME NEW i \in Handled PROVE RestOfLine(calls[i])'
    <3> DEFINE a == calls[i]
               k == LineOf(a)
               whole == Bytes(k, Head(a.name)[2], Len(sent[k]) - 2)
               space == whole[Len(a.name) + 1]
    <3>1. RestOfLine(a)
      BY DEF StreamIInv, OneLineEach
    <3>2. k \in DOMAIN sent /\ Head(a.name) \in Byte /\ a.name \in Seq(Byte) /\ sent'[k] = sent[k]
          /\ Head(a.name)[1] = k
      BY <1>3, <1>14
    <3>3. a.arg \in Seq(Byte)
      <4>1. a \in [name : Seq(Byte), arg : Seq(Byte)]
        <5>1. calls \in Seq([name : Seq(Byte), arg : Seq(Byte)]) /\ i \in DOMAIN calls
          BY <1>1, <1>14 DEF StreamTypeOK
        <5>. QED
          BY <5>1, ElementType
      <4>. QED
        BY <4>1
    <3>4. k' = k /\ a' = a
      BY <1>2 DEF LineOf
    <3>5. whole' = whole
      BY <3>2, <3>4 DEF Bytes
    <3>6. CASE a.arg = <<>> /\ a.name = whole
      BY <3>4, <3>5, <3>6 DEF RestOfLine
    <3>7. CASE Char(space) = Blank /\ whole = a.name \o <<space>> \o a.arg
      <4>1. Char(space)' = Char(space)
        <5>1. PICK first, e : /\ first = Head(a.name)[2] /\ e = Len(sent[k]) - 2 - first + 1
                              /\ first \in Nat /\ e \in Int /\ first \in 1 .. Len(sent[k])
                              /\ Len(sent[k]) \in Nat
          <6>1. /\ Head(a.name)[2] \in 1 .. Len(sent[k]) /\ Head(a.name)[2] \in Nat
                /\ Len(sent[k]) \in Nat
            BY <1>1, <3>2, ByteFacts, SentLineFacts
          <6> HIDE DEF k, a
          <6>2. Len(sent[k]) - 2 - Head(a.name)[2] + 1 \in Int
            BY <6>1
          <6>. QED
            BY <6>1, <6>2
        <5>2. whole = [j \in 1 .. e |-> <<k, first + j - 1>>]
          BY <5>1 DEF Bytes
        <5>3. Len(a.name) + 1 \in 1 .. e
          <6> HIDE DEF space, whole
          <6>1. Len(a.name) \in Nat /\ Len(a.arg) \in Nat
            BY <3>2, <3>3
          <6>2. DOMAIN whole = 1 .. e
            BY <5>2 DEF whole
          <6>3. Len(a.name) + 1 \in DOMAIN (a.name \o <<space>> \o a.arg)
            BY <3>2, <3>3, <6>1, Between
          <6>. QED
            BY <3>7, <6>2, <6>3
        <5>4. space = <<k, first + (Len(a.name) + 1) - 1>>
          BY <5>2, <5>3
        <5>5. space[1] = k
          BY <5>4
        <5>6. Char(space) = sent[k][space[2]] /\ Char(space)' = sent'[k][space[2]]
          BY <3>4, <3>5, <5>5 DEF Char
        <5>. QED
          BY <3>2, <5>6
      <4>. QED
        BY <3>4, <3>5, <3>7, <4>1 DEF RestOfLine
    <3>. QED
      BY <3>1, <3>6, <3>7 DEF RestOfLine
  <2>. QED
    BY <1>2, <1>15, <2>1 DEF StreamIInv, OneLineEach, LineOf, RestOfLine
<1>18. WaitInv'
  <2>1. SUFFICES ASSUME ~unasked', ~cut'
                 PROVE  /\ \A k \in DOMAIN calls : k \in DOMAIN sent' /\ CallOfLine(k)'
                        /\ input' = <<>> /\ Len(calls') = Len(sent') - 1
                        /\ wire' # <<>> /\ wire'[1] = <<Len(sent'), 1>>
    BY <1>2 DEF WaitInv
  <2>2. ~unasked /\ ~cut /\ ~(Len(calls) < Len(sent))
    BY <1>2, <2>1
  <2>3. /\ \A k \in DOMAIN calls : k \in DOMAIN sent /\ CallOfLine(k)
        /\ input = <<>> /\ wire = <<>> /\ Len(calls) = Len(sent)
    BY <1>3, <2>2 DEF StreamIInv, WaitInv
  <2>4. Len(calls') = Len(sent') - 1
    BY <1>2, <1>3, <2>3
  <2>5. Stream = <<>> /\ Stream' = wire'
    BY <1>2, <1>5, <1>7, <2>3 DEF Stream
  <2>6. wire'[1] = <<Len(sent'), 1>>
    BY <1>3, <1>12, <2>5
  <2>7. ASSUME NEW k \in DOMAIN calls PROVE k \in DOMAIN sent' /\ CallOfLine(k)'
    <3>1. k \in DOMAIN sent /\ CallOfLine(k) /\ sent'[k] = sent[k]
      BY <1>3, <2>3
    <3>. QED
      BY <1>2, <1>3, <3>1 DEF CallOfLine, FirstWord, LineOf, Unknown
  <2>. QED
    BY <1>2, <1>7, <2>3, <2>4, <2>6, <2>7
<1>. QED
  BY <1>10, <1>11, <1>13, <1>16, <1>17, <1>18 DEF StreamIInv

\* A reply, or nothing, changes no more than the calls without one.
LEMMA NothingHandled ==
    ASSUME StreamIInv,
           sent' = sent, wire' = wire, input' = input, calls' = calls,
           unasked' = unasked, cut' = cut, broken' = broken,
           silent' \subseteq silent, opens' = opens
    PROVE  StreamIInv'
<1>1. Byte' = Byte /\ Stream' = Stream /\ Handled' = Handled
  BY DEF Byte, Stream, Handled, Unknown
<1>2. StreamTypeOK'
  BY <1>1 DEF StreamIInv, StreamTypeOK
<1>3. OneLineEach'
  <2>1. \A a : RestOfLine(a)' = RestOfLine(a)
    BY DEF RestOfLine, LineOf, Bytes, Char
  <2>. QED
    BY <1>1, <2>1 DEF StreamIInv, OneLineEach, LineOf, RestOfLine
<1>4. RestInv'
  <2>1. \A s : Segment(s)' = Segment(s)
    BY <1>1 DEF Segment, NextByte, EndsLine
  <2>. QED
    BY <1>1, <2>1 DEF StreamIInv, RestInv, Segment, NextByte, EndsLine
<1>5. CutInv' /\ OrderInv'
  BY <1>1 DEF StreamIInv, CutInv, OrderInv, LineOf
<1>6. WaitInv'
  BY DEF StreamIInv, WaitInv, CallOfLine, FirstWord, LineOf, Unknown
<1>. QED
  BY <1>2, <1>3, <1>4, <1>5, <1>6 DEF StreamIInv

-----------------------------------------------------------------------------
(* The theorems.                                                           *)

LEMMA StreamIInvHolds == StreamSpec => []StreamIInv
<1>1. StreamInit => StreamIInv
  BY InitEstablishes
<1>2. StreamIInv /\ [StreamNext]_streamVars => StreamIInv'
  <2>1. SUFFICES ASSUME StreamIInv, [StreamNext]_streamVars PROVE StreamIInv'
    OBVIOUS
  <2>2. CASE ReadEvent
    BY <2>1, <2>2, ReadKeeps
  <2>3. ASSUME NEW l \in Lines, Send(l) PROVE StreamIInv'
    BY <2>1, <2>3, SendKeeps
  <2>4. CASE UNCHANGED streamVars
    <3>1. /\ sent' = sent /\ wire' = wire /\ input' = input /\ calls' = calls
          /\ unasked' = unasked /\ cut' = cut /\ broken' = broken
          /\ silent' \subseteq silent /\ opens' = opens
      BY <2>4 DEF streamVars
    <3>. QED
      BY <2>1, <3>1, NothingHandled
  <2>5. CASE DataReply
    <3>1. /\ sent' = sent /\ wire' = wire /\ input' = input /\ calls' = calls
          /\ unasked' = unasked /\ cut' = cut /\ broken' = broken
          /\ silent' \subseteq silent /\ opens' = opens
      BY <2>5 DEF DataReply
    <3>. QED
      BY <2>1, <3>1, NothingHandled
  <2>. QED
    BY <2>1, <2>2, <2>3, <2>4, <2>5 DEF StreamNext
<1>. QED
  BY <1>1, <1>2, PTL DEF StreamSpec

(* However the bytes of the lines arrive, a handler gets the rest of one   *)
(* line from its name on, lines are handled in the order they were sent    *)
(* and none twice, and only a connection that cut a line can make a        *)
(* command of a line's end (ftp_server.cpp:68-92,990-1026).                *)
THEOREM StreamInvariant == StreamSpec => []StreamInv
<1>1. StreamIInv => StreamInv
  BY DEF StreamIInv, StreamInv
<1>. QED
  BY <1>1, StreamIInvHolds, PTL

(* For a client that waits for the replies to a line, on a connection that *)
(* cuts no line, the callback is called once for each line that has        *)
(* arrived, and every line that begins with a command has reached that     *)
(* handler (ftp_server.cpp:990-1026).                                      *)
THEOREM WaitingServed == StreamSpec => []WaitingClientServed
<1>1. StreamIInv => WaitingClientServed
  <2>1. SUFFICES ASSUME StreamIInv, ~unasked, ~cut, wire = <<>>
                 PROVE  /\ Len(calls) = Len(sent) /\ input = <<>>
                        /\ \A k \in DOMAIN sent : CallOfLine(k)
    BY DEF WaitingClientServed, CallOfLine
  <2>2. /\ \A k \in DOMAIN calls : CallOfLine(k)
        /\ input = <<>> /\ Len(calls) = Len(sent)
    BY <2>1 DEF StreamIInv, WaitInv
  <2>3. DOMAIN calls = 1 .. Len(calls) /\ DOMAIN sent = 1 .. Len(sent)
    BY <2>1 DEF StreamIInv, StreamTypeOK
  <2>. QED
    BY <2>2, <2>3
<1>. QED
  BY <1>1, StreamIInvHolds, PTL

=============================================================================

----------------------------- MODULE Rio_proofs -----------------------------
(***************************************************************************)
(* What is proved of the readers of csapp.c, for every stream, every       *)
(* length asked for and every size of the internal buffer: no byte is      *)
(* lost, nothing is stored past what was asked, and each call is one       *)
(* atomic call of LineReader.                                              *)
(***************************************************************************)
EXTENDS Rio, SequenceTheorems, TLAPS

USE RioAssumption DEF RioAssumption

RioInv == TypeOK /\ NothingLost /\ WithinAsked

(* What read() gives is a sequence of bytes.                               *)
LEMMA GivenType ==
  ASSUME TypeOK, NEW k \in Nat
  PROVE  /\ Given(k) \in Seq(Nat) /\ Len(Given(k)) = k
         /\ \A j \in 1 .. k : Given(k)[j] = read + j - 1
<1>1. \A j \in 1 .. k : read + j - 1 \in Nat
  BY DEF TypeOK
<1> QED
  BY <1>1 DEF Given

(* Some bytes put behind others: the only way they reach a buffer.         *)
LEMMA PutBehind ==
  ASSUME NEW s \in Seq(Nat), NEW b \in Seq(Nat)
  PROVE  /\ s \o b \in Seq(Nat)
         /\ Len(s \o b) = Len(s) + Len(b)
         /\ \A j \in 1 .. Len(s) : (s \o b)[j] = s[j]
         /\ \A j \in Len(s) + 1 .. Len(s) + Len(b) : (s \o b)[j] = b[j - Len(s)]
  BY SMT

LEMMA CutOut ==
  ASSUME NEW b \in Seq(Nat), NEW p \in Nat, NEW c \in Nat, p + c <= Len(b)
  PROVE  /\ SubSeq(b, p + 1, p + c) \in Seq(Nat)
         /\ Len(SubSeq(b, p + 1, p + c)) = c
         /\ \A j \in 1 .. c : SubSeq(b, p + 1, p + c)[j] = b[p + j]
  BY SMT

(* What the types say of a stream and of a call.                           *)
LEMMA Basics ==
  ASSUME TypeOK
  PROVE  /\ stream.length \in Nat /\ stream.newlines \subseteq Nat
         /\ read \in Nat /\ Len(usrbuf) \in Nat /\ Len(rio_buf) \in Nat
         /\ rio_bufptr \in Nat /\ rio_cnt \in Int /\ taken \in Nat
         /\ asked # Nothing =>
              asked.n \in Nat /\ asked.op \in Ops /\ (user = "direct" <=> asked.op = "readn")
  BY DEF TypeOK, Ops, OpsOf

LEMMA InitInv == Init => RioInv
  BY DEF Init, rio_readinitb, RioInv, TypeOK, NothingLost, WithinAsked

LEMMA AskedType ==
  ASSUME Ask
  PROVE  asked' \in [op : OpsOf(user), n : Nat] /\ asked' \in [op : Ops, n : Nat]
<1>1. CASE user = "echo"
  BY <1>1 DEF Ask, Calls, OpsOf, Ops
<1>2. CASE user # "echo"
  <2>1. asked' \in [op : OpsOf(user), n : Asks]
    BY <1>2 DEF Ask, Calls
  <2>2. OpsOf(user) \subseteq Ops
    BY DEF OpsOf, Ops
  <2> QED
    BY <2>1, <2>2
<1> QED
  BY <1>1, <1>2

(* A call begins with an empty buffer.                                     *)
LEMMA AskInv ==
  ASSUME RioInv, Ask
  PROVE  RioInv'
<1>1. /\ asked' \in [op : OpsOf(user), n : Nat] /\ asked' \in [op : Ops, n : Nat]
      /\ asked'.n \in Nat
  BY AskedType
<1>2. asked' # Nothing
  BY <1>1
<1>3. usrbuf = <<>> /\ usrbuf' = <<>> /\ Len(usrbuf') = 0
  BY DEF Ask, RioInv, WithinAsked
<1>4. TypeOK'
  BY <1>1 DEF Ask, RioInv, TypeOK, rio
<1>5. NothingLost'
  BY DEF Ask, RioInv, NothingLost, rio
<1>6. WithinAsked'
  BY <1>1, <1>2, <1>3 DEF Ask, WithinAsked, IsNewline
<1> QED
  BY <1>4, <1>5, <1>6 DEF RioInv

(* A call that goes on has room left.                                      *)
LEMMA RoomLeft ==
  ASSUME RioInv, Going
  PROVE  /\ asked # Nothing /\ asked.n \in Nat /\ asked.op \in Ops
         /\ asked.op = "line" =>
              /\ Len(usrbuf) + 1 < asked.n
              /\ \A j \in 1 .. Len(usrbuf) : ~ IsNewline(usrbuf[j])
         /\ asked.op # "line" => Len(usrbuf) < asked.n
<1>1. asked # Nothing /\ ~ Enough
  BY DEF Going
<1>2. asked.n \in Nat /\ asked.op \in Ops /\ Len(usrbuf) \in Nat
  BY <1>1, Basics DEF RioInv
<1>3. CASE asked.op = "line"
  <2>1. ~ EndsLine /\ Len(usrbuf) + 1 < asked.n
    BY <1>1, <1>2, <1>3 DEF Enough
  <2>2. usrbuf # <<>> => ~ IsNewline(usrbuf[Len(usrbuf)])
    BY <2>1 DEF EndsLine
  <2>3. \A j \in 1 .. Len(usrbuf) - 1 : ~ IsNewline(usrbuf[j])
    BY <1>1, <1>3 DEF RioInv, WithinAsked
  <2>4. usrbuf = <<>> => Len(usrbuf) = 0
    BY DEF RioInv, TypeOK
  <2>5. \A j \in 1 .. Len(usrbuf) : ~ IsNewline(usrbuf[j])
    BY <1>2, <2>2, <2>3, <2>4
  <2> QED
    BY <1>1, <1>2, <1>3, <2>1, <2>5
<1>4. CASE asked.op # "line"
  BY <1>1, <1>2, <1>4 DEF Enough, RioInv, WithinAsked
<1> QED
  BY <1>1, <1>2, <1>3, <1>4

(* Bytes that come next in the stream are put behind what the call has     *)
(* stored, as many as there is room for, and one at a time in a line.      *)
LEMMA StoreInv ==
  ASSUME RioInv, Going, NEW b \in Seq(Nat), usrbuf' = usrbuf \o b,
         UNCHANGED <<stream, asked, taken>>,
         \A j \in 1 .. Len(b) : b[j] = taken + Len(usrbuf) + j - 1,
         IF asked.op = "line" THEN Len(b) = 1 ELSE Len(b) <= asked.n - Len(usrbuf)
  PROVE  /\ usrbuf' \in Seq(Nat) /\ Len(usrbuf') = Len(usrbuf) + Len(b)
         /\ \A j \in 1 .. Len(usrbuf') : usrbuf'[j] = taken' + j - 1
         /\ WithinAsked'
<1>1. usrbuf \in Seq(Nat) /\ Len(usrbuf) \in Nat /\ Len(b) \in Nat /\ taken \in Nat
  BY DEF RioInv, TypeOK
<1>2. /\ usrbuf' \in Seq(Nat) /\ Len(usrbuf') = Len(usrbuf) + Len(b)
      /\ \A j \in 1 .. Len(usrbuf) : usrbuf'[j] = usrbuf[j]
      /\ \A j \in Len(usrbuf) + 1 .. Len(usrbuf) + Len(b) : usrbuf'[j] = b[j - Len(usrbuf)]
  BY <1>1, PutBehind
<1>3. \A j \in 1 .. Len(usrbuf') : usrbuf'[j] = taken' + j - 1
  <2> SUFFICES ASSUME NEW j \in 1 .. Len(usrbuf') PROVE usrbuf'[j] = taken + j - 1
    OBVIOUS
  <2>1. CASE j <= Len(usrbuf)
    BY <1>1, <1>2, <2>1 DEF RioInv, NothingLost
  <2>2. CASE j > Len(usrbuf)
    <3>1. j - Len(usrbuf) \in 1 .. Len(b)
      BY <1>1, <1>2, <2>2
    <3>2. b[j - Len(usrbuf)] = taken + Len(usrbuf) + (j - Len(usrbuf)) - 1
      BY <3>1
    <3> QED
      BY <1>1, <1>2, <2>2, <3>2
  <2> QED
    BY <1>1, <1>2, <2>1, <2>2
<1>4. /\ asked # Nothing /\ asked.n \in Nat
      /\ asked.op = "line" =>
           /\ Len(usrbuf) + 1 < asked.n
           /\ \A j \in 1 .. Len(usrbuf) : ~ IsNewline(usrbuf[j])
  BY RoomLeft
<1>5. CASE asked.op = "line"
  <2>1. Len(usrbuf') = Len(usrbuf) + 1 /\ Len(usrbuf') < asked.n
    BY <1>1, <1>2, <1>4, <1>5
  <2>2. \A j \in 1 .. Len(usrbuf') - 1 : usrbuf'[j] \notin stream'.newlines
    BY <1>1, <1>2, <1>4, <1>5, <2>1 DEF IsNewline
  <2>3. WithinAsked'
    BY <1>4, <1>5, <2>1, <2>2 DEF WithinAsked, IsNewline
  <2> QED
    BY <1>2, <1>3, <2>3
<1>6. CASE asked.op # "line"
  BY <1>1, <1>2, <1>3, <1>4, <1>6 DEF WithinAsked
<1> QED
  BY <1>5, <1>6

(* read() into the caller's buffer.                                        *)
LEMMA ReadDirectInv ==
  ASSUME RioInv, ReadDirect
  PROVE  RioInv'
<1>1. /\ Going /\ asked.op = "readn" /\ asked # Nothing
      /\ UNCHANGED <<stream, user, rio, asked, taken, result, unwritten, out, pc>>
  BY DEF ReadDirect, Reading, Buffered, Going
<1>2. PICK k \in 1 .. Min2(asked.n - Len(usrbuf), stream.length - read) :
        usrbuf' = usrbuf \o Given(k) /\ read' = read + k
  BY DEF ReadDirect
<1>3. /\ Len(usrbuf) < asked.n /\ asked.n \in Nat /\ Len(usrbuf) \in Nat
      /\ stream.length \in Nat /\ read \in Nat /\ taken \in Nat /\ rio_cnt = 0
  BY <1>1, RoomLeft, Basics DEF RioInv, NothingLost
<1>4. k \in Nat /\ k <= asked.n - Len(usrbuf) /\ read + k <= stream.length
  BY <1>3 DEF Min2
<1>5. taken + Len(usrbuf) = read
  BY <1>3 DEF RioInv, NothingLost
<1>6. /\ Given(k) \in Seq(Nat) /\ Len(Given(k)) = k
      /\ \A j \in 1 .. k : Given(k)[j] = taken + Len(usrbuf) + j - 1
  BY <1>4, <1>5, GivenType DEF RioInv
<1>7. UNCHANGED <<stream, asked, taken>>
  BY <1>1
<1>8. /\ usrbuf' \in Seq(Nat) /\ Len(usrbuf') = Len(usrbuf) + k
      /\ \A j \in 1 .. Len(usrbuf') : usrbuf'[j] = taken' + j - 1
      /\ WithinAsked'
  BY <1>1, <1>2, <1>4, <1>6, <1>7, StoreInv
<1>9. TypeOK'
  BY <1>1, <1>2, <1>3, <1>4, <1>8 DEF RioInv, TypeOK, rio
<1>10. NothingLost'
  <2>1. rio_cnt' = 0 /\ taken' = taken
    BY <1>1, <1>3 DEF rio
  <2>2. read' = read + k /\ Len(usrbuf') = Len(usrbuf) + k
    BY <1>2, <1>8
  <2>3. taken' + Len(usrbuf') = read'
    <3>1. k \in Int /\ Len(usrbuf) \in Int /\ taken \in Int /\ read \in Int
      BY <1>3, <1>4
    <3>2. taken + (Len(usrbuf) + k) = read + k
      BY <3>1, <1>5
    <3> QED
      BY <3>2, <2>1, <2>2
  <2>4. 1 .. rio_cnt' = {}
    BY <2>1
  <2>5. (IF rio_cnt' > 0 THEN rio_cnt' ELSE 0) = 0
    BY <2>1
  <2>6. taken' + Len(usrbuf') + (IF rio_cnt' > 0 THEN rio_cnt' ELSE 0) = read'
    BY <1>3, <1>4, <2>1, <2>2, <2>3, <2>5
  <2> QED
    BY <1>8, <2>1, <2>4, <2>6 DEF NothingLost
<1> QED
  BY <1>8, <1>9, <1>10 DEF RioInv

(* read() into an empty rio_buf.                                           *)
LEMMA RefillInv ==
  ASSUME RioInv, Refill
  PROVE  RioInv'
<1>1. /\ Going /\ asked # Nothing /\ asked.op # "readn" /\ rio_cnt <= 0
      /\ UNCHANGED <<stream, user, asked, usrbuf, taken, result, unwritten, out, pc>>
  BY DEF Refill, Reading, Buffered, Going, call
<1>2. PICK k \in 1 .. Min2(RIO_BUFSIZE, stream.length - read) :
        rio_buf' = Given(k) /\ rio_bufptr' = 0 /\ rio_cnt' = k /\ read' = read + k
  BY DEF Refill
<1>3. /\ stream.length \in Nat /\ read \in Nat /\ taken \in Nat /\ Len(usrbuf) \in Nat
      /\ rio_cnt \in Int
  BY Basics DEF RioInv
<1>4. k \in Nat /\ k > 0 /\ read + k <= stream.length
  BY <1>3 DEF Min2
<1>5. taken + Len(usrbuf) = read /\ user # "direct"
  BY <1>1, <1>3, Basics DEF RioInv, NothingLost
<1>6. /\ rio_buf' \in Seq(Nat) /\ Len(rio_buf') = k
      /\ \A j \in 1 .. k : rio_buf'[j] = taken + Len(usrbuf) + j - 1
  BY <1>2, <1>4, <1>5, GivenType DEF RioInv
<1>7. TypeOK'
  BY <1>1, <1>2, <1>3, <1>4, <1>6 DEF RioInv, TypeOK
<1>8. NothingLost'
  <2>1. \A j \in 1 .. Len(usrbuf') : usrbuf'[j] = taken' + j - 1
    BY <1>1 DEF RioInv, NothingLost
  <2>2. \A j \in 1 .. rio_cnt' :
          rio_buf'[rio_bufptr' + j] = taken' + Len(usrbuf') + j - 1
    BY <1>1, <1>2, <1>4, <1>6
  <2>3. taken' + Len(usrbuf') + (IF rio_cnt' > 0 THEN rio_cnt' ELSE 0) = read'
    BY <1>1, <1>2, <1>3, <1>4, <1>5
  <2> QED
    BY <1>1, <1>5, <2>1, <2>2, <2>3 DEF NothingLost
<1>9. WithinAsked'
  BY <1>1 DEF RioInv, WithinAsked, IsNewline
<1> QED
  BY <1>7, <1>8, <1>9 DEF RioInv

(* rio_read hands over a part of the buffer.                               *)
LEMMA CopyInv ==
  ASSUME RioInv, Copy
  PROVE  RioInv'
<1>1. /\ Going /\ asked # Nothing /\ asked.op # "readn" /\ rio_cnt > 0
      /\ UNCHANGED <<stream, user, read, rio_buf, asked, taken, result, unwritten, out, pc>>
  BY DEF Copy, Going, Buffered
<1>2. /\ usrbuf' = usrbuf \o SubSeq(rio_buf, rio_bufptr + 1, rio_bufptr + Count)
      /\ rio_bufptr' = rio_bufptr + Count /\ rio_cnt' = rio_cnt - Count
  BY DEF Copy
<1>3. /\ asked.n \in Nat
      /\ asked.op # "line" => Len(usrbuf) < asked.n
      /\ Len(usrbuf) \in Nat /\ Len(rio_buf) \in Nat /\ rio_bufptr \in Nat
      /\ rio_cnt \in Int /\ taken \in Nat /\ read \in Nat
      /\ rio_buf \in Seq(Nat) /\ rio_bufptr + rio_cnt <= Len(rio_buf)
  BY <1>1, RoomLeft, Basics DEF RioInv, TypeOK
<1>4. /\ Count \in Nat /\ Count > 0 /\ Count <= rio_cnt
      /\ IF asked.op = "line" THEN Count = 1 ELSE Count <= asked.n - Len(usrbuf)
  BY SMTT(20), <1>1, <1>3 DEF Count, Min2
<1> DEFINE b == SubSeq(rio_buf, rio_bufptr + 1, rio_bufptr + Count)
<1>5. /\ b \in Seq(Nat) /\ Len(b) = Count
      /\ \A j \in 1 .. Count : b[j] = rio_buf[rio_bufptr + j]
  BY <1>3, <1>4, CutOut
<1>6. \A j \in 1 .. Len(b) : b[j] = taken + Len(usrbuf) + j - 1
  BY <1>3, <1>4, <1>5 DEF RioInv, NothingLost
<1>7. UNCHANGED <<stream, asked, taken>> /\ usrbuf' = usrbuf \o b
  BY <1>1, <1>2
<1>8. IF asked.op = "line" THEN Len(b) = 1 ELSE Len(b) <= asked.n - Len(usrbuf)
  BY <1>4, <1>5
<1>9. /\ usrbuf' \in Seq(Nat) /\ Len(usrbuf') = Len(usrbuf) + Len(b)
      /\ \A j \in 1 .. Len(usrbuf') : usrbuf'[j] = taken' + j - 1
      /\ WithinAsked'
  <2> HIDE DEF b
  <2> QED
    BY <1>1, <1>5, <1>6, <1>7, <1>8, StoreInv
<1>10. TypeOK'
  BY SMTT(20), <1>1, <1>2, <1>3, <1>4, <1>5, <1>9 DEF RioInv, TypeOK
<1> HIDE DEF b
<1>0. /\ rio_bufptr' = rio_bufptr + Count /\ rio_cnt' = rio_cnt - Count
      /\ Len(usrbuf') = Len(usrbuf) + Count
      /\ rio_buf' = rio_buf /\ taken' = taken /\ read' = read
      /\ Count \in Nat /\ Count > 0 /\ Count <= rio_cnt
  BY <1>1, <1>2, <1>4, <1>5, <1>9
<1>11. ASSUME NEW j \in 1 .. rio_cnt'
       PROVE  rio_buf'[rio_bufptr' + j] = taken' + Len(usrbuf') + j - 1
  <2>0. Count \in Int /\ rio_cnt \in Int /\ rio_cnt' \in Int
    BY <1>0, <1>3
  <2>1. Count + j \in 1 .. rio_cnt /\ j \in Int
    BY <1>0, <2>0
  <2>2. rio_buf[rio_bufptr + (Count + j)] = taken + Len(usrbuf) + (Count + j) - 1
    BY <2>1 DEF RioInv, NothingLost
  <2>3. rio_bufptr' + j = rio_bufptr + (Count + j)
    BY <1>0, <1>3, <2>1
  <2>4. taken' + Len(usrbuf') + j - 1 = taken + Len(usrbuf) + (Count + j) - 1
    BY <1>0, <1>3, <2>0, <2>1
  <2> QED
    BY <1>0, <2>2, <2>3, <2>4
<1>12. NothingLost'
  <2>1. user' # "direct"
    BY <1>1, Basics DEF RioInv
  <2>2. taken + Len(usrbuf) + rio_cnt = read
    BY <1>1, <1>3 DEF RioInv, NothingLost
  <2>3. taken' + Len(usrbuf') + (IF rio_cnt' > 0 THEN rio_cnt' ELSE 0) = read'
    BY SMTT(20), <1>0, <1>3, <2>2
  <2> QED
    BY <1>9, <1>11, <2>1, <2>3 DEF NothingLost
<1> QED
  BY <1>9, <1>10, <1>12 DEF RioInv

(* A call returns, whatever read() left in rio_cnt, as long as no unread   *)
(* byte is dropped with it.                                                *)
LEMMA ReturnsInv ==
  ASSUME RioInv, asked # Nothing, NEW value \in 0 .. Len(usrbuf) + 1, Returns(value),
         \/ rio_cnt' = rio_cnt
         \/ (rio_cnt <= 0 /\ rio_cnt' = 0)
  PROVE  RioInv'
<1>1. /\ asked' = Nothing /\ usrbuf' = <<>> /\ taken' = taken + Len(usrbuf)
      /\ UNCHANGED <<stream, user, read, rio_buf, rio_bufptr, out, pc>>
      /\ unwritten' = IF user # "echo" THEN <<>>
                      ELSE SubSeq(Append(usrbuf, NUL), 1, value)
  BY DEF Returns
<1>2. /\ Len(usrbuf) \in Nat /\ taken \in Nat /\ rio_cnt \in Int /\ read \in Nat
      /\ usrbuf \in Seq(Nat) /\ Len(usrbuf') = 0 /\ Len(rio_buf) \in Nat
      /\ rio_bufptr \in 0 .. Len(rio_buf)
  BY <1>1, Basics DEF RioInv, TypeOK
<1>3. WithinAsked'
  BY <1>1 DEF WithinAsked
<1>4. NothingLost'
  <2>1. user' = "direct" => rio_cnt' = 0
    BY <1>1 DEF RioInv, NothingLost
  <2>2. \A j \in 1 .. Len(usrbuf') : FALSE
    BY <1>2
  <2>3. \A j \in 1 .. rio_cnt' :
          rio_buf'[rio_bufptr' + j] = taken' + Len(usrbuf') + j - 1
    BY SMTT(20), <1>1, <1>2 DEF RioInv, NothingLost
  <2>4. taken' + Len(usrbuf') + (IF rio_cnt' > 0 THEN rio_cnt' ELSE 0) = read'
    <3>1. taken + Len(usrbuf) + (IF rio_cnt > 0 THEN rio_cnt ELSE 0) = read
      BY DEF RioInv, NothingLost
    <3>2. (IF rio_cnt' > 0 THEN rio_cnt' ELSE 0) = (IF rio_cnt > 0 THEN rio_cnt ELSE 0)
      BY <1>2
    <3>3. taken' + Len(usrbuf') = taken + Len(usrbuf)
      BY <1>1, <1>2
    <3> QED
      BY <1>1, <3>1, <3>2, <3>3
  <2> QED
    BY <2>1, <2>2, <2>3, <2>4 DEF NothingLost
<1>5. unwritten' \in Seq(Nat \cup {NUL})
  <2>1. /\ Append(usrbuf, NUL) \in Seq(Nat \cup {NUL})
        /\ Len(Append(usrbuf, NUL)) = Len(usrbuf) + 1
    <3>1. usrbuf \in Seq(Nat \cup {NUL}) /\ NUL \in Nat \cup {NUL}
      BY <1>2, Zenon, SeqMonotonic
    <3> QED
      BY <1>2, <3>1
  <2>2. SubSeq(Append(usrbuf, NUL), 1, value) \in Seq(Nat \cup {NUL})
    BY <1>2, <2>1
  <2> QED
    BY <1>1, <2>2
<1>6. rio_cnt' \in -1 .. Len(rio_buf) - rio_bufptr
  BY SMTT(20), <1>2 DEF RioInv, TypeOK
<1>7. TypeOK'
  <2>1. usrbuf' \in Seq(Nat) /\ taken' \in Nat
    BY <1>1, <1>2
  <2> QED
    BY <1>1, <1>5, <1>6, <2>1 DEF RioInv, TypeOK
<1> QED
  BY <1>3, <1>4, <1>7 DEF RioInv

LEMMA ValueRange ==
  ASSUME RioInv
  PROVE  Value \in 0 .. Len(usrbuf) + 1
<1>1. Len(usrbuf) \in Nat
  BY Basics DEF RioInv
<1> QED
  BY <1>1 DEF Value, LineValue

LEMMA NextInv == RioInv /\ [Next]_vars => RioInv'
<1> SUFFICES ASSUME RioInv, [Next]_vars PROVE RioInv'
  OBVIOUS
<1>1. CASE Ask
  BY <1>1, AskInv
<1>2. CASE Return
  <2>1. asked # Nothing /\ Returns(Value) /\ rio_cnt' = rio_cnt
    BY <1>2 DEF Return
  <2> QED
    BY <2>1, ValueRange, ReturnsInv
<1>3. CASE ReadDirect
  BY <1>3, ReadDirectInv
<1>4. CASE Refill
  BY <1>4, RefillInv
<1>5. CASE EndOfStream
  <2> DEFINE value == IF usrbuf = <<>> THEN 0 ELSE Value
  <2>1. /\ asked # Nothing /\ Returns(value)
        /\ rio_cnt' = rio_cnt \/ (rio_cnt <= 0 /\ rio_cnt' = 0)
    BY <1>5 DEF EndOfStream, Gets, Reading, Going
  <2>2. value \in 0 .. Len(usrbuf) + 1
    BY ValueRange, Basics DEF RioInv
  <2> HIDE DEF value
  <2> QED
    BY <2>1, <2>2, ReturnsInv
<1>6. CASE Copy
  BY <1>6, CopyInv
<1>7. CASE Interrupted \/ ReadFails
  <2>1. /\ UNCHANGED <<stream, user, read, rio_buf, rio_bufptr, asked, usrbuf, taken,
                      unwritten, out>>
        /\ pc' \in {pc, "exit"}
        /\ asked # Nothing
        /\ IF asked.op = "readn" THEN rio_cnt' = rio_cnt ELSE rio_cnt <= 0 /\ rio_cnt' = -1
    BY <1>7 DEF Interrupted, ReadFails, Gets, Reading, Going, Buffered, call
  <2>2. /\ rio_cnt' = rio_cnt \/ (rio_cnt <= 0 /\ rio_cnt' = -1 /\ user # "direct")
        /\ rio_cnt \in Int /\ rio_bufptr \in 0 .. Len(rio_buf) /\ Len(rio_buf) \in Nat
    BY <2>1, Basics DEF RioInv, TypeOK
  <2>3. rio_cnt' \in -1 .. Len(rio_buf) - rio_bufptr
    BY <2>2 DEF RioInv, TypeOK
  <2>4. TypeOK'
    BY <2>1, <2>3 DEF RioInv, TypeOK
  <2>5. NothingLost'
    <3>1. rio_cnt' <= 0 \/ rio_cnt' = rio_cnt
      BY <2>2
    <3>2. user' = "direct" => rio_cnt' = 0
      BY <2>1, <2>2 DEF RioInv, NothingLost
    <3>3. /\ \A j \in 1 .. rio_cnt' :
               rio_buf'[rio_bufptr' + j] = taken' + Len(usrbuf') + j - 1
          /\ taken' + Len(usrbuf') + (IF rio_cnt' > 0 THEN rio_cnt' ELSE 0) = read'
      BY <2>1, <2>2 DEF RioInv, NothingLost
    <3> QED
      BY <2>1, <3>2, <3>3 DEF RioInv, NothingLost
  <2>6. WithinAsked'
    BY <2>1 DEF RioInv, WithinAsked, IsNewline
  <2> QED
    BY <2>4, <2>5, <2>6 DEF RioInv
<1>8. CASE Write
  <2>1. PICK k \in 1 .. Len(unwritten) :
          /\ out' = out \o SubSeq(unwritten, 1, k)
          /\ unwritten' = SubSeq(unwritten, k + 1, Len(unwritten))
    BY <1>8 DEF Write
  <2>2. UNCHANGED <<stream, user, read, rio_buf, rio_bufptr, rio_cnt, asked, usrbuf, taken, pc>>
    BY <1>8 DEF Write, rio
  <2>3. unwritten' \in Seq(Nat \cup {NUL}) /\ out' \in Seq(Nat \cup {NUL})
    BY SMTT(20), <2>1 DEF RioInv, TypeOK
  <2> QED
    BY <2>2, <2>3 DEF RioInv, TypeOK, NothingLost, WithinAsked, IsNewline
<1>9. CASE WriteFails \/ EchoReturns
  <2>1. /\ UNCHANGED <<stream, user, read, rio_buf, rio_bufptr, rio_cnt, asked, usrbuf,
                      taken, unwritten, out>>
        /\ pc' \in {"exit", "returned"}
    BY <1>9 DEF WriteFails, EchoReturns, rio, call
  <2> QED
    BY <2>1 DEF RioInv, TypeOK, NothingLost, WithinAsked, IsNewline
<1>10. CASE UNCHANGED vars
  BY <1>10 DEF vars, rio, call, RioInv, TypeOK, NothingLost, WithinAsked, IsNewline
<1> QED
  BY <1>1, <1>2, <1>3, <1>4, <1>5, <1>6, <1>7, <1>8, <1>9, <1>10 DEF Next, Progress

(* RioInv is inductive, so it holds in every state.                        *)
THEOREM RioInvariant == Spec => []RioInv
<1>1. Init => RioInv
  BY InitInv
<1>2. RioInv /\ [Next]_vars => RioInv'
  BY NextInv
<1> QED
  BY <1>1, <1>2, PTL DEF Spec

(* The types of the reader's state and of what its callers get.            *)
THEOREM RioTypes == Spec => []TypeOK
<1>1. RioInv => TypeOK
  BY DEF RioInv
<1> QED
  BY <1>1, RioInvariant, PTL

(* Whatever signals interrupt and however read() cuts the stream, the      *)
(* readers lose, repeat and move no byte.                                  *)
THEOREM RioLosesNothing == Spec => []NothingLost
<1>1. RioInv => NothingLost
  BY DEF RioInv
<1> QED
  BY <1>1, RioInvariant, PTL

(* No reader stores past what its caller asked for, nor past a newline.    *)
THEOREM RioStaysWithinAsked == Spec => []WithinAsked
<1>1. RioInv => WithinAsked
  BY DEF RioInv
<1> QED
  BY <1>1, RioInvariant, PTL

-----------------------------------------------------------------------------
(* The refinement of LineReader.                                           *)

(* What a call has stored is where the abstract one finds it.              *)
LEMMA Stored ==
  ASSUME RioInv
  PROVE  /\ usrbuf = [j \in 1 .. Len(usrbuf) |-> taken + j - 1]
         /\ Len(usrbuf) \in 0 .. stream.length - taken
         /\ usrbuf # <<>> => /\ Len(usrbuf) > 0
                             /\ usrbuf[Len(usrbuf)] = taken + Len(usrbuf) - 1
<1>1. /\ usrbuf \in Seq(Nat) /\ Len(usrbuf) \in Nat /\ taken \in Nat
      /\ rio_cnt \in Int /\ stream.length \in Nat /\ read \in 0 .. stream.length
  BY Basics DEF RioInv, TypeOK
<1>2. \A j \in 1 .. Len(usrbuf) : usrbuf[j] = taken + j - 1
  BY DEF RioInv, NothingLost
<1>3. usrbuf = [j \in 1 .. Len(usrbuf) |-> taken + j - 1]
  BY <1>1, <1>2
<1>4. taken + Len(usrbuf) + (IF rio_cnt > 0 THEN rio_cnt ELSE 0) = read
  BY DEF RioInv, NothingLost
<1>5. Len(usrbuf) \in 0 .. stream.length - taken
  BY <1>1, <1>4
<1>6. usrbuf # <<>> => Len(usrbuf) > 0
  BY <1>1
<1> QED
  BY <1>1, <1>2, <1>3, <1>5, <1>6

(* A newline can only be the last of the bytes stored.                     *)
LEMMA OneNewline ==
  ASSUME RioInv, asked # Nothing, asked.op = "line"
  PROVE  /\ Len(usrbuf) < asked.n
         /\ \A j \in taken .. taken + Len(usrbuf) - 1 :
              IsNewline(j) => j = taken + Len(usrbuf) - 1
<1>1. taken \in Nat /\ Len(usrbuf) \in Nat
  BY Basics DEF RioInv
<1>2. /\ Len(usrbuf) < asked.n
      /\ \A j \in 1 .. Len(usrbuf) - 1 : ~ IsNewline(usrbuf[j])
  BY DEF RioInv, WithinAsked
<1>3. ASSUME NEW j \in taken .. taken + Len(usrbuf) - 1, IsNewline(j)
      PROVE  j = taken + Len(usrbuf) - 1
  <2> SUFFICES ASSUME j < taken + Len(usrbuf) - 1 PROVE FALSE
    BY <1>1
  <2>1. j - taken + 1 \in 1 .. Len(usrbuf) - 1 /\ j - taken + 1 \in 1 .. Len(usrbuf)
    BY <1>1
  <2>2. usrbuf[j - taken + 1] = taken + (j - taken + 1) - 1
    BY <2>1 DEF RioInv, NothingLost
  <2>3. usrbuf[j - taken + 1] = j
    BY <1>1, <2>2
  <2> QED
    BY <1>2, <1>3, <2>1, <2>3
<1> QED
  BY <1>2, <1>3

(* The value a line comes with, in terms of the place of its last byte.    *)
LEMMA EndsLineThere ==
  ASSUME RioInv
  PROVE  EndsLine <=> Len(usrbuf) > 0 /\ IsNewline(taken + Len(usrbuf) - 1)
<1>1. usrbuf = <<>> => Len(usrbuf) = 0
  BY DEF RioInv, TypeOK
<1> QED
  BY <1>1, Stored DEF EndsLine

(* A return is the abstract one.                                           *)
LEMMA ReturnsOnce ==
  ASSUME RioInv, asked # Nothing, NEW value, Returns(value),
         \/ Enough /\ value = Value
         \/ /\ ~ Enough /\ taken + Len(usrbuf) = stream.length
            /\ value = IF usrbuf = <<>> THEN 0 ELSE Value
  PROVE  Reader!Return
<1> DEFINE k == Len(usrbuf)
<1>1. /\ k \in 0 .. stream.length - taken /\ k \in Nat /\ taken \in Nat
      /\ stream.length \in Nat /\ asked.n \in Nat
      /\ usrbuf = <<>> <=> k = 0
  BY Stored, Basics DEF RioInv, TypeOK
<1>2. /\ asked' = Nothing /\ taken' = taken + k /\ stream' = stream
      /\ result' = [value |-> value, bytes |-> usrbuf]
  BY DEF Returns
<1>3. IF asked.op = "line" THEN Reader!Line(k) ELSE Reader!Whole(k)
  <2>1. CASE asked.op # "line"
    <3>1. k <= asked.n /\ k \in {asked.n, stream.length - taken}
      BY <1>1, <2>1 DEF Enough, RioInv, WithinAsked
    <3> QED
      BY <2>1, <3>1 DEF Reader!Whole, Reader!Left
  <2>2. CASE asked.op = "line"
    <3>1. /\ k < asked.n
          /\ \A j \in taken .. taken + k - 1 : IsNewline(j) => j = taken + k - 1
      BY <2>2, OneNewline
    <3>2. \/ k = asked.n - 1
          \/ k = stream.length - taken
          \/ k > 0 /\ IsNewline(taken + k - 1)
      BY SMTT(20), <1>1, <2>2, <3>1, EndsLineThere DEF Enough
    <3> QED
      BY <2>2, <3>1, <3>2 DEF Reader!Line, Reader!Left, Reader!IsNewline, IsNewline
  <2> QED
    BY <2>1, <2>2
<1>4. value = IF \/ asked.op # "line"
                 \/ k > 0 /\ IsNewline(taken + k - 1)
                 \/ asked.n > 1 /\ k = 0
              THEN k ELSE k + 1
  <2>1. CASE asked.op # "line"
    BY <1>1, <2>1 DEF Value
  <2>2. CASE asked.op = "line"
    <3>1. Value = IF k > 0 /\ IsNewline(taken + k - 1) THEN k ELSE k + 1
      BY <2>2, EndsLineThere DEF Value, LineValue
    <3>2. k < asked.n /\ (Enough <=> (k > 0 /\ IsNewline(taken + k - 1)) \/ k + 1 >= asked.n)
      BY <2>2, OneNewline, EndsLineThere DEF Enough
    <3> QED
      BY <1>1, <2>2, <3>1, <3>2
  <2> QED
    BY <2>1, <2>2
<1>5. usrbuf = [j \in 1 .. k |-> taken + j - 1]
  BY Stored
<1> HIDE DEF k
<1>6. result' = [bytes |-> [j \in 1 .. k |-> taken + j - 1], value |-> value]
  BY <1>2, <1>5
<1> QED
  BY <1>1, <1>2, <1>3, <1>4, <1>6
  DEF Reader!Return, Reader!Left, Reader!IsNewline, IsNewline

(* Only a call and its return are seen from outside.                       *)
LEMMA StepRefines == RioInv /\ [Next]_vars => [Reader!Next]_Reader!vars
<1> SUFFICES ASSUME RioInv, [Next]_vars PROVE [Reader!Next]_Reader!vars
  OBVIOUS
<1>1. CASE Ask
  <2>1. asked' \in [op : Ops, n : Nat]
    BY <1>1, AskedType
  <2> QED
    BY <1>1, <2>1 DEF Ask, Ops, Reader!Ask, Reader!Next
<1>2. CASE Return
  <2>1. asked # Nothing /\ Enough /\ Returns(Value)
    BY <1>2 DEF Return
  <2> QED
    BY <2>1, ReturnsOnce DEF Reader!Next
<1>3. CASE EndOfStream
  <2> DEFINE value == IF usrbuf = <<>> THEN 0 ELSE Value
  <2>1. /\ asked # Nothing /\ ~ Enough /\ Returns(value)
        /\ read = stream.length
        /\ Buffered => rio_cnt <= 0
    BY <1>3 DEF EndOfStream, Gets, Reading, Going
  <2>2. rio_cnt <= 0 /\ rio_cnt \in Int
    <3>1. CASE Buffered
      BY <2>1, <3>1, Basics DEF RioInv
    <3>2. CASE ~ Buffered
      <4>1. user = "direct"
        BY <2>1, <3>2, Basics DEF RioInv, Buffered
      <4> QED
        BY <4>1 DEF RioInv, NothingLost
    <3> QED
      BY <3>1, <3>2
  <2>3. taken + Len(usrbuf) = stream.length
    <3>1. taken + Len(usrbuf) + 0 = stream.length
      BY <2>1, <2>2 DEF RioInv, NothingLost
    <3> QED
      BY <3>1, Basics DEF RioInv
  <2> QED
    BY <2>1, <2>3, ReturnsOnce DEF Reader!Next
<1>4. CASE ReadDirect \/ Refill \/ Copy \/ Interrupted \/ ReadFails
  BY <1>4 DEF ReadDirect, Refill, Copy, Interrupted, ReadFails, Gets, call, Reader!vars
<1>5. CASE Write \/ WriteFails \/ EchoReturns
  BY <1>5 DEF Write, WriteFails, EchoReturns, call, Reader!vars
<1>6. CASE UNCHANGED vars
  BY <1>6 DEF vars, call, Reader!vars
<1> QED
  BY <1>1, <1>2, <1>3, <1>4, <1>5, <1>6 DEF Next, Progress

(* The readers keep the promise of LineReader: a call of rio_readn,        *)
(* rio_readnb or rio_readlineb gives what one atomic call would.           *)
THEOREM RioImplementsReader == Spec => ImplementsReader
<1>1. Init => Reader!Init
  BY DEF Init, Reader!Init
<1> QED
  BY <1>1, StepRefines, RioInvariant, PTL DEF Spec, ImplementsReader, Reader!Spec

-----------------------------------------------------------------------------
(* echo.                                                                   *)

Chars == Nat \cup {NUL}

(* What echo has sent and what its Rio_writen has still to.                *)
Sent == out \o unwritten

(* The bytes of the finished calls are sent or on their way; a line is     *)
(* asked for when the one before is written, and the 0 of rio_readlineb    *)
(* comes at the end of the stream.                                         *)
EchoInv ==
  /\ user = "echo" =>
       /\ Echoed(Sent) /\ Due(Sent, Len(Sent)) = taken
       /\ asked # Nothing => asked = [op |-> "line", n |-> MAXLINE] /\ unwritten = <<>>
       /\ (result # Nothing /\ result.value = 0) \/ pc = "returned" =>
            unwritten = <<>> /\ taken = stream.length
  /\ user # "echo" => out = <<>> /\ unwritten = <<>> /\ pc # "returned"

EchoedTo(s, n) ==
  \A j \in 1 .. n : IF s[j] = NUL THEN MayBeNUL(s, j) ELSE s[j] = Due(s, j - 1)

LEMMA EchoedIsEchoedTo ==
  ASSUME NEW s \in Seq(Chars)
  PROVE  Echoed(s) <=> EchoedTo(s, Len(s))
  BY DEF Echoed, EchoedTo

(* Both look back only: sequences that begin alike agree as far.           *)
LEMMA LooksBack ==
  ASSUME NEW s \in Seq(Chars), NEW w \in Seq(Chars), NEW n \in Nat,
         \A j \in 1 .. n : w[j] = s[j], EchoedTo(s, n)
  PROVE  /\ EchoedTo(w, n)
         /\ \A k \in 0 .. n : Due(w, k) = Due(s, k)
<1>1. ASSUME NEW j \in 1 .. n, s[j] = NUL
      PROVE  j - 1 \in 1 .. n /\ MayBeNUL(w, j)
  <2>1. MayBeNUL(s, j)
    BY <1>1 DEF EchoedTo
  <2>2. j - 1 \in 1 .. n /\ w[j - 1] = s[j - 1]
    BY <2>1 DEF MayBeNUL
  <2>3. j >= MAXLINE => \A b \in 1 .. MAXLINE - 1 : j - b \in 1 .. n
    OBVIOUS
  <2>4. j >= MAXLINE => \A b \in 1 .. MAXLINE - 1 : w[j - b] = s[j - b]
    BY <2>3
  <2> QED
    BY <2>1, <2>2, <2>4 DEF MayBeNUL
<1>2. ASSUME NEW k \in 0 .. n
      PROVE  Due(w, k) = Due(s, k)
  <2>1. CASE k = 0
    BY <2>1 DEF Due
  <2>2. CASE k # 0
    <3>1. k \in 1 .. n /\ w[k] = s[k]
      BY <2>2
    <3>2. s[k] = NUL => w[k - 1] = s[k - 1]
      BY <1>1, <3>1
    <3> QED
      BY <2>2, <3>1, <3>2 DEF Due
  <2> QED
    BY <2>1, <2>2
<1>3. ASSUME NEW j \in 1 .. n
      PROVE  IF w[j] = NUL THEN MayBeNUL(w, j) ELSE w[j] = Due(w, j - 1)
  <2>1. CASE s[j] = NUL
    BY <1>1, <2>1
  <2>2. CASE s[j] # NUL
    <3>1. j - 1 \in 0 .. n
      OBVIOUS
    <3>2. s[j] = Due(s, j - 1)
      BY <2>2 DEF EchoedTo
    <3> QED
      BY <1>2, <2>2, <3>1, <3>2
  <2> QED
    BY <2>1, <2>2
<1> QED
  BY <1>2, <1>3 DEF EchoedTo

LEMMA PutBehindChars ==
  ASSUME NEW s \in Seq(Chars), NEW u \in Seq(Chars), NEW w, w = s \o u
  PROVE  /\ w \in Seq(Chars) /\ Len(w) = Len(s) + Len(u)
         /\ \A j \in 1 .. Len(s) : w[j] = s[j]
         /\ \A j \in 1 .. Len(u) : w[Len(s) + j] = u[j]
<1>1. NUL \in Int /\ Chars \subseteq Int
  BY DEF NUL, Chars
<1> QED
  BY <1>1

(* The bytes that are due, put behind.                                     *)
LEMMA EchoesBytes ==
  ASSUME NEW s \in Seq(Chars), Echoed(s), NEW t \in Nat, Due(s, Len(s)) = t,
         NEW u \in Seq(Chars), \A j \in 1 .. Len(u) : u[j] = t + j - 1
  PROVE  /\ Echoed(s \o u)
         /\ Due(s \o u, Len(s \o u)) = t + Len(u)
<1> DEFINE w == s \o u
<1>1. /\ w \in Seq(Chars) /\ Len(w) = Len(s) + Len(u)
      /\ Len(s) \in Nat /\ Len(u) \in Nat
      /\ \A j \in 1 .. Len(s) : w[j] = s[j]
      /\ \A j \in 1 .. Len(u) : w[Len(s) + j] = t + j - 1
  BY PutBehindChars
<1> HIDE DEF w
<1>2. EchoedTo(w, Len(s)) /\ Due(w, Len(s)) = t
  BY <1>1, LooksBack, EchoedIsEchoedTo
<1>3. ASSUME NEW j \in 1 .. Len(u)
      PROVE  w[Len(s) + j] # NUL /\ Due(w, Len(s) + j) = t + j
  BY <1>1 DEF NUL, Due
<1>4. ASSUME NEW j \in 1 .. Len(u)
      PROVE  w[Len(s) + j] = Due(w, Len(s) + j - 1)
  <2>1. CASE j = 1
    BY <1>1, <1>2, <2>1
  <2>2. CASE j # 1
    <3>1. j - 1 \in 1 .. Len(u) /\ j - 1 \in Int /\ j \in Int
      BY <1>1, <2>2
    <3>2. Due(w, Len(s) + (j - 1)) = t + (j - 1)
      BY <1>3, <3>1
    <3>3. Len(s) + (j - 1) = Len(s) + j - 1 /\ t + (j - 1) = t + j - 1
      BY <1>1, <3>1
    <3> QED
      BY <1>1, <3>2, <3>3
  <2> QED
    BY <2>1, <2>2
<1>5. ASSUME NEW k \in 1 .. Len(w)
      PROVE  IF w[k] = NUL THEN MayBeNUL(w, k) ELSE w[k] = Due(w, k - 1)
  <2>1. CASE k <= Len(s)
    BY <1>1, <1>2, <2>1 DEF EchoedTo
  <2>2. CASE k > Len(s)
    <3>1. PICK j \in 1 .. Len(u) : k = Len(s) + j
      <4>1. k - Len(s) \in 1 .. Len(u) /\ k = Len(s) + (k - Len(s))
        BY <1>1, <2>2
      <4> QED
        BY <4>1
    <3> QED
      BY <1>3, <1>4, <3>1
  <2> QED
    BY <1>1, <2>1, <2>2
<1>6. Due(w, Len(w)) = t + Len(u)
  <2>1. CASE Len(u) = 0
    BY <1>1, <1>2, <2>1
  <2>2. CASE Len(u) # 0
    <3>1. Len(u) \in 1 .. Len(u)
      BY <1>1, <2>2
    <3> QED
      BY <1>1, <1>3, <3>1
  <2> QED
    BY <2>1, <2>2
<1>7. Echoed(w)
  BY <1>1, <1>5, EchoedIsEchoedTo DEF EchoedTo
<1> QED
  BY <1>6, <1>7 DEF w

(* A NUL where it belongs is not due, and changes nothing of what is.      *)
LEMMA EchoesNUL ==
  ASSUME NEW s \in Seq(Chars), Echoed(s),
         NEW w \in Seq(Chars), Len(w) = Len(s) + 1,
         \A j \in 1 .. Len(s) : w[j] = s[j], w[Len(w)] = NUL, MayBeNUL(w, Len(w))
  PROVE  Echoed(w) /\ Due(w, Len(w)) = Due(s, Len(s))
<1>1. Len(s) \in Nat /\ Len(w) \in Nat
  OBVIOUS
<1>2. EchoedTo(w, Len(s)) /\ Due(w, Len(s)) = Due(s, Len(s))
  BY <1>1, LooksBack, EchoedIsEchoedTo
<1>3. EchoedTo(w, Len(w))
  <2>1. \A j \in 1 .. Len(w) : j \in 1 .. Len(s) \/ j = Len(w)
    BY <1>1
  <2> QED
    BY <1>2, <2>1 DEF EchoedTo
<1>4. Len(s) >= 1 /\ w[Len(s)] # NUL
  BY <1>1 DEF MayBeNUL
<1>5. Due(w, Len(w)) = w[Len(s)] + 1 /\ Due(w, Len(s)) = w[Len(s)] + 1
  BY <1>1, <1>4 DEF Due
<1> QED
  BY <1>2, <1>3, <1>5, EchoedIsEchoedTo

(* What is to be written of a line: its bytes, and its NUL when            *)
(* rio_readlineb counted it.                                               *)
LEMMA LineWritten ==
  ASSUME RioInv, NEW value \in {Len(usrbuf), Len(usrbuf) + 1}
  PROVE  SubSeq(Append(usrbuf, NUL), 1, value) =
           IF value = Len(usrbuf) THEN usrbuf ELSE Append(usrbuf, NUL)
<1>1. usrbuf \in Seq(Int) /\ NUL \in Int /\ Len(usrbuf) \in Nat
  <2>1. Nat \subseteq Int /\ NUL \in Int
    BY DEF NUL
  <2>2. usrbuf \in Seq(Nat) /\ Len(usrbuf) \in Nat
    BY Basics DEF RioInv, TypeOK
  <2> QED
    BY <2>1, <2>2, Zenon, SeqMonotonic
<1>2. PICK q : q = Append(usrbuf, NUL)
  OBVIOUS
<1>3. /\ q \in Seq(Int) /\ Len(q) = Len(usrbuf) + 1 /\ q[Len(usrbuf) + 1] = NUL
      /\ \A j \in 1 .. Len(usrbuf) : q[j] = usrbuf[j]
  BY <1>1, <1>2
<1>4. PICK r : r = SubSeq(q, 1, value)
  OBVIOUS
<1>5. /\ r \in Seq(Int) /\ Len(r) = value
      /\ \A j \in 1 .. value : r[j] = q[j]
  BY <1>1, <1>3, <1>4
<1>6. CASE value = Len(usrbuf)
  <2>1. r = usrbuf
    BY <1>1, <1>3, <1>5, <1>6, SeqEqual
  <2> QED
    BY <1>2, <1>4, <1>6, <2>1
<1>7. CASE value = Len(usrbuf) + 1
  <2>1. r = q
    BY <1>1, <1>3, <1>5, <1>7, SeqEqual
  <2>2. value # Len(usrbuf)
    BY <1>1, <1>7
  <2> QED
    BY <1>2, <1>4, <2>1, <2>2
<1> QED
  BY <1>6, <1>7

(* A line is put behind what was sent: nothing of it is written before     *)
(* rio_readlineb returns.                                                  *)
LEMMA LineEchoed ==
  ASSUME RioInv, EchoInv, user = "echo", asked # Nothing, pc = "runs",
         NEW value, Returns(value),
         \/ Enough /\ value = Value
         \/ /\ ~ Enough /\ taken + Len(usrbuf) = stream.length
            /\ value = IF usrbuf = <<>> THEN 0 ELSE Value
  PROVE  EchoInv'
<1> DEFINE n == Len(usrbuf)
<1>1. asked.op = "line" /\ asked.n = MAXLINE /\ unwritten = <<>>
      /\ Echoed(Sent) /\ Due(Sent, Len(Sent)) = taken
  BY DEF EchoInv
<1>2. /\ usrbuf \in Seq(Nat) /\ n \in Nat /\ taken \in Nat /\ out \in Seq(Chars)
      /\ usrbuf # <<>> <=> n > 0
  BY Basics DEF RioInv, TypeOK, Chars
<1>3. usrbuf \in Seq(Chars)
  <2>1. Nat \subseteq Chars
    BY DEF Chars
  <2> QED
    BY <1>2, <2>1, Zenon, SeqMonotonic
<1>4. Echoed(out) /\ Due(out, Len(out)) = taken
  <2>1. Sent = out
    BY <1>1, <1>2, ConcatEmptySeq DEF Sent
  <2> QED
    BY <1>1, <2>1
<1>5. /\ n < MAXLINE
      /\ \A j \in 1 .. n : usrbuf[j] = taken + j - 1
      /\ \A j \in 1 .. n - 1 : ~ IsNewline(usrbuf[j])
      /\ EndsLine <=> n > 0 /\ IsNewline(usrbuf[n])
  BY <1>1, <1>2 DEF RioInv, WithinAsked, NothingLost, EndsLine
<1>6. /\ user' = "echo" /\ asked' = Nothing /\ taken' = taken + n /\ out' = out
      /\ stream' = stream /\ pc' = "runs" /\ result' = [value |-> value, bytes |-> usrbuf]
      /\ unwritten' = SubSeq(Append(usrbuf, NUL), 1, value)
  BY DEF Returns
<1>7. Value = IF EndsLine THEN n ELSE n + 1
  BY <1>1 DEF Value, LineValue
<1>8. Enough <=> EndsLine \/ n + 1 >= MAXLINE
  BY <1>1 DEF Enough
<1>9. value \in {n, n + 1}
  BY <1>2, <1>7
<1>10. unwritten' = IF value = n THEN usrbuf ELSE Append(usrbuf, NUL)
  <2>1. PICK u : u = SubSeq(Append(usrbuf, NUL), 1, value)
    OBVIOUS
  <2>2. u = IF value = Len(usrbuf) THEN usrbuf ELSE Append(usrbuf, NUL)
    BY <1>9, <2>1, LineWritten, Zenon
  <2> QED
    BY <1>6, <2>1, <2>2
<1>11. PICK s : s = out \o usrbuf
  OBVIOUS
<1>12. /\ s \in Seq(Chars) /\ Len(s) = Len(out) + n /\ Len(out) \in Nat
       /\ \A j \in 1 .. n : s[Len(out) + j] = usrbuf[j]
  BY <1>2, <1>3, <1>11, PutBehindChars
<1>13. Echoed(s) /\ Due(s, Len(s)) = taken + n
  BY <1>2, <1>3, <1>4, <1>5, <1>11, EchoesBytes
<1>14. CASE value = n
  <2>1. Sent' = s
    BY <1>6, <1>10, <1>11, <1>14 DEF Sent
  <2>2. Echoed(Sent)' /\ Due(Sent, Len(Sent))' = taken'
    BY <1>6, <1>13, <2>1 DEF Echoed, MayBeNUL, Due
  <2>3. value = 0 => unwritten' = <<>> /\ taken' = stream'.length
    BY <1>2, <1>5, <1>6, <1>7, <1>10, <1>14
  <2> QED
    BY <1>6, <2>2, <2>3 DEF EchoInv
<1>15. CASE value = n + 1
  <2>1. ~ EndsLine /\ n > 0 /\ (n + 1 >= MAXLINE \/ taken + n = stream.length)
    BY <1>2, <1>7, <1>8, <1>15
  <2>2. PICK u : u = Append(usrbuf, NUL)
    OBVIOUS
  <2>3. u \in Seq(Chars) /\ Len(u) = n + 1 /\ u[n + 1] = NUL
        /\ \A j \in 1 .. n : u[j] = usrbuf[j]
    <3>1. NUL \in Int /\ NUL \in Chars
      BY DEF NUL, Chars
    <3> QED
      BY <1>2, <1>3, <2>2, <3>1, AppendProperties
  <2>4. PICK w : w = out \o u
    OBVIOUS
  <2>5. /\ w \in Seq(Chars) /\ Len(w) = Len(out) + (n + 1)
        /\ \A j \in 1 .. Len(out) : w[j] = out[j]
        /\ \A j \in 1 .. n + 1 : w[Len(out) + j] = u[j]
    <3>1. /\ w \in Seq(Chars) /\ Len(w) = Len(out) + Len(u)
          /\ \A j \in 1 .. Len(out) : w[j] = out[j]
          /\ \A j \in 1 .. Len(u) : w[Len(out) + j] = u[j]
      <4>1. out \in Seq(Chars) /\ u \in Seq(Chars)
        BY <1>2, <2>3
      <4> QED
        BY <2>4, <4>1, PutBehindChars
    <3> QED
      BY <2>3, <3>1
  <2>6. /\ Len(w) = Len(s) + 1 /\ w[Len(w)] = NUL
        /\ \A j \in 1 .. n : w[Len(out) + j] = usrbuf[j]
    <3>1. n + 1 \in 1 .. n + 1 /\ \A j \in 1 .. n : j \in 1 .. n + 1
      BY <1>2
    <3> QED
      BY SMTT(20), <1>2, <1>12, <2>3, <2>5, <3>1
  <2>7. ASSUME NEW j \in 1 .. Len(s)
        PROVE  w[j] = s[j]
    <3>1. CASE j <= Len(out)
      <4>1. s[j] = out[j]
        BY <1>2, <1>3, <1>11, <1>12, <3>1, PutBehindChars
      <4> QED
        BY <1>12, <2>5, <3>1, <4>1
    <3>2. CASE j > Len(out)
      <4>1. PICK i \in 1 .. n : j = Len(out) + i
        <5>1. j - Len(out) \in 1 .. n /\ j = Len(out) + (j - Len(out))
          BY <1>2, <1>12, <3>2
        <5> QED
          BY <5>1
      <4> QED
        BY <1>12, <2>6, <4>1
    <3> QED
      BY <1>12, <3>1, <3>2
  <2>8. MayBeNUL(w, Len(w))
    <3>1. \A j \in 1 .. n : usrbuf[j] \notin {NUL} \cup stream.newlines
      <4>1. \A j \in 1 .. n : usrbuf[j] # NUL
        BY <1>2, <1>5 DEF NUL
      <4>2. \A j \in 1 .. n : j \in 1 .. n - 1 \/ j = n
        BY <1>2
      <4> QED
        BY <1>5, <2>1, <4>1, <4>2 DEF IsNewline
    <3>2. n \in 1 .. n
      BY <1>2, <2>1
    <3>3. Len(w) - 1 = Len(out) + n /\ Len(w) > 1
      BY <1>2, <1>12, <2>1, <2>5
    <3>4. w[Len(w) - 1] = usrbuf[n]
      BY <2>6, <3>2, <3>3
    <3>5. CASE taken + n = stream.length
      <4>1. usrbuf[n] = stream.length - 1
        <5>1. usrbuf[n] = taken + n - 1
          BY <1>5, <3>2
        <5>2. taken + n - 1 = stream.length - 1
          BY <1>2, <3>5
        <5> QED
          BY <5>1, <5>2
      <4> QED
        BY <3>1, <3>2, <3>3, <3>4, <4>1 DEF MayBeNUL
    <3>6. CASE n + 1 >= MAXLINE
      <4>1. n = MAXLINE - 1 /\ Len(w) >= MAXLINE
        <5>1. n < MAXLINE /\ Len(w) = Len(out) + (n + 1) /\ MAXLINE \in Nat
          BY <1>5, <2>5
        <5> HIDE DEF n
        <5> QED
          BY <1>2, <1>12, <3>6, <5>1
      <4>2. ASSUME NEW b \in 1 .. MAXLINE - 1
            PROVE  w[Len(w) - b] \notin {NUL} \cup stream.newlines
        <5>1. n + 1 - b \in 1 .. n /\ Len(w) - b = Len(out) + (n + 1 - b)
          BY <1>2, <1>12, <2>5, <4>1
        <5> QED
          BY <2>6, <3>1, <5>1
      <4> QED
        BY <3>1, <3>2, <3>3, <3>4, <4>1, <4>2 DEF MayBeNUL
    <3> QED
      BY <2>1, <3>5, <3>6
  <2>9. Echoed(w) /\ Due(w, Len(w)) = taken + n
    BY <1>12, <1>13, <2>5, <2>6, <2>7, <2>8, EchoesNUL
  <2>10. value # n /\ value # 0
    BY <1>2, <1>15
  <2>11. Sent' = w
    BY <1>6, <1>10, <2>2, <2>4, <2>10 DEF Sent
  <2>12. Echoed(Sent)' /\ Due(Sent, Len(Sent))' = taken'
    BY <1>6, <2>9, <2>11 DEF Echoed, MayBeNUL, Due
  <2> QED
    BY <1>6, <2>10, <2>12 DEF EchoInv
<1> QED
  BY <1>9, <1>14, <1>15

(* What write() takes is no longer to be written.                          *)
LEMMA WriteEchoed ==
  ASSUME RioInv, EchoInv, Write
  PROVE  EchoInv'
<1>1. PICK k \in 1 .. Len(unwritten) :
        /\ out' = out \o SubSeq(unwritten, 1, k)
        /\ unwritten' = SubSeq(unwritten, k + 1, Len(unwritten))
  BY DEF Write
<1>2. UNCHANGED <<stream, user, asked, taken, result, pc>> /\ pc = "runs"
  BY DEF Write
<1>3. out \in Seq(Chars) /\ unwritten \in Seq(Chars) /\ Len(unwritten) > 0 /\ unwritten # <<>>
  BY <1>1 DEF RioInv, TypeOK, Chars
<1>4. user = "echo"
  BY <1>3 DEF EchoInv
<1>5. Sent' = Sent
  <2>1. PICK a : a = SubSeq(unwritten, 1, k)
    OBVIOUS
  <2>2. PICK b : b = SubSeq(unwritten, k + 1, Len(unwritten))
    OBVIOUS
  <2>3. unwritten = a \o b /\ a \in Seq(Chars) /\ b \in Seq(Chars)
    <3>1. NUL \in Int /\ Chars \subseteq Int
      BY DEF NUL, Chars
    <3>2. /\ a \in Seq(Chars) /\ Len(a) = k /\ \A j \in 1 .. k : a[j] = unwritten[j]
      BY <1>3, <2>1
    <3>3. /\ b \in Seq(Chars) /\ Len(b) = Len(unwritten) - k
          /\ \A j \in 1 .. Len(b) : b[j] = unwritten[k + j]
      BY <1>3, <2>2
    <3>4. PICK c : c = a \o b
      OBVIOUS
    <3>5. /\ c \in Seq(Chars) /\ Len(c) = Len(unwritten)
          /\ \A j \in 1 .. k : c[j] = unwritten[j]
          /\ \A j \in 1 .. Len(b) : c[k + j] = unwritten[k + j]
      <4>1. /\ c \in Seq(Chars) /\ Len(c) = Len(a) + Len(b)
            /\ \A j \in 1 .. Len(a) : c[j] = a[j]
            /\ \A j \in 1 .. Len(b) : c[Len(a) + j] = b[j]
        BY <3>2, <3>3, <3>4, PutBehindChars
      <4>2. Len(unwritten) \in Nat /\ k \in 1 .. Len(unwritten)
        BY <1>3, LenProperties
      <4>3. Len(c) = Len(unwritten)
        BY <3>2, <3>3, <4>1, <4>2
      <4> QED
        BY <3>2, <3>3, <4>1, <4>3
    <3>6. ASSUME NEW j \in 1 .. Len(unwritten)
          PROVE  c[j] = unwritten[j]
      <4>1. CASE j <= k
        BY <3>5, <4>1
      <4>2. CASE j > k
        <5>1. j - k \in 1 .. Len(b) /\ j = k + (j - k)
          BY <3>3, <4>2
        <5> QED
          BY <3>5, <5>1
      <4> QED
        BY <4>1, <4>2
    <3>7. c = unwritten
      BY <1>3, <3>5, <3>6, SeqEqual
    <3> QED
      BY <3>2, <3>3, <3>4, <3>7
  <2>4. (out \o a) \o b = out \o (a \o b)
    BY <1>3, <2>3, ConcatAssociative
  <2> QED
    BY <1>1, <2>1, <2>2, <2>3, <2>4 DEF Sent
<1>6. asked = Nothing /\ ~ (result # Nothing /\ result.value = 0)
  BY <1>2, <1>3, <1>4 DEF EchoInv
<1>7. Echoed(Sent)' /\ Due(Sent, Len(Sent))' = taken'
  BY <1>2, <1>4, <1>5 DEF EchoInv, Echoed, MayBeNUL, Due
<1> QED
  BY <1>2, <1>4, <1>6, <1>7 DEF EchoInv

LEMMA EchoNext == RioInv /\ EchoInv /\ [Next]_vars => EchoInv'
<1> SUFFICES ASSUME RioInv, EchoInv, [Next]_vars PROVE EchoInv'
  OBVIOUS
<1>1. CASE Return \/ EndOfStream
  <2>1. PICK value : /\ Returns(value) /\ asked # Nothing /\ pc = "runs"
                     /\ \/ Enough /\ value = Value
                        \/ /\ ~ Enough /\ read = stream.length /\ (Buffered => rio_cnt <= 0)
                           /\ value = IF usrbuf = <<>> THEN 0 ELSE Value
    BY <1>1 DEF Return, EndOfStream, Gets, Reading, Going
  <2>2. CASE user = "echo"
    <3>1. asked.op = "line"
      BY <2>1, <2>2 DEF EchoInv
    <3>2. ~ Enough => taken + Len(usrbuf) = stream.length
      <4>1. ASSUME ~ Enough
            PROVE  taken + Len(usrbuf) + 0 = stream.length
        <5>1. rio_cnt <= 0 /\ rio_cnt \in Int
          BY <2>1, <3>1, <4>1, Basics DEF RioInv, Buffered
        <5> QED
          BY <2>1, <4>1, <5>1 DEF RioInv, NothingLost
      <4> QED
        BY <4>1, Basics DEF RioInv
    <3> QED
      BY <2>1, <2>2, <3>2, LineEchoed
  <2>3. CASE user # "echo"
    BY <2>1, <2>3 DEF Returns, EchoInv
  <2> QED
    BY <2>2, <2>3
<1>2. CASE Write
  BY <1>2, WriteEchoed
<1>3. CASE Ask
  BY <1>3 DEF Ask, Calls, EchoInv, Sent, Echoed, MayBeNUL, Due
<1>4. CASE EchoReturns
  BY <1>4 DEF EchoReturns, call, EchoInv, Sent, Echoed, MayBeNUL, Due
<1>5. CASE ReadDirect \/ Refill \/ Copy \/ Interrupted \/ ReadFails \/ WriteFails
  <2>1. UNCHANGED <<stream, user, asked, taken, result, unwritten, out>>
        /\ pc' \in {pc, "exit"}
    BY <1>5 DEF ReadDirect, Refill, Copy, Interrupted, ReadFails, WriteFails, Gets, call
  <2> QED
    BY <2>1 DEF EchoInv, Sent, Echoed, MayBeNUL, Due
<1>6. CASE UNCHANGED vars
  BY <1>6 DEF vars, call, EchoInv, Sent, Echoed, MayBeNUL, Due
<1> QED
  BY <1>1, <1>2, <1>3, <1>4, <1>5, <1>6 DEF Next, Progress

(* However the system cuts reads and writes, and wherever the lines end,   *)
(* echo sends the stream back, with a NUL after a line only where          *)
(* rio_readlineb counts one.                                               *)
THEOREM EchoSendsStream == Spec => []EchoIsStream
<1>1. Init => EchoInv
  BY DEF Init, EchoInv, Sent, Echoed, Due
<1>2. RioInv /\ EchoInv => EchoIsStream
  <2> SUFFICES ASSUME RioInv, EchoInv PROVE EchoIsStream
    OBVIOUS
  <2>1. out \in Seq(Chars) /\ unwritten \in Seq(Chars)
    BY DEF RioInv, TypeOK, Chars
  <2>2. CASE user = "echo"
    <3>1. PICK s : s = Sent
      OBVIOUS
    <3>2. /\ s \in Seq(Chars) /\ Len(out) \in Nat /\ Len(s) = Len(out) + Len(unwritten)
          /\ \A j \in 1 .. Len(out) : out[j] = s[j]
          /\ Echoed(s) /\ Due(s, Len(s)) = taken
      BY <2>1, <2>2, <3>1, PutBehindChars DEF Sent, EchoInv
    <3>3. EchoedTo(s, Len(out))
      <4>1. s \in Seq(Chars) /\ Echoed(s)
        BY <3>2
      <4>2. EchoedTo(s, Len(s))
        BY <4>1, EchoedIsEchoedTo
      <4>3. Len(unwritten) \in Nat
        BY <2>1
      <4>4. \A j \in 1 .. Len(out) : j \in 1 .. Len(s)
        BY <3>2, <4>3
      <4> QED
        BY <4>2, <4>4 DEF EchoedTo
    <3>4. EchoedTo(out, Len(out))
      BY <2>1, <3>2, <3>3, LooksBack
    <3>5. pc = "returned" => Due(out, Len(out)) = stream.length
      <4>1. unwritten = <<>> => s = out
        BY <2>1, <3>1, ConcatEmptySeq DEF Sent
      <4> QED
        BY <2>2, <3>2, <4>1 DEF EchoInv
    <3> QED
      BY <2>1, <3>4, <3>5, EchoedIsEchoedTo DEF EchoIsStream
  <2>3. CASE user # "echo"
    BY <2>3 DEF EchoInv, EchoIsStream, Echoed
  <2> QED
    BY <2>2, <2>3
<1> QED
  BY <1>1, <1>2, EchoNext, RioInvariant, PTL DEF Spec

=============================================================================

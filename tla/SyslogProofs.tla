---------------------------- MODULE SyslogProofs ----------------------------
(***************************************************************************)
(* Theorems about Syslog, for every size of the buffer, every length of    *)
(* message that fits, and every number of readers.  The invariant SlogInv  *)
(* says who holds which lock, that the last byte stored is a NUL whenever  *)
(* nobody writes, where in the buffer each of the last bytes of the log    *)
(* is, and where logread -f stands.  WholeInv adds what a copy consists of.*)
(***************************************************************************)
EXTENDS Syslog, WellFoundedInduction, TLAPS

(* The j-th place before x, in a buffer of s bytes. *)
Before(x, j, s) == IF j <= x THEN x - j ELSE x - j + s

(* The place of the j-th byte before tail. *)
Back(j) == Before(shbuf.tail, j, Size)

(* A writer is alone; a reader that copies is counted, and no one writes. *)
LockOK ==
    /\ At("copy") \/ At("up") => writing
    /\ At("cleanup") => ~writing
    /\ writing => counted = {}
    /\ \A r \in Reader : logread[r].pc \in {"fetch", "up"} => r \in counted

(* What syslogd may rely on where it is. *)
StageOK ==
    /\ ~At("off") /\ ~At("init") => shbuf.size = Size
    /\ At("init") => used.messages + 2 <= MaxMessages
    /\ At("read") \/ At("stop") => used.messages + 1 <= MaxMessages
    /\ syslogd.back = "loop" /\ (At("semop") \/ At("copy") \/ At("up"))
       => used.messages + 1 <= MaxMessages

(* The last byte that was stored ends a message. *)
NulOK ==
    At("init") \/ (shbuf.size = Size
                      /\ (~writing \/ At("up") \/ (At("copy") /\ syslogd.left = 0)))
       => shbuf.data[Back(1)] = 0

(* The buffer holds the last bytes of the log. *)
Ring(data, tail, bytes, first) ==
    \A j \in 1 .. Size : j <= Len(bytes) - first =>
       data[Before(tail, j, Size)] = bytes[Len(bytes) + 1 - j]

RingOK ==
    /\ base <= Len(stream) /\ Ring(shbuf.data, shbuf.tail, stream, base)
    /\ shbuf.size = 0 => Len(stream) = base

Awake(r) == logread[r].pc \in {"semop", "fetch", "up", "sleep"}

(* A reader that has looked at the log since it was cleared knows where it *)
(* stands.                                                                 *)
PlaceAt(r) ==
    Awake(r) /\ r \notin cleared =>
       /\ base <= logread[r].at /\ logread[r].at <= Len(stream)
       /\ Len(stream) - logread[r].at < Size =>
             logread[r].cur = Back(Len(stream) - logread[r].at)

PlaceOK == \A r \in Reader : PlaceAt(r)

(* logread -f has in its copy what it passed since its look before, and    *)
(* sleeps when that is nothing.                                            *)
TurnAt(r) ==
    /\ logread[r].at <= Len(stream)
    /\ r \notin torn /\ logread[r].at - logread[r].seen < Size =>
          /\ logread[r].pc = "up" =>
                logread[r].copy = Written(logread[r].seen, logread[r].at)
          /\ logread[r].pc = "sleep" => logread[r].seen = logread[r].at

TurnOK == \A r \in Follower : TurnAt(r)

SlogInv == SyslogTypeOK /\ LockOK /\ StageOK /\ NulOK /\ RingOK /\ PlaceOK /\ TurnOK

-----------------------------------------------------------------------------
(* The first NUL. *)

LEMMA LessThanIsWellFounded ==
    IsWellFoundedOn({ss \in Nat \X Nat : ss[1] < ss[2]}, Nat)
  BY NatLessThanWellFounded DEF OpToRel

LEMMA LeastElement ==
  ASSUME NEW T, T \subseteq Nat, T # {}
  PROVE  \E x \in T : \A y \in T : x <= y
<1> DEFINE R == {ss \in Nat \X Nat : ss[1] < ss[2]}
<1>1. IsWellFoundedOn(R, Nat)
  BY LessThanIsWellFounded
<1>2. \E x \in T : \A y \in T : <<y, x>> \notin R
  <2> HIDE DEF R
  <2> QED BY <1>1, WFMin
<1>3. \A x, y \in T : <<y, x>> \notin R => x <= y
  OBVIOUS
<1> QED BY <1>2, <1>3

(* strlen() stops at a NUL, and at the first one. *)
LEMMA NulFromIsFirst ==
  ASSUME SyslogTypeOK, NEW cur \in 0 .. Size
  PROVE  /\ NulFrom(cur) \in cur .. Size
         /\ IsNul(NulFrom(cur))
         /\ \A j \in cur .. Size : IsNul(j) => NulFrom(cur) <= j
<1> USE SyslogAssumption
<1> DEFINE T == {i \in cur .. Size : IsNul(i)}
           First(i) == IsNul(i) /\ \A j \in cur .. i - 1 : ~IsNul(j)
<1>1. Size \in T /\ T \subseteq Nat
  BY DEF SyslogTypeOK, IsNul
<1>2. PICK x \in T : \A y \in T : x <= y
  <2> HIDE DEF T
  <2> QED BY <1>1, LeastElement
<1>3. x \in cur .. Size /\ First(x)
  BY <1>2
<1>4. NulFrom(cur) \in cur .. Size /\ First(NulFrom(cur))
  <2> HIDE DEF First
  <2>1. NulFrom(cur) = CHOOSE i \in cur .. Size : First(i)
    BY DEF NulFrom, First
  <2> QED BY <1>3, <2>1
<1>5. ASSUME NEW j \in cur .. Size, IsNul(j)
      PROVE  NulFrom(cur) <= j
  BY <1>4, <1>5
<1> QED BY <1>4, <1>5

-----------------------------------------------------------------------------
(* What a step of the writer does to the buffer. *)

(* The places before tail after k bytes have been stored. *)
LEMMA BackMoves ==
  ASSUME NEW s \in Nat \ {0}, NEW x \in 0 .. s - 1, NEW k \in 0 .. s - x,
         NEW j \in 0 .. s, NEW y, y = IF x + k < s THEN x + k ELSE 0
  PROVE  /\ Before(x, j, s) \in 0 .. s
         /\ Before(y, j, s) \in 0 .. s
         /\ j > k => /\ Before(y, j, s) = Before(x, j - k, s)
                     /\ Before(y, j, s) \notin x .. x + k - 1
         /\ j \in 1 .. k => Before(y, j, s) = x + k - j
         /\ j + k < s => Before(y, j + k, s) = Before(x, j, s)
  BY DEF Before

LEMMA Concatenation ==
  ASSUME NEW C, NEW u \in Seq(C), NEW w \in Seq(C)
  PROVE  /\ u \o w \in Seq(C) /\ Len(u \o w) = Len(u) + Len(w)
         /\ \A i \in 1 .. Len(u) : (u \o w)[i] = u[i]
         /\ \A i \in 1 .. Len(w) : (u \o w)[Len(u) + i] = w[i]
  OBVIOUS

LEMMA Sizes ==
  ASSUME SyslogTypeOK
  PROVE  /\ Size \in Nat \ {0} /\ MaxMessages \in Nat \ {0} /\ Index = 0 .. Size
         /\ shbuf.tail \in 0 .. Size - 1 /\ shbuf.size \in {0, Size}
         /\ shbuf.data \in [Index -> 0 .. MaxMessages]
         /\ stream \in Seq(0 .. MaxMessages) /\ Len(stream) \in Nat /\ base \in Nat
         /\ syslogd.left \in 0 .. Size /\ syslogd.text \in 0 .. MaxMessages
  BY SyslogAssumption DEF SyslogTypeOK, Segment, SyslogdState, Index, Char

(* The place of the tail once k bytes have been stored at x. *)
NewTail(x, k) == IF x + k < Size THEN x + k ELSE 0

(* A buffer that holds the last bytes of a sequence still does when more   *)
(* are added to both.                                                      *)
LEMMA RingGrows ==
  ASSUME NEW C, NEW x \in 0 .. Size - 1, NEW data \in [Index -> C], NEW u \in Seq(C),
         NEW b \in Nat, b <= Len(u), NEW w \in Seq(C), x + Len(w) <= Size,
         Ring(data, x, u, b)
  PROVE  Ring(Placed(data, x, w), NewTail(x, Len(w)), u \o w, b)
<1> DEFINE k == Len(w)
           y == NewTail(x, k)
           new == Placed(data, x, w)
<1>1. Size \in Nat \ {0} /\ k \in 0 .. Size - x /\ y = IF x + k < Size THEN x + k ELSE 0
  BY SyslogAssumption DEF NewTail
<1>2. /\ u \o w \in Seq(C) /\ Len(u \o w) = Len(u) + k /\ Len(u) \in Nat
      /\ \A i \in 1 .. Len(u) : (u \o w)[i] = u[i]
      /\ \A i \in 1 .. k : (u \o w)[Len(u) + i] = w[i]
  BY Concatenation
<1> HIDE DEF k, y
<1>3. SUFFICES ASSUME NEW j \in 1 .. Size, j <= Len(u \o w) - b
               PROVE  new[Before(y, j, Size)] = (u \o w)[Len(u \o w) + 1 - j]
  BY DEF Ring, k, y
<1>4. CASE j <= k
  <2>1. Before(y, j, Size) = x + k - j
    BY <1>1, <1>4 DEF Before
  <2>2. x + k - j \in Index /\ x + k - j \in x .. x + k - 1
    BY <1>1, <1>4 DEF Index
  <2>3. new[x + k - j] = w[k - j + 1]
    BY <1>1, <1>4, <2>2 DEF Placed, k
  <2>4. k - j + 1 \in 1 .. k /\ Len(u \o w) + 1 - j = Len(u) + (k - j + 1)
    BY <1>1, <1>2, <1>4
  <2> QED BY <1>2, <2>1, <2>3, <2>4
<1>5. CASE j > k
  <2>1. /\ Before(y, j, Size) = Before(x, j - k, Size)
        /\ Before(y, j, Size) \notin x .. x + k - 1
        /\ Before(y, j, Size) \in Index
    BY <1>1, <1>5 DEF Before, Index
  <2>2. new[Before(y, j, Size)] = data[Before(x, j - k, Size)]
    BY <2>1 DEF Placed, k
  <2>3. j - k \in 1 .. Size /\ j - k <= Len(u) - b
    BY <1>1, <1>2, <1>3, <1>5
  <2>4. data[Before(x, j - k, Size)] = u[Len(u) + 1 - (j - k)]
    BY <2>3 DEF Ring
  <2>5. /\ Len(u) + 1 - (j - k) \in 1 .. Len(u)
        /\ Len(u \o w) + 1 - j = Len(u) + 1 - (j - k)
    BY <1>1, <1>2, <2>3
  <2> QED BY <1>2, <2>2, <2>4, <2>5
<1>6. j <= k \/ j > k
  BY <1>1
<1> QED BY <1>4, <1>5, <1>6

(* The bytes of a message, with its NUL, in the buffer. *)
LEMMA BytesInPlace ==
  ASSUME SyslogTypeOK, NEW k \in 0 .. Size - shbuf.tail
  PROVE  /\ Chunk(k) \in Seq(0 .. MaxMessages) /\ Len(Chunk(k)) = k
         /\ Placed(shbuf.data, shbuf.tail, Chunk(k)) \in [Index -> 0 .. MaxMessages]
         /\ Placed(shbuf.data, shbuf.tail, Chunk(k))[Size] = 0
         /\ k > 0 /\ k = syslogd.left =>
               Placed(shbuf.data, shbuf.tail, Chunk(k))
                  [Before(NewTail(shbuf.tail, k), 1, Size)] = 0
<1> DEFINE x == shbuf.tail
           M == 0 .. MaxMessages
           data == shbuf.data
           w == Chunk(k)
<1>1. /\ Size \in Nat \ {0} /\ Index = 0 .. Size /\ x \in 0 .. Size - 1
      /\ k \in 0 .. Size - x /\ data \in [Index -> M] /\ data[Size] = 0
  BY Sizes DEF SyslogTypeOK
<1>2. w \in Seq(M) /\ Len(w) = k /\ (k > 0 /\ k = syslogd.left => w[k] = 0)
  BY Sizes DEF Chunk
<1> HIDE DEF x, M, data, w
<1>3. \A i \in x .. x + k - 1 : i - x + 1 \in 1 .. k /\ i # Size
  BY <1>1
<1>4. \A i \in 1 .. k : w[i] \in M
  BY <1>2
<1>5. Placed(data, x, w) \in [Index -> M] /\ Placed(data, x, w)[Size] = 0
  BY <1>1, <1>2, <1>3, <1>4 DEF Placed
<1>6. ASSUME k > 0, k = syslogd.left
      PROVE  Placed(data, x, w)[Before(NewTail(x, k), 1, Size)] = 0
  <2>1. Before(NewTail(x, k), 1, Size) = x + k - 1
    BY <1>1, <1>6 DEF Before, NewTail
  <2>2. x + k - 1 \in Index /\ x + k - 1 \in x .. x + k - 1 /\ x + k - 1 - x + 1 = k
    BY <1>1, <1>6
  <2> QED BY <1>1, <1>2, <1>6, <2>1, <2>2 DEF Placed
<1> QED BY <1>2, <1>5, <1>6 DEF x, M, data, w

(* What k bytes of a message do to the buffer and to the log. *)
LEMMA StoredBytes ==
  ASSUME SyslogTypeOK, RingOK, shbuf.size = Size, NEW k \in 0 .. Size - shbuf.tail,
         Stored(k, NewTail(shbuf.tail, k)), base' = base
  PROVE  /\ shbuf' \in Segment
         /\ shbuf'.data[Size] = 0 /\ shbuf'.size = Size
         /\ shbuf'.tail = NewTail(shbuf.tail, k)
         /\ stream' \in Seq(0 .. MaxMessages) /\ Len(stream') = Len(stream) + k
         /\ \A i \in 1 .. Len(stream) : stream'[i] = stream[i]
         /\ RingOK'
         /\ k > 0 /\ k = syslogd.left => shbuf'.data[Back(1)'] = 0
<1> DEFINE M == 0 .. MaxMessages
           new == Placed(shbuf.data, shbuf.tail, Chunk(k))
           tail == NewTail(shbuf.tail, k)
<1>1. /\ Chunk(k) \in Seq(M) /\ Len(Chunk(k)) = k
      /\ new \in [Index -> M] /\ new[Size] = 0
      /\ k > 0 /\ k = syslogd.left => new[Before(tail, 1, Size)] = 0
  BY BytesInPlace
<1>2. shbuf' = [shbuf EXCEPT !.data = new, !.tail = tail] /\ stream' = stream \o Chunk(k)
  BY DEF Stored, SyslogTypeOK
<1>3. tail \in 0 .. Size - 1
  BY Sizes DEF NewTail
<1>4. /\ shbuf' \in Segment
      /\ shbuf'.data = new /\ shbuf'.size = Size /\ shbuf'.tail = tail
  <2>1. shbuf \in [size: {0, Size}, tail: 0 .. Size - 1, data: [Index -> M]]
    BY DEF SyslogTypeOK, Segment, Char
  <2>2. Segment = [size: {0, Size}, tail: 0 .. Size - 1, data: [Index -> M]]
    BY DEF Segment, Char
  <2> HIDE DEF new, tail, M
  <2> QED BY <1>1, <1>2, <1>3, <2>1, <2>2
<1>5. /\ stream' \in Seq(M) /\ Len(stream') = Len(stream) + k
      /\ \A i \in 1 .. Len(stream) : stream'[i] = stream[i]
  <2>1. stream \in Seq(M)
    BY Sizes
  <2> HIDE DEF M
  <2>2. /\ Chunk(k) \in Seq(M) /\ Len(Chunk(k)) = k
        /\ stream' = stream \o Chunk(k)
    BY <1>1, <1>2
  <2> HIDE DEF new, tail
  <2>3. /\ stream \o Chunk(k) \in Seq(M)
        /\ Len(stream \o Chunk(k)) = Len(stream) + Len(Chunk(k))
        /\ \A i \in 1 .. Len(stream) : (stream \o Chunk(k))[i] = stream[i]
    BY <2>1, <2>2, Concatenation
  <2> QED BY <2>2, <2>3
<1>6. RingOK'
  <2>1. base <= Len(stream) /\ base <= Len(stream') /\ base \in Nat
    BY <1>5, Sizes DEF RingOK
  <2>2. Ring(shbuf.data, shbuf.tail, stream, base)
    BY DEF RingOK
  <2>3. shbuf.tail + Len(Chunk(k)) <= Size
    BY <1>1, Sizes
  <2>4. Ring(new, tail, stream \o Chunk(k), base)
    <3>1. /\ shbuf.tail \in 0 .. Size - 1 /\ shbuf.data \in [Index -> M]
          /\ stream \in Seq(M)
      BY Sizes
    <3> HIDE DEF M
    <3> QED BY <1>1, <2>1, <2>2, <2>3, <3>1, RingGrows
  <2>5. base' <= Len(stream') /\ Ring(shbuf'.data, shbuf'.tail, stream', base')
    <3> HIDE DEF new, tail
    <3> QED BY <1>2, <1>4, <2>1, <2>4
  <2>6. shbuf'.size # 0
    BY <1>4, Sizes
  <2> QED BY <2>5, <2>6 DEF RingOK, Ring
<1>7. ASSUME k > 0, k = syslogd.left
      PROVE  shbuf'.data[Back(1)'] = 0
  <2> HIDE DEF new, tail
  <2> QED BY <1>1, <1>4, <1>7 DEF Back
<1> HIDE DEF new
<1> QED BY <1>1, <1>4, <1>5, <1>6, <1>7

(* What logread takes from the buffer. *)
LEMMA OldestInRange ==
  ASSUME SyslogTypeOK, NEW cur \in 0 .. Size - 1
  PROVE  Oldest(cur) \in 0 .. Size - 1
<1>1. NulFrom(cur) \in 0 .. Size /\ NulFrom(0) \in 0 .. Size
  BY NulFromIsFirst, Sizes
<1>2. \A i \in 0 .. Size : Incremented(i) \in 0 .. Size - 1
  BY Sizes DEF Incremented
<1> QED BY <1>1, <1>2 DEF Oldest

LEMMA CopiedType ==
  ASSUME SyslogTypeOK, NEW from \in 0 .. Size - 1,
         ~(from > shbuf.tail /\ shbuf.size < from)
  PROVE  Copied(from) \in Seq(0 .. MaxMessages)
<1> DEFINE M == 0 .. MaxMessages
           tail == shbuf.tail
<1>1. /\ Size \in Nat \ {0} /\ tail \in 0 .. Size - 1 /\ shbuf.size \in {0, Size}
      /\ shbuf.data \in [0 .. Size -> M]
  BY Sizes
<1> HIDE DEF M, tail
<1>2. \A x, y \in 0 .. Size : x <= y => Bytes(x, y) \in Seq(M)
  <2> SUFFICES ASSUME NEW x \in 0 .. Size, NEW y \in 0 .. Size, x <= y
               PROVE  Bytes(x, y) \in Seq(M)
    OBVIOUS
  <2>1. y - x \in Nat /\ \A i \in 1 .. y - x : x + i - 1 \in 0 .. Size
    BY <1>1
  <2>2. \A i \in 1 .. y - x : shbuf.data[x + i - 1] \in M
    BY <1>1, <2>1
  <2> QED BY <2>1, <2>2 DEF Bytes
<1>3. CASE from <= tail
  <2>1. Copied(from) = Bytes(from, tail) /\ from \in 0 .. Size /\ tail \in 0 .. Size
    BY <1>1, <1>3 DEF Copied, tail
  <2> QED BY <1>2, <1>3, <2>1 DEF M
<1>4. CASE from > tail
  <2>1. shbuf.size = Size
    BY <1>1, <1>4 DEF tail
  <2>2. Copied(from) = Bytes(from, Size) \o Bytes(0, tail)
    BY <1>1, <1>4, <2>1 DEF Copied, tail
  <2>3. /\ from \in 0 .. Size /\ tail \in 0 .. Size /\ 0 \in 0 .. Size /\ Size \in 0 .. Size
        /\ from <= Size /\ 0 <= tail
    BY <1>1
  <2>4. Bytes(from, Size) \in Seq(M) /\ Bytes(0, tail) \in Seq(M)
    BY <1>2, <2>3
  <2>5. Bytes(from, Size) \o Bytes(0, tail) \in Seq(M)
    BY <2>4, Concatenation
  <2> QED BY <2>2, <2>5 DEF M
<1> QED BY <1>1, <1>3, <1>4

-----------------------------------------------------------------------------
(* The steps, one conjunct of the invariant at a time. *)

(* What the two steps that copy a message do. *)
LEMMA StoreSteps ==
  ASSUME SlogInv, StoreMessage \/ StoreFirstPart
  PROVE  /\ \E k \in 0 .. Size - shbuf.tail :
               /\ Stored(k, NewTail(shbuf.tail, k)) /\ k <= syslogd.left
               /\ syslogd'.left = syslogd.left - k
               /\ StoreMessage => k = syslogd.left
         /\ shbuf.size = Size /\ base' = base
<1>1. shbuf.size = Size /\ base' = base
  BY DEF SlogInv, StageOK, StoreMessage, StoreFirstPart, At
<1>2. /\ Size \in Nat \ {0} /\ shbuf.tail \in 0 .. Size - 1
      /\ syslogd.left \in 0 .. Size
      /\ syslogd \in SyslogdState
  BY Sizes DEF SlogInv, SyslogTypeOK
<1>3. CASE StoreMessage
  <2> DEFINE k == syslogd.left
  <2>1. shbuf.tail + k < Size /\ Stored(k, shbuf.tail + k) /\ syslogd'.left = 0
    BY <1>1, <1>2, <1>3 DEF StoreMessage
  <2>2. NewTail(shbuf.tail, k) = shbuf.tail + k /\ k \in 0 .. Size - shbuf.tail
    BY <1>2, <2>1 DEF NewTail
  <2> QED BY <1>1, <1>2, <2>1, <2>2
<1>4. CASE StoreFirstPart
  <2> DEFINE k == Size - shbuf.tail
  <2>1. /\ shbuf.tail + syslogd.left >= Size /\ Stored(k, 0)
        /\ syslogd'.left = syslogd.left - k
    BY <1>1, <1>2, <1>4 DEF StoreFirstPart
  <2>2. /\ NewTail(shbuf.tail, k) = 0 /\ k \in 0 .. Size - shbuf.tail
        /\ k <= syslogd.left
    BY <1>2, <2>1 DEF NewTail
  <2>3. ~StoreMessage
    BY <1>1, <1>2, <2>1 DEF StoreMessage
  <2> QED BY <1>1, <2>1, <2>2, <2>3
<1> QED BY <1>3, <1>4

(* Where logread starts to copy. *)
From(r) == IF r \in Follower THEN logread[r].cur ELSE Oldest(logread[r].cur)

LEMMA FetchStep ==
  ASSUME SyslogTypeOK, NEW r \in Reader, Fetch(r)
  PROVE  /\ From(r) \in 0 .. Size - 1 /\ Copied(From(r)) \in Seq(Char)
         /\ Becomes(r, [logread[r] EXCEPT !.pc = "up", !.copy = Copied(From(r)),
                                          !.cur = shbuf.tail, !.seen = logread[r].at,
                                          !.at = Len(stream)])
<1>1. logread[r].cur \in 0 .. Size - 1
  BY DEF SyslogTypeOK, ReaderState
<1>2. From(r) \in 0 .. Size - 1
  BY <1>1, OldestInRange DEF From
<1>3. /\ ~(From(r) > shbuf.tail /\ shbuf.size < From(r))
      /\ Becomes(r, [logread[r] EXCEPT !.pc = "up", !.copy = Copied(From(r)),
                                       !.cur = shbuf.tail, !.seen = logread[r].at,
                                       !.at = Len(stream)])
  BY DEF Fetch, From
<1>4. Copied(From(r)) \in Seq(Char)
  BY <1>2, <1>3, CopiedType DEF Char
<1> QED BY <1>2, <1>3, <1>4

(* A step of a reader gives it a new state. *)
LEMMA ReaderSteps ==
  ASSUME SyslogTypeOK, NEW r \in Reader,
         Open(r) \/ SMrdn(r) \/ Undefined(r) \/ Wake(r) \/ Interrupted(r)
         \/ NothingNew(r) \/ SMrup(r) \/ Fetch(r)
  PROVE  \E l \in ReaderState : Becomes(r, l)
<1>1. logread[r] \in ReaderState /\ shbuf.tail \in 0 .. Size - 1 /\ Len(stream) \in Nat
  BY Sizes DEF SyslogTypeOK
<1>2. \A pc \in {"semop", "fetch", "off", "up", "sleep", "gone", "undefined"} :
         [logread[r] EXCEPT !.pc = pc] \in ReaderState
  BY <1>1 DEF ReaderState
<1>3. CASE SMrdn(r) \/ Undefined(r) \/ Wake(r) \/ Interrupted(r)
  BY <1>2, <1>3 DEF SMrdn, Undefined, Wake, Interrupted, Goes
<1>4. CASE Open(r)
  <2>1. [logread[r] EXCEPT !.pc = "semop", !.cur = shbuf.tail,
                           !.seen = Len(stream), !.at = Len(stream)] \in ReaderState
    BY <1>1 DEF ReaderState
  <2> QED BY <1>4, <2>1 DEF Open
<1>5. CASE NothingNew(r)
  <2>1. logread[r].at \in Nat BY <1>1 DEF ReaderState
  <2>2. [logread[r] EXCEPT !.pc = "sleep", !.seen = logread[r].at, !.at = Len(stream)]
           \in ReaderState
    BY <1>1, <2>1 DEF ReaderState
  <2> QED BY <1>5, <2>2 DEF NothingNew
<1>6. CASE SMrup(r)
  <2>1. \A pc \in {"semop", "off"} :
           [logread[r] EXCEPT !.copy = << >>, !.pc = pc] \in ReaderState
    <3>1. << >> \in Seq(Char)
      OBVIOUS
    <3> QED BY <1>1, <3>1 DEF ReaderState
  <2>2. Becomes(r, [logread[r] EXCEPT !.copy = << >>,
                       !.pc = IF r \in Follower THEN "semop" ELSE "off"])
    BY <1>6 DEF SMrup
  <2> QED BY <2>1, <2>2
<1>7. CASE Fetch(r)
  <2> DEFINE c == Copied(From(r))
             a == logread[r].at
  <2>1. c \in Seq(Char) /\ Becomes(r, [logread[r] EXCEPT !.pc = "up", !.copy = c,
                               !.cur = shbuf.tail, !.seen = a, !.at = Len(stream)])
    BY <1>7, FetchStep
  <2>2. a \in Nat BY <1>1 DEF ReaderState
  <2> HIDE DEF c, a
  <2>3. [logread[r] EXCEPT !.pc = "up", !.copy = c, !.cur = shbuf.tail,
                           !.seen = a, !.at = Len(stream)] \in ReaderState
    BY <1>1, <2>1, <2>2 DEF ReaderState
  <2> QED BY <2>1, <2>3
<1> QED BY <1>3, <1>4, <1>5, <1>6, <1>7

LEMMA TypeStep ==
  ASSUME SlogInv, Next
  PROVE  SyslogTypeOK'
<1> USE DEF SlogInv
<1> DEFINE U == [messages: Char, starts: Nat, kills: Nat]
<1>1. /\ Size \in Nat \ {0} /\ MaxMessages \in Nat \ {0} /\ MessageLen \subseteq 0 .. Size
      /\ syslogd \in SyslogdState /\ used \in U /\ shbuf \in Segment
      /\ Len(stream) \in Nat /\ used.messages \in 0 .. MaxMessages /\ Char = 0 .. MaxMessages
  BY SyslogAssumption, Sizes DEF SyslogTypeOK, Char
<1>2. \A pc \in {"off", "init", "read", "semop", "copy", "up", "stop", "cleanup"} :
         [syslogd EXCEPT !.pc = pc] \in SyslogdState
  BY <1>1 DEF SyslogdState
<1>3. ASSUME UNCHANGED <<shbuf, stream, base, logread, torn, cleared>>, used' \in U,
             syslogd' \in SyslogdState, ipc' \in BOOLEAN, writing' \in BOOLEAN,
             bb_got_signal' \in BOOLEAN, counted' \subseteq Reader
      PROVE  SyslogTypeOK'
  BY <1>3 DEF SyslogTypeOK
<1>4. ASSUME ipcsyslog_init PROVE SyslogTypeOK'
  <2>1. shbuf' \in Segment /\ shbuf'.data[Size] = 0
    BY <1>1, <1>4 DEF ipcsyslog_init, Segment, Cleared, Index
  <2>2. syslogd' \in SyslogdState
    BY <1>1, <1>4 DEF ipcsyslog_init, SyslogdState
  <2>3. used' \in U
    BY <1>1, <1>4 DEF ipcsyslog_init
  <2>4. torn' \subseteq Reader /\ cleared' \subseteq Reader
    BY <1>4 DEF ipcsyslog_init, SyslogTypeOK
  <2> QED BY <1>1, <1>4, <2>1, <2>2, <2>3, <2>4 DEF ipcsyslog_init, SyslogTypeOK
<1>5. ASSUME NEW len \in MessageLen, Ask(len), used.messages + 1 <= MaxMessages
      PROVE  used' \in U /\ syslogd' \in SyslogdState
  <2>1. used.messages + 1 \in Char /\ len \in 0 .. Size
    BY <1>1, <1>5
  <2>2. syslogd' \in SyslogdState
    BY <1>1, <1>5, <2>1 DEF Ask, SyslogdState
  <2>3. used' \in U
    BY <1>1, <1>5, <2>1 DEF Ask
  <2> QED BY <2>2, <2>3
<1>6. ASSUME NEW len \in MessageLen, SetSize(len) PROVE SyslogTypeOK'
  <2>1. used.messages + 1 <= MaxMessages
    BY <1>1, <1>6 DEF SetSize, StageOK
  <2>2. used' \in U /\ syslogd' \in SyslogdState
    BY <1>5, <1>6, <2>1 DEF SetSize
  <2>3. shbuf' \in Segment /\ shbuf'.data = shbuf.data
    BY <1>1, <1>6 DEF SetSize, Segment
  <2> QED BY <1>6, <2>2, <2>3 DEF SetSize, SyslogTypeOK, history
<1>7. ASSUME NEW len \in MessageLen, Read(len) PROVE SyslogTypeOK'
  <2>1. used.messages + 1 <= MaxMessages
    BY <1>1, <1>7 DEF Read
  <2>2. used' \in U /\ syslogd' \in SyslogdState
    BY <1>5, <1>7, <2>1 DEF Read
  <2> QED BY <1>7, <2>2 DEF Read, SyslogTypeOK, history
<1>8. ASSUME NEW len \in MessageLen, Stop(len) PROVE SyslogTypeOK'
  <2>1. used.messages + 1 \in Char /\ len \in 0 .. Size
    BY <1>1, <1>8 DEF Stop, StageOK
  <2>2. syslogd' \in SyslogdState
    BY <1>1, <1>8, <2>1 DEF Stop, SyslogdState
  <2>3. used' \in U
    BY <1>1, <1>8, <2>1 DEF Stop
  <2> QED BY <1>8, <2>2, <2>3 DEF Stop, SyslogTypeOK, history
<1>9. ASSUME StoreMessage \/ StoreFirstPart PROVE SyslogTypeOK'
  <2>1. PICK k \in 0 .. Size - shbuf.tail :
           /\ Stored(k, NewTail(shbuf.tail, k)) /\ k <= syslogd.left
           /\ syslogd'.left = syslogd.left - k
    BY <1>9, StoreSteps
  <2>2. shbuf.size = Size /\ base' = base
    BY <1>9, StoreSteps
  <2>3. shbuf' \in Segment /\ shbuf'.data[Size] = 0 /\ stream' \in Seq(Char)
    BY <2>1, <2>2, StoredBytes DEF Char
  <2>4. syslogd' \in SyslogdState
    <3>1. syslogd.left - k \in 0 .. Size
      BY <2>1, Sizes
    <3>2. \/ syslogd' = [syslogd EXCEPT !.pc = "up", !.left = 0]
          \/ syslogd' = [syslogd EXCEPT !.left = syslogd.left - (shbuf.size - shbuf.tail)]
      BY <1>9 DEF StoreMessage, StoreFirstPart
    <3> QED BY <1>1, <2>1, <3>1, <3>2 DEF SyslogdState
  <2> QED BY <1>9, <2>2, <2>3, <2>4 DEF StoreMessage, StoreFirstPart, SyslogTypeOK
<1>10. ASSUME SMwdn \/ SMwup \/ Signal \/ SignalWhileWaiting PROVE SyslogTypeOK'
  <2>1. syslogd' \in SyslogdState
    <3>1. CASE SMwdn
      BY <1>2, <3>1 DEF SMwdn
    <3>2. CASE SMwup
      BY <1>2, <3>2 DEF SMwup
    <3>3. CASE Signal
      <4>1. PICK pc \in IF At("read") THEN {"read", "stop"} ELSE {syslogd.pc} :
               syslogd' = [syslogd EXCEPT !.pc = pc]
        BY <3>3 DEF Signal
      <4>2. pc \in {"off", "init", "read", "semop", "copy", "up", "stop", "cleanup"}
        BY <1>1 DEF SyslogdState
      <4> QED BY <1>2, <4>1, <4>2
    <3>4. CASE SignalWhileWaiting
      BY <1>2, <3>4 DEF SignalWhileWaiting
    <3> QED BY <1>10, <3>1, <3>2, <3>3, <3>4
  <2> QED BY <1>10, <2>1 DEF SMwdn, SMwup, Signal, SignalWhileWaiting, SyslogTypeOK, history
<1>11. ASSUME Killed PROVE SyslogTypeOK'
  <2>1. syslogd' \in SyslogdState
    BY <1>2, <1>11 DEF Killed
  <2>2. used' \in U
    BY <1>1, <1>11 DEF Killed
  <2> QED BY <1>11, <2>1, <2>2 DEF Killed, SyslogTypeOK, history
<1>12. ASSUME ipcsyslog_cleanup PROVE SyslogTypeOK'
  <2>1. syslogd' \in SyslogdState
    BY <1>2, <1>12 DEF ipcsyslog_cleanup
  <2>2. \A l \in ReaderState : [l EXCEPT !.pc = "gone"] \in ReaderState
    BY DEF ReaderState
  <2>3. logread' \in [Reader -> ReaderState]
    BY <1>12, <2>2 DEF ipcsyslog_cleanup, SyslogTypeOK
  <2> QED BY <1>12, <2>1, <2>3 DEF ipcsyslog_cleanup, SyslogTypeOK, history
<1>13. ASSUME NEW r \in Reader,
              Open(r) \/ SMrdn(r) \/ Undefined(r) \/ Wake(r) \/ Interrupted(r)
              \/ NothingNew(r) \/ SMrup(r) \/ Fetch(r)
       PROVE  SyslogTypeOK'
  <2>1. PICK l \in ReaderState : Becomes(r, l)
    BY <1>13, ReaderSteps
  <2>2. logread' \in [Reader -> ReaderState]
    BY <2>1 DEF Becomes, SyslogTypeOK
  <2>3. used' \in U
    BY <1>1, <1>13 DEF Open, SMrdn, Undefined, Wake, Interrupted, NothingNew, SMrup, Fetch
  <2>4. counted' \subseteq Reader /\ cleared' \subseteq Reader /\ torn' \subseteq Reader
    BY <1>13 DEF Open, SMrdn, Undefined, Wake, Interrupted, NothingNew, SMrup, Fetch,
                 Looked, SyslogTypeOK, history
  <2>5. UNCHANGED <<shbuf, ipc, writing, syslogd, stream, base, bb_got_signal>>
    BY <1>13 DEF Open, SMrdn, Undefined, Wake, Interrupted, NothingNew, SMrup, Fetch, history
  <2> QED BY <2>2, <2>3, <2>4, <2>5 DEF SyslogTypeOK
<1> QED BY <1>4, <1>6, <1>7, <1>8, <1>9, <1>10, <1>11, <1>12, <1>13
        DEF Next, SyslogdStep, ReaderStep

(* How the state of one reader changes, and that of the others does not. *)
LEMMA OneReader ==
  ASSUME SyslogTypeOK, NEW r \in Reader, NEW l, Becomes(r, l), NEW s \in Reader
  PROVE  logread'[s] = IF s = r THEN l ELSE logread[s]
  BY DEF Becomes, SyslogTypeOK

(* What each step of a reader does to it, and that it does no more. *)
LEMMA ReaderFields ==
  ASSUME SyslogTypeOK, NEW r \in Reader
  PROVE  /\ Open(r) => /\ logread[r].pc = "off"
                       /\ logread'[r].pc = "semop" /\ logread'[r].cur = shbuf.tail
                       /\ logread'[r].seen = Len(stream) /\ logread'[r].at = Len(stream)
         /\ SMrdn(r) \/ Undefined(r) \/ Wake(r) \/ Interrupted(r) =>
               /\ logread'[r].cur = logread[r].cur /\ logread'[r].seen = logread[r].seen
               /\ logread'[r].at = logread[r].at
               /\ logread'[r].pc \notin {"off", "up"} /\ logread[r].pc # "off"
         /\ SMrdn(r) => logread'[r].pc = "fetch" /\ logread[r].pc = "semop"
         /\ Wake(r) => logread'[r].pc = "semop" /\ logread[r].pc = "sleep"
         /\ Undefined(r) => logread'[r].pc = "undefined" /\ logread[r].pc = "fetch"
         /\ Interrupted(r) => logread'[r].pc = "gone"
         /\ NothingNew(r) => /\ logread[r].pc = "fetch" /\ logread'[r].pc = "sleep"
                             /\ logread'[r].at = Len(stream)
                             /\ logread'[r].cur = logread[r].cur
                             /\ logread'[r].seen = logread[r].at
         /\ SMrup(r) => /\ logread[r].pc = "up"
                        /\ logread'[r].pc = IF r \in Follower THEN "semop" ELSE "off"
                        /\ logread'[r].at = logread[r].at
                        /\ logread'[r].cur = logread[r].cur
         /\ Fetch(r) => /\ logread[r].pc = "fetch" /\ logread'[r].pc = "up"
                        /\ logread'[r].at = Len(stream) /\ logread'[r].cur = shbuf.tail
                        /\ logread'[r].seen = logread[r].at
                        /\ logread'[r].copy = Copied(From(r))
<1> DEFINE f == logread[r]
<1>1. f \in ReaderState /\ \A l : Becomes(r, l) => logread'[r] = l
  BY OneReader DEF SyslogTypeOK
<1>2. ASSUME Open(r)
      PROVE  logread'[r] = [f EXCEPT !.pc = "semop", !.cur = shbuf.tail,
                                     !.seen = Len(stream), !.at = Len(stream)]
             /\ f.pc = "off"
  BY <1>1, <1>2 DEF Open, ReaderAt
<1>3. ASSUME SMrdn(r) \/ Undefined(r) \/ Wake(r) \/ Interrupted(r)
      PROVE  \E pc \in {"semop", "fetch", "undefined", "gone"} :
                /\ logread'[r] = [f EXCEPT !.pc = pc] /\ f.pc # "off"
                /\ SMrdn(r) => pc = "fetch" /\ f.pc = "semop"
                /\ Wake(r) => pc = "semop" /\ f.pc = "sleep"
                /\ Undefined(r) => pc = "undefined" /\ f.pc = "fetch"
  <2>1. CASE SMrdn(r)
    BY <1>1, <2>1 DEF SMrdn, Goes, ReaderAt, Wake, Undefined, Interrupted
  <2>2. CASE Undefined(r)
    BY <1>1, <2>2 DEF SMrdn, Goes, ReaderAt, Wake, Undefined, Interrupted
  <2>3. CASE Wake(r)
    BY <1>1, <2>3 DEF SMrdn, Goes, ReaderAt, Wake, Undefined, Interrupted
  <2>4. CASE Interrupted(r) /\ ~SMrdn(r) /\ ~Undefined(r)
    BY <1>1, <2>4 DEF Goes, ReaderAt, Wake, Interrupted
  <2> QED BY <1>3, <2>1, <2>2, <2>3, <2>4
<1>8. ASSUME Interrupted(r) PROVE logread'[r] = [f EXCEPT !.pc = "gone"]
  BY <1>1, <1>8 DEF Interrupted, Goes
<1>4. ASSUME NothingNew(r)
      PROVE  logread'[r] = [f EXCEPT !.pc = "sleep", !.seen = f.at,
                                     !.at = Len(stream)] /\ f.pc = "fetch"
  BY <1>1, <1>4 DEF NothingNew, ReaderAt
<1>5. ASSUME SMrup(r)
      PROVE  /\ logread'[r] = [f EXCEPT !.copy = << >>,
                               !.pc = IF r \in Follower THEN "semop" ELSE "off"]
             /\ f.pc = "up"
  BY <1>1, <1>5 DEF SMrup, ReaderAt
<1>6. ASSUME Fetch(r)
      PROVE  /\ logread'[r] = [f EXCEPT !.pc = "up", !.copy = Copied(From(r)),
                                       !.cur = shbuf.tail, !.seen = f.at,
                                       !.at = Len(stream)]
             /\ f.pc = "fetch"
  BY <1>1, <1>6, FetchStep DEF Fetch, ReaderAt
<1> HIDE DEF f
<1>7. DOMAIN f = {"pc", "cur", "copy", "seen", "at"}
  BY <1>1 DEF ReaderState
<1> QED BY <1>2, <1>3, <1>4, <1>5, <1>6, <1>8, <1>1 DEF ReaderState, f

(* What each step of a reader does to the marks of the readers. *)
LEMMA ReaderMarks ==
  ASSUME NEW s \in Reader,
         Open(s) \/ SMrdn(s) \/ Undefined(s) \/ Wake(s) \/ Interrupted(s)
         \/ NothingNew(s) \/ SMrup(s) \/ Fetch(s)
  PROVE  /\ \A r \in Reader \ {s} : r \in cleared <=> r \in cleared'
         /\ \A r \in Reader \ {s} : r \in torn <=> r \in torn'
         /\ ~Open(s) /\ ~NothingNew(s) /\ ~Fetch(s) => cleared' = cleared
         /\ Open(s) \/ NothingNew(s) \/ Fetch(s) => cleared' = cleared \ {s}
         /\ (NothingNew(s) \/ Fetch(s)) /\ s \in cleared /\ s \in Follower
            => s \in torn'
<1>1. CASE Open(s)
  BY <1>1 DEF Open, SMrdn, Undefined, Wake, Interrupted, NothingNew, SMrup, Fetch,
              ReaderAt, history
<1>2. CASE SMrdn(s)
  BY <1>2 DEF Open, SMrdn, NothingNew, Fetch, ReaderAt
<1>3. ASSUME NothingNew(s) \/ Fetch(s)
      PROVE  /\ torn' = IF s \in cleared \cap Follower THEN torn \cup {s} ELSE torn
             /\ cleared' = cleared \ {s} /\ ReaderAt(s, "fetch")
  BY <1>3 DEF NothingNew, Fetch, Looked
<1>4. CASE NothingNew(s) \/ Fetch(s)
  <2>1. ~Open(s)
    BY <1>3, <1>4 DEF Open, ReaderAt
  <2>2. cleared' = cleared \ {s}
    BY <1>3, <1>4
  <2>3. /\ \A r \in Reader \ {s} : r \in torn <=> r \in torn'
        /\ s \in cleared /\ s \in Follower => s \in torn'
    BY <1>3, <1>4
  <2> QED BY <1>4, <2>1, <2>2, <2>3
<1>5. CASE /\ ~Open(s) /\ ~NothingNew(s) /\ ~Fetch(s)
           /\ Undefined(s) \/ Wake(s) \/ Interrupted(s) \/ SMrup(s)
  <2>1. cleared' = cleared /\ torn' = torn
    BY <1>5 DEF Undefined, Wake, Interrupted, SMrup, history
  <2> QED BY <1>5, <2>1
<1> QED BY <1>1, <1>2, <1>4, <1>5

LEMMA LockStep ==
  ASSUME SlogInv, Next
  PROVE  LockOK'
<1> USE DEF SlogInv
<1>1. syslogd \in SyslogdState /\ DOMAIN syslogd = {"pc", "left", "text", "back"}
  BY DEF SyslogTypeOK, SyslogdState
<1>2. ASSUME /\ UNCHANGED <<writing, counted>>
             /\ syslogd' = syslogd \/ syslogd'.pc \notin {"copy", "up", "cleanup"}
             /\ logread' = logread
      PROVE  LockOK'
  BY <1>2 DEF LockOK, At
<1>3. ASSUME ipcsyslog_init \/ SignalWhileWaiting \/ Killed PROVE LockOK'
  BY <1>1, <1>2, <1>3 DEF ipcsyslog_init, SignalWhileWaiting, Killed, At
<1>4. ASSUME NEW len \in MessageLen, SetSize(len) \/ Read(len) \/ Stop(len) PROVE LockOK'
  BY <1>1, <1>2, <1>4 DEF SetSize, Read, Stop, Ask, At
<1>5. ASSUME SMwdn PROVE LockOK'
  BY <1>1, <1>5 DEF SMwdn, LockOK, At
<1>6. ASSUME StoreMessage \/ StoreFirstPart PROVE LockOK'
  BY <1>1, <1>6 DEF StoreMessage, StoreFirstPart, LockOK, At
<1>7. ASSUME SMwup PROVE LockOK'
  BY <1>1, <1>7 DEF SMwup, LockOK, At
<1>8. ASSUME Signal PROVE LockOK'
  <2>1. PICK pc \in IF At("read") THEN {"read", "stop"} ELSE {syslogd.pc} :
           syslogd' = [syslogd EXCEPT !.pc = pc]
    BY <1>8 DEF Signal
  <2>2. syslogd'.pc = pc /\ (pc = syslogd.pc \/ pc = "stop" \/ pc = "read")
    BY <1>1, <2>1
  <2> QED BY <1>8, <2>2 DEF Signal, LockOK, At
<1>9. ASSUME ipcsyslog_cleanup PROVE LockOK'
  <2>1. syslogd'.pc = "off" /\ counted' = {} /\ ~writing'
    BY <1>1, <1>9 DEF ipcsyslog_cleanup
  <2>2. \A r \in Reader : logread'[r].pc \notin {"fetch", "up"}
    BY <1>9 DEF ipcsyslog_cleanup, SyslogTypeOK, ReaderState
  <2> QED BY <2>1, <2>2 DEF LockOK, At
<1>10. ASSUME NEW r \in Reader,
              Open(r) \/ SMrdn(r) \/ Undefined(r) \/ Wake(r) \/ Interrupted(r)
              \/ NothingNew(r) \/ SMrup(r) \/ Fetch(r)
       PROVE  LockOK'
  <2>1. UNCHANGED <<writing, syslogd>>
    BY <1>10 DEF Open, SMrdn, Undefined, Wake, Interrupted, NothingNew, SMrup, Fetch
  <2>2. \A s \in Reader : s # r => logread'[s] = logread[s]
    BY <1>10, ReaderSteps, OneReader
  <2>3. CASE SMrdn(r)
    BY <2>1, <2>2, <2>3 DEF SMrdn, LockOK, At
  <2>4. CASE Fetch(r)
    <3>1. counted' = counted /\ logread[r].pc = "fetch"
      BY <2>4, ReaderFields DEF Fetch
    <3> QED BY <2>1, <2>2, <3>1 DEF LockOK, At
  <2>5. CASE Open(r) \/ Wake(r)
    BY <2>1, <2>2, <2>5, ReaderFields DEF Open, Wake, LockOK, At
  <2>6. CASE Undefined(r) \/ Interrupted(r) \/ NothingNew(r) \/ SMrup(r)
    <3>1. logread'[r].pc \notin {"fetch", "up"}
      BY <2>6, ReaderFields
    <3>2. counted' = counted \ {r}
      BY <2>6 DEF Undefined, Interrupted, NothingNew, SMrup
    <3> QED BY <2>1, <2>2, <3>1, <3>2 DEF LockOK, At
  <2> QED BY <1>10, <2>3, <2>4, <2>5, <2>6
<1> QED BY <1>3, <1>4, <1>5, <1>6, <1>7, <1>8, <1>9, <1>10 DEF Next, SyslogdStep, ReaderStep

LEMMA StageStep ==
  ASSUME SlogInv, Next
  PROVE  StageOK'
<1> USE DEF SlogInv
<1>1. /\ syslogd \in SyslogdState /\ DOMAIN syslogd = {"pc", "left", "text", "back"}
      /\ used \in [messages: Char, starts: Nat, kills: Nat]
      /\ MaxMessages \in Nat /\ used.messages \in Nat
  BY SyslogAssumption DEF SyslogTypeOK, SyslogdState, Char
<1>2. ASSUME ipcsyslog_init PROVE StageOK'
  <2>1. syslogd'.pc = "init" /\ used'.messages = used.messages
    BY <1>1, <1>2 DEF ipcsyslog_init
  <2> QED BY <1>2, <2>1 DEF ipcsyslog_init, StageOK, At
<1>3. ASSUME NEW len \in MessageLen, SetSize(len) \/ Read(len) PROVE StageOK'
  <2>1. syslogd'.pc = "semop" /\ used'.messages = used.messages + 1
    BY <1>1, <1>3 DEF SetSize, Read, Ask
  <2>2. shbuf'.size = Size
    BY <1>3 DEF SetSize, Read, StageOK, SyslogTypeOK, Segment, At
  <2>3. used.messages + 2 <= MaxMessages
    BY <1>3 DEF SetSize, Read, StageOK
  <2> QED BY <1>1, <2>1, <2>2, <2>3 DEF StageOK, At
<1>4. ASSUME NEW len \in MessageLen, Stop(len) PROVE StageOK'
  <2>1. syslogd'.pc = "semop" /\ syslogd'.back = "cleanup"
    BY <1>1, <1>4 DEF Stop
  <2> QED BY <1>4, <2>1 DEF Stop, StageOK, At
<1>5. ASSUME StoreMessage \/ StoreFirstPart PROVE StageOK'
  <2>1. shbuf'.size = shbuf.size
    BY <1>5 DEF StoreMessage, StoreFirstPart, Stored, SyslogTypeOK, Segment
  <2>2. At("copy") /\ syslogd'.back = syslogd.back /\ syslogd'.pc \in {"copy", "up"}
        /\ used' = used
    BY <1>1, <1>5 DEF StoreMessage, StoreFirstPart, At
  <2> QED BY <2>1, <2>2 DEF StageOK, At
<1>6. ASSUME SMwdn PROVE StageOK'
  <2>1. syslogd'.pc = "copy" /\ syslogd'.back = syslogd.back
    BY <1>1, <1>6 DEF SMwdn
  <2> QED BY <1>6, <2>1 DEF SMwdn, StageOK, At
<1>7. ASSUME SMwup PROVE StageOK'
  <2>1. /\ syslogd'.back = syslogd.back
        /\ syslogd'.pc \in {"cleanup", "stop", "read"}
        /\ syslogd'.pc # "cleanup" => syslogd.back = "loop"
    BY <1>1, <1>7 DEF SMwup, SyslogdState
  <2> QED BY <1>7, <2>1 DEF SMwup, StageOK, At
<1>8. ASSUME SignalWhileWaiting \/ Killed \/ ipcsyslog_cleanup PROVE StageOK'
  <2>1. syslogd'.pc = "off"
    BY <1>1, <1>8 DEF SignalWhileWaiting, Killed, ipcsyslog_cleanup
  <2> QED BY <2>1 DEF StageOK, At
<1>9. ASSUME Signal PROVE StageOK'
  <2>1. PICK pc \in IF At("read") THEN {"read", "stop"} ELSE {syslogd.pc} :
           syslogd' = [syslogd EXCEPT !.pc = pc]
    BY <1>9 DEF Signal
  <2>2. /\ syslogd'.pc = pc /\ syslogd'.back = syslogd.back
        /\ pc = syslogd.pc \/ (At("read") /\ pc = "stop")
    BY <1>1, <2>1 DEF At
  <2> QED BY <1>9, <2>2 DEF Signal, StageOK, At
<1>10. ASSUME NEW r \in Reader,
              Open(r) \/ SMrdn(r) \/ Undefined(r) \/ Wake(r) \/ Interrupted(r)
              \/ NothingNew(r) \/ SMrup(r) \/ Fetch(r)
       PROVE  StageOK'
  <2>1. UNCHANGED <<syslogd, shbuf>> /\ used'.messages = used.messages
    BY <1>1, <1>10 DEF Open, SMrdn, Undefined, Wake, Interrupted, NothingNew, SMrup, Fetch
  <2> QED BY <2>1 DEF StageOK, At
<1> QED BY <1>2, <1>3, <1>4, <1>5, <1>6, <1>7, <1>8, <1>9, <1>10
        DEF Next, SyslogdStep, ReaderStep

(* Steps that leave the buffer and the log alone. *)
Quiet == UNCHANGED <<shbuf, stream, base>>

LEMMA QuietSteps ==
  ASSUME \/ \E r \in Reader :
               Open(r) \/ SMrdn(r) \/ Undefined(r) \/ Wake(r) \/ Interrupted(r)
               \/ NothingNew(r) \/ SMrup(r) \/ Fetch(r)
         \/ SMwdn \/ SMwup \/ Signal \/ SignalWhileWaiting \/ Killed \/ ipcsyslog_cleanup
         \/ \E len \in MessageLen : Read(len) \/ Stop(len)
  PROVE  Quiet
  BY DEF Quiet, Open, SMrdn, Undefined, Wake, Interrupted, NothingNew, SMrup, Fetch, SMwdn,
         SMwup, Signal, SignalWhileWaiting, Killed, ipcsyslog_cleanup, Read, Stop, history

LEMMA NothingStored ==
  ASSUME SyslogTypeOK, Stored(0, NewTail(shbuf.tail, 0))
  PROVE  shbuf' = shbuf
<1> DEFINE w == Chunk(0)
<1>1. Len(w) = 0
  BY DEF Chunk
<1>2. \A i \in Index : i \notin shbuf.tail .. shbuf.tail + Len(w) - 1
  <2> HIDE DEF w
  <2> QED BY <1>1, Sizes
<1>3. Placed(shbuf.data, shbuf.tail, w) = shbuf.data
  <2> HIDE DEF w
  <2> QED BY <1>2, Sizes DEF Placed
<1>4. NewTail(shbuf.tail, 0) = shbuf.tail
  BY Sizes DEF NewTail
<1>5. shbuf' = [shbuf EXCEPT !.data = shbuf.data, !.tail = shbuf.tail]
  BY <1>3, <1>4 DEF Stored
<1> QED BY <1>5 DEF SyslogTypeOK, Segment

LEMMA RingStep ==
  ASSUME SlogInv, Next
  PROVE  RingOK'
<1> USE DEF SlogInv
<1>1. ASSUME Quiet PROVE RingOK'
  BY <1>1 DEF Quiet, RingOK, Ring
<1>2. ASSUME ipcsyslog_init PROVE RingOK'
  BY <1>2, Sizes DEF ipcsyslog_init, RingOK, Ring
<1>3. ASSUME NEW len \in MessageLen, SetSize(len) PROVE RingOK'
  <2>1. shbuf'.data = shbuf.data /\ shbuf'.tail = shbuf.tail /\ shbuf'.size = Size
    BY <1>3 DEF SetSize, SyslogTypeOK, Segment
  <2> QED BY <1>3, <2>1, Sizes DEF SetSize, RingOK, Ring, history
<1>4. ASSUME StoreMessage \/ StoreFirstPart PROVE RingOK'
  BY <1>4, StoreSteps, StoredBytes
<1> QED BY <1>1, <1>2, <1>3, <1>4, QuietSteps DEF Next, SyslogdStep, ReaderStep

LEMMA NulStep ==
  ASSUME SlogInv, Next
  PROVE  NulOK'
<1> USE DEF SlogInv
<1>1. syslogd \in SyslogdState /\ DOMAIN syslogd = {"pc", "left", "text", "back"}
  BY DEF SyslogTypeOK, SyslogdState
<1>2. ASSUME Quiet, ~writing' => ~writing, syslogd'.pc \notin {"init", "up", "copy"}
      PROVE  NulOK'
  BY <1>2 DEF Quiet, NulOK, At, Back
<1>3. ASSUME Quiet, UNCHANGED <<writing, syslogd>> PROVE NulOK'
  BY <1>3 DEF Quiet, NulOK, At, Back
<1>4. ASSUME ipcsyslog_init PROVE NulOK'
  <2>1. shbuf'.size = 0 /\ shbuf'.tail = 0 /\ shbuf'.data = Cleared
    BY <1>4 DEF ipcsyslog_init
  <2>2. Back(1)' \in Index
    BY <2>1, Sizes DEF Back, Before
  <2> QED BY <2>1, <2>2, Sizes DEF NulOK, Cleared
<1>5. ASSUME NEW len \in MessageLen, SetSize(len) PROVE NulOK'
  <2>1. shbuf'.data = shbuf.data /\ shbuf'.tail = shbuf.tail
    BY <1>5 DEF SetSize, SyslogTypeOK, Segment
  <2> QED BY <1>5, <2>1 DEF SetSize, NulOK, Back
<1>6. ASSUME NEW len \in MessageLen, Read(len) \/ Stop(len) PROVE NulOK'
  <2>1. syslogd'.pc = "semop" /\ writing' = writing /\ Quiet
    BY <1>1, <1>6, QuietSteps DEF Read, Stop, Ask, Quiet, history
  <2> QED BY <1>2, <2>1
<1>7. ASSUME SignalWhileWaiting \/ Killed PROVE NulOK'
  <2>1. syslogd'.pc = "off" /\ writing' = writing /\ Quiet
    BY <1>1, <1>7 DEF SignalWhileWaiting, Killed, Quiet, history
  <2> QED BY <1>2, <2>1
<1>8. ASSUME ipcsyslog_cleanup PROVE NulOK'
  <2>1. syslogd'.pc = "off" /\ ~writing /\ Quiet
    BY <1>1, <1>8 DEF ipcsyslog_cleanup, LockOK, Quiet, history
  <2> QED BY <1>2, <2>1
<1>9. ASSUME SMwdn PROVE NulOK'
  <2>1. ~writing /\ Quiet /\ syslogd'.pc = "copy"
    BY <1>1, <1>9 DEF SMwdn, Quiet, history
  <2>2. shbuf.size = Size
    BY <1>9 DEF SMwdn, StageOK, At
  <2> QED BY <2>1, <2>2 DEF Quiet, NulOK, At, Back
<1>10. ASSUME SMwup PROVE NulOK'
  <2>1. Quiet /\ At("up") /\ syslogd'.pc \in {"cleanup", "stop", "read"}
    BY <1>1, <1>10 DEF SMwup, Quiet, history
  <2>2. shbuf.size = Size
    BY <2>1 DEF StageOK, At
  <2> QED BY <2>1, <2>2 DEF Quiet, NulOK, At, Back
<1>11. ASSUME Signal PROVE NulOK'
  <2>1. PICK pc \in IF At("read") THEN {"read", "stop"} ELSE {syslogd.pc} :
           syslogd' = [syslogd EXCEPT !.pc = pc]
    BY <1>11 DEF Signal
  <2>2. /\ syslogd'.pc = pc /\ syslogd'.left = syslogd.left
        /\ pc = syslogd.pc \/ pc = "stop"
    BY <1>1, <2>1 DEF At
  <2>3. Quiet /\ writing' = writing
    BY <1>11 DEF Signal, Quiet, history
  <2> QED BY <2>2, <2>3 DEF Quiet, NulOK, At, Back
<1>12. ASSUME StoreMessage \/ StoreFirstPart PROVE NulOK'
  <2>1. PICK k \in 0 .. Size - shbuf.tail :
           /\ Stored(k, NewTail(shbuf.tail, k)) /\ k <= syslogd.left
           /\ syslogd'.left = syslogd.left - k /\ (StoreMessage => k = syslogd.left)
    BY <1>12, StoreSteps
  <2>2. /\ At("copy") /\ writing /\ writing' = writing
        /\ syslogd'.pc = IF StoreMessage THEN "up" ELSE "copy"
    <3>1. At("copy") /\ writing /\ writing' = writing
      BY <1>12 DEF StoreMessage, StoreFirstPart, LockOK
    <3>2. CASE StoreMessage
      BY <1>1, <3>1, <3>2 DEF StoreMessage
    <3>3. CASE StoreFirstPart /\ ~StoreMessage
      BY <1>1, <3>1, <3>3 DEF StoreFirstPart, At
    <3> QED BY <1>12, <3>1, <3>2, <3>3
  <2>3. CASE k = 0
    <3>1. shbuf' = shbuf
      BY <2>1, <2>3, NothingStored
    <3>2. StoreMessage => syslogd.left = 0
      BY <2>1, <2>3
    <3>3. syslogd'.left = syslogd.left
      BY <2>1, <2>3, Sizes
    <3> QED BY <2>2, <3>1, <3>2, <3>3 DEF NulOK, At, Back
  <2>4. CASE k > 0
    <3>1. k = syslogd.left => shbuf'.data[Back(1)'] = 0
      BY <1>12, <2>1, <2>4, StoreSteps, StoredBytes
    <3>2. syslogd'.left = 0 => k = syslogd.left
      BY <2>1, Sizes
    <3> QED BY <2>1, <2>2, <3>1, <3>2 DEF NulOK, At, Back
  <2> QED BY <2>3, <2>4, Sizes
<1>13. ASSUME NEW r \in Reader,
              Open(r) \/ SMrdn(r) \/ Undefined(r) \/ Wake(r) \/ Interrupted(r)
              \/ NothingNew(r) \/ SMrup(r) \/ Fetch(r)
       PROVE  NulOK'
  <2>1. Quiet /\ UNCHANGED <<writing, syslogd>>
    BY <1>13, QuietSteps DEF Open, SMrdn, Undefined, Wake, Interrupted, NothingNew, SMrup,
                             Fetch
  <2> QED BY <1>3, <2>1
<1> QED BY <1>4, <1>5, <1>6, <1>7, <1>8, <1>9, <1>10, <1>11, <1>12, <1>13
        DEF Next, SyslogdStep, ReaderStep

-----------------------------------------------------------------------------
(* What logread -f reads is what was written. *)

(* The bytes a + 1 to b of a sequence. *)
Slice(s, a, b) == [i \in 1 .. b - a |-> s[a + i]]

LEMMA SliceType ==
  ASSUME NEW C, NEW s \in Seq(C), NEW a \in Nat, NEW b \in Nat, a <= b, b <= Len(s)
  PROVE  /\ Slice(s, a, b) \in Seq(C) /\ Len(Slice(s, a, b)) = b - a
         /\ \A i \in 1 .. b - a : Slice(s, a, b)[i] = s[a + i]
<1>1. b - a \in Nat /\ \A i \in 1 .. b - a : a + i \in 1 .. Len(s)
  OBVIOUS
<1>2. \A i \in 1 .. b - a : s[a + i] \in C
  BY <1>1
<1> QED BY <1>1, <1>2 DEF Slice

LEMMA EqualSequences ==
  ASSUME NEW C, NEW u \in Seq(C), NEW w \in Seq(C), Len(u) = Len(w),
         \A i \in 1 .. Len(u) : u[i] = w[i]
  PROVE  u = w
  OBVIOUS

LEMMA SlicesJoin ==
  ASSUME NEW C, NEW s \in Seq(C), NEW a \in Nat, NEW b \in Nat, NEW c \in Nat,
         a <= b, b <= c, c <= Len(s)
  PROVE  Slice(s, a, b) \o Slice(s, b, c) = Slice(s, a, c)
<1> DEFINE u == Slice(s, a, b)
           v == Slice(s, b, c)
           w == Slice(s, a, c)
<1>0. b <= Len(s) /\ a <= c /\ b - a \in Nat /\ c - b \in Nat
  OBVIOUS
<1>1. u \in Seq(C) /\ Len(u) = b - a /\ \A i \in 1 .. b - a : u[i] = s[a + i]
  BY <1>0, SliceType
<1>2. v \in Seq(C) /\ Len(v) = c - b /\ \A i \in 1 .. c - b : v[i] = s[b + i]
  BY <1>0, SliceType
<1>3. w \in Seq(C) /\ Len(w) = c - a /\ \A i \in 1 .. c - a : w[i] = s[a + i]
  BY <1>0, SliceType
<1> HIDE DEF u, v, w
<1>4. /\ u \o v \in Seq(C) /\ Len(u \o v) = Len(u) + Len(v)
      /\ \A i \in 1 .. Len(u) : (u \o v)[i] = u[i]
      /\ \A i \in 1 .. Len(v) : (u \o v)[Len(u) + i] = v[i]
  <2>1. u \in Seq(C) /\ v \in Seq(C)
    BY <1>1, <1>2
  <2> QED BY <2>1, Concatenation
<1>5. ASSUME NEW i \in 1 .. c - a PROVE (u \o v)[i] = w[i]
  <2>1. CASE i <= b - a
    BY <1>0, <1>1, <1>3, <1>4, <2>1
  <2>2. CASE i > b - a
    <3>1. PICK j \in 1 .. c - b : i = (b - a) + j
      <4>1. i - (b - a) \in 1 .. c - b /\ i = (b - a) + (i - (b - a))
        BY <2>2
      <4> QED BY <4>1
    <3>2. (u \o v)[i] = v[j]
      BY <1>1, <1>2, <1>4, <3>1
    <3>3. b + j = a + i
      BY <3>1
    <3> QED BY <1>2, <1>3, <3>1, <3>2, <3>3
  <2>3. i <= b - a \/ i > b - a
    OBVIOUS
  <2> QED BY <2>1, <2>2, <2>3
<1>6. Len(u \o v) = c - a
  BY <1>1, <1>2, <1>4
<1>7. u \o v = w
  BY <1>3, <1>4, <1>5, <1>6, EqualSequences
<1> QED BY <1>7 DEF u, v, w

(* From a place on, m bytes of the buffer are those behind a of a sequence. *)
Matches(s, a, from, m) == \A i \in 1 .. m : shbuf.data[from + i - 1] = s[a + i]

LEMMA BytesAreSlice ==
  ASSUME NEW s, NEW a, NEW c, NEW from, NEW to, c - a = to - from,
         Matches(s, a, from, to - from)
  PROVE  Bytes(from, to) = Slice(s, a, c)
  BY DEF Bytes, Slice, Matches

(* What is copied from d bytes before tail on, when the buffer has the last *)
(* bytes of a sequence.                                                    *)
LEMMA CopiedIsSlice ==
  ASSUME SyslogTypeOK, NEW C, NEW u \in Seq(C), NEW b \in Nat, b <= Len(u),
         Ring(shbuf.data, shbuf.tail, u, b),
         NEW d \in 0 .. Size - 1, d <= Len(u) - b, d > 0 => shbuf.size = Size
  PROVE  Copied(Back(d)) = Slice(u, Len(u) - d, Len(u))
<1> DEFINE n == Len(u)
           tail == shbuf.tail
<1>1. /\ Size \in Nat \ {0} /\ tail \in 0 .. Size - 1 /\ n \in Nat /\ b \in Nat
      /\ shbuf.size \in {0, Size}
  <2>1. Len(u) \in Nat
    OBVIOUS
  <2> QED BY <2>1, Sizes
<1>2. ASSUME NEW j \in 1 .. d
      PROVE  shbuf.data[Before(tail, j, Size)] = u[n + 1 - j]
  <2>1. j \in 1 .. Size /\ j <= Len(u) - b
    BY <1>1
  <2> QED BY <2>1 DEF Ring
<1>3. Back(d) = Before(tail, d, Size)
  BY DEF Back
<1>5. n - d \in Nat /\ d <= n
  BY <1>1
<1>6. n <= Len(u)
  BY <1>1
<1> HIDE DEF n, tail
<1>7. CASE d <= tail
  <2>1. tail - d \in Nat /\ tail - (tail - d) = d /\ (n - d) + d = n /\ tail \in Nat
        /\ tail - d <= tail
    BY <1>1, <1>7
  <2>2. Back(d) = tail - d
    BY <1>3, <1>7 DEF Before
  <2>3. ASSUME NEW i \in 1 .. d
        PROVE  shbuf.data[(tail - d) + i - 1] = u[(n - d) + i]
    <3>1. d - i + 1 \in 1 .. d
      OBVIOUS
    <3>2. Before(tail, d - i + 1, Size) = (tail - d) + i - 1
      BY <1>1, <1>7 DEF Before
    <3>3. n + 1 - (d - i + 1) = (n - d) + i
      BY <1>1
    <3> QED BY <1>2, <3>1, <3>2, <3>3
  <2>4. Bytes(tail - d, tail) = Slice(u, n - d, n)
    <3>1. n - (n - d) = tail - (tail - d)
      BY <1>1, <2>1
    <3>2. Matches(u, n - d, tail - d, tail - (tail - d))
      BY <2>1, <2>3 DEF Matches
    <3> QED BY <3>1, <3>2, BytesAreSlice
  <2>5. Copied(tail - d) = Bytes(tail - d, tail)
    BY <2>1 DEF Copied, tail
  <2> QED BY <1>1, <1>5, <2>2, <2>4, <2>5 DEF n
<1>8. CASE d > tail
  <2> DEFINE x == tail - d + Size
  <2>1. /\ x \in Nat /\ Size - x = d - tail /\ x <= Size /\ ~(x <= tail) /\ tail \in Nat
        /\ Size \in Nat /\ 0 \in Nat /\ tail - 0 = tail /\ 0 <= tail
    BY <1>1, <1>8
  <2>2. Back(d) = x
    BY <1>1, <1>3, <1>8 DEF Before
  <2>3. shbuf.size = Size
    <3>1. d > 0
      BY <1>1, <1>8
    <3> QED BY <1>1, <3>1
  <2>4. n - tail \in Nat /\ (n - d) + (d - tail) = n - tail /\ (n - tail) + tail = n
        /\ n - d <= n - tail /\ n - tail <= n
    BY <1>1, <1>5, <1>8
  <2>5. ASSUME NEW i \in 1 .. d - tail
        PROVE  shbuf.data[x + i - 1] = u[(n - d) + i]
    <3>1. d - i + 1 \in 1 .. d
      BY <1>1
    <3>2. Before(tail, d - i + 1, Size) = x + i - 1
      BY <1>1, <1>8 DEF Before
    <3>3. n + 1 - (d - i + 1) = (n - d) + i
      BY <1>1
    <3> QED BY <1>2, <3>1, <3>2, <3>3
  <2>6. ASSUME NEW i \in 1 .. tail
        PROVE  shbuf.data[0 + i - 1] = u[(n - tail) + i]
    <3>1. tail - i + 1 \in 1 .. d
      BY <1>1, <1>8
    <3>2. Before(tail, tail - i + 1, Size) = 0 + i - 1
      BY <1>1, <1>8 DEF Before
    <3>3. n + 1 - (tail - i + 1) = (n - tail) + i
      BY <1>1
    <3> QED BY <1>2, <3>1, <3>2, <3>3
  <2> HIDE DEF x
  <2>7. Bytes(x, Size) = Slice(u, n - d, n - tail)
    <3>1. (n - tail) - (n - d) = Size - x
      BY <1>1, <2>1
    <3>2. Matches(u, n - d, x, Size - x)
      BY <2>1, <2>5 DEF Matches
    <3> QED BY <3>1, <3>2, BytesAreSlice
  <2>8. Bytes(0, tail) = Slice(u, n - tail, n)
    <3>1. n - (n - tail) = tail - 0
      BY <1>1, <2>1
    <3>2. Matches(u, n - tail, 0, tail - 0)
      BY <2>1, <2>6 DEF Matches
    <3> QED BY <3>1, <3>2, BytesAreSlice
  <2>9. Slice(u, n - d, n - tail) \o Slice(u, n - tail, n) = Slice(u, n - d, n)
    BY <1>1, <1>5, <1>6, <2>4, SlicesJoin
  <2>10. Copied(x) = Bytes(x, Size) \o Bytes(0, tail)
    BY <2>1, <2>3 DEF Copied, tail
  <2> QED BY <1>1, <1>5, <2>2, <2>7, <2>8, <2>9, <2>10 DEF n
<1> QED BY <1>1, <1>7, <1>8

(* What logread -f copies when it has not been overtaken. *)
LEMMA CopiedIsWritten ==
  ASSUME SyslogTypeOK, RingOK, NEW d \in 0 .. Size - 1, d <= Len(stream) - base
  PROVE  Copied(Back(d)) = Written(Len(stream) - d, Len(stream))
<1>1. /\ Len(stream) \in Nat /\ base \in Nat /\ base <= Len(stream) /\ Size \in Nat
      /\ stream \in Seq(0 .. MaxMessages) /\ shbuf.size \in {0, Size}
      /\ Ring(shbuf.data, shbuf.tail, stream, base)
  BY Sizes DEF RingOK
<1>2. d > 0 => shbuf.size = Size
  BY <1>1 DEF RingOK
<1>3. Copied(Back(d)) = Slice(stream, Len(stream) - d, Len(stream))
  BY <1>1, <1>2, CopiedIsSlice
<1> QED BY <1>3 DEF Written, Slice

(* What the steps that are not a reader's do to the readers. *)
LEMMA ReadersLeftAlone ==
  ASSUME Next, NEW r \in Reader
  PROVE  \/ logread'[r] = logread[r] /\ cleared \subseteq cleared'
         \/ ~Awake(r)' /\ logread'[r].pc # "off"
         \/ \E s \in Reader :
               Open(s) \/ SMrdn(s) \/ Undefined(s) \/ Wake(s) \/ Interrupted(s)
               \/ NothingNew(s) \/ SMrup(s) \/ Fetch(s)
<1>1. CASE ipcsyslog_init
  BY <1>1 DEF ipcsyslog_init
<1>2. CASE ipcsyslog_cleanup
  <2>1. CASE ~Awake(r)
    BY <1>2, <2>1 DEF ipcsyslog_cleanup, Awake, history
  <2>2. CASE Awake(r)
    <3>1. logread'[r] = [logread[r] EXCEPT !.pc = "gone"]
      BY <1>2, <2>2 DEF ipcsyslog_cleanup, Awake
    <3> QED BY <3>1 DEF Awake
  <2> QED BY <2>1, <2>2
<1>3. CASE \E len \in MessageLen : SetSize(len) \/ Read(len) \/ Stop(len)
  BY <1>3 DEF SetSize, Read, Stop, history
<1>4. CASE SMwdn \/ SMwup \/ Signal \/ SignalWhileWaiting \/ Killed
  BY <1>4 DEF SMwdn, SMwup, Signal, SignalWhileWaiting, Killed, history
<1>5. CASE StoreMessage \/ StoreFirstPart
  BY <1>5 DEF StoreMessage, StoreFirstPart
<1> QED BY <1>1, <1>2, <1>3, <1>4, <1>5 DEF Next, SyslogdStep, ReaderStep

LEMMA PlaceStep ==
  ASSUME SlogInv, Next, NEW r \in Reader
  PROVE  PlaceAt(r)'
<1> USE DEF SlogInv
<1>1. /\ PlaceAt(r) /\ logread[r] \in ReaderState /\ logread[r].at \in Nat
      /\ logread[r].cur \in 0 .. Size - 1
  BY DEF PlaceOK, SyslogTypeOK, ReaderState
<1>2. ASSUME shbuf'.tail = shbuf.tail, UNCHANGED <<stream, base>>,
             logread'[r] = logread[r], r \in cleared => r \in cleared'
      PROVE  PlaceAt(r)'
  BY <1>1, <1>2 DEF PlaceAt, Awake, Back
<1>3. ASSUME ~Awake(r)' PROVE PlaceAt(r)'
  BY <1>3 DEF PlaceAt
<1>4. CASE ipcsyslog_init
  <2>1. Awake(r)' => r \in cleared'
    BY <1>4 DEF ipcsyslog_init, Awake
  <2> QED BY <2>1 DEF PlaceAt
<1>5. CASE \E len \in MessageLen : SetSize(len)
  <2>1. shbuf'.tail = shbuf.tail
    BY <1>5 DEF SetSize, SyslogTypeOK, Segment
  <2> QED BY <1>2, <1>5, <2>1 DEF SetSize, history
<1>6. CASE StoreMessage \/ StoreFirstPart
  <2>1. PICK k \in 0 .. Size - shbuf.tail : Stored(k, NewTail(shbuf.tail, k))
    BY <1>6, StoreSteps
  <2>2. /\ shbuf'.tail = NewTail(shbuf.tail, k) /\ Len(stream') = Len(stream) + k
        /\ base' = base
    BY <1>6, <2>1, StoreSteps, StoredBytes
  <2>3. logread' = logread /\ cleared' = cleared
    BY <1>6 DEF StoreMessage, StoreFirstPart
  <2>4. SUFFICES ASSUME Awake(r), r \notin cleared
                 PROVE  /\ base <= logread[r].at /\ logread[r].at <= Len(stream')
                        /\ Len(stream') - logread[r].at < Size =>
                              logread[r].cur = Before(shbuf'.tail,
                                                  Len(stream') - logread[r].at, Size)
    BY <2>2, <2>3 DEF PlaceAt, Awake, Back
  <2>5. /\ base <= logread[r].at /\ logread[r].at <= Len(stream)
        /\ Len(stream) - logread[r].at < Size =>
              logread[r].cur = Before(shbuf.tail, Len(stream) - logread[r].at, Size)
    BY <1>1, <2>4 DEF PlaceAt, Back
  <2> DEFINE j == Len(stream) - logread[r].at
  <2>6. Len(stream) \in Nat /\ Size \in Nat \ {0} /\ shbuf.tail \in 0 .. Size - 1
    BY Sizes
  <2>7. j \in Nat /\ k \in Nat
    BY <1>1, <2>5, <2>6
  <2>8. Len(stream') - logread[r].at = j + k /\ logread[r].at <= Len(stream')
    BY <1>1, <2>2, <2>5, <2>6, <2>7
  <2> HIDE DEF j
  <2>9. j + k < Size => Before(shbuf'.tail, j + k, Size) = Before(shbuf.tail, j, Size)
    <3>1. shbuf'.tail = IF shbuf.tail + k < Size THEN shbuf.tail + k ELSE 0
      BY <2>2 DEF NewTail
    <3>2. j + k < Size => j \in 0 .. Size
      BY <2>6, <2>7
    <3> QED BY <2>6, <3>1, <3>2, BackMoves
  <2>10. j + k < Size => j < Size
    BY <2>6, <2>7
  <2> QED BY <2>5, <2>8, <2>9, <2>10 DEF j
<1>7. CASE \E s \in Reader :
              Open(s) \/ SMrdn(s) \/ Undefined(s) \/ Wake(s) \/ Interrupted(s)
              \/ NothingNew(s) \/ SMrup(s) \/ Fetch(s)
  <2>1. PICK s \in Reader :
           Open(s) \/ SMrdn(s) \/ Undefined(s) \/ Wake(s) \/ Interrupted(s)
           \/ NothingNew(s) \/ SMrup(s) \/ Fetch(s)
    BY <1>7
  <2>2. Quiet
    BY <2>1, QuietSteps
  <2>3. CASE s # r
    <3>1. logread'[r] = logread[r]
      BY <2>1, <2>3, ReaderSteps, OneReader
    <3>2. r \in cleared => r \in cleared'
      BY <2>1, <2>3, ReaderMarks
    <3> QED BY <1>2, <2>2, <3>1, <3>2 DEF Quiet
  <2>4. CASE /\ s = r /\ ~Open(r) /\ ~Fetch(r) /\ ~NothingNew(r)
             /\ SMrdn(r) \/ Undefined(r) \/ Wake(r) \/ SMrup(r) \/ Interrupted(r)
    <3>1. logread'[r].at = logread[r].at /\ logread'[r].cur = logread[r].cur
      BY <2>4, ReaderFields
    <3>2. Awake(r)' => Awake(r)
      BY <2>4, ReaderFields DEF Awake
    <3>3. cleared' = cleared
      BY <2>4, ReaderMarks
    <3> QED BY <1>1, <2>2, <3>1, <3>2, <3>3 DEF PlaceAt, Back, Quiet
  <2>5. CASE s = r /\ (Open(r) \/ Fetch(r) \/ NothingNew(r))
    <3>1. logread'[r].at = Len(stream) /\ logread'[r].cur = shbuf.tail
      BY <2>5, ReaderFields DEF NothingNew
    <3>2. base <= Len(stream) /\ Len(stream) \in Nat
      BY Sizes DEF RingOK
    <3>3. Len(stream) - Len(stream) = 0 /\ Before(shbuf.tail, 0, Size) = shbuf.tail
      BY Sizes DEF Before
    <3> QED BY <2>2, <3>1, <3>2, <3>3 DEF PlaceAt, Back, Quiet
  <2> QED BY <2>1, <2>3, <2>4, <2>5
<1>8. CASE Quiet
  <2>1. shbuf'.tail = shbuf.tail /\ UNCHANGED <<stream, base>>
    BY <1>8 DEF Quiet
  <2> QED BY <1>2, <1>3, <1>7, <2>1, ReadersLeftAlone
<1> QED BY <1>4, <1>5, <1>6, <1>7, <1>8, QuietSteps DEF Next, SyslogdStep, ReaderStep

(* What was written stays written. *)
LEMMA WrittenStays ==
  ASSUME NEW a \in Nat, NEW b \in Nat, Len(stream) \in Nat, b <= Len(stream),
         \A i \in 1 .. Len(stream) : stream'[i] = stream[i]
  PROVE  Written(a, b)' = Written(a, b)
<1>1. \A i \in 1 .. b - a : a + i \in 1 .. Len(stream)
  OBVIOUS
<1>2. \A i \in 1 .. b - a : stream'[a + i] = stream[a + i]
  BY <1>1
<1> QED BY <1>2 DEF Written

LEMMA TurnStep ==
  ASSUME SlogInv, Next, NEW r \in Follower
  PROVE  TurnAt(r)'
<1> USE DEF SlogInv
<1> DEFINE f == logread[r]
           n == Len(stream)
<1>1. /\ TurnAt(r) /\ PlaceAt(r) /\ r \in Reader /\ f \in ReaderState
      /\ f.at \in Nat /\ f.seen \in Nat /\ n \in Nat /\ f.at <= n
      /\ stream \in Seq(Char) /\ base \in Nat /\ base <= n
  <2>1. r \in Reader BY SyslogAssumption
  <2>2. TurnAt(r) /\ PlaceAt(r) BY <2>1 DEF PlaceOK, TurnOK
  <2>3. f \in ReaderState /\ stream \in Seq(Char) BY <2>1 DEF SyslogTypeOK
  <2>4. f.at \in Nat /\ f.seen \in Nat BY <2>3 DEF ReaderState
  <2>5. n \in Nat /\ base \in Nat /\ base <= n BY Sizes DEF RingOK
  <2> QED BY <2>1, <2>2, <2>3, <2>4, <2>5 DEF TurnAt
<1>2. ASSUME stream' = stream, logread'[r] = logread[r], r \in torn => r \in torn'
      PROVE  TurnAt(r)'
  BY <1>1, <1>2 DEF TurnAt, Written
<1>3. ASSUME stream' = stream, logread'[r].pc \notin {"up", "sleep"},
             logread'[r].at \in {f.at, n}
      PROVE  TurnAt(r)'
  <2>1. logread'[r].at <= n
    <3> HIDE DEF f, n
    <3> QED BY <1>1, <1>3
  <2> QED BY ONLY <1>3, <2>1 DEF TurnAt
<1>4. CASE ipcsyslog_init
  BY <1>2, <1>4 DEF ipcsyslog_init
<1>5. CASE StoreMessage \/ StoreFirstPart
  <2>1. PICK k \in 0 .. Size - shbuf.tail : Stored(k, NewTail(shbuf.tail, k))
    BY <1>5, StoreSteps
  <2>2. /\ \A i \in 1 .. Len(stream) : stream'[i] = stream[i]
        /\ Len(stream') = Len(stream) + k
    BY <1>5, <2>1, StoreSteps, StoredBytes
  <2>3. logread' = logread /\ torn' = torn
    BY <1>5 DEF StoreMessage, StoreFirstPart
  <2>4. Written(f.seen, f.at)' = Written(f.seen, f.at)
    <3>1. \A a, b \in Nat : b <= Len(stream) => [i \in 1 .. b - a |-> stream'[a + i]]
                                            = [i \in 1 .. b - a |-> stream[a + i]]
      BY <1>1, <2>2, WrittenStays DEF Written
    <3> QED BY <1>1, <2>3, <3>1 DEF Written
  <2>5. f.at <= Len(stream')
    <3>1. Size - shbuf.tail \in Nat BY Sizes
    <3> HIDE DEF f
    <3> QED BY <1>1, <2>2, <3>1
  <2> QED BY <1>1, <2>3, <2>4, <2>5 DEF TurnAt
<1>6. CASE \E s \in Reader :
              Open(s) \/ SMrdn(s) \/ Undefined(s) \/ Wake(s) \/ Interrupted(s)
              \/ NothingNew(s) \/ SMrup(s) \/ Fetch(s)
  <2>1. PICK s \in Reader :
           Open(s) \/ SMrdn(s) \/ Undefined(s) \/ Wake(s) \/ Interrupted(s)
           \/ NothingNew(s) \/ SMrup(s) \/ Fetch(s)
    BY <1>6
  <2>2. stream' = stream
    BY <2>1, QuietSteps DEF Quiet
  <2>3. CASE s # r
    <3>1. logread'[r] = logread[r]
      BY <1>1, <2>1, <2>3, ReaderSteps, OneReader
    <3>2. r \in torn => r \in torn'
      BY <1>1, <2>1, <2>3, ReaderMarks
    <3> QED BY <1>2, <2>2, <3>1, <3>2
  <2>4. CASE s = r /\ ~NothingNew(r) /\ ~Fetch(r)
    <3>1. logread'[r].pc \notin {"up", "sleep"} /\ logread'[r].at \in {f.at, n}
      BY <1>1, <2>1, <2>4, ReaderFields
    <3> QED BY <1>3, <2>2, <3>1
  <2>5. ASSUME s = r, NothingNew(r) \/ Fetch(r), r \notin torn', n - f.at < Size
        PROVE  base <= f.at /\ f.cur = Back(n - f.at)
    <3>1. f.pc = "fetch"
      BY <1>1, <2>5, ReaderFields
    <3>2. Awake(r) /\ r \notin cleared
      BY <1>1, <2>5, <3>1, ReaderMarks DEF Awake
    <3> QED BY ONLY <1>1, <2>5, <3>2 DEF PlaceAt
  <2>6. CASE s = r /\ NothingNew(r)
    <3>1. /\ logread'[r].at = n /\ logread'[r].seen = f.at
          /\ logread'[r].pc = "sleep" /\ f.cur = shbuf.tail
      BY <1>1, <2>6, ReaderFields DEF NothingNew
    <3>2. ASSUME r \notin torn', n - f.at < Size PROVE f.at = n
      <4>1. Size \in Nat \ {0} /\ shbuf.tail \in 0 .. Size - 1
        BY Sizes
      <4>2. n - f.at \in Nat
        BY <1>1
      <4>3. n - f.at < Size /\ shbuf.tail = Back(n - f.at)
        BY <2>5, <2>6, <3>1, <3>2
      <4>4. \A size, tail, d \in Nat :
               size > 0 /\ tail < size /\ d < size /\ tail = Before(tail, d, size) => d = 0
        BY ONLY DEF Before
      <4>5. n - f.at = 0
        BY ONLY <4>1, <4>2, <4>3, <4>4 DEF Back
      <4> QED BY <1>1, <4>5
    <3>3. logread'[r].at <= n
      BY <1>1, <3>1
    <3> HIDE DEF f, n
    <3> QED BY ONLY <2>2, <3>1, <3>2, <3>3 DEF TurnAt, n
  <2>7. CASE s = r /\ Fetch(r)
    <3> DEFINE c == Copied(From(r))
    <3>1. /\ logread'[r].at = n /\ logread'[r].seen = f.at
          /\ logread'[r].copy = c /\ logread'[r].pc = "up"
      BY <1>1, <2>7, ReaderFields
    <3>2. ASSUME r \notin torn', n - f.at < Size PROVE c = Written(f.at, n)
      <4> DEFINE d == n - f.at
      <4>1. base <= f.at /\ f.cur = Back(d)
        BY <2>5, <2>7, <3>2
      <4>2. d \in 0 .. Size - 1 /\ d <= n - base /\ n - d = f.at
        <5>1. Size \in Nat \ {0} BY Sizes
        <5>2. f.at \in Nat /\ n \in Nat /\ base \in Nat /\ f.at <= n BY <1>1
        <5> HIDE DEF f, n
        <5> QED BY <3>2, <4>1, <5>1, <5>2
      <4>3. c = Copied(Back(d))
        BY <4>1 DEF From
      <4>4. Copied(Back(d)) = Written(n - d, n)
        <5> HIDE DEF d
        <5> QED BY <4>2, CopiedIsWritten
      <4> QED BY <4>2, <4>3, <4>4
    <3>3. logread'[r].at <= n
      BY <1>1, <3>1
    <3>4. \A a, b : Written(a, b)' = Written(a, b)
      BY <2>2 DEF Written
    <3> HIDE DEF c, f, n
    <3>5. Written(logread[r].seen, logread[r].at)' = Written(f.at, n)
      BY <2>2, <3>1 DEF Written
    <3> QED BY ONLY <2>2, <3>1, <3>2, <3>3, <3>5 DEF TurnAt, n
  <2> QED BY <2>1, <2>3, <2>4, <2>6, <2>7
<1>7. CASE ipcsyslog_cleanup
  <2>1. /\ stream' = stream /\ torn' = torn
        /\ logread'[r] = logread[r] \/ logread'[r] = [logread[r] EXCEPT !.pc = "gone"]
    BY <1>1, <1>7 DEF ipcsyslog_cleanup, history
  <2>2. CASE logread'[r] = logread[r]
    BY <1>2, <2>1, <2>2
  <2>3. CASE logread'[r] = [logread[r] EXCEPT !.pc = "gone"]
    <3>1. logread'[r].pc = "gone" /\ logread'[r].at = f.at
      BY <1>1, <2>3 DEF ReaderState
    <3> QED BY <1>3, <2>1, <3>1
  <2> QED BY <2>1, <2>2, <2>3
<1>8. CASE \E len \in MessageLen : SetSize(len) \/ Read(len) \/ Stop(len)
  BY <1>2, <1>8 DEF SetSize, Read, Stop, history
<1>9. CASE SMwdn \/ SMwup \/ Signal \/ SignalWhileWaiting \/ Killed
  BY <1>2, <1>9 DEF SMwdn, SMwup, Signal, SignalWhileWaiting, Killed, history
<1> QED BY <1>4, <1>5, <1>6, <1>7, <1>8, <1>9 DEF Next, SyslogdStep, ReaderStep

-----------------------------------------------------------------------------
(* The invariant. *)

LEMMA SlogInit ==
  ASSUME Init
  PROVE  SlogInv
<1> USE DEF Init
<1>1. Size \in Nat \ {0} /\ Index = 0 .. Size /\ 0 \in Char /\ Follower \subseteq Reader
  BY SyslogAssumption DEF Index, Char
<1>2. SyslogTypeOK
  <2>1. shbuf \in Segment /\ shbuf.data[Size] = 0
    BY <1>1 DEF Segment, Cleared
  <2>2. syslogd \in SyslogdState
    BY <1>1 DEF SyslogdState
  <2>3. << >> \in Seq(Char)
    OBVIOUS
  <2>4. [pc |-> "off", cur |-> 0, copy |-> << >>, seen |-> 0, at |-> 0]
           \in ReaderState
    BY <1>1, <2>3 DEF ReaderState
  <2>5. logread \in [Reader -> ReaderState]
    BY <2>4
  <2>6. used \in [messages: Char, starts: Nat, kills: Nat]
    BY <1>1
  <2> QED BY <2>1, <2>2, <2>3, <2>5, <2>6 DEF SyslogTypeOK
<1>3. syslogd.pc = "off" /\ \A r \in Reader : logread[r].pc = "off" /\ logread[r].at = 0
  OBVIOUS
<1>4. LockOK /\ StageOK /\ NulOK
  BY <1>1, <1>3 DEF LockOK, StageOK, NulOK, At
<1>5. RingOK
  BY <1>1 DEF RingOK, Ring
<1>6. PlaceOK /\ TurnOK
  <2>1. Len(stream) = 0 OBVIOUS
  <2> QED BY <1>1, <1>3, <2>1 DEF PlaceOK, TurnOK, PlaceAt, TurnAt, Awake
<1> QED BY <1>2, <1>4, <1>5, <1>6 DEF SlogInv

LEMMA SlogStep ==
  ASSUME SlogInv, [Next]_vars
  PROVE  SlogInv'
<1>1. CASE Next
  <2>1. PlaceOK' /\ TurnOK'
    BY <1>1, PlaceStep, TurnStep DEF PlaceOK, TurnOK
  <2> QED BY <1>1, <2>1, TypeStep, LockStep, StageStep, NulStep, RingStep DEF SlogInv
<1>2. CASE UNCHANGED vars
  <2>1. SyslogTypeOK' /\ LockOK' /\ StageOK'
    BY <1>2 DEF SlogInv, vars, SyslogTypeOK, LockOK, StageOK, At
  <2>2. NulOK' /\ RingOK'
    BY <1>2 DEF SlogInv, vars, NulOK, RingOK, Ring, At, Back
  <2>3. PlaceOK'
    BY ONLY <1>2, SlogInv DEF SlogInv, vars, PlaceOK, PlaceAt, Awake, Back
  <2>4. TurnOK'
    BY ONLY <1>2, SlogInv DEF SlogInv, vars, TurnOK, TurnAt, Written
  <2> QED BY <2>1, <2>2, <2>3, <2>4 DEF SlogInv
<1> QED BY <1>1, <1>2

LEMMA SlogInvariant == Spec => []SlogInv
  BY SlogInit, SlogStep, PTL DEF Spec

(* The indices into the shared segment stay inside of it, and the byte     *)
(* behind the buffer stays the NUL that ends every search for one.         *)
THEOREM SyslogTypes == Spec => []SyslogTypeOK
<1>1. SlogInv => SyslogTypeOK
  BY DEF SlogInv
<1> QED BY <1>1, SlogInvariant, PTL

(* While syslogd copies a message no reader copies, and who holds the      *)
(* semaphore of the writer when syslogd has gone shuts all of them out.    *)
WriterExcludesReaders ==
    writing \/ At("copy") \/ At("up") =>
       \A r \in Reader : logread[r].pc \notin {"fetch", "up"}

THEOREM SyslogExclusion == Spec => []WriterExcludesReaders
<1>1. SlogInv => WriterExcludesReaders
  BY DEF SlogInv, LockOK, WriterExcludesReaders
<1> QED BY <1>1, SlogInvariant, PTL

(* In each turn logread -f prints what was written since it last looked,   *)
(* or sleeps if that is nothing, but for a turn in which a whole buffer    *)
(* was written, the one in which the segment is cleared under it, and the  *)
(* first one after the segment was cleared.                                *)
THEOREM SyslogFollower == Spec => []FollowerMissesNothing
<1>1. SlogInv => FollowerMissesNothing
  BY DEF SlogInv, TurnOK, TurnAt, FollowerMissesNothing, ReaderAt
<1> QED BY <1>1, SlogInvariant, PTL

(* When nobody writes, there is a NUL before tail, or at the end of the    *)
(* buffer when tail is at its beginning.                                   *)
LEMMA SomeMessageIsComplete ==
  ASSUME SlogInv, shbuf.size = Size, ~writing, NEW cur \in 0 .. Size - 1
  PROVE  ~NoneComplete(cur)
<1> USE DEF SlogInv
<1>1. Size \in Nat \ {0} /\ shbuf.tail \in 0 .. Size - 1
  BY Sizes
<1>2. IsNul(Back(1))
  BY DEF NulOK, IsNul
<1>3. CASE shbuf.tail > 0
  <2>1. Back(1) \in 0 .. shbuf.tail - 1
    BY <1>1, <1>3 DEF Back, Before
  <2> QED BY <1>2, <2>1 DEF NoneComplete, NulBefore
<1>4. CASE shbuf.tail = 0
  <2>1. Back(1) = Size - 1 /\ Back(1) \in cur .. Size /\ cur \in 0 .. Size
    BY <1>1, <1>4 DEF Back, Before
  <2>2. NulFrom(cur) <= Size - 1 /\ NulFrom(cur) \in cur .. Size
    BY <1>2, <2>1, NulFromIsFirst
  <2> QED BY <1>1, <2>2 DEF NoneComplete
<1> QED BY <1>1, <1>3, <1>4

LEMMA UndefinedStep ==
  ASSUME SlogInv, [Next]_vars, NEW r \in Reader,
         logread[r].pc # "undefined", logread'[r].pc = "undefined"
  PROVE  shbuf.size = 0
<1> USE DEF SlogInv
<1>1. Next
  BY DEF vars
<1>2. \E s \in Reader :
         Open(s) \/ SMrdn(s) \/ Undefined(s) \/ Wake(s) \/ Interrupted(s)
         \/ NothingNew(s) \/ SMrup(s) \/ Fetch(s)
  <2>1. ASSUME ipcsyslog_cleanup PROVE FALSE
    <3>1. logread'[r] = logread[r] \/ logread'[r] = [logread[r] EXCEPT !.pc = "gone"]
      BY <2>1 DEF ipcsyslog_cleanup
    <3>2. logread[r] \in ReaderState
      BY DEF SyslogTypeOK
    <3> QED BY <3>1, <3>2 DEF ReaderState
  <2>2. ASSUME logread' = logread PROVE FALSE
    BY <2>2
  <2> QED BY <1>1, <2>1, <2>2 DEF Next, SyslogdStep, ReaderStep, ipcsyslog_init, SetSize,
             Read, Stop, SMwdn, SMwup, Signal, SignalWhileWaiting, Killed, StoreMessage,
             StoreFirstPart
<1>3. PICK s \in Reader :
         Open(s) \/ SMrdn(s) \/ Undefined(s) \/ Wake(s) \/ Interrupted(s)
         \/ NothingNew(s) \/ SMrup(s) \/ Fetch(s)
  BY <1>2
<1>4. s = r
  BY <1>3, ReaderSteps, OneReader
<1>5. Undefined(r)
  <2>1. ~Open(r) /\ ~SMrdn(r) /\ ~Wake(r) /\ ~Interrupted(r) /\ ~NothingNew(r) /\ ~Fetch(r)
    BY ReaderFields
  <2>2. ~SMrup(r)
    BY ReaderFields
  <2> QED BY <1>3, <1>4, <2>1, <2>2
<1>6. /\ Size \in Nat \ {0} /\ shbuf.tail \in 0 .. Size - 1 /\ shbuf.size \in {0, Size}
      /\ logread[r].cur \in 0 .. Size - 1
  BY Sizes DEF SyslogTypeOK, ReaderState
<1>7. ~writing
  BY <1>5, ReaderFields DEF LockOK
<1>8. CASE shbuf.size = Size
  <2>1. ~NoneComplete(logread[r].cur)
    BY <1>6, <1>7, <1>8, SomeMessageIsComplete
  <2>2. ~(shbuf.size < logread[r].cur)
    BY <1>6, <1>8
  <2> QED BY <1>5, <2>1, <2>2 DEF Undefined
<1> QED BY <1>6, <1>8

(* A reader goes on without defined values only while syslogd is between   *)
(* clearing the segment and setting its size.                              *)
THEOREM SyslogUndefined == Spec => UndefinedOnlyUninitialised
<1>1. SlogInv /\ [Next]_vars =>
         [\A r \in Reader : logread[r].pc # "undefined" /\ logread[r].pc' = "undefined"
                                => shbuf.size = 0]_vars
  BY UndefinedStep
<1> QED BY <1>1, SlogInvariant, PTL DEF Spec, UndefinedOnlyUninitialised

-----------------------------------------------------------------------------
(* What logread prints: the text of what it copied, without the NULs.      *)

(* Induction, by the least number that is not in the set. *)
LEMMA UpTo ==
  ASSUME NEW T, NEW n \in Nat, 0 \in T, \A k \in 0 .. n - 1 : k \in T => k + 1 \in T
  PROVE  \A k \in 0 .. n : k \in T
<1> DEFINE Missing == {k \in 0 .. n : k \notin T}
<1> SUFFICES ASSUME Missing # {} PROVE FALSE
  OBVIOUS
<1>1. Missing \subseteq Nat
  OBVIOUS
<1>2. PICK x \in Missing : \A y \in Missing : x <= y
  <2> HIDE DEF Missing
  <2> QED BY <1>1, LeastElement
<1>3. x \in 1 .. n /\ x \notin T
  BY <1>2
<1>4. x - 1 \in 0 .. n - 1 /\ (x - 1) + 1 = x /\ x - 1 \in 0 .. n
  BY <1>3
<1>5. x - 1 \in T
  BY <1>2, <1>3, <1>4
<1> QED BY <1>3, <1>4, <1>5

(* The text of a sequence that has the text t, with one more character. *)
Kept(t, c) == IF c = 0 THEN t ELSE Append(t, c)

LEMMA KeptType ==
  ASSUME NEW C, NEW t \in Seq(C), NEW c \in C
  PROVE  Kept(t, c) \in Seq(C)
  BY DEF Kept

(* f has the texts of the sequences that s begins with. *)
Texts(C, s, n, f) ==
    /\ f \in [0 .. n -> Seq(C)] /\ f[0] = << >>
    /\ \A i \in 1 .. n : f[i] = Kept(f[i - 1], s[i])

LEMMA TextsExist ==
  ASSUME NEW C, NEW s \in Seq(C)
  PROVE  \E f : Texts(C, s, Len(s), f)
<1> DEFINE T == {n \in Nat : n <= Len(s) => \E f : Texts(C, s, n, f)}
<1>1. 0 \in T
  <2> DEFINE f == [i \in 0 .. 0 |-> << >>]
  <2>1. f \in [0 .. 0 -> Seq(C)] /\ f[0] = << >>
    OBVIOUS
  <2>2. Texts(C, s, 0, f)
    <3> HIDE DEF f
    <3> QED BY <2>1 DEF Texts
  <2> QED BY <2>2
<1>2. ASSUME NEW n \in 0 .. Len(s) - 1, n \in T PROVE n + 1 \in T
  <2>1. PICK f : Texts(C, s, n, f)
    BY <1>2
  <2> DEFINE g == [i \in 0 .. n + 1 |-> IF i = n + 1 THEN Kept(f[n], s[n + 1]) ELSE f[i]]
  <2>2. f \in [0 .. n -> Seq(C)] /\ f[0] = << >> /\ n \in Nat /\ n + 1 \in 1 .. Len(s)
    BY <2>1 DEF Texts
  <2>3. Kept(f[n], s[n + 1]) \in Seq(C)
    <3>1. f[n] \in Seq(C) /\ s[n + 1] \in C
      BY <2>2
    <3> QED BY ONLY <3>1, KeptType
  <2>4. g \in [0 .. n + 1 -> Seq(C)] /\ g[0] = << >>
    <3>1. \A i \in 0 .. n + 1 : i # n + 1 => i \in 0 .. n
      BY <2>2
    <3>2. \A i \in 0 .. n + 1 :
             (IF i = n + 1 THEN Kept(f[n], s[n + 1]) ELSE f[i]) \in Seq(C)
      BY <2>2, <2>3, <3>1
    <3>3. g \in [0 .. n + 1 -> Seq(C)]
      BY ONLY <3>2
    <3>4. 0 \in 0 .. n + 1 /\ 0 # n + 1
      BY <2>2
    <3> QED BY <2>2, <3>3, <3>4
  <2>5. ASSUME NEW i \in 1 .. n + 1 PROVE g[i] = Kept(g[i - 1], s[i])
    <3>1. i - 1 \in 0 .. n /\ i - 1 # n + 1 /\ i \in 0 .. n + 1 /\ i - 1 \in 0 .. n + 1
      BY <2>2
    <3>2. g[i - 1] = f[i - 1]
      BY <3>1
    <3>3. CASE i = n + 1
      <4>1. g[i] = Kept(f[n], s[n + 1]) /\ i - 1 = n
        BY <2>2, <3>1, <3>3
      <4> QED BY <3>2, <3>3, <4>1
    <3>4. CASE i # n + 1
      <4>1. g[i] = f[i] /\ i \in 1 .. n
        BY <2>2, <3>1, <3>4
      <4> QED BY <2>1, <3>2, <4>1 DEF Texts
    <3> QED BY <3>3, <3>4
  <2>6. Texts(C, s, n + 1, g)
    <3> HIDE DEF g
    <3> QED BY <2>4, <2>5 DEF Texts
  <2> QED BY <2>2, <2>6
<1>3. Len(s) \in Nat
  OBVIOUS
<1>4. \A k \in 0 .. Len(s) : k \in T
  <2> HIDE DEF T
  <2> QED BY <1>1, <1>2, <1>3, UpTo
<1> QED BY <1>3, <1>4

LEMMA TextIs ==
  ASSUME NEW C, NEW s \in Seq(C)
  PROVE  \E f : Texts(C, s, Len(s), f) /\ Text(s) = f[Len(s)]
<1> DEFINE Body(f) == [i \in 0 .. Len(s) |->
              IF i = 0 THEN << >>
              ELSE IF s[i] = 0 THEN f[i - 1] ELSE Append(f[i - 1], s[i])]
           kept == CHOOSE f : f = Body(f)
<1>1. Text(s) = kept[Len(s)]
  BY DEF Text
<1>2. PICK f : Texts(C, s, Len(s), f)
  BY TextsExist
<1>3. f = Body(f)
  <2>1. ASSUME NEW i \in 0 .. Len(s) PROVE f[i] = Body(f)[i]
    <3>1. i = 0 \/ i \in 1 .. Len(s)
      OBVIOUS
    <3> QED BY <1>2, <3>1 DEF Texts, Kept
  <2>2. f \in [0 .. Len(s) -> Seq(C)]
    BY <1>2 DEF Texts
  <2>3. f = [i \in 0 .. Len(s) |-> f[i]]
    BY <2>2
  <2> QED BY <2>1, <2>3
<1>4. kept = Body(kept)
  <2> HIDE DEF Body
  <2> QED BY <1>3
<1> HIDE DEF kept
<1> DEFINE T == {n \in Nat : n <= Len(s) => kept[n] = f[n]}
<1>5. 0 \in T
  BY <1>2, <1>4 DEF Texts
<1>6. ASSUME NEW n \in 0 .. Len(s) - 1, n \in T PROVE n + 1 \in T
  <2>1. n + 1 \in 1 .. Len(s) /\ n + 1 \in 0 .. Len(s) /\ n + 1 # 0 /\ (n + 1) - 1 = n
        /\ kept[n] = f[n]
    BY <1>6
  <2>2. f[n + 1] = Kept(f[n], s[n + 1])
    BY <1>2, <2>1 DEF Texts
  <2>3. kept[n + 1] = Kept(kept[n], s[n + 1])
    BY <1>4, <2>1 DEF Kept
  <2> QED BY <2>1, <2>2, <2>3
<1>7. Len(s) \in Nat
  OBVIOUS
<1>8. \A k \in 0 .. Len(s) : k \in T
  <2> HIDE DEF T
  <2> QED BY <1>5, <1>6, <1>7, UpTo
<1>9. kept[Len(s)] = f[Len(s)]
  BY <1>7, <1>8
<1> QED BY <1>1, <1>2, <1>9

LEMMA KeptOfJoin ==
  ASSUME NEW C, NEW u \in Seq(C), NEW v \in Seq(C), NEW c \in C
  PROVE  /\ u \o v \in Seq(C) /\ u \o << >> = u
         /\ u \o Kept(v, c) = Kept(u \o v, c)
<1>1. u \o v \in Seq(C) /\ u \o << >> = u
  OBVIOUS
<1>2. u \o Append(v, c) = Append(u \o v, c)
  OBVIOUS
<1> QED BY <1>1, <1>2 DEF Kept

(* The text of two pieces is their texts. *)
LEMMA TextJoins ==
  ASSUME NEW C, NEW s \in Seq(C), NEW t \in Seq(C)
  PROVE  /\ Text(s) \in Seq(C) /\ Text(t) \in Seq(C)
         /\ Text(s \o t) = Text(s) \o Text(t)
<1> DEFINE m == Len(s)
           n == Len(t)
<1>1. m \in Nat /\ n \in Nat
  OBVIOUS
<1>2. /\ s \o t \in Seq(C) /\ Len(s \o t) = m + n
      /\ \A i \in 1 .. m : (s \o t)[i] = s[i]
      /\ \A i \in 1 .. n : (s \o t)[m + i] = t[i]
  BY Concatenation
<1>3. PICK f : Texts(C, s, m, f) /\ Text(s) = f[m]
  BY TextIs
<1>4. PICK g : Texts(C, t, n, g) /\ Text(t) = g[n]
  BY TextIs
<1>5. PICK h : Texts(C, s \o t, m + n, h) /\ Text(s \o t) = h[m + n]
  BY <1>2, TextIs
<1>6. f[m] \in Seq(C) /\ g[n] \in Seq(C)
  <2> HIDE DEF m, n
  <2>1. m \in 0 .. m /\ n \in 0 .. n
    BY ONLY <1>1
  <2>2. \A i \in 0 .. m : f[i] \in Seq(C)
    BY ONLY <1>3 DEF Texts
  <2>3. \A i \in 0 .. n : g[i] \in Seq(C)
    BY ONLY <1>4 DEF Texts
  <2> QED BY ONLY <2>1, <2>2, <2>3
<1>7. \A i \in 1 .. n : t[i] \in C
  OBVIOUS
<1> HIDE DEF m, n
<1>8. h[m] = f[m]
  <2> DEFINE T == {k \in Nat : k <= m => h[k] = f[k]}
  <2>1. 0 \in T
    BY <1>3, <1>5 DEF Texts
  <2>2. ASSUME NEW k \in 0 .. m - 1, k \in T PROVE k + 1 \in T
    <3>1. k + 1 \in 1 .. m /\ k + 1 \in 1 .. m + n /\ (k + 1) - 1 = k /\ h[k] = f[k]
      BY <1>1, <2>2
    <3>2. f[k + 1] = Kept(f[k], s[k + 1])
      BY <1>3, <3>1 DEF Texts
    <3>3. h[k + 1] = Kept(h[k], (s \o t)[k + 1])
      BY <1>5, <3>1 DEF Texts
    <3>4. (s \o t)[k + 1] = s[k + 1]
      BY <1>2, <3>1
    <3> QED BY <3>1, <3>2, <3>3, <3>4
  <2>3. \A k \in 0 .. m : k \in T
    <3> HIDE DEF T
    <3> QED BY <1>1, <2>1, <2>2, UpTo
  <2> QED BY <1>1, <2>3
<1>9. h[m + n] = f[m] \o g[n]
  <2> DEFINE Joined(k) == h[m + k] = f[m] \o g[k]
             T == {k \in Nat : k <= n => Joined(k)}
  <2>1. 0 \in T
    <3>1. g[0] = << >> /\ f[m] \o << >> = f[m] /\ m + 0 = m
      BY <1>1, <1>4, <1>6 DEF Texts
    <3> QED BY <1>8, <3>1
  <2>2. ASSUME NEW k \in 0 .. n - 1, k \in T PROVE k + 1 \in T
    <3>1. /\ k + 1 \in 1 .. n /\ m + (k + 1) \in 1 .. m + n /\ (m + (k + 1)) - 1 = m + k
          /\ (k + 1) - 1 = k /\ k \in 0 .. n /\ k + 1 \in Nat
      BY ONLY <1>1, k \in 0 .. n - 1
    <3>2. Joined(k)
      <4> HIDE DEF Joined
      <4> QED BY <1>1, <2>2, <3>1
    <3>3. g[k + 1] = Kept(g[k], t[k + 1]) /\ g[k] \in Seq(C)
      BY <1>4, <3>1 DEF Texts
    <3>4. h[m + (k + 1)] = Kept(h[m + k], (s \o t)[m + (k + 1)])
      BY <1>5, <3>1 DEF Texts
    <3>5. (s \o t)[m + (k + 1)] = t[k + 1] /\ t[k + 1] \in C
      BY <1>2, <1>7, <3>1
    <3>6. Kept(f[m] \o g[k], t[k + 1]) = f[m] \o Kept(g[k], t[k + 1])
      <4> DEFINE u == f[m]
                 v == g[k]
                 c == t[k + 1]
      <4>1. u \in Seq(C) /\ v \in Seq(C) /\ c \in C
        BY <1>6, <3>3, <3>5
      <4> HIDE DEF u, v, c
      <4>2. u \o Kept(v, c) = Kept(u \o v, c)
        BY ONLY <4>1, KeptOfJoin, SMTT(30)
      <4> QED BY <4>2 DEF u, v, c
    <3>7. Joined(k + 1)
      BY ONLY <3>3, <3>4, <3>5, <3>6, <3>2
    <3> DEFINE q == k + 1
    <3>8. q \in Nat /\ Joined(q)
      BY <3>1, <3>7
    <3> HIDE DEF Joined, q
    <3>9. q \in T
      BY <3>8
    <3> HIDE DEF T
    <3> QED BY <3>9 DEF q
  <2>3. \A k \in 0 .. n : k \in T
    <3> HIDE DEF T
    <3> QED BY <1>1, <2>1, <2>2, UpTo
  <2>4. Joined(n)
    <3> HIDE DEF Joined
    <3> QED BY <1>1, <2>3
  <2> QED BY <2>4
<1> QED BY <1>3, <1>4, <1>5, <1>6, <1>9

(* NULs have no text. *)
LEMMA TextOfNuls ==
  ASSUME NEW C, NEW s \in Seq(C), \A i \in 1 .. Len(s) : s[i] = 0
  PROVE  Text(s) = << >>
<1>1. PICK f : Texts(C, s, Len(s), f) /\ Text(s) = f[Len(s)]
  BY TextIs
<1> DEFINE T == {k \in Nat : k <= Len(s) => f[k] = << >>}
<1>2. 0 \in T
  BY <1>1 DEF Texts
<1>3. ASSUME NEW k \in 0 .. Len(s) - 1, k \in T PROVE k + 1 \in T
  <2>1. k + 1 \in 1 .. Len(s) /\ (k + 1) - 1 = k /\ f[k] = << >>
    BY <1>3
  <2>2. f[k + 1] = Kept(f[k], s[k + 1])
    BY <1>1, <2>1 DEF Texts
  <2> QED BY <2>1, <2>2 DEF Kept
<1>4. Len(s) \in Nat
  OBVIOUS
<1>5. \A k \in 0 .. Len(s) : k \in T
  <2> HIDE DEF T
  <2> QED BY <1>2, <1>3, <1>4, UpTo
<1> QED BY <1>1, <1>4, <1>5

-----------------------------------------------------------------------------
(* What logread prints are whole messages.                                 *)

(* The places that were not written since the segment was cleared hold     *)
(* NULs.                                                                   *)
ClearOK ==
    /\ shbuf.size = 0 => shbuf.tail = 0
    /\ \A j \in 1 .. Size : j > Len(stream) - base => shbuf.data[Back(j)] = 0

(* A reader that takes the log once looks at tail once, and then waits for *)
(* the lock.                                                               *)
StartAt(r) ==
    /\ r \notin Follower => logread[r].pc # "sleep"
    /\ r \notin Follower /\ logread[r].pc \in {"semop", "fetch"} =>
          /\ logread[r].seen = logread[r].at
          /\ r \in cleared => logread[r].at <= base

StartOK == \A r \in Reader : StartAt(r)

(* What ReadsWholeMessages says of a reader that has its copy. *)
Whole(r) ==
    /\ Boundary(logread[r].at)
    /\ \E i \in Boundaries(r) :
          Text(logread[r].copy) = Text(Written(i, logread[r].at))
    /\ logread[r].seen = logread[r].at =>
          \A i \in Boundaries(r) :
             base <= i /\ logread[r].at - i < Size =>
                Len(Text(Written(i, logread[r].at))) <= Len(Text(logread[r].copy))

WholeInv == SlogInv /\ ClearOK /\ StartOK /\ ReadsWholeMessages

LEMMA ClearStep ==
  ASSUME SlogInv, ClearOK, Next
  PROVE  ClearOK'
<1> USE DEF SlogInv
<1>1. CASE Quiet
  BY <1>1 DEF Quiet, ClearOK, Back
<1>2. CASE ipcsyslog_init
  <2>1. /\ shbuf'.size = 0 /\ shbuf'.tail = 0 /\ shbuf'.data = Cleared
        /\ stream' = stream /\ base' = Len(stream)
    BY <1>2 DEF ipcsyslog_init
  <2>2. \A j \in 1 .. Size : Back(j)' \in Index
    BY <2>1, Sizes DEF Back, Before
  <2> QED BY <2>1, <2>2 DEF ClearOK, Cleared
<1>3. CASE \E len \in MessageLen : SetSize(len)
  <2>1. /\ shbuf'.data = shbuf.data /\ shbuf'.tail = shbuf.tail /\ shbuf'.size = Size
        /\ UNCHANGED <<stream, base>>
    BY <1>3 DEF SetSize, SyslogTypeOK, Segment, history
  <2> QED BY <2>1, Sizes DEF ClearOK, Back
<1>4. CASE StoreMessage \/ StoreFirstPart
  <2>1. PICK k \in 0 .. Size - shbuf.tail : Stored(k, NewTail(shbuf.tail, k))
    BY <1>4, StoreSteps
  <2>2. /\ shbuf'.tail = NewTail(shbuf.tail, k) /\ Len(stream') = Len(stream) + k
        /\ base' = base /\ shbuf'.size = Size
    BY <1>4, <2>1, StoreSteps, StoredBytes
  <2>3. Len(Chunk(k)) = k /\ shbuf'.data = Placed(shbuf.data, shbuf.tail, Chunk(k))
    BY <2>1, BytesInPlace DEF Stored, SyslogTypeOK, Segment
  <2>4. /\ Size \in Nat \ {0} /\ shbuf.tail \in 0 .. Size - 1 /\ Len(stream) \in Nat
        /\ base \in Nat /\ base <= Len(stream) /\ Index = 0 .. Size
    BY Sizes DEF RingOK
  <2>5. ASSUME NEW j \in 1 .. Size, j > Len(stream') - base
        PROVE  shbuf'.data[Before(shbuf'.tail, j, Size)] = 0
    <3>1. j > k /\ j - k \in 1 .. Size /\ j - k > Len(stream) - base
      BY <2>2, <2>4, <2>5
    <3>2. /\ Before(shbuf'.tail, j, Size) = Before(shbuf.tail, j - k, Size)
          /\ Before(shbuf'.tail, j, Size) \notin shbuf.tail .. shbuf.tail + k - 1
          /\ Before(shbuf'.tail, j, Size) \in Index
      <4> DEFINE x == shbuf.tail
                 y == shbuf'.tail
                 s == Size
      <4>1. /\ s \in Nat \ {0} /\ x \in 0 .. s - 1 /\ k \in 0 .. s - x /\ j \in 0 .. s
            /\ y = IF x + k < s THEN x + k ELSE 0
        BY <2>2, <2>4, <3>1 DEF NewTail
      <4> HIDE DEF x, y, s
      <4>2. /\ Before(y, j, s) = Before(x, j - k, s)
            /\ Before(y, j, s) \notin x .. x + k - 1
            /\ Before(y, j, s) \in 0 .. s
        BY <3>1, <4>1 DEF Before
      <4> QED BY <2>4, <4>2 DEF x, y, s
    <3>3. shbuf.data[Before(shbuf.tail, j - k, Size)] = 0
      BY <3>1 DEF ClearOK, Back
    <3> QED BY <2>3, <3>2, <3>3 DEF Placed
  <2>6. shbuf'.size # 0
    BY <2>2, <2>4
  <2> QED BY <2>2, <2>5, <2>6 DEF ClearOK, Back
<1> QED BY <1>1, <1>2, <1>3, <1>4, QuietSteps DEF Next, SyslogdStep, ReaderStep

LEMMA StartStep ==
  ASSUME SlogInv, StartOK, Next, NEW r \in Reader
  PROVE  StartAt(r)'
<1> USE DEF SlogInv
<1>1. /\ StartAt(r) /\ PlaceAt(r) /\ logread[r] \in ReaderState /\ logread[r].at \in Nat
      /\ Len(stream) \in Nat /\ base \in Nat /\ base <= Len(stream)
  BY Sizes DEF StartOK, PlaceOK, RingOK, SyslogTypeOK, ReaderState
<1>2. ASSUME logread'[r] = logread[r], UNCHANGED <<base, cleared>>
      PROVE  StartAt(r)'
  BY <1>1, <1>2 DEF StartAt
<1>3. CASE ipcsyslog_init
  <2>1. /\ logread' = logread /\ base' = Len(stream)
        /\ cleared' = cleared \cup {s \in Reader : logread[s].pc # "off"}
    BY <1>3 DEF ipcsyslog_init
  <2>2. r \notin cleared /\ logread[r].pc \in {"semop", "fetch"} =>
           logread[r].at <= Len(stream)
    BY <1>1 DEF PlaceAt, Awake
  <2>3. r \in cleared /\ r \notin Follower /\ logread[r].pc \in {"semop", "fetch"} =>
           logread[r].at <= Len(stream)
    BY <1>1 DEF StartAt
  <2> QED BY <1>1, <2>1, <2>2, <2>3 DEF StartAt
<1>4. CASE ipcsyslog_cleanup
  <2>1. UNCHANGED <<base, cleared>>
    BY <1>4 DEF ipcsyslog_cleanup, history
  <2>2. logread'[r] = logread[r] \/ logread'[r] = [logread[r] EXCEPT !.pc = "gone"]
    BY <1>4 DEF ipcsyslog_cleanup
  <2>3. logread'[r] = logread[r] \/ logread'[r].pc = "gone"
    BY <1>1, <2>2 DEF ReaderState
  <2> QED BY <1>1, <2>1, <2>3 DEF StartAt
<1>5. CASE \/ \E len \in MessageLen : SetSize(len) \/ Read(len) \/ Stop(len)
           \/ SMwdn \/ SMwup \/ Signal \/ SignalWhileWaiting \/ Killed
           \/ StoreMessage \/ StoreFirstPart
  BY <1>2, <1>5 DEF SetSize, Read, Stop, SMwdn, SMwup, Signal, SignalWhileWaiting, Killed,
                    StoreMessage, StoreFirstPart, history
<1>6. ASSUME NEW s \in Reader,
             Open(s) \/ SMrdn(s) \/ Undefined(s) \/ Wake(s) \/ Interrupted(s)
             \/ NothingNew(s) \/ SMrup(s) \/ Fetch(s)
      PROVE  StartAt(r)'
  <2>1. base' = base
    BY <1>6, QuietSteps DEF Quiet
  <2>2. CASE s # r
    <3>1. logread'[r] = logread[r]
      BY <1>6, <2>2, ReaderSteps, OneReader
    <3>2. r \in cleared' => r \in cleared
      BY <1>6, <2>2, ReaderMarks
    <3> QED BY <1>1, <2>1, <3>1, <3>2 DEF StartAt
  <2>3. CASE s = r /\ Open(r)
    <3>1. /\ logread[r].pc = "off" /\ logread'[r].pc = "semop"
          /\ logread'[r].seen = Len(stream) /\ logread'[r].at = Len(stream)
      BY <2>3, ReaderFields
    <3>2. r \notin cleared'
      BY <2>3, ReaderMarks
    <3> QED BY <3>1, <3>2 DEF StartAt
  <2>4. CASE /\ s = r /\ ~Open(r) /\ ~Fetch(r) /\ ~NothingNew(r)
             /\ SMrdn(r) \/ Undefined(r) \/ Wake(r) \/ Interrupted(r)
    <3>1. /\ logread'[r].seen = logread[r].seen /\ logread'[r].at = logread[r].at
          /\ logread'[r].pc # "off" /\ logread[r].pc # "off"
      BY <2>4, ReaderFields
    <3>2. cleared' = cleared
      BY <2>4, ReaderMarks
    <3>3. /\ logread'[r].pc # "sleep"
          /\ r \notin Follower /\ logread'[r].pc \in {"semop", "fetch"} =>
                logread[r].pc \in {"semop", "fetch"}
      BY <1>1, <2>4, ReaderFields DEF StartAt
    <3> QED BY <1>1, <2>1, <3>1, <3>2, <3>3 DEF StartAt
  <2>5. CASE s = r /\ (NothingNew(r) \/ SMrup(r) \/ Fetch(r))
    <3>1. logread'[r].pc \in {"sleep", "semop", "off", "up"}
          /\ (logread'[r].pc \in {"sleep", "semop"} => r \in Follower)
      BY <2>5, ReaderFields DEF NothingNew
    <3> QED BY <3>1 DEF StartAt
  <2> QED BY <1>6, <2>2, <2>3, <2>4, <2>5
<1> QED BY <1>3, <1>4, <1>5, <1>6 DEF Next, SyslogdStep, ReaderStep

(* The oldest complete message begins behind a NUL. *)
LEMMA FromIsBehindNul ==
  ASSUME SyslogTypeOK, shbuf.size = Size, NEW cur \in 0 .. Size - 1, ~NoneComplete(cur)
  PROVE  \E z \in 0 .. Size - 1, n \in 0 .. Size - 1 :
            /\ z = Back(n + 1) /\ Oldest(cur) = Back(n) /\ IsNul(z)
            /\ z = IF NulFrom(cur) < Size THEN NulFrom(cur) ELSE NulFrom(0)
<1> DEFINE z == IF NulFrom(cur) < Size THEN NulFrom(cur) ELSE NulFrom(0)
           from == IF z + 1 >= Size THEN 0 ELSE z + 1
           tail == shbuf.tail
           n == IF from <= tail THEN tail - from ELSE tail - from + Size
<1>1. Size \in Nat \ {0} /\ tail \in 0 .. Size - 1 /\ 0 \in 0 .. Size /\ cur \in 0 .. Size
  BY Sizes
<1>2. /\ NulFrom(cur) \in 0 .. Size /\ IsNul(NulFrom(cur))
      /\ NulFrom(0) \in 0 .. Size /\ IsNul(NulFrom(0))
      /\ \A j \in 0 .. Size : IsNul(j) => NulFrom(0) <= j
  BY <1>1, NulFromIsFirst
<1>3. z \in 0 .. Size - 1 /\ IsNul(z)
  <2>1. CASE NulFrom(cur) < Size
    BY <1>1, <1>2, <2>1
  <2>2. CASE NulFrom(cur) >= Size
    <3>1. PICK j \in 0 .. tail - 1 : IsNul(j)
      BY <2>2 DEF NoneComplete, NulBefore
    <3>2. j \in 0 .. Size /\ j < Size - 1
      BY <1>1, <3>1
    <3>3. NulFrom(0) < Size /\ z = NulFrom(0)
      BY <1>1, <1>2, <2>2, <3>1, <3>2
    <3> QED BY <1>1, <1>2, <3>3
  <2> QED BY <1>1, <1>2, <2>1, <2>2
<1>4. Oldest(cur) = from
  BY <1>1, <1>2 DEF Oldest, Incremented
<1>5. z = IF NulFrom(cur) < Size THEN NulFrom(cur) ELSE NulFrom(0)
  OBVIOUS
<1> HIDE DEF z, tail
<1>6. n \in 0 .. Size - 1 /\ z = Before(tail, n + 1, Size) /\ from = Before(tail, n, Size)
  BY <1>1, <1>3 DEF Before
<1> HIDE DEF n, from
<1> QED BY <1>3, <1>4, <1>5, <1>6 DEF Back, tail

(* When nothing was written since the reader looked at tail, there is no   *)
(* NUL that is older than the one it begins behind.                        *)
LEMMA NoOlderNul ==
  ASSUME SyslogTypeOK, shbuf.size = Size,
         NEW n \in 0 .. Size - 1, NEW z \in 0 .. Size - 1, z = Back(n + 1),
         z = IF NulFrom(shbuf.tail) < Size THEN NulFrom(shbuf.tail) ELSE NulFrom(0),
         NEW m \in 1 .. Size, IsNul(Back(m))
  PROVE  m <= n + 1
<1> DEFINE tail == shbuf.tail
           p == Before(tail, m, Size)
           a == NulFrom(tail)
           b == NulFrom(0)
<1>1. Size \in Nat \ {0} /\ tail \in 0 .. Size - 1
  BY Sizes
<1>2. p \in 0 .. Size - 1 /\ IsNul(p)
  BY <1>1 DEF Back, Before
<1>3. /\ a \in tail .. Size /\ b \in 0 .. Size
      /\ p >= tail => a <= p
      /\ b <= p
  <2>1. tail \in 0 .. Size /\ 0 \in 0 .. Size /\ p \in 0 .. Size
        /\ (p >= tail => p \in tail .. Size)
    BY <1>1, <1>2
  <2> QED BY <1>2, <2>1, NulFromIsFirst
<1>4. z = Before(tail, n + 1, Size) /\ z = IF a < Size THEN a ELSE b
  BY DEF Back
<1>5. p = IF m <= tail THEN tail - m ELSE tail - m + Size
  BY DEF Before
<1>6. z = IF n + 1 <= tail THEN tail - (n + 1) ELSE tail - (n + 1) + Size
  BY <1>4 DEF Before
<1> HIDE DEF p, a, b, tail
<1> QED BY <1>1, <1>2, <1>3, <1>4, <1>5, <1>6

(* The bytes of s behind b, with m NULs before them. *)
Padded(s, b, m) == [k \in 1 .. m + (Len(s) - b) |-> IF k <= m THEN 0 ELSE s[b + (k - m)]]

LEMMA PaddedType ==
  ASSUME NEW C, 0 \in C, NEW s \in Seq(C), NEW b \in Nat, b <= Len(s), NEW m \in Nat
  PROVE  /\ Padded(s, b, m) \in Seq(C) /\ Len(Padded(s, b, m)) = m + (Len(s) - b)
         /\ \A k \in 1 .. m : Padded(s, b, m)[k] = 0
         /\ \A k \in 1 .. Len(s) - b : Padded(s, b, m)[m + k] = s[b + k]
<1> DEFINE L == Len(s) - b
           u == Padded(s, b, m)
<1>1. L \in Nat /\ m + L \in Nat /\ Len(s) \in Nat
  OBVIOUS
<1>2. \A k \in 1 .. L : b + k \in 1 .. Len(s)
  OBVIOUS
<1>3. \A k \in 1 .. L : s[b + k] \in C
  BY <1>2
<1> HIDE DEF L
<1>4. \A k \in 1 .. m + L : k <= m \/ (k - m \in 1 .. L)
  BY <1>1
<1>5. u = [k \in 1 .. m + L |-> IF k <= m THEN 0 ELSE s[b + (k - m)]]
  BY DEF Padded, L
<1> HIDE DEF u
<1>6. \A k \in 1 .. m + L : (IF k <= m THEN 0 ELSE s[b + (k - m)]) \in C
  BY <1>3, <1>4
<1>7. u \in Seq(C) /\ Len(u) = m + L
  BY <1>1, <1>5, <1>6
<1>8. \A k \in 1 .. m : k \in 1 .. m + L /\ k <= m
  BY <1>1
<1>9. \A k \in 1 .. L : m + k \in 1 .. m + L /\ ~(m + k <= m) /\ (m + k) - m = k
  BY <1>1
<1>10. (\A k \in 1 .. m : u[k] = 0) /\ (\A k \in 1 .. L : u[m + k] = s[b + k])
  BY <1>5, <1>8, <1>9
<1> QED BY <1>7, <1>10 DEF u, L

LEMMA PaddedText ==
  ASSUME NEW C, 0 \in C, NEW s \in Seq(C), NEW b \in Nat, b <= Len(s), NEW m \in Nat, NEW a \in 0 .. m
  PROVE  Text(Slice(Padded(s, b, m), a, m + (Len(s) - b))) = Text(Slice(s, b, Len(s)))
<1> DEFINE u == Padded(s, b, m)
           L == Len(s) - b
           e == m + L
           N == Len(s)
           front == Slice(u, a, m)
           back == Slice(u, m, e)
           w == Slice(s, b, N)
<1>1. N \in Nat /\ N <= Len(s) /\ N - b = L /\ L \in Nat /\ b <= N
  OBVIOUS
<1>2. /\ u \in Seq(C) /\ Len(u) = m + (Len(s) - b)
      /\ \A k \in 1 .. m : u[k] = 0
      /\ \A k \in 1 .. Len(s) - b : u[m + k] = s[b + k]
  BY PaddedType, ZenonT(30)
<1>3. /\ a \in Nat /\ e \in Nat /\ a <= m /\ m <= e /\ e - m = L /\ e = Len(u)
      /\ m <= Len(u) /\ e <= Len(u) /\ \A k \in 1 .. L : u[m + k] = s[b + k]
  <2> HIDE DEF u
  <2> QED BY <1>1, <1>2
<1> HIDE DEF u, L, N, e
<1>4. front \in Seq(C) /\ Len(front) = m - a /\ \A k \in 1 .. m - a : front[k] = u[a + k]
  <2>1. u \in Seq(C) /\ a \in Nat /\ m \in Nat /\ a <= m /\ m <= Len(u)
    BY <1>2, <1>3
  <2> QED BY ONLY <2>1, SliceType, Zenon
<1>5. back \in Seq(C) /\ Len(back) = e - m /\ \A k \in 1 .. e - m : back[k] = u[m + k]
  <2>1. u \in Seq(C) /\ m \in Nat /\ e \in Nat /\ m <= e /\ e <= Len(u)
    BY <1>2, <1>3
  <2> QED BY ONLY <2>1, SliceType
<1>6. w \in Seq(C) /\ Len(w) = N - b /\ \A k \in 1 .. N - b : w[k] = s[b + k]
  BY <1>1, SliceType
<1>7. Slice(u, a, e) = front \o back
  BY <1>2, <1>3, SlicesJoin
<1> HIDE DEF front, back, w
<1>8. back = w
  <2>1. Len(back) = L /\ Len(w) = L
    BY <1>1, <1>3, <1>5, <1>6
  <2>2. \A k \in 1 .. L : back[k] = w[k]
    BY <1>1, <1>2, <1>3, <1>5, <1>6
  <2> QED BY <1>5, <1>6, <2>1, <2>2, EqualSequences
<1>9. ASSUME NEW k \in 1 .. Len(front) PROVE front[k] = 0
  <2>1. k \in 1 .. m - a /\ a + k \in 1 .. m
    BY <1>3, <1>4
  <2> QED BY <1>2, <1>4, <2>1
<1>10. Text(front) = << >>
  BY <1>4, <1>9, TextOfNuls
<1>11. Text(w) \in Seq(C) /\ Text(front \o w) = Text(front) \o Text(w)
  BY <1>4, <1>6, TextJoins
<1>12. << >> \o Text(w) = Text(w)
  <2> DEFINE t == Text(w)
  <2>1. t \in Seq(C)
    BY <1>11
  <2> HIDE DEF t
  <2>2. << >> \o t = t
    BY <2>1
  <2> QED BY <2>2 DEF t
<1> QED BY <1>7, <1>8, <1>10, <1>11, <1>12 DEF u, w, N, e, L

(* The text that is copied from n bytes before tail on: that of the last n *)
(* bytes of the log, or of all that was written since it was cleared.      *)
LEMMA CopiedText ==
  ASSUME SyslogTypeOK, RingOK, ClearOK, shbuf.size = Size, NEW n \in 0 .. Size - 1,
         NEW i, i = IF n <= Len(stream) - base THEN Len(stream) - n ELSE base
  PROVE  Text(Copied(Back(n))) = Text(Slice(stream, i, Len(stream)))
<1> DEFINE N == Len(stream)
           L == N - base
<1>1. /\ Size \in Nat \ {0} /\ N \in Nat /\ base \in Nat /\ base <= N
      /\ MaxMessages \in Nat /\ stream \in Seq(0 .. MaxMessages)
      /\ shbuf.tail \in 0 .. Size - 1
  BY Sizes DEF RingOK
<1>2. CASE n <= L
  <2>1. Copied(Back(n)) = Written(N - n, N)
    BY <1>2, CopiedIsWritten
  <2> QED BY <1>2, <2>1 DEF Written, Slice
<1>3. CASE n > L
  <2>1. PICK C : stream \in Seq(C) /\ 0 \in C
    BY <1>1
  <2> DEFINE u == Padded(stream, base, Size)
  <2>2. /\ u \in Seq(C) /\ Len(u) = Size + L
        /\ \A k \in 1 .. Size : u[k] = 0
        /\ \A k \in 1 .. L : u[Size + k] = stream[base + k]
    <3>1. /\ Size \in Nat /\ base \in Nat /\ base <= Len(stream) /\ stream \in Seq(C)
          /\ 0 \in C
      BY <1>1, <2>1
    <3>2. /\ u \in Seq(C) /\ Len(u) = Size + (Len(stream) - base)
          /\ \A k \in 1 .. Size : u[k] = 0
          /\ \A k \in 1 .. Len(stream) - base : u[Size + k] = stream[base + k]
      BY ONLY <3>1, PaddedType, ZenonT(30)
    <3> HIDE DEF u
    <3> QED BY ONLY <3>2
  <2> HIDE DEF u
  <2>3. /\ shbuf.size = Size /\ i = base /\ L < n /\ L \in Nat
        /\ Len(u) \in Nat /\ 0 <= Len(u) /\ n <= Len(u) - 0 /\ Len(u) - 0 = Size + L
        /\ n \in Nat /\ Len(stream) - base <= n /\ n <= Size + (Len(stream) - base)
    BY <1>1, <1>3, <2>2
  <2>4. ASSUME NEW j \in 1 .. Size
        PROVE  shbuf.data[Before(shbuf.tail, j, Size)] = u[Size + L + 1 - j]
    <3>1. CASE j > L
      <4>1. shbuf.data[Back(j)] = 0
        BY <3>1 DEF ClearOK
      <4>2. Size + L + 1 - j \in 1 .. Size
        BY <1>1, <2>3, <3>1
      <4> QED BY <2>2, <4>1, <4>2 DEF Back
    <3>2. CASE j <= L
      <4>1. shbuf.data[Before(shbuf.tail, j, Size)] = stream[N + 1 - j]
        BY <3>2 DEF RingOK, Ring
      <4>2. L + 1 - j \in 1 .. L /\ Size + (L + 1 - j) = Size + L + 1 - j
            /\ base + (L + 1 - j) = N + 1 - j
        BY <1>1, <2>3, <3>2
      <4>3. u[Size + (L + 1 - j)] = stream[base + (L + 1 - j)]
        BY <2>2, <4>2
      <4> QED BY <4>1, <4>2, <4>3
    <3> QED BY <1>1, <2>3, <3>1, <3>2
  <2>5. Ring(shbuf.data, shbuf.tail, u, 0)
    BY <2>2, <2>4 DEF Ring
  <2>6. Copied(Back(n)) = Slice(u, Len(u) - n, Len(u))
    BY <2>2, <2>3, <2>5, CopiedIsSlice
  <2>7. Text(Slice(u, Len(u) - n, Len(u))) = Text(Slice(stream, base, Len(stream)))
    <3> DEFINE a == Len(u) - n
    <3>1. /\ Size \in Nat /\ base \in Nat /\ base <= Len(stream) /\ stream \in Seq(C)
          /\ 0 \in C /\ a \in 0 .. Size
      BY <1>1, <2>1, <2>3
    <3>2. Len(u) = Size + (Len(stream) - base)
      BY <2>2
    <3> HIDE DEF a
    <3>3. Text(Slice(Padded(stream, base, Size), a, Size + (Len(stream) - base)))
             = Text(Slice(stream, base, Len(stream)))
      BY ONLY <3>1, PaddedText, Zenon
    <3> QED BY <3>2, <3>3 DEF u, a
  <2> QED BY <2>3, <2>6, <2>7
<1> QED BY <1>1, <1>2, <1>3

(* The text of more bytes is at least as long. *)
LEMMA TextGrows ==
  ASSUME NEW C, NEW s \in Seq(C), NEW i \in Nat, NEW j \in Nat, i <= j, j <= Len(s)
  PROVE  /\ Len(Text(Slice(s, j, Len(s)))) <= Len(Text(Slice(s, i, Len(s))))
<1> DEFINE N == Len(s)
           u == Slice(s, i, j)
           w == Slice(s, j, N)
           v == Slice(s, i, N)
<1>1. N \in Nat /\ N <= Len(s) /\ i <= N /\ j <= N
  OBVIOUS
<1> HIDE DEF N
<1>2. u \in Seq(C) /\ w \in Seq(C)
  BY <1>1, SliceType
<1>3. u \o w = v
  BY <1>1, SlicesJoin
<1> HIDE DEF u, v, w
<1>4. Text(u) \in Seq(C) /\ Text(w) \in Seq(C) /\ Text(u \o w) = Text(u) \o Text(w)
  BY <1>2, TextJoins
<1> DEFINE x == Text(u)
           y == Text(w)
<1>5. x \in Seq(C) /\ y \in Seq(C) /\ Text(v) = x \o y
  BY <1>3, <1>4
<1> HIDE DEF x, y
<1>6. Len(x \o y) = Len(x) + Len(y) /\ Len(x) \in Nat /\ Len(y) \in Nat
  BY <1>5
<1>7. Len(y) <= Len(Text(v))
  BY <1>5, <1>6
<1> QED BY <1>7 DEF y, v, w, N

(* What a reader has when it has taken its copy. *)
LEMMA FetchedIsWhole ==
  ASSUME SlogInv, ClearOK, StartOK, NEW r \in Reader, Fetch(r), r \notin Follower
  PROVE  Whole(r)'
<1> USE DEF SlogInv
<1> DEFINE N == Len(stream)
           cur == logread[r].cur
           L == N - base
           i(n) == IF n <= L THEN N - n ELSE base
<1>1. /\ Size \in Nat \ {0} /\ N \in Nat /\ base \in Nat /\ base <= N /\ L \in Nat
      /\ stream \in Seq(0 .. MaxMessages) /\ shbuf.size \in {0, Size}
      /\ shbuf.tail \in 0 .. Size - 1 /\ cur \in 0 .. Size - 1
      /\ logread[r].at \in Nat
  <2>1. cur \in 0 .. Size - 1 /\ logread[r].at \in Nat
    BY DEF SyslogTypeOK, ReaderState
  <2>2. base <= N
    BY DEF RingOK
  <2> HIDE DEF cur
  <2> QED BY <2>1, <2>2, Sizes
<1>2. /\ UNCHANGED <<stream, base>> /\ ~NoneComplete(cur) /\ logread[r].pc = "fetch"
      /\ logread'[r].at = N /\ logread'[r].seen = logread[r].seen
      /\ logread'[r].copy = Copied(Oldest(cur))
  <2>1. logread[r].seen = logread[r].at
    BY ReaderFields DEF StartOK, StartAt
  <2> QED BY <2>1, ReaderFields DEF Fetch, From
<1>3. shbuf.size = Size
  <2> SUFFICES ASSUME shbuf.size = 0 PROVE FALSE
    BY <1>1
  <2>1. shbuf.tail = 0
    BY DEF ClearOK
  <2>2. cur \in 0 .. Size
    BY <1>1
  <2>3. NulFrom(cur) >= 0
    BY <1>1, <2>2, NulFromIsFirst
  <2>4. NulBefore(shbuf.tail) = {}
    BY <2>1 DEF NulBefore
  <2> QED BY <1>2, <2>3, <2>4 DEF NoneComplete
<1>4. shbuf.data[Back(1)] = 0
  BY <1>2, <1>3 DEF LockOK, NulOK
<1>5. PICK z \in 0 .. Size - 1, n \in 0 .. Size - 1 :
         /\ z = Back(n + 1) /\ Oldest(cur) = Back(n) /\ IsNul(z)
         /\ z = IF NulFrom(cur) < Size THEN NulFrom(cur) ELSE NulFrom(0)
  BY <1>1, <1>2, <1>3, FromIsBehindNul
<1>6. \A j \in 1 .. Size : j <= L => shbuf.data[Back(j)] = stream[N + 1 - j]
  BY DEF RingOK, Ring, Back
<1>7. Boundary(N)
  <2>1. CASE N = base
    BY <2>1 DEF Boundary
  <2>2. CASE N # base
    <3>1. 1 \in 1 .. Size /\ 1 <= L /\ N + 1 - 1 = N /\ N > 0
      BY <1>1, <2>2
    <3> QED BY <1>4, <1>6, <3>1 DEF Boundary
  <2> QED BY <2>1, <2>2
<1>8. i(n) \in base .. N /\ Boundary(i(n))
  <2>1. CASE n < L
    <3>1. n + 1 \in 1 .. Size /\ n + 1 <= L /\ N + 1 - (n + 1) = N - n /\ N - n > 0
          /\ i(n) = N - n /\ N - n \in base .. N
      BY <1>1, <2>1
    <3> QED BY <1>5, <1>6, <3>1 DEF Boundary, IsNul
  <2>2. CASE n >= L
    <3>1. i(n) = base
      BY <1>1, <2>2
    <3>2. base \in base .. N
      BY <1>1
    <3>3. Boundary(base)
      BY DEF Boundary
    <3> QED BY ONLY <3>1, <3>2, <3>3
  <2> QED BY <1>1, <2>1, <2>2
<1>9. Text(Copied(Oldest(cur))) = Text(Slice(stream, i(n), N))
  BY <1>3, <1>5, CopiedText
<1>10. ASSUME logread[r].seen = N, NEW b \in 0 .. N, Boundary(b), base <= b, N - b < Size
       PROVE  i(n) <= b
  <2> DEFINE d == N - b
  <2>1. d \in Nat /\ d + 1 \in 1 .. Size /\ d <= L /\ b = N - d
    BY <1>1, <1>10
  <2>2. CASE d = 0
    BY <1>1, <1>8, <2>1, <2>2
  <2>3. CASE d > 0
    <3>1. logread[r].at = N
      BY <1>2, <1>10 DEF StartOK, StartAt
    <3>2. r \notin cleared
      BY <1>1, <1>2, <2>1, <2>3, <3>1 DEF StartOK, StartAt
    <3>3. cur = shbuf.tail
      <4>1. N - N = 0 /\ 0 < Size /\ Before(shbuf.tail, 0, Size) = shbuf.tail
        BY <1>1 DEF Before
      <4> QED BY <1>2, <3>1, <3>2, <4>1 DEF PlaceOK, PlaceAt, Awake, Back
    <3>4. IsNul(Back(d + 1))
      <4>1. CASE d = L
        <5>1. d + 1 > N - base
          BY <1>1, <4>1
        <5>2. d + 1 \in 1 .. Size
          BY <2>1
        <5>3. \A j \in 1 .. Size : j > N - base => shbuf.data[Back(j)] = 0
          BY DEF ClearOK
        <5> HIDE DEF d, L, N
        <5>4. shbuf.data[Back(d + 1)] = 0
          BY ONLY <5>1, <5>2, <5>3
        <5> QED BY <5>4 DEF IsNul
      <4>2. CASE d < L
        <5>1. d + 1 <= L /\ N + 1 - (d + 1) = b /\ b # base
          BY <1>1, <2>1, <4>2
        <5> QED BY <1>6, <1>10, <2>1, <5>1 DEF Boundary, IsNul
      <4> QED BY <1>1, <2>1, <4>1, <4>2
    <3>5. d + 1 <= n + 1
      <4> HIDE DEF d
      <4> QED BY <1>3, <1>5, <2>1, <3>3, <3>4, NoOlderNul
    <3>6. n \in Nat /\ N \in Nat /\ base \in Nat /\ base <= N
      BY <1>1
    <3> HIDE DEF d, N
    <3>7. d <= n /\ d <= N - base /\ b = N - d
      BY ONLY <2>1, <3>5, <3>6
    <3> QED BY ONLY <2>1, <3>6, <3>7
  <2> QED BY <2>1, <2>2, <2>3
<1>11. ASSUME logread[r].seen = N, NEW b \in 0 .. N, Boundary(b), base <= b, N - b < Size
       PROVE  Len(Text(Slice(stream, b, N))) <= Len(Text(Copied(Oldest(cur))))
  <2>1. i(n) <= b /\ i(n) \in Nat /\ b \in Nat /\ b <= Len(stream)
    BY <1>1, <1>8, <1>10, <1>11
  <2> HIDE DEF i
  <2>2. Len(Text(Slice(stream, b, N))) <= Len(Text(Slice(stream, i(n), N)))
    BY <1>1, <2>1, TextGrows
  <2> QED BY <1>9, <2>2
<1>12. \A b \in 0 .. N : Boundary(b)' = Boundary(b)
  BY <1>2 DEF Boundary
<1>13. Boundaries(r)' = {b \in 0 .. N : Boundary(b)}
  BY <1>2, <1>12 DEF Boundaries
<1>14. \A b : Written(b, N)' = Slice(stream, b, N)
  BY <1>2 DEF Written, Slice
<1> HIDE DEF i
<1>15. Boundary(logread[r].at)'
  BY <1>1, <1>2, <1>7 DEF Boundary
<1>16. \E b \in Boundaries(r)' : Text(logread'[r].copy) = Text(Written(b, logread[r].at)')
  <2>1. i(n) \in Boundaries(r)'
    BY <1>1, <1>8, <1>13
  <2> QED BY <1>2, <1>9, <1>14, <2>1
<1>17. logread'[r].seen = logread'[r].at =>
          \A b \in Boundaries(r)' :
             base' <= b /\ logread'[r].at - b < Size =>
                Len(Text(Written(b, logread[r].at)')) <= Len(Text(logread'[r].copy))
  BY <1>2, <1>11, <1>13, <1>14
<1> QED BY <1>15, <1>16, <1>17 DEF Whole

(* A reader has its copy until it is done, and nothing that it depends on  *)
(* changes before.                                                         *)
LEMMA WholeStep ==
  ASSUME WholeInv, Next
  PROVE  ReadsWholeMessages'
<1> USE DEF WholeInv, SlogInv
<1> SUFFICES ASSUME NEW r \in Reader, Clean(r)' PROVE Whole(r)'
  BY DEF ReadsWholeMessages, Whole
<1>1. logread[r] \in ReaderState
  BY DEF SyslogTypeOK
<1>2. ASSUME logread'[r] = logread[r], UNCHANGED <<stream, base>>,
             r \in torn => r \in torn'
      PROVE  Whole(r)'
  <2>1. Clean(r)
    BY <1>2 DEF Clean
  <2>2. Whole(r)
    BY <2>1 DEF ReadsWholeMessages, Whole
  <2> QED BY <1>2, <2>2 DEF Whole, Boundary, Boundaries, Written
<1>3. CASE ipcsyslog_init
  <2>1. logread' = logread /\ (logread[r].pc \in {"fetch", "up"} => r \in torn')
    BY <1>3 DEF ipcsyslog_init
  <2> QED BY <2>1 DEF Clean
<1>4. CASE ipcsyslog_cleanup
  <2>1. logread'[r] = logread[r] \/ logread'[r] = [logread[r] EXCEPT !.pc = "gone"]
    BY <1>4 DEF ipcsyslog_cleanup
  <2>2. logread'[r] = logread[r] \/ logread'[r].pc = "gone"
    BY <1>1, <2>1 DEF ReaderState
  <2>3. UNCHANGED <<stream, base, torn>>
    BY <1>4 DEF ipcsyslog_cleanup, history
  <2> QED BY <1>2, <2>2, <2>3 DEF Clean
<1>5. CASE \/ \E len \in MessageLen : SetSize(len) \/ Read(len) \/ Stop(len)
           \/ SMwdn \/ SMwup \/ Signal \/ SignalWhileWaiting \/ Killed
  BY <1>2, <1>5 DEF SetSize, Read, Stop, SMwdn, SMwup, Signal, SignalWhileWaiting, Killed,
                    history
<1>6. CASE StoreMessage \/ StoreFirstPart
  <2>1. At("copy") /\ logread' = logread
    BY <1>6 DEF StoreMessage, StoreFirstPart
  <2>2. logread[r].pc # "up"
    BY <2>1 DEF LockOK
  <2> QED BY <2>1, <2>2 DEF Clean
<1>7. ASSUME NEW s \in Reader,
             Open(s) \/ SMrdn(s) \/ Undefined(s) \/ Wake(s) \/ Interrupted(s)
             \/ NothingNew(s) \/ SMrup(s) \/ Fetch(s)
      PROVE  Whole(r)'
  <2>1. UNCHANGED <<stream, base>>
    BY <1>7, QuietSteps DEF Quiet
  <2>2. CASE s # r
    <3>1. logread'[r] = logread[r]
      BY <1>7, <2>2, ReaderSteps, OneReader
    <3>2. r \in torn => r \in torn'
      BY <1>7, <2>2, ReaderMarks
    <3> QED BY <1>2, <2>1, <3>1, <3>2
  <2>3. CASE s = r /\ Fetch(r)
    <3>1. r \notin Follower
      BY DEF Clean
    <3> QED BY <2>3, <3>1, FetchedIsWhole
  <2>4. CASE s = r /\ ~Fetch(r)
    <3>1. logread'[r].pc # "up"
      BY <1>7, <2>4, ReaderFields
    <3> QED BY <3>1 DEF Clean
  <2> QED BY <2>2, <2>3, <2>4
<1> QED BY <1>3, <1>4, <1>5, <1>6, <1>7 DEF Next, SyslogdStep, ReaderStep

LEMMA WholeInvariant == Spec => []WholeInv
<1>1. Init => WholeInv
  <2> SUFFICES ASSUME Init PROVE WholeInv
    OBVIOUS
  <2>1. SlogInv
    BY SlogInit
  <2>2. ClearOK
    <3>1. \A j \in 1 .. Size : Back(j) \in Index
      BY <2>1, Sizes DEF SlogInv, Back, Before
    <3> QED BY <3>1 DEF ClearOK, Init, Cleared
  <2>3. StartOK /\ ReadsWholeMessages
    <3>1. \A r \in Reader : logread[r].pc = "off"
      BY DEF Init
    <3> QED BY <3>1 DEF StartOK, StartAt, ReadsWholeMessages, Clean
  <2> QED BY <2>1, <2>2, <2>3 DEF WholeInv
<1>2. WholeInv /\ [Next]_vars => WholeInv'
  <2> SUFFICES ASSUME WholeInv, [Next]_vars PROVE WholeInv'
    OBVIOUS
  <2>1. CASE Next
    <3>1. SlogInv'
      BY <2>1, SlogStep DEF WholeInv
    <3>2. ClearOK'
      BY <2>1, ClearStep DEF WholeInv
    <3>3. StartOK'
      BY <2>1, StartStep DEF WholeInv, StartOK
    <3>4. ReadsWholeMessages'
      BY <2>1, WholeStep
    <3> QED BY <3>1, <3>2, <3>3, <3>4 DEF WholeInv
  <2>2. CASE UNCHANGED vars
    <3>1. SlogInv'
      BY <2>2, SlogStep DEF WholeInv
    <3>2. ClearOK' /\ StartOK'
      BY <2>2 DEF WholeInv, ClearOK, StartOK, StartAt, Back, vars
    <3>3. ReadsWholeMessages'
      BY <2>2 DEF WholeInv, ReadsWholeMessages, Clean, Boundary, Boundaries, Written, vars
    <3> QED BY <3>1, <3>2, <3>3 DEF WholeInv
  <2> QED BY <2>1, <2>2
<1> QED BY <1>1, <1>2, PTL DEF Spec

(* logread prints whole messages, up to the newest, whatever was written   *)
(* between its look at tail and its lock; and every message that is        *)
(* complete in the buffer, if nothing was.                                 *)
THEOREM SyslogWholeMessages == Spec => []ReadsWholeMessages
<1>1. WholeInv => ReadsWholeMessages
  BY DEF WholeInv
<1> QED BY <1>1, WholeInvariant, PTL
=============================================================================

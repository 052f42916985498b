----------------------------- MODULE TftpProofs -----------------------------
(***************************************************************************)
(* Proofs about tftp: whatever the network does, and for a file of any     *)
(* length, what has been written is a prefix of the file.                  *)
(*                                                                         *)
(* The argument.  A block number on the wire is the true number modulo     *)
(* BlockMod (NetOK, ReceiverOK, SenderOK).  A packet that is accepted has  *)
(* the number that is expected, and what is known of the packets that are  *)
(* still fresh bounds its distance to the expected block by less than      *)
(* BlockMod: by SameBlock it is that block.                                *)
(***************************************************************************)
EXTENDS Tftp, TLAPS

(* What the packets say is what has been read, or written, so far. *)
NetOK ==
    \A m \in net :
       /\ m.type = "DATA" => /\ m.block \in 1 .. got + 1
                             /\ m.nr = m.block % BlockMod
       /\ m.type = "ACK" => /\ m.block <= got
                            /\ m.nr = m.block % BlockMod
       /\ m.type \notin {"DATA", "ACK"} => m.block = 0

(* The last block that was written has been acknowledged. *)
WrittenOK == got = 0 \/ \E n \in net : n.block = got

(* A packet that is sent again has been sent before. *)
RepeatOK == \A p \in Process : Running(p) => proc[p].xbuf \in net

ReceiverOK ==
    /\ PrefixOnly
    /\ Len(file) <= got
    /\ proc[Receiver].pc = "ok" => Len(file) = Blocks
    /\ Running(Receiver) =>
          /\ proc[Receiver].nr = (Len(file) + 1) % BlockMod
          /\ proc[Receiver].fin = 0
          /\ Len(file) < Blocks
          /\ got < Len(file) + Lifetime
          /\ proc[Receiver].expect = 1 => get /\ file = << >>

SenderOK ==
    /\ pos <= got + 1
    /\ proc[Sender].pc = "ok" => pos = Blocks
    /\ Running(Sender) =>
          /\ proc[Sender].nr = (pos + 1) % BlockMod
          /\ proc[Sender].fin = 1 <=> pos = Blocks
          /\ \A n \in net : n.block < pos + Lifetime
          /\ pos = 0 \/ \E n \in net : n.block = pos
          /\ proc[Sender].expect = 1 => ~get /\ pos = 0

TftpInv == TftpTypeOK /\ NetOK /\ WrittenOK /\ RepeatOK /\ ReceiverOK /\ SenderOK

-----------------------------------------------------------------------------
(* Numbers modulo BlockMod.                                                *)

LEMMA ModType ==
    ASSUME NEW M \in Nat \ {0}, NEW a \in Nat
    PROVE  /\ a % M \in 0 .. M - 1
           /\ a \div M \in Nat
           /\ a = M * (a \div M) + (a % M)
<1>1. a % M \in 0 .. M - 1 BY SMT
<1>2. a \div M \in Nat /\ a = M * (a \div M) + (a % M) BY SMT
<1> QED BY <1>1, <1>2

LEMMA NextMultiple ==
    ASSUME NEW M \in Nat \ {0}, NEW q \in Nat, NEW r \in Nat, q < r
    PROVE  M * q + M <= M * r
BY SMT

LEMMA ModOfSum ==
    ASSUME NEW M \in Nat \ {0}, NEW q \in Nat, NEW s \in 0 .. M - 1
    PROVE  (M * q + s) % M = s
BY SMT

LEMMA SmallMod ==
    ASSUME NEW M \in Nat \ {0}, NEW a \in Nat, a < M
    PROVE  a % M = a
BY SMT

(* Two blocks of the same number are at least M blocks apart. *)
LEMMA FarApart ==
    ASSUME NEW M \in Nat \ {0}, NEW a \in Nat, NEW b \in Nat,
           a % M = b % M, a < b, b < a + M
    PROVE  FALSE
<1> DEFINE q == a \div M
           r == b \div M
           s == a % M
<1>1. a = M * q + s /\ b = M * r + s
  BY ModType
<1>2. q \in Nat /\ r \in Nat /\ s \in Nat
  <2>1. a % M \in 0 .. M - 1 /\ a \div M \in Nat /\ b \div M \in Nat BY ModType
  <2> QED BY <2>1
<1>3. M * q \in Nat /\ M * r \in Nat
  BY <1>2
<1> HIDE DEF q, r, s
<1>4. CASE q < r
  BY <1>1, <1>2, <1>3, <1>4, NextMultiple
<1>5. CASE r < q
  <2>1. M * r + M <= M * q BY <1>2, <1>5, NextMultiple
  <2> QED BY <1>1, <1>2, <1>3, <2>1
<1>6. CASE q = r
  BY <1>1, <1>2, <1>3, <1>6
<1> QED BY <1>2, <1>4, <1>5, <1>6

LEMMA SameBlock ==
    ASSUME NEW M \in Nat \ {0}, NEW a \in Nat, NEW b \in Nat,
           a % M = b % M, a < b + M, b < a + M
    PROVE  a = b
<1>1. ~(a < b) BY FarApart
<1>2. ~(b < a) BY FarApart
<1> QED BY <1>1, <1>2

LEMMA Later ==
    ASSUME NEW a \in Nat, NEW b \in Nat, NEW k \in Nat, a <= b
    PROVE  /\ k \in 1 .. a + 1 => k \in 1 .. b + 1
           /\ k <= a => k <= b
OBVIOUS

LEMMA NextMod ==
    ASSUME NEW M \in Nat \ {0}, NEW a \in Nat
    PROVE  ((a % M) + 1) % M = (a + 1) % M
<1> DEFINE q == a \div M
           s == a % M
<1>1. q \in Nat /\ s \in 0 .. M - 1 /\ a = M * q + s
  BY ModType
<1> HIDE DEF q, s
<1>2. CASE s + 1 < M
  <2>1. s + 1 \in 0 .. M - 1 /\ a + 1 = M * q + (s + 1) BY <1>1, <1>2
  <2>2. (a + 1) % M = s + 1 BY <1>1, <2>1, ModOfSum
  <2>3. (s + 1) % M = s + 1 BY <1>1, <1>2, SmallMod
  <2> QED BY <2>2, <2>3 DEF s
<1>3. CASE s + 1 = M
  <2>1. a + 1 = M * (q + 1) + 0 BY <1>1, <1>3
  <2>2. q + 1 \in Nat /\ 0 \in 0 .. M - 1 BY <1>1
  <2>3. (a + 1) % M = 0 BY <2>1, <2>2, ModOfSum
  <2>4. s + 1 = M * 1 + 0 BY <1>3
  <2>5. (s + 1) % M = 0 BY <2>2, <2>4, ModOfSum
  <2> QED BY <2>3, <2>5 DEF s
<1> QED BY <1>1, <1>2, <1>3

-----------------------------------------------------------------------------
(* The roles.                                                              *)

LEMMA Roles ==
    ASSUME get \in BOOLEAN
    PROVE  /\ Process = {Sender, Receiver} /\ Sender # Receiver
           /\ Sender \in Process /\ Receiver \in Process
           /\ get <=> Sender = Server
           /\ get <=> Receiver = Client
           /\ Client # Server
BY DEF Process, Sender, Receiver, Peer, Client, Server

(* They stay as long as the request does. *)
LEMMA RolesKept ==
    ASSUME get \in BOOLEAN, get' = get
    PROVE  /\ Sender' = Sender /\ Receiver' = Receiver
           /\ Peer(Receiver) = Sender /\ Peer(Sender) = Receiver
<1>1. Client # Server BY ONLY DEF Client, Server
<1>2. Sender' = Sender
  BY ONLY get' = get DEF Sender, Client, Server
<1>3. Peer(Client) = Server /\ Peer(Server) = Client
  BY ONLY <1>1 DEF Peer
<1>4. Sender = Server \/ Sender = Client
  BY ONLY DEF Sender
<1>5. Receiver = Peer(Sender)
  BY ONLY DEF Receiver
<1>6. Receiver' = Receiver
  BY ONLY <1>2 DEF Receiver, Peer, Client, Server
<1>7. Peer(Receiver) = Sender
  BY ONLY <1>3, <1>4, <1>5
<1> QED BY ONLY <1>2, <1>5, <1>6, <1>7

LEMMA MessageType ==
    ASSUME NEW to \in Process, NEW type \in {"REQ", "OACK", "DATA", "ACK", "ERROR"},
           NEW nr \in 0 .. BlockMod - 1, NEW block \in 0 .. Blocks
    PROVE  /\ Message(to, type, nr, block) \in Packet
           /\ Message(to, type, nr, block).type = type
           /\ Message(to, type, nr, block).nr = nr
           /\ Message(to, type, nr, block).block = block
BY DEF Message, Packet

(* A process. *)
Record == [pc: {"none", "run", "ok", "fail"}, nr: 0 .. BlockMod - 1, fin: 0 .. 1,
           op: {"REQ", "OACK", "DATA", "ACK"}, xbuf: Packet,
           retries: 1 .. Retries, expect: 0 .. 1, due: BOOLEAN]

LEMMA InitInvariant == TftpInit => TftpInv
<1> SUFFICES ASSUME TftpInit PROVE TftpInv
  OBVIOUS
<1> USE TftpAssumption
<1>1. 1 % BlockMod = 1 /\ 1 \in 0 .. BlockMod - 1
  BY SmallMod
<1>2. Request \in Packet /\ Request.type = "REQ" /\ Request.block = 0
  BY DEF Request, Message, Packet, Process
<1>3. \A p \in Process : /\ proc[p].xbuf = Request /\ proc[p].nr = 1
                         /\ proc[p].fin = 0 /\ proc[p].pc \in {"none", "run"}
  BY DEF TftpInit, Fork
<1>4. TftpTypeOK
  <2>1. Retries \in 1 .. Retries /\ 0 \in 0 .. 1 OBVIOUS
  <2>2. Fork \in Record
    BY <1>1, <1>2, <2>1 DEF Fork, Record
  <2>3. [Fork EXCEPT !.expect = 1] \in Record /\ [Fork EXCEPT !.pc = "none"] \in Record
    BY <2>2 DEF Record
  <2>4. proc \in [Process -> Record]
    BY <2>3 DEF TftpInit
  <2>5. << >> \in Seq(1 .. Blocks) /\ 0 \in 0 .. Blocks /\ 0 \in 0 .. MaxStarts
    OBVIOUS
  <2> QED BY <1>2, <2>4, <2>5 DEF TftpTypeOK, TftpInit, Record
<1>5. NetOK /\ WrittenOK /\ RepeatOK
  BY <1>2, <1>3 DEF NetOK, WrittenOK, RepeatOK, TftpInit
<1>6. Sender \in Process /\ Receiver \in Process
  BY Roles DEF TftpInit
<1>7. /\ proc[Receiver].expect = 1 => get
      /\ proc[Sender].expect = 1 => ~get
  <2>1. \A p \in Process : proc[p].expect = 1 => p = Client
    BY DEF TftpInit, Fork
  <2> QED BY <1>6, <2>1, Roles DEF TftpInit
<1>8. ReceiverOK
  BY <1>1, <1>3, <1>6, <1>7 DEF ReceiverOK, PrefixOnly, TftpInit, Running
<1>9. SenderOK
  <2>1. pos = 0 /\ Blocks # 0 /\ net = {Request} BY DEF TftpInit
  <2>2. \A n \in net : n.block < pos + Lifetime BY ONLY <1>2, <2>1, TftpAssumption
  <2>3. proc[Sender].nr = (pos + 1) % BlockMod /\ proc[Sender].fin = 0
        /\ proc[Sender].pc # "ok"
    BY ONLY <1>1, <1>3, <1>6, <2>1
  <2>4. pos <= got + 1 BY <2>1 DEF TftpInit
  <2> QED BY ONLY <1>7, <2>1, <2>2, <2>3, <2>4 DEF SenderOK, Running
<1> QED BY <1>4, <1>5, <1>8, <1>9 DEF TftpInv

-----------------------------------------------------------------------------
(* What a packet that is accepted must be.                                 *)

(* The DATA that the receiver accepts is the next block. *)
LEMMA NextBlock ==
    ASSUME TftpInv, NEW m \in net,
           Running(Receiver), Fresh(m), IsNext(Receiver, m)
    PROVE  m.block = Len(file) + 1
<1> USE TftpAssumption DEF TftpInv
<1>1. /\ m.block \in 1 .. got + 1 /\ m.nr = m.block % BlockMod
      /\ proc[Receiver].nr = (Len(file) + 1) % BlockMod
      /\ got < Len(file) + Lifetime /\ Len(file) <= got
      /\ m.nr = proc[Receiver].nr
  BY DEF NetOK, ReceiverOK, IsNext
<1>2. got \in Nat /\ Len(file) \in Nat /\ m.block \in Nat
  <2>1. got \in Nat /\ file \in Seq(1 .. Blocks) BY DEF TftpTypeOK
  <2> QED BY ONLY <1>1, <2>1
<1>3. got < m.block + Lifetime
  <2>1. CASE got = 0 BY <1>1, <1>2, <2>1
  <2>2. CASE \E n \in net : n.block = got BY <2>2 DEF Fresh
  <2> QED BY <2>1, <2>2 DEF WrittenOK
<1> DEFINE k == m.block
           n == Len(file)
<1>4. /\ k \in Nat /\ n \in Nat /\ got \in Nat /\ n <= got /\ k <= got + 1
      /\ got < n + Lifetime /\ got < k + Lifetime
      /\ Lifetime \in Nat /\ BlockMod \in Nat \ {0} /\ Lifetime < BlockMod
  BY <1>1, <1>2, <1>3
<1>5. k % BlockMod = (n + 1) % BlockMod
  BY ONLY <1>1
<1> HIDE DEF k, n
<1>6. n + 1 \in Nat /\ k < (n + 1) + BlockMod /\ n + 1 < k + BlockMod
  BY ONLY <1>4
<1>7. k = n + 1
  BY ONLY <1>4, <1>5, <1>6, SameBlock
<1> QED BY ONLY <1>7 DEF k, n

(* The ACK that the sender accepts is that of the last block it has read,  *)
(* which therefore has been written.                                       *)
LEMMA AckedBlock ==
    ASSUME TftpInv, NEW m \in net,
           Running(Sender), Fresh(m), IsAcked(Sender, m)
    PROVE  pos <= got
<1> USE TftpAssumption DEF TftpInv
<1>1. /\ m.block <= got /\ m.nr = m.block % BlockMod
      /\ proc[Sender].nr = (pos + 1) % BlockMod
      /\ m.block < pos + Lifetime
      /\ (m.nr + 1) % BlockMod = proc[Sender].nr
  BY DEF NetOK, SenderOK, IsAcked
<1>2. got \in Nat /\ pos \in Nat /\ m.block \in Nat
  BY DEF TftpTypeOK, Packet
<1>3. pos < m.block + Lifetime
  <2>1. CASE pos = 0 BY <1>2, <2>1
  <2>2. CASE \E n \in net : n.block = pos BY <2>2 DEF Fresh
  <2> QED BY <2>1, <2>2 DEF SenderOK
<1>4. (m.block + 1) % BlockMod = (pos + 1) % BlockMod
  BY <1>1, <1>2, NextMod
<1>5. m.block + 1 < (pos + 1) + BlockMod /\ pos + 1 < (m.block + 1) + BlockMod
  BY <1>1, <1>2, <1>3
<1>6. m.block + 1 \in Nat /\ pos + 1 \in Nat
  BY <1>2
<1>7. m.block + 1 = pos + 1
  BY <1>4, <1>5, <1>6, SameBlock
<1> QED BY <1>1, <1>2, <1>7

-----------------------------------------------------------------------------
(* What each way to go on preserves.                                       *)

(* An ACK says how much of the file has been written. *)
LEMMA SendAckOK ==
    ASSUME TftpInv, NEW r \in Record,
           r.pc = "run", r.expect = 0, r.fin = 1 <=> Len(file') = Blocks,
           r.nr = Len(file') % BlockMod,
           file' \in Seq(1 .. Blocks), PrefixOnly',
           got' \in 0 .. Blocks, got <= got', Len(file') <= got',
           got' < Len(file') + Lifetime, got' = got \/ got' = Len(file'),
           Len(file') = 0 \/ \E n \in net : n.block = Len(file'),
           starts' \in 0 .. MaxStarts, UNCHANGED <<get, oack, pos>>,
           SendAck(Receiver, r, file')
    PROVE  TftpInv'
<1> USE TftpAssumption DEF TftpInv
<1> DEFINE m == Message(Sender, "ACK", r.nr, Len(file'))
           s == [r EXCEPT !.op = "ACK", !.xbuf = m, !.retries = Retries,
                          !.due = FALSE, !.nr = (@ + 1) % BlockMod]
           q == [s EXCEPT !.pc = IF r.fin = 1 THEN "ok" ELSE @]
<1>1. get \in BOOLEAN /\ got \in 0 .. Blocks /\ pos \in 0 .. Blocks
  BY DEF TftpTypeOK
<1>2. /\ Process = {Sender, Receiver} /\ Sender # Receiver
      /\ Sender' = Sender /\ Receiver' = Receiver /\ Peer(Receiver) = Sender
  BY ONLY <1>1, RolesKept, Roles, get' = get
<1>3. Len(file') \in 0 .. Blocks /\ r.nr \in 0 .. BlockMod - 1
  BY DEF Record, PrefixOnly
<1>4. m \in Packet /\ m.type = "ACK" /\ m.nr = r.nr /\ m.block = Len(file')
  <2>1. Sender \in Process BY <1>2
  <2> QED BY ONLY <1>3, <2>1, MessageType
<1> HIDE DEF m
<1>5. proc' = [proc EXCEPT ![Receiver] = q] /\ net' = net \cup {m}
  <2>1. Message(Peer(Receiver), "ACK", r.nr, Len(file')) = m
    BY ONLY <1>2 DEF m
  <2>2. Advance(Sends(r, m)) = s
    BY ONLY <1>4 DEF Advance, Sends
  <2> HIDE DEF s
  <2>3. /\ proc' = [proc EXCEPT ![Receiver] =
                      [Advance(Sends(r, m)) EXCEPT !.pc = IF r.fin = 1 THEN "ok" ELSE @]]
        /\ net' = net \cup {m}
    BY ONLY <2>1, SendAck(Receiver, r, file') DEF SendAck
  <2> QED BY ONLY <2>2, <2>3
<1>6. (r.nr + 1) % BlockMod = (Len(file') + 1) % BlockMod
  <2> DEFINE n == Len(file')
  <2>1. n \in Nat /\ r.nr = n % BlockMod BY <1>3
  <2> HIDE DEF n
  <2>2. ((n % BlockMod) + 1) % BlockMod = (n + 1) % BlockMod
    BY ONLY <2>1, BlockMod \in Nat \ {0}, NextMod
  <2> QED BY ONLY <2>1, <2>2 DEF n
<1>7. (r.nr + 1) % BlockMod \in 0 .. BlockMod - 1
  <2>1. r.nr + 1 \in Nat BY <1>3
  <2> QED BY <2>1, ModType
<1>8. q \in Record
  <2>1. s \in Record
    <3> DEFINE s1 == [r EXCEPT !.op = m.type, !.xbuf = m, !.retries = Retries,
                             !.due = FALSE]
    <3>1. s1 \in Record /\ s1.nr = r.nr
      <4>1. Retries \in 1 .. Retries OBVIOUS
      <4>2. m.type \in {"REQ", "OACK", "DATA", "ACK"} BY <1>4
      <4> HIDE TftpAssumption DEF TftpInv
      <4> QED BY <1>4, <4>1, <4>2 DEF Record
    <3>2. s = [s1 EXCEPT !.nr = (r.nr + 1) % BlockMod] BY <1>4 DEF Record
    <3> HIDE DEF s1, s
    <3> QED BY <1>7, <3>1, <3>2 DEF Record
  <2> HIDE DEF s
  <2> QED BY <2>1 DEF Record
<1>9. /\ q.pc = IF r.fin = 1 THEN "ok" ELSE "run"
      /\ q.nr = (Len(file') + 1) % BlockMod /\ q.fin = r.fin
      /\ q.xbuf = m /\ q.expect = 0
  BY <1>6 DEF Record
<1> HIDE DEF q, s
<1>10. proc \in [Process -> Record]
  BY DEF TftpTypeOK, Record
<1>11. /\ proc' \in [Process -> Record]
       /\ proc'[Receiver] = q /\ proc'[Sender] = proc[Sender]
  BY <1>2, <1>5, <1>8, <1>10
<1>12. TftpTypeOK'
  <2>1. /\ get' \in BOOLEAN /\ oack' \in BOOLEAN /\ pos' \in 0 .. Blocks
        /\ file' \in Seq(1 .. Blocks) /\ got' \in 0 .. Blocks
        /\ starts' \in 0 .. MaxStarts
    BY <1>4, <1>5 DEF TftpTypeOK
  <2>2. net' \subseteq Packet
    BY <1>4, <1>5 DEF TftpTypeOK
  <2> QED BY ONLY <1>11, <2>1, <2>2 DEF TftpTypeOK, Record
<1>13. NetOK'
  <2> SUFFICES ASSUME NEW n \in net'
               PROVE  /\ n.type = "DATA" => /\ n.block \in 1 .. got' + 1
                                            /\ n.nr = n.block % BlockMod
                      /\ n.type = "ACK" => /\ n.block <= got'
                                           /\ n.nr = n.block % BlockMod
                      /\ n.type \notin {"DATA", "ACK"} => n.block = 0
    BY DEF NetOK
  <2>1. CASE n = m BY <1>4, <2>1
  <2>2. CASE n \in net
    <3>1. n.block \in Nat BY <2>2 DEF TftpTypeOK, Packet
    <3>2. got \in Nat /\ got' \in Nat /\ got <= got' BY <1>1
    <3>3. n.block \in 1 .. got + 1 => n.block \in 1 .. got' + 1
      BY ONLY <3>1, <3>2, Later
    <3>4. n.block <= got => n.block <= got'
      BY ONLY <3>1, <3>2, Later
    <3> QED BY ONLY <3>3, <3>4, NetOK, n \in net DEF NetOK
  <2> QED BY <1>5, <2>1, <2>2
<1>14. WrittenOK'
  BY <1>4, <1>5 DEF WrittenOK
<1>15. RepeatOK'
  BY <1>2, <1>5, <1>9, <1>11 DEF RepeatOK, Running
<1>16. ReceiverOK'
  <2>1. (proc[Receiver])' = q BY <1>2, <1>11
  <2>2. q.pc = "ok" => Len(file)' = Blocks
    <3>1. r.fin = 1 <=> Len(file') = Blocks OBVIOUS
    <3> QED BY ONLY <1>9, <3>1
  <2>3. q.pc = "run" => /\ q.nr = (Len(file') + 1) % BlockMod /\ q.fin = 0
                        /\ Len(file') < Blocks /\ q.expect = 0
    <3>1. r.fin \in 0 .. 1 BY DEF Record
    <3>2. Len(file') # Blocks => Len(file') < Blocks
      BY ONLY <1>3, Blocks \in Nat
    <3>3. r.fin = 1 <=> Len(file') = Blocks OBVIOUS
    <3> QED BY ONLY <1>9, <3>1, <3>2, <3>3
  <2>4. PrefixOnly' /\ Len(file)' <= got' /\ got' < Len(file)' + Lifetime OBVIOUS
  <2> QED BY ONLY <2>1, <2>2, <2>3, <2>4 DEF ReceiverOK, Running
<1>17. SenderOK'
  <2>1. pos <= got + 1 BY DEF SenderOK
  <2>2. ASSUME Running(Sender) PROVE m.block < pos + Lifetime
    <3>1. CASE Len(file') = 0 BY <1>1, <1>4, <3>1
    <3>2. CASE \E n \in net : n.block = Len(file') BY <1>4, <2>2, <3>2 DEF SenderOK
    <3> QED BY <3>1, <3>2
  <2>3. pos' <= got' + 1 /\ pos' = pos
    <3>1. \A i, j, k \in Nat : i <= j + 1 /\ j <= k => i <= k + 1 OBVIOUS
    <3>2. pos \in Nat /\ got \in Nat /\ got' \in Nat BY <1>1
    <3>3. pos <= got' + 1 BY <2>1, <3>1, <3>2
    <3> QED BY <3>3
  <2>4. Running(Sender) => \A n \in net' : n.block < pos + Lifetime
    BY <1>5, <2>2 DEF SenderOK
  <2> QED BY <1>2, <1>5, <1>11, <2>3, <2>4 DEF SenderOK, Running
<1> QED BY <1>12, <1>13, <1>14, <1>15, <1>16, <1>17

(* DATA is the next block of the file, once the one before is written. *)
LEMMA SendDataOK ==
    ASSUME TftpInv, NEW r \in Record, NEW read \in 0 .. Blocks - 1,
           r.pc = "run", r.expect = 0, r.fin = 0,
           r.nr = (read + 1) % BlockMod,
           read <= got, \A n \in net : n.block < read + Lifetime,
           starts' \in 0 .. MaxStarts, UNCHANGED <<get, oack, file, got>>,
           SendData(Sender, r, read)
    PROVE  TftpInv'
<1> USE TftpAssumption DEF TftpInv
<1> DEFINE m == Message(Receiver, "DATA", r.nr, read + 1)
           s == [r EXCEPT !.op = "DATA", !.xbuf = m, !.retries = Retries,
                          !.due = FALSE, !.nr = (@ + 1) % BlockMod]
           q == IF read + 1 = Blocks THEN [s EXCEPT !.fin = 1] ELSE s
<1>1. get \in BOOLEAN /\ got \in 0 .. Blocks /\ file \in Seq(1 .. Blocks)
  BY DEF TftpTypeOK
<1>2. /\ Process = {Sender, Receiver} /\ Sender # Receiver
      /\ Sender' = Sender /\ Receiver' = Receiver /\ Peer(Sender) = Receiver
  BY <1>1, Roles DEF Sender, Receiver, Peer, Client, Server
<1>3. read + 1 \in 1 .. Blocks /\ r.nr \in 0 .. BlockMod - 1
  BY DEF Record
<1>4. m \in Packet /\ m.type = "DATA" /\ m.nr = r.nr /\ m.block = read + 1
  <2>1. Receiver \in Process /\ read + 1 \in 0 .. Blocks
    BY <1>2, <1>3
  <2> QED BY <1>3, <2>1, MessageType
<1> HIDE DEF m
<1>5. /\ proc' = [proc EXCEPT ![Sender] = q] /\ net' = net \cup {m}
      /\ pos' = read + 1
  BY <1>2, <1>4 DEF SendData, Sends, Advance, Finish, m
<1>6. (r.nr + 1) % BlockMod = (pos' + 1) % BlockMod
  <2>1. (((read + 1) % BlockMod) + 1) % BlockMod = ((read + 1) + 1) % BlockMod
    BY <1>3, NextMod
  <2> QED BY <1>5, <2>1
<1>7. (r.nr + 1) % BlockMod \in 0 .. BlockMod - 1
  <2>1. r.nr + 1 \in Nat BY <1>3
  <2> QED BY <2>1, ModType
<1>8. q \in Record
  <2>1. s \in Record
    <3> DEFINE s1 == [r EXCEPT !.op = m.type, !.xbuf = m, !.retries = Retries,
                             !.due = FALSE]
    <3>1. s1 \in Record /\ s1.nr = r.nr
      <4>1. Retries \in 1 .. Retries OBVIOUS
      <4>2. m.type \in {"REQ", "OACK", "DATA", "ACK"} BY <1>4
      <4> HIDE TftpAssumption DEF TftpInv
      <4> QED BY <1>4, <4>1, <4>2 DEF Record
    <3>2. s = [s1 EXCEPT !.nr = (r.nr + 1) % BlockMod] BY <1>4 DEF Record
    <3> HIDE DEF s1, s
    <3> QED BY <1>7, <3>1, <3>2 DEF Record
  <2> HIDE DEF s
  <2> QED BY <2>1 DEF Record
<1>9. /\ q.pc = "run" /\ q.nr = (pos' + 1) % BlockMod
      /\ q.fin = 1 <=> pos' = Blocks
      /\ q.xbuf = m /\ q.expect = 0
  BY <1>5, <1>6 DEF Record
<1> HIDE DEF q, s
<1>10. proc \in [Process -> Record]
  BY DEF TftpTypeOK, Record
<1>11. /\ proc' \in [Process -> Record]
       /\ proc'[Sender] = q /\ proc'[Receiver] = proc[Receiver]
  BY <1>2, <1>5, <1>8, <1>10
<1>12. TftpTypeOK'
  <2>1. /\ get' \in BOOLEAN /\ oack' \in BOOLEAN /\ pos' \in 0 .. Blocks
        /\ file' \in Seq(1 .. Blocks) /\ got' \in 0 .. Blocks
        /\ starts' \in 0 .. MaxStarts
    BY <1>1, <1>3, <1>5 DEF TftpTypeOK
  <2>2. net' \subseteq Packet
    BY <1>4, <1>5 DEF TftpTypeOK
  <2> QED BY ONLY <1>11, <2>1, <2>2 DEF TftpTypeOK, Record
<1>13. NetOK'
  <2>1. got' = got /\ got \in Nat BY <1>1
  <2>2. m.block \in 1 .. got + 1 /\ m.nr = m.block % BlockMod
    BY <1>3, <1>4, <2>1
  <2> QED BY ONLY <1>4, <1>5, <2>1, <2>2, NetOK DEF NetOK
<1>14. WrittenOK'
  BY <1>5 DEF WrittenOK
<1>15. RepeatOK'
  BY <1>2, <1>5, <1>9, <1>11 DEF RepeatOK, Running
<1>16. ReceiverOK'
  BY <1>1, <1>2, <1>11 DEF ReceiverOK, PrefixOnly, Running
<1>17. SenderOK'
  <2>1. pos' <= got' + 1 BY <1>1, <1>5
  <2>2. \A n \in net' : n.block < pos' + Lifetime
    <3> SUFFICES ASSUME NEW n \in net' PROVE n.block < pos' + Lifetime
      OBVIOUS
    <3>1. CASE n = m BY <1>4, <1>5, <3>1
    <3>2. CASE n \in net
      <4>1. n.block \in Nat BY <3>2 DEF TftpTypeOK, Packet
      <4> QED BY <1>5, <3>2, <4>1
    <3> QED BY <1>5, <3>1, <3>2
  <2>3. \E n \in net' : n.block = pos' BY <1>4, <1>5
  <2> QED BY <1>2, <1>9, <1>11, <2>1, <2>2, <2>3 DEF SenderOK, Running
<1> QED BY <1>12, <1>13, <1>14, <1>15, <1>16, <1>17

(* What nothing but an ERROR packet and a change of one process means for  *)
(* the packets. *)
LEMMA ErrorOK ==
    ASSUME TftpInv, NEW p \in Process,
           net' = net \/ net' = net \cup {Message(Peer(p), "ERROR", 0, 0)},
           got' = got
    PROVE  /\ net' \subseteq Packet /\ net \subseteq net'
           /\ \A n \in net' : n \in net \/ n.block = 0
           /\ NetOK' /\ WrittenOK'
<1> USE TftpAssumption DEF TftpInv
<1> DEFINE m == Message(Peer(p), "ERROR", 0, 0)
<1>1. m \in Packet /\ m.type = "ERROR" /\ m.block = 0
  <2>1. Peer(p) \in Process BY DEF Peer, Process
  <2>2. 0 \in 0 .. BlockMod - 1 /\ 0 \in 0 .. Blocks OBVIOUS
  <2> QED BY <2>1, <2>2, MessageType
<1> HIDE DEF m
<1>2. net' = net \/ net' = net \cup {m}
  BY DEF m
<1>3. net' \subseteq Packet /\ net \subseteq net'
  BY <1>1, <1>2 DEF TftpTypeOK
<1>4. \A n \in net' : n \in net \/ n.block = 0
  BY <1>1, <1>2
<1>5. NetOK'
  BY <1>1, <1>2 DEF NetOK
<1>6. WrittenOK'
  BY <1>3 DEF WrittenOK
<1> QED BY <1>3, <1>4, <1>5, <1>6

(* A process may exit with failure at any time, and the sender with        *)
(* success once it has read the whole file.                                *)
LEMMA ExitOK ==
    ASSUME TftpInv, NEW p \in Process, NEW code \in {"ok", "fail"},
           Running(p), Exit(p, code),
           code = "ok" => p = Sender /\ pos = Blocks,
           net' = net \/ net' = net \cup {Message(Peer(p), "ERROR", 0, 0)},
           UNCHANGED <<get, oack, pos, got, starts>>
    PROVE  TftpInv'
<1> USE TftpAssumption DEF TftpInv
<1>1. /\ net' \subseteq Packet /\ net \subseteq net'
      /\ \A n \in net' : n \in net \/ n.block = 0
      /\ NetOK' /\ WrittenOK'
  BY ErrorOK
<1>2. get \in BOOLEAN /\ proc \in [Process -> Record] /\ file \in Seq(1 .. Blocks)
      /\ got \in Nat /\ pos \in Nat
  BY DEF TftpTypeOK, Record
<1>3. /\ Process = {Sender, Receiver} /\ Sender # Receiver
      /\ Sender' = Sender /\ Receiver' = Receiver
      /\ get => Receiver = Client
      /\ ~get => Sender = Client
  BY <1>2, Roles DEF Sender, Receiver, Peer, Client, Server
<1>4. /\ proc' = [proc EXCEPT ![p].pc = code]
      /\ file' = file \/ (file' = << >> /\ p = Receiver)
  BY <1>3 DEF Exit
<1>5. /\ proc' \in [Process -> Record]
      /\ proc'[p].pc = code
      /\ \A q \in Process : q # p => proc'[q] = proc[q]
  <2> DEFINE r == [proc[p] EXCEPT !.pc = code]
  <2>1. r \in Record /\ r.pc = code BY <1>2 DEF Record
  <2>2. proc' = [proc EXCEPT ![p] = r] BY <1>4
  <2> HIDE DEF r
  <2> QED BY ONLY <1>2, <2>1, <2>2, p \in Process
<1>6. TftpTypeOK'
  <2>1. file' \in Seq(1 .. Blocks)
    <3>1. << >> \in Seq(1 .. Blocks) OBVIOUS
    <3> QED BY <1>2, <1>4, <3>1
  <2>2. proc' \in [Process -> Record] /\ net' \subseteq Packet BY <1>1, <1>5
  <2> QED BY <2>1, <2>2 DEF TftpTypeOK, Record
<1>7. RepeatOK'
  BY <1>1, <1>5 DEF RepeatOK, Running
<1>8. PrefixOnly' /\ Len(file') <= got'
  BY <1>2, <1>4 DEF ReceiverOK, PrefixOnly
<1>9. ReceiverOK'
  <2>1. CASE p = Receiver
    BY <1>3, <1>5, <1>8, <2>1 DEF ReceiverOK, Running
  <2>2. CASE p = Sender
    <3>1. file' = file /\ proc'[Receiver] = proc[Receiver]
      BY <1>3, <1>4, <1>5, <2>2
    <3> QED BY <1>3, <1>8, <3>1 DEF ReceiverOK, Running
  <2> QED BY <1>3, <2>1, <2>2
<1>10. SenderOK'
  <2>1. CASE p = Sender
    BY <1>3, <1>5, <2>1 DEF SenderOK, Running
  <2>2. CASE p = Receiver
    <3>1. proc'[Sender] = proc[Sender]
      BY <1>3, <1>5, <2>2
    <3>2. 0 < pos + Lifetime
      BY <1>2
    <3>3. Running(Sender) => \A n \in net' : n.block < pos + Lifetime
      BY <1>1, <3>2 DEF SenderOK
    <3> QED BY <1>1, <1>3, <3>1, <3>3 DEF SenderOK, Running
  <2> QED BY <1>3, <2>1, <2>2
<1> QED BY <1>1, <1>6, <1>7, <1>9, <1>10

-----------------------------------------------------------------------------
(* One lemma for each action.                                              *)

(* What has nothing left to do is a sender that has read the whole file.   *)
LEMMA OutcomeOK ==
    ASSUME TftpInv, NEW p \in Process, Running(p)
    PROVE  /\ Outcome(proc[p]) \in {"ok", "fail"}
           /\ Outcome(proc[p]) = "ok" => p = Sender /\ pos = Blocks
<1>1. p = Sender \/ p = Receiver
  BY Roles DEF TftpInv, TftpTypeOK
<1>2. CASE p = Receiver
  BY <1>2 DEF TftpInv, ReceiverOK, Outcome
<1>3. CASE p = Sender
  BY <1>3 DEF TftpInv, SenderOK, Outcome
<1> QED BY <1>1, <1>2, <1>3

LEMMA ReceiveErrorStep ==
    ASSUME TftpInv, NEW p \in Process, NEW m \in net, ReceiveError(p, m)
    PROVE  TftpInv'
BY ExitOK, OutcomeOK DEF ReceiveError

LEMMA FileErrorStep ==
    ASSUME TftpInv, NEW p \in Process, NEW m \in net, FileError(p, m)
    PROVE  TftpInv'
BY ExitOK DEF FileError, SendError

LEMMA ReceiveRefusalStep ==
    ASSUME TftpInv, NEW p \in Process, ReceiveRefusal(p)
    PROVE  TftpInv'
BY ExitOK DEF ReceiveRefusal, SendError

LEMMA GiveUpStep ==
    ASSUME TftpInv, NEW p \in Process, GiveUp(p)
    PROVE  TftpInv'
BY ExitOK, OutcomeOK DEF GiveUp

LEMMA RefuseTftpdStep ==
    ASSUME TftpInv, NEW m \in net, RefuseTftpd(m)
    PROVE  TftpInv'
<1> USE TftpAssumption DEF TftpInv
<1>1. /\ net' \subseteq Packet /\ net \subseteq net'
      /\ \A n \in net' : n \in net \/ n.block = 0
      /\ NetOK' /\ WrittenOK'
  <2>1. Server \in Process /\ Peer(Server) = Client
    BY DEF Process, Peer, Server, Client
  <2> QED BY <2>1, ErrorOK DEF RefuseTftpd
<1>2. Sender' = Sender /\ Receiver' = Receiver /\ pos \in Nat
  BY DEF RefuseTftpd, Sender, Receiver, Peer, TftpTypeOK
<1>3. TftpTypeOK' /\ RepeatOK'
  BY <1>1 DEF RefuseTftpd, TftpTypeOK, RepeatOK, Running
<1>4. ReceiverOK'
  BY <1>2 DEF RefuseTftpd, ReceiverOK, PrefixOnly, Running
<1>5. SenderOK'
  <2>1. Running(Sender) => \A n \in net' : n.block < pos + Lifetime
    <3>1. 0 < pos + Lifetime BY <1>2
    <3> QED BY <1>1, <3>1 DEF SenderOK
  <2> QED BY <1>1, <1>2, <2>1 DEF RefuseTftpd, SenderOK, Running
<1> QED BY <1>1, <1>3, <1>4, <1>5

LEMMA NotedType ==
    ASSUME TftpInv, NEW p \in Process, NEW m \in net, m.type # "ERROR"
    PROVE  /\ Noted(p, m) \in Record
           /\ Noted(p, m).pc = proc[p].pc /\ Noted(p, m).nr = proc[p].nr
           /\ Noted(p, m).fin = proc[p].fin /\ Noted(p, m).xbuf = proc[p].xbuf
           /\ Noted(p, m).expect = 0
<1>1. proc[p] \in Record /\ m.type \in {"REQ", "OACK", "DATA", "ACK"}
  BY DEF TftpInv, TftpTypeOK, Record, Packet
<1>2. Noted(p, m) = [proc[p] EXCEPT !.op = m.type, !.expect = 0, !.due = FALSE]
  BY DEF Noted
<1> DEFINE r == proc[p]
           o == m.type
<1>3. r \in Record /\ o \in {"REQ", "OACK", "DATA", "ACK"}
  BY <1>1
<1> HIDE DEF r, o
<1>4. [r EXCEPT !.op = o, !.expect = 0, !.due = FALSE] \in Record
  <2> DEFINE r1 == [r EXCEPT !.op = o]
  <2>1. r1 \in Record BY <1>3 DEF Record
  <2> HIDE DEF r1
  <2> DEFINE r2 == [r1 EXCEPT !.expect = 0]
  <2>2. r2 \in Record BY <2>1 DEF Record
  <2>3. [r EXCEPT !.op = o, !.expect = 0, !.due = FALSE] = [r2 EXCEPT !.due = FALSE]
    BY DEF r1
  <2> HIDE DEF r2
  <2>4. [r2 EXCEPT !.due = FALSE] \in Record BY <2>2 DEF Record
  <2> QED BY ONLY <2>3, <2>4
<1>5. /\ [r EXCEPT !.op = o, !.expect = 0, !.due = FALSE].pc = r.pc
      /\ [r EXCEPT !.op = o, !.expect = 0, !.due = FALSE].nr = r.nr
      /\ [r EXCEPT !.op = o, !.expect = 0, !.due = FALSE].fin = r.fin
      /\ [r EXCEPT !.op = o, !.expect = 0, !.due = FALSE].xbuf = r.xbuf
      /\ [r EXCEPT !.op = o, !.expect = 0, !.due = FALSE].expect = 0
  BY <1>3 DEF Record
<1> QED BY <1>2, <1>4, <1>5 DEF r, o

LEMMA ReceiveOtherStep ==
    ASSUME TftpInv, NEW p \in Process, NEW m \in net, ReceiveOther(p, m)
    PROVE  TftpInv'
<1> USE DEF TftpInv
<1> DEFINE q == Noted(p, m)
<1>1. /\ q \in Record /\ q.pc = proc[p].pc /\ q.nr = proc[p].nr
      /\ q.fin = proc[p].fin /\ q.xbuf = proc[p].xbuf /\ q.expect = 0
  BY NotedType DEF ReceiveOther
<1>2. /\ proc' = [proc EXCEPT ![p] = q]
      /\ UNCHANGED <<get, oack, pos, file, got, net, starts>>
  BY DEF ReceiveOther
<1> HIDE DEF q
<1>3. proc \in [Process -> Record]
  BY DEF TftpTypeOK, Record
<1>4. proc' \in [Process -> Record] /\ proc'[p] = q
      /\ \A o \in Process : o # p => proc'[o] = proc[o]
  BY <1>1, <1>2, <1>3
<1>5. TftpTypeOK'
  BY <1>2, <1>4 DEF TftpTypeOK, Record
<1>6. NetOK' /\ WrittenOK' /\ RepeatOK'
  BY <1>1, <1>2, <1>4 DEF NetOK, WrittenOK, RepeatOK, Running
<1>7. /\ Sender \in Process /\ Receiver \in Process
      /\ Sender' = Sender /\ Receiver' = Receiver
  BY <1>2, Roles DEF Sender, Receiver, Peer, TftpTypeOK
<1>8. \A o \in Process : /\ proc'[o].pc = proc[o].pc /\ proc'[o].nr = proc[o].nr
                         /\ proc'[o].fin = proc[o].fin
                         /\ proc'[o].expect = 1 => proc[o].expect = 1
  BY <1>1, <1>4
<1>9. ReceiverOK'
  BY <1>2, <1>7, <1>8 DEF ReceiverOK, PrefixOnly, Running
<1>10. SenderOK'
  BY <1>2, <1>7, <1>8 DEF SenderOK, Running
<1> QED BY <1>5, <1>6, <1>9, <1>10

(* A packet is sent again; the mistaken end of a sender is after all DATA. *)
LEMMA ResendStep ==
    ASSUME TftpInv, NEW p \in Process, Resend(p)
    PROVE  TftpInv'
<1> USE DEF TftpInv
<1> DEFINE code == IF proc[p].fin = 1 /\ proc[p].op = "ACK" THEN "ok" ELSE "run"
           q == [proc[p] EXCEPT !.retries = @ - 1, !.due = FALSE, !.pc = code]
<1>1. proc \in [Process -> Record] /\ proc[p].pc = "run" /\ proc[p].retries > 1
      /\ UNCHANGED <<get, oack, pos, file, got, starts>>
  BY DEF TftpTypeOK, Record, Resend, Running
<1>2. net' = net
  BY DEF Resend, RepeatOK
<1>3. /\ Process = {Sender, Receiver} /\ Sender # Receiver
      /\ Sender' = Sender /\ Receiver' = Receiver
  BY <1>1, Roles DEF Sender, Receiver, Peer, TftpTypeOK
<1>4. proc' = [proc EXCEPT ![p] = q]
  BY <1>1 DEF Resend, Record
<1>5. q \in Record /\ q.pc = code /\ q.nr = proc[p].nr /\ q.fin = proc[p].fin
      /\ q.xbuf = proc[p].xbuf /\ q.expect = proc[p].expect
  <2>1. proc[p] \in Record /\ proc[p].retries - 1 \in 1 .. Retries
    BY <1>1, TftpAssumption DEF Record
  <2> QED BY <2>1 DEF Record
<1>6. code = "ok" \/ code = "run"
  OBVIOUS
<1>7. code = "ok" => p = Sender /\ pos = Blocks
  BY <1>3 DEF ReceiverOK, SenderOK, Resend
<1> HIDE DEF q, code
<1>8. proc' \in [Process -> Record] /\ proc'[p] = q
      /\ \A o \in Process : o # p => proc'[o] = proc[o]
  BY <1>1, <1>4, <1>5
<1>9. TftpTypeOK'
  BY <1>1, <1>2, <1>8 DEF TftpTypeOK, Record
<1>10. NetOK' /\ WrittenOK' /\ RepeatOK'
  BY <1>1, <1>2, <1>5, <1>8 DEF NetOK, WrittenOK, RepeatOK, Running
<1>11. ReceiverOK'
  <2>1. /\ proc'[Receiver].pc = proc[Receiver].pc
        /\ proc'[Receiver].nr = proc[Receiver].nr
        /\ proc'[Receiver].fin = proc[Receiver].fin
        /\ proc'[Receiver].expect = proc[Receiver].expect
    BY <1>1, <1>3, <1>5, <1>6, <1>7, <1>8
  <2> QED BY <1>1, <1>3, <2>1 DEF ReceiverOK, PrefixOnly, Running
<1>12. SenderOK'
  <2>1. /\ proc'[Sender].pc = "run" => proc[Sender].pc = "run"
        /\ proc'[Sender].pc = "ok" => pos = Blocks
        /\ proc'[Sender].nr = proc[Sender].nr
        /\ proc'[Sender].fin = proc[Sender].fin
        /\ proc'[Sender].expect = proc[Sender].expect
    BY <1>1, <1>3, <1>5, <1>6, <1>7, <1>8 DEF SenderOK
  <2> QED BY <1>1, <1>2, <1>3, <2>1 DEF SenderOK, Running
<1> QED BY <1>9, <1>10, <1>11, <1>12

LEMMA TimerRunsOutStep ==
    ASSUME TftpInv, NEW p \in Process, TimerRunsOut(p)
    PROVE  TftpInv'
<1> USE DEF TftpInv
<1>1. /\ proc \in [Process -> Record]
      /\ proc' = [proc EXCEPT ![p].due = TRUE]
      /\ UNCHANGED <<get, oack, pos, file, got, net, starts>>
  BY DEF TftpTypeOK, Record, TimerRunsOut
<1>2. /\ proc' \in [Process -> Record]
      /\ \A o \in Process :
            /\ proc'[o].pc = proc[o].pc /\ proc'[o].nr = proc[o].nr
            /\ proc'[o].fin = proc[o].fin /\ proc'[o].xbuf = proc[o].xbuf
            /\ proc'[o].expect = proc[o].expect
  <2> DEFINE q == [proc[p] EXCEPT !.due = TRUE]
  <2>1. /\ q \in Record /\ q.pc = proc[p].pc /\ q.nr = proc[p].nr
        /\ q.fin = proc[p].fin /\ q.xbuf = proc[p].xbuf
        /\ q.expect = proc[p].expect
    BY <1>1 DEF Record
  <2>2. proc' = [proc EXCEPT ![p] = q] BY <1>1
  <2> HIDE DEF q
  <2> QED BY <1>1, <2>1, <2>2
<1>3. /\ Sender \in Process /\ Receiver \in Process
      /\ Sender' = Sender /\ Receiver' = Receiver
  BY <1>1, Roles DEF Sender, Receiver, Peer, TftpTypeOK
<1>4. TftpTypeOK'
  BY <1>1, <1>2 DEF TftpTypeOK, Record
<1>5. NetOK' /\ WrittenOK' /\ RepeatOK'
  BY <1>1, <1>2 DEF NetOK, WrittenOK, RepeatOK, Running
<1>6. ReceiverOK'
  BY <1>1, <1>2, <1>3 DEF ReceiverOK, PrefixOnly, Running
<1>7. SenderOK'
  BY <1>1, <1>2, <1>3 DEF SenderOK, Running
<1> QED BY <1>4, <1>5, <1>6, <1>7

LEMMA ReceiveDataStep ==
    ASSUME TftpInv, NEW p \in Process, NEW m \in net, ReceiveData(p, m)
    PROVE  TftpInv'
<1> USE TftpAssumption DEF TftpInv
<1>1. p = Receiver /\ Running(Receiver) /\ Fresh(m) /\ IsNext(Receiver, m)
  BY DEF ReceiveData, IsNext, Arrives
<1>2. m.block = Len(file) + 1 /\ m.type # "ERROR"
  BY <1>1, NextBlock DEF IsNext
<1>3. /\ file \in Seq(1 .. Blocks) /\ got \in 0 .. Blocks /\ Len(file) <= got
      /\ got < Len(file) + Lifetime /\ Len(file) < Blocks
      /\ proc[p].nr = (Len(file) + 1) % BlockMod /\ proc[p].fin = 0
      /\ proc[p].pc = "run"
  BY <1>1 DEF TftpTypeOK, ReceiverOK, Running
<1>4. /\ file' = Append(file, m.block)
      /\ got' = IF Len(file) + 1 > got THEN Len(file) + 1 ELSE got
      /\ UNCHANGED <<get, oack, pos, starts>>
  BY DEF ReceiveData
<1>5. m.block \in 1 .. Blocks
  BY <1>2, <1>3
<1>6. file' \in Seq(1 .. Blocks) /\ Len(file') = Len(file) + 1
  BY <1>3, <1>4, <1>5
<1>7. PrefixOnly'
  BY <1>2, <1>3, <1>4, <1>5, <1>6 DEF ReceiverOK, PrefixOnly
<1>8. /\ got' \in 0 .. Blocks /\ got <= got' /\ Len(file') <= got'
      /\ got' < Len(file') + Lifetime /\ (got' = got \/ got' = Len(file'))
  BY <1>3, <1>4, <1>6
<1> DEFINE n == Noted(p, m)
           r == IF m.block = Blocks THEN [n EXCEPT !.fin = 1] ELSE n
<1>9. n \in Record /\ n.pc = "run" /\ n.nr = proc[p].nr /\ n.fin = 0 /\ n.expect = 0
  BY <1>2, <1>3, NotedType
<1> HIDE DEF n
<1>10. /\ r \in Record /\ r.pc = "run" /\ r.expect = 0
       /\ r.fin = 1 <=> Len(file') = Blocks
       /\ r.nr = Len(file') % BlockMod
  <2>1. CASE m.block = Blocks
    <3>1. Len(file') = Blocks BY <1>2, <1>6, <2>1
    <3>2. [n EXCEPT !.fin = 1] \in Record BY <1>9 DEF Record
    <3>3. /\ [n EXCEPT !.fin = 1].pc = "run" /\ [n EXCEPT !.fin = 1].expect = 0
          /\ [n EXCEPT !.fin = 1].fin = 1 /\ [n EXCEPT !.fin = 1].nr = n.nr
      BY <1>9 DEF Record
    <3>4. n.nr = Len(file') % BlockMod BY <1>3, <1>6, <1>9
    <3> QED BY <2>1, <3>1, <3>2, <3>3, <3>4
  <2>2. CASE m.block # Blocks
    <3>1. Len(file') # Blocks BY <1>2, <1>6, <2>2
    <3>2. n.nr = Len(file') % BlockMod BY <1>3, <1>6, <1>9
    <3> QED BY <1>9, <2>2, <3>1, <3>2
  <2> QED BY <2>1, <2>2
<1>11. SendAck(Receiver, r, file')
  BY <1>1 DEF ReceiveData, Finish, n
<1>12. \E o \in net : o.block = Len(file')
  BY <1>2, <1>6
<1>13. starts' \in 0 .. MaxStarts
  BY <1>4 DEF TftpTypeOK
<1> HIDE DEF r
<1> QED BY <1>4, <1>6, <1>7, <1>8, <1>10, <1>11, <1>12, <1>13, SendAckOK

LEMMA ReceiveAckStep ==
    ASSUME TftpInv, NEW p \in Process, NEW m \in net, ReceiveAck(p, m)
    PROVE  TftpInv'
<1> USE TftpAssumption DEF TftpInv
<1>1. p = Sender /\ Running(Sender) /\ Fresh(m) /\ IsAcked(Sender, m)
  BY DEF ReceiveAck, IsAcked, Arrives
<1>2. pos <= got /\ m.type # "ERROR"
  BY <1>1, AckedBlock DEF IsAcked
<1>3. CASE proc[p].fin = 1
  <2>1. pos = Blocks BY <1>1, <1>3 DEF SenderOK
  <2> QED BY <1>1, <1>3, <2>1, ExitOK DEF ReceiveAck
<1>4. CASE proc[p].fin # 1
  <2> DEFINE r == Noted(p, m)
  <2>1. /\ proc[p].pc = "run" /\ proc[p].nr = (pos + 1) % BlockMod
        /\ proc[p].fin = 0 /\ pos # Blocks
        /\ \A n \in net : n.block < pos + Lifetime
    <3>1. proc[p].fin \in 0 .. 1 BY <1>1 DEF TftpTypeOK
    <3>2. proc[p].fin = 0 BY <1>4, <3>1
    <3> QED BY <1>1, <1>4, <3>2 DEF SenderOK, Running
  <2>2. r \in Record /\ r.pc = "run" /\ r.nr = proc[p].nr /\ r.fin = 0 /\ r.expect = 0
    BY <1>2, <2>1, NotedType
  <2>3. SendData(Sender, r, pos) /\ UNCHANGED <<get, oack, file, got, starts>>
    BY <1>1, <1>4 DEF ReceiveAck
  <2>4. pos \in 0 .. Blocks - 1 /\ starts' \in 0 .. MaxStarts
    <3>1. pos \in 0 .. Blocks /\ starts \in 0 .. MaxStarts BY DEF TftpTypeOK
    <3>2. pos \in 0 .. Blocks - 1 BY <2>1, <3>1
    <3> QED BY <2>3, <3>1, <3>2
  <2> HIDE DEF r
  <2> QED BY <1>2, <2>1, <2>2, <2>3, <2>4, SendDataOK
<1> QED BY <1>3, <1>4

LEMMA ReceiveOackStep ==
    ASSUME TftpInv, NEW p \in Process, NEW m \in net, ReceiveOack(p, m)
    PROVE  TftpInv'
<1> USE TftpAssumption DEF TftpInv
<1>1. /\ proc[p].pc = "run" /\ proc[p].expect = 1 /\ m.type # "ERROR"
      /\ UNCHANGED <<get, oack, file, got, starts>>
  BY DEF ReceiveOack, IsOack, Running
<1>2. p = Sender \/ p = Receiver
  BY Roles DEF TftpTypeOK
<1>3. /\ get \in BOOLEAN /\ got \in 0 .. Blocks /\ starts' \in 0 .. MaxStarts
      /\ file \in Seq(1 .. Blocks) /\ pos \in 0 .. Blocks
  BY <1>1 DEF TftpTypeOK
<1> DEFINE n == Noted(p, m)
<1>4. n \in Record /\ n.pc = "run" /\ n.nr = proc[p].nr /\ n.fin = proc[p].fin
      /\ n.expect = 0
  BY <1>1, NotedType
<1>5. Sender # Receiver
  BY <1>3, Roles
<1>6. CASE p = Receiver
  <2>1. /\ get /\ file = << >> /\ proc[p].fin = 0 /\ got < Lifetime
    BY <1>1, <1>6 DEF ReceiverOK, Running
  <2> DEFINE r == [n EXCEPT !.nr = 0]
  <2>2. SendAck(Receiver, r, file') /\ pos' = pos
    BY <1>1, <1>6, <2>1 DEF ReceiveOack
  <2> HIDE DEF n
  <2>3. r \in Record /\ r.pc = "run" /\ r.expect = 0 /\ r.fin = 0 /\ r.nr = 0
    <3>1. 0 \in 0 .. BlockMod - 1 OBVIOUS
    <3> QED BY <1>4, <2>1, <3>1 DEF Record
  <2>4. Len(file') = 0 /\ 0 % BlockMod = 0 /\ Blocks # 0
    BY <1>1, <2>1, SmallMod
  <2>5. PrefixOnly' /\ file' \in Seq(1 .. Blocks)
    BY <1>1, <1>3 DEF ReceiverOK, PrefixOnly
  <2>6. got' \in 0 .. Blocks /\ got <= got' /\ Len(file') <= got'
        /\ got' < Len(file') + Lifetime
    BY <1>1, <1>3, <2>1, <2>4
  <2> HIDE DEF r
  <2> QED BY <1>1, <1>3, <2>2, <2>3, <2>4, <2>5, <2>6, SendAckOK
<1>7. CASE p = Sender
  <2>1. /\ ~get /\ pos = 0 /\ proc[p].nr = (pos + 1) % BlockMod
        /\ proc[p].fin = 1 <=> pos = Blocks
        /\ \A o \in net : o.block < pos + Lifetime
    BY <1>1, <1>7 DEF SenderOK, Running
  <2>2. SendData(Sender, n, pos)
    BY <1>7, <2>1 DEF ReceiveOack
  <2> HIDE DEF n
  <2>3. n.fin = 0
    <3>1. n.fin # 1 /\ n.fin \in 0 .. 1 BY <1>4, <2>1 DEF Record
    <3> QED BY <3>1
  <2>4. pos \in 0 .. Blocks - 1 /\ pos <= got
    BY <1>3, <2>1
  <2> QED BY <1>1, <1>3, <1>4, <2>1, <2>2, <2>3, <2>4, SendDataOK
<1> QED BY <1>2, <1>6, <1>7

LEMMA ForkType ==
    /\ Fork \in Record /\ Fork.pc = "run" /\ Fork.nr = 1 /\ Fork.fin = 0
    /\ Fork.expect = 0 /\ Fork.xbuf = Request
<1>1. Request \in Packet /\ 1 \in 0 .. BlockMod - 1 /\ Retries \in 1 .. Retries
  BY TftpAssumption DEF Request, Message, Packet, Process
<1> QED BY <1>1 DEF Fork, Record

(* A new tftpd begins with the first block, or with an empty file; that    *)
(* the request was fresh bounds how far the transfer before it had got.    *)
LEMMA StartTftpdStep ==
    ASSUME TftpInv, NEW m \in net, StartTftpd(m)
    PROVE  TftpInv'
<1> USE TftpAssumption DEF TftpInv
<1>1. m.block = 0 /\ \A n \in net : n.block < Lifetime
  <2>1. m.block = 0 BY DEF StartTftpd, NetOK
  <2>2. m.block + Lifetime = Lifetime BY <2>1
  <2> QED BY <2>1, <2>2 DEF StartTftpd, Arrives, Fresh
<1>2. got \in 0 .. Blocks /\ got < Lifetime
  BY <1>1 DEF TftpTypeOK, WrittenOK
<1>3. /\ get \in BOOLEAN /\ pos \in 0 .. Blocks /\ file \in Seq(1 .. Blocks)
      /\ proc \in [Process -> Record] /\ starts' \in 0 .. MaxStarts
      /\ UNCHANGED <<get, oack, got>>
      /\ file' = IF get THEN file ELSE << >>
  <2>1. /\ get \in BOOLEAN /\ pos \in 0 .. Blocks /\ file \in Seq(1 .. Blocks)
        /\ proc \in [Process -> Record] /\ starts \in 0 .. MaxStarts
    BY DEF TftpTypeOK, Record
  <2>2. /\ starts < MaxStarts /\ starts' = starts + 1
        /\ UNCHANGED <<get, oack, got>>
        /\ file' = IF get THEN file ELSE << >>
    BY DEF StartTftpd
  <2>3. starts' \in 0 .. MaxStarts
    BY <2>1, <2>2
  <2> QED BY ONLY <2>1, <2>2, <2>3
<1>4. /\ Process = {Sender, Receiver} /\ Sender # Receiver
      /\ Sender' = Sender /\ Receiver' = Receiver
      /\ get => Sender = Server /\ Receiver = Client
      /\ ~get => Receiver = Server /\ Sender = Client
  BY <1>3, Roles DEF Sender, Receiver, Peer, Client, Server
<1>5. 1 % BlockMod = 1 /\ 0 % BlockMod = 0
  BY SmallMod
<1>6. CASE oack
  <2> DEFINE a == Message(Client, "OACK", 0, 0)
             q == [Fork EXCEPT !.op = "OACK", !.xbuf = a, !.retries = Retries,
                             !.due = FALSE]
  <2>1. a \in Packet /\ a.type = "OACK" /\ a.block = 0
    <3>1. 0 \in 0 .. BlockMod - 1 /\ 0 \in 0 .. Blocks
      BY ONLY TftpAssumption
    <3>2. Client \in Process BY ONLY DEF Process
    <3> QED BY ONLY <3>1, <3>2, MessageType
  <2> HIDE DEF a
  <2>2. /\ proc' = [proc EXCEPT ![Server] = q] /\ net' = net \cup {a}
        /\ pos' = IF get THEN 0 ELSE pos
    BY <1>6, <2>1 DEF StartTftpd, Sends, a
  <2>3. /\ q \in Record /\ q.pc = "run" /\ q.nr = 1 /\ q.fin = 0 /\ q.expect = 0
        /\ q.xbuf = a
    <3> DEFINE q1 == [Fork EXCEPT !.op = "OACK"]
               q2 == [q1 EXCEPT !.xbuf = a]
    <3>1. q1 \in Record /\ q1.pc = "run" /\ q1.nr = 1 /\ q1.fin = 0 /\ q1.expect = 0
      BY ForkType DEF Record
    <3> HIDE DEF q1
    <3>2. q2 \in Record /\ q2.pc = "run" /\ q2.nr = 1 /\ q2.fin = 0 /\ q2.expect = 0
          /\ q2.xbuf = a
      BY <2>1, <3>1 DEF Record
    <3> HIDE DEF q2
    <3>3. Retries \in 1 .. Retries OBVIOUS
    <3>4. q = [q2 EXCEPT !.retries = Retries, !.due = FALSE] BY DEF q1, q2
    <3> HIDE DEF q
    <3> QED BY <3>2, <3>3, <3>4 DEF Record
  <2> HIDE DEF q
  <2>4. /\ proc' \in [Process -> Record] /\ proc'[Server] = q
        /\ proc'[Client] = proc[Client]
    BY <1>3, <2>2, <2>3 DEF Process, Client, Server
  <2>5. TftpTypeOK'
    <3>1. << >> \in Seq(1 .. Blocks) OBVIOUS
    <3>2. file' \in Seq(1 .. Blocks) BY <1>3, <3>1
    <3>3. pos' \in 0 .. Blocks BY <1>3, <2>2
    <3> QED BY <1>3, <2>1, <2>2, <2>4, <3>2, <3>3 DEF TftpTypeOK, Record
  <2>6. NetOK' /\ WrittenOK'
    BY <1>3, <2>1, <2>2 DEF NetOK, WrittenOK
  <2>7. RepeatOK'
    BY <2>2, <2>3, <2>4 DEF RepeatOK, Running, Process
  <2>8. ReceiverOK'
    <3>1. CASE get
      BY <1>3, <1>4, <2>4, <3>1 DEF ReceiverOK, PrefixOnly, Running
    <3>2. CASE ~get
      BY <1>2, <1>3, <1>4, <1>5, <2>3, <2>4, <3>2 DEF ReceiverOK, PrefixOnly, Running
    <3> QED BY <3>1, <3>2
  <2>9. SenderOK'
    <3>1. CASE get
      <4>1. \A n \in net' : n.block < 0 + Lifetime BY <1>1, <2>1, <2>2
      <4> QED BY <1>2, <1>3, <1>4, <1>5, <2>2, <2>3, <2>4, <3>1, <4>1
          DEF SenderOK, Running
    <3>2. CASE ~get
      <4>1. 0 < pos + Lifetime BY <1>3
      <4>2. Running(Sender) => \A n \in net' : n.block < pos + Lifetime
        BY <2>1, <2>2, <4>1 DEF SenderOK
      <4> QED BY <1>3, <1>4, <2>2, <2>4, <3>2, <4>2 DEF SenderOK, Running
    <3> QED BY <3>1, <3>2
  <2> QED BY <2>5, <2>6, <2>7, <2>8, <2>9
<1>7. CASE ~oack /\ get
  <2>1. SendData(Sender, Fork, 0) /\ file' = file
    BY <1>3, <1>4, <1>7 DEF StartTftpd
  <2>2. 0 \in 0 .. Blocks - 1 /\ 0 <= got /\ Fork.nr = (0 + 1) % BlockMod
    BY <1>2, <1>5, ForkType
  <2>3. \A n \in net : n.block < 0 + Lifetime
    BY <1>1
  <2> QED BY <1>3, <2>1, <2>2, <2>3, ForkType, SendDataOK
<1>8. CASE ~oack /\ ~get
  <2> DEFINE r == [Fork EXCEPT !.nr = 0]
  <2>1. SendAck(Receiver, r, file') /\ pos' = pos /\ file' = << >>
    BY <1>3, <1>4, <1>8 DEF StartTftpd
  <2>2. /\ r \in Record /\ r.pc = "run" /\ r.expect = 0 /\ r.fin = 0
        /\ r.nr = 0
    <3>1. 0 \in 0 .. BlockMod - 1 OBVIOUS
    <3> QED BY <3>1, ForkType DEF Record
  <2>3. /\ Len(file') = 0 /\ file' \in Seq(1 .. Blocks) /\ Blocks # 0
        /\ PrefixOnly'
    BY <2>1 DEF PrefixOnly
  <2>4. /\ got' \in 0 .. Blocks /\ got <= got' /\ Len(file') <= got'
        /\ got' < Len(file') + Lifetime
    BY <1>2, <1>3, <2>3
  <2> HIDE DEF r
  <2>5. r.fin = 1 <=> Len(file') = Blocks
    BY <2>2, <2>3
  <2>6. r.nr = Len(file') % BlockMod
    BY <1>5, <2>2, <2>3
  <2>7. got' = got /\ UNCHANGED <<get, oack, pos>>
    BY <1>3, <2>1
  <2> QED BY <1>3, <2>1, <2>2, <2>3, <2>4, <2>5, <2>6, <2>7, SendAckOK
<1> QED BY <1>6, <1>7, <1>8

LEMMA NextInvariant == TftpInv /\ [TftpNext]_vars => TftpInv'
<1> SUFFICES ASSUME TftpInv, [TftpNext]_vars PROVE TftpInv'
  OBVIOUS
<1>1. CASE UNCHANGED vars
  BY <1>1 DEF TftpInv, vars, TftpTypeOK, NetOK, WrittenOK, RepeatOK, ReceiverOK,
      SenderOK, PrefixOnly, Running, Sender, Receiver, Peer
<1>2. ASSUME NEW m \in net, StartTftpd(m) \/ RefuseTftpd(m) PROVE TftpInv'
  BY <1>2, StartTftpdStep, RefuseTftpdStep
<1>3. ASSUME NEW p \in Process, NEW m \in net,
             \/ ReceiveError(p, m) \/ ReceiveOack(p, m) \/ ReceiveData(p, m)
             \/ ReceiveAck(p, m) \/ ReceiveOther(p, m) \/ FileError(p, m)
      PROVE TftpInv'
  BY <1>3, ReceiveErrorStep, ReceiveOackStep, ReceiveDataStep, ReceiveAckStep,
     ReceiveOtherStep, FileErrorStep
<1>4. ASSUME NEW p \in Process,
             ReceiveRefusal(p) \/ TimerRunsOut(p) \/ Timeout(p)
      PROVE TftpInv'
  BY <1>4, ReceiveRefusalStep, TimerRunsOutStep, ResendStep, GiveUpStep DEF Timeout
<1> QED BY <1>1, <1>2, <1>3, <1>4 DEF TftpNext

(* Block numbers, opcodes and counters stay in their ranges. *)
THEOREM TftpTypes == TftpSpec => []TftpTypeOK
<1>1. TftpInv => TftpTypeOK BY DEF TftpInv
<1> QED BY <1>1, InitInvariant, NextInvariant, PTL DEF TftpSpec

(* For a file of any length, through any number of wraps of the block      *)
(* number: what has been written is a prefix of the file.                  *)
THEOREM TftpWritesPrefix == TftpSpec => []PrefixOnly
<1>1. TftpInv => PrefixOnly BY DEF TftpInv, ReceiverOK
<1> QED BY <1>1, InitInvariant, NextInvariant, PTL DEF TftpSpec

(* A receiver that reports success has the whole file. *)
THEOREM TftpReceiverHasAll == TftpSpec => []ReceiverHasAll
<1>1. TftpInv => ReceiverHasAll BY DEF TftpInv, ReceiverOK, ReceiverHasAll
<1> QED BY <1>1, InitInvariant, NextInvariant, PTL DEF TftpSpec

(* A sender is at most one block ahead of what was written; if it reports  *)
(* success, all but the last block certainly was.                          *)
THEOREM TftpNeverAhead == TftpSpec => []NeverAhead
<1>1. TftpInv => NeverAhead BY DEF TftpInv, SenderOK, NeverAhead
<1> QED BY <1>1, InitInvariant, NextInvariant, PTL DEF TftpSpec

=============================================================================

-------------------------------- MODULE Tftp --------------------------------
(***************************************************************************)
(* One file transferred by tftp (tftp.c): the client tftp, and tftpd as    *)
(* udpsvd starts it (tcpudp.c), a new process for each packet that comes   *)
(* to port 69 while none is connected to its sender.  Both run             *)
(* tftp_protocol(): the one that has the file sends a block and waits for  *)
(* its ACK, the other acknowledges each block, both repeat their last      *)
(* packet when their timer runs out.                                       *)
(*                                                                         *)
(* The network loses, duplicates, delays and reorders: a packet that was   *)
(* sent stays in net, and may be delivered at any time, often or never, as *)
(* long as it is fresh.  Block numbers have 16 bits and wrap in a long     *)
(* file; what tells block k from block k + 2^16 is only that a packet does *)
(* not survive so long.  The k-th block of the file is represented by k.   *)
(***************************************************************************)
EXTENDS Naturals, Sequences

CONSTANTS
    Blocks,     \* blocks of the file, counting the short one that ends it
    BlockMod,   \* 2^16
    Lifetime,   \* blocks that can be sent while a packet is under way
    Retries,    \* TFTP_NUM_RETRIES
    MaxStarts   \* bound of the model: how often a request starts tftpd

ASSUME TftpAssumption ==
    /\ {Blocks, BlockMod, Lifetime, Retries, MaxStarts} \subseteq Nat \ {0}
    /\ Lifetime < BlockMod

VARIABLES
    get,     \* the client asked for the file (RRQ); otherwise it writes (WRQ)
    oack,    \* the server answers options: always to RRQ, with -b to WRQ
    proc,    \* tftp_protocol() of the two
    pos,     \* blocks that the sender has read from its file
    file,    \* the file of the receiver; << >> also when there is none
    got,     \* history: the most blocks that the receiver's file ever had
    net,     \* the packets sent
    starts   \* how often a request has started tftpd

vars == <<get, oack, proc, pos, file, got, net, starts>>

Client == "tftp"
Server == "tftpd"
Process == {Client, Server}
Peer(p) == IF p = Client THEN Server ELSE Client
Sender == IF get THEN Server ELSE Client
Receiver == Peer(Sender)

Packet == [to: Process, type: {"REQ", "OACK", "DATA", "ACK", "ERROR"},
           nr: 0 .. BlockMod - 1, block: 0 .. Blocks]
Message(to, type, nr, block) ==
    [to |-> to, type |-> type, nr |-> nr, block |-> block]
Request == Message(Server, "REQ", 0, 0)

Running(p) == proc[p].pc = "run"
Fresh(m) == \A n \in net : n.block < m.block + Lifetime
Arrives(p, m) == m \in net /\ m.to = p /\ Fresh(m)

-----------------------------------------------------------------------------
(* Sending.                                                                *)

(* After a packet poll() waits in full. *)
Sends(r, m) ==
    [r EXCEPT !.op = m.type, !.xbuf = m, !.retries = Retries, !.due = FALSE]

Advance(r) == [r EXCEPT !.nr = (@ + 1) % BlockMod]

(* The block that is not full ends the file. *)
Finish(r, block) == IF block = Blocks THEN [r EXCEPT !.fin = 1] ELSE r

(* The final ACK is sent once. *)
SendAck(p, r, written) ==
    LET m == Message(Peer(p), "ACK", r.nr, Len(written))
        s == Advance(Sends(r, m))
    IN /\ proc' = [proc EXCEPT ![p] = [s EXCEPT !.pc = IF r.fin = 1 THEN "ok" ELSE @]]
       /\ net' = net \cup {m}

SendData(p, r, read) ==
    LET m == Message(Peer(p), "DATA", r.nr, read + 1)
        s == Advance(Sends(r, m))
    IN /\ proc' = [proc EXCEPT ![p] = Finish(s, read + 1)]
       /\ net' = net \cup {m}
       /\ pos' = read + 1

(* "returns 1 on failure": what is unfinished.                             *)
Outcome(r) == IF r.fin = 1 THEN "ok" ELSE "fail"

(* The exit of a process; tftp_main() unlinks the file it failed to get. *)
Exit(p, code) ==
    /\ proc' = [proc EXCEPT ![p].pc = code]
    /\ file' = IF get /\ p = Client /\ code = "fail" THEN << >> ELSE file

SendError(p) ==
    /\ Exit(p, "fail")
    /\ net' = net \cup {Message(Peer(p), "ERROR", 0, 0)}

-----------------------------------------------------------------------------
(* A new process of tftpd.                                                 *)

Fork == [pc |-> "run", nr |-> 1, fin |-> 0, op |-> "REQ", xbuf |-> Request,
         retries |-> Retries, expect |-> 0, due |-> FALSE]

(* A file to be written is truncated when it is opened. *)
StartTftpd(m) ==
    /\ ~Running(Server)
    /\ Arrives(Server, m) /\ m.type = "REQ"
    /\ starts < MaxStarts /\ starts' = starts + 1
    /\ file' = IF get THEN file ELSE << >>
    /\ IF oack
       THEN LET answer == Message(Client, "OACK", 0, 0)
            IN /\ proc' = [proc EXCEPT ![Server] = Sends(Fork, answer)]
               /\ net' = net \cup {answer}
               /\ pos' = IF get THEN 0 ELSE pos
       ELSE IF get
            THEN SendData(Server, Fork, 0)
            ELSE /\ SendAck(Server, [Fork EXCEPT !.nr = 0], << >>)
                 /\ UNCHANGED pos
    /\ UNCHANGED <<get, oack, got>>

(* "can't open file", or "malformed packet" for what is not a request. *)
RefuseTftpd(m) ==
    /\ ~Running(Server)
    /\ Arrives(Server, m)
    /\ net' = net \cup {Message(Client, "ERROR", 0, 0)}
    /\ UNCHANGED <<get, oack, proc, pos, file, got, starts>>

-----------------------------------------------------------------------------
(* What a process receives.                                                *)

ReceiveError(p, m) ==
    /\ Running(p) /\ Arrives(p, m)
    /\ m.type = "ERROR"
    /\ Exit(p, Outcome(proc[p]))
    /\ UNCHANGED <<get, oack, pos, got, net, starts>>

IsOack(p, m) == m.type = "OACK" /\ proc[p].expect = 1
(* Fault: the block number of DATA is not compared. *)
IsNextUnchecked(p, m) == m.type = "DATA" /\ p = Receiver

IsNext(p, m) == m.type = "DATA" /\ p = Receiver /\ m.nr = proc[p].nr

IsAcked(p, m) ==
    m.type = "ACK" /\ p = Sender /\ (m.nr + 1) % BlockMod = proc[p].nr

Noted(p, m) == [proc[p] EXCEPT !.op = m.type, !.expect = 0, !.due = FALSE]

(* The options are accepted: "We'll send ACK for OACK". *)
ReceiveOack(p, m) ==
    /\ Running(p) /\ Arrives(p, m)
    /\ IsOack(p, m)
    /\ IF get
       THEN SendAck(p, [Noted(p, m) EXCEPT !.nr = 0], file) /\ UNCHANGED pos
       ELSE SendData(p, Noted(p, m), pos)
    /\ UNCHANGED <<get, oack, file, got, starts>>

ReceiveData(p, m) ==
    /\ Running(p) /\ Arrives(p, m)
    /\ IsNext(p, m)
    /\ file' = Append(file, m.block)
    /\ got' = IF Len(file) + 1 > got THEN Len(file) + 1 ELSE got
    /\ SendAck(p, Finish(Noted(p, m), m.block), file')
    /\ UNCHANGED <<get, oack, pos, starts>>

ReceiveAck(p, m) ==
    /\ Running(p) /\ Arrives(p, m)
    /\ IsAcked(p, m)
    /\ IF proc[p].fin = 1
       THEN Exit(p, "ok") /\ UNCHANGED <<pos, net>>
       ELSE SendData(p, Noted(p, m), pos) /\ UNCHANGED file
    /\ UNCHANGED <<get, oack, got, starts>>

(* The file cannot be read or written, on the way to the next packet. *)
FileError(p, m) ==
    /\ Running(p) /\ Arrives(p, m)
    /\ \/ IsNext(p, m)
       \/ p = Sender /\ (IsOack(p, m) \/ (IsAcked(p, m) /\ proc[p].fin = 0))
    /\ SendError(p)
    /\ UNCHANGED <<get, oack, pos, got, starts>>

(* Anything else is not answered, but it overwrites opcode, and poll() is  *)
(* started again with all of its time.                                     *)
ReceiveOther(p, m) ==
    /\ Running(p) /\ Arrives(p, m)
    /\ m.type # "ERROR"
    /\ ~IsOack(p, m) /\ ~IsNext(p, m) /\ ~IsAcked(p, m)
    /\ proc' = [proc EXCEPT ![p] = Noted(p, m)]
    /\ UNCHANGED <<get, oack, pos, file, got, net, starts>>

(* The client has gone: its host answers "port unreachable".               *)
ReceiveRefusal(p) ==
    /\ p = Server /\ Running(p)
    /\ ~Running(Client)
    /\ \E m \in net : Arrives(Client, m)
    /\ SendError(p)
    /\ UNCHANGED <<get, oack, pos, got, starts>>

-----------------------------------------------------------------------------
(* The timer of poll(): due, when nothing has come for so long.  The test  *)
(* for the final ACK looks at opcode, which is that of the last packet     *)
(* sent or received; giving up is a success if the last block was sent.    *)

TimerRunsOut(p) ==
    /\ Running(p) /\ ~proc[p].due
    /\ proc' = [proc EXCEPT ![p].due = TRUE]
    /\ UNCHANGED <<get, oack, pos, file, got, net, starts>>

(* Fault: every ACK is taken for the final one once it was repeated. *)
ResendFinal(p) ==
    /\ Running(p) /\ proc[p].due /\ proc[p].retries > 1
    /\ net' = net \cup {proc[p].xbuf}
    /\ proc' = [proc EXCEPT
                ![p].retries = @ - 1, ![p].due = FALSE,
                ![p].pc = IF proc[p].xbuf.type = "ACK" THEN "ok" ELSE @]
    /\ UNCHANGED <<get, oack, pos, file, got, starts>>

(* Fault: the retries are not counted down. *)
ResendForever(p) ==
    /\ Running(p) /\ proc[p].due /\ proc[p].retries > 1
    /\ net' = net \cup {proc[p].xbuf}
    /\ proc' = [proc EXCEPT ![p].due = FALSE]
    /\ UNCHANGED <<get, oack, pos, file, got, starts>>

Resend(p) ==
    /\ Running(p) /\ proc[p].due /\ proc[p].retries > 1
    /\ net' = net \cup {proc[p].xbuf}
    /\ proc' = [proc EXCEPT
                ![p].retries = @ - 1, ![p].due = FALSE,
                ![p].pc = IF proc[p].fin = 1 /\ proc[p].op = "ACK" THEN "ok" ELSE @]
    /\ UNCHANGED <<get, oack, pos, file, got, starts>>

GiveUp(p) ==
    /\ Running(p) /\ proc[p].due /\ proc[p].retries = 1
    /\ Exit(p, Outcome(proc[p]))
    /\ UNCHANGED <<get, oack, pos, got, net, starts>>

Timeout(p) == Resend(p) \/ GiveUp(p)

-----------------------------------------------------------------------------

TftpInit ==
    /\ get \in BOOLEAN /\ oack \in BOOLEAN
    /\ proc = [p \in Process |->
                 IF p = Client THEN [Fork EXCEPT !.expect = 1]
                               ELSE [Fork EXCEPT !.pc = "none"]]
    /\ pos = 0 /\ file = << >> /\ got = 0
    /\ net = {Request}
    /\ starts = 0

TftpNext ==
    \/ \E m \in net : StartTftpd(m) \/ RefuseTftpd(m)
    \/ \E p \in Process :
          \/ \E m \in net :
                \/ ReceiveError(p, m) \/ ReceiveOack(p, m) \/ ReceiveData(p, m)
                \/ ReceiveAck(p, m) \/ ReceiveOther(p, m) \/ FileError(p, m)
          \/ ReceiveRefusal(p)
          \/ TimerRunsOut(p) \/ Timeout(p)

(* A timer that nothing starts again runs out, and is handled if nothing   *)
(* comes first; no packet has to be delivered.                             *)
TftpFairness ==
    \A p \in Process : WF_vars(TimerRunsOut(p)) /\ WF_vars(Timeout(p))

TftpSpec == TftpInit /\ [][TftpNext]_vars /\ TftpFairness

-----------------------------------------------------------------------------
(* The types of the variables; the block numbers have 16 bits. *)
TftpTypeOK ==
    /\ get \in BOOLEAN /\ oack \in BOOLEAN
    /\ proc \in [Process -> [pc: {"none", "run", "ok", "fail"},
                             nr: 0 .. BlockMod - 1, fin: 0 .. 1,
                             op: {"REQ", "OACK", "DATA", "ACK"}, xbuf: Packet,
                             retries: 1 .. Retries, expect: 0 .. 1,
                             due: BOOLEAN]]
    /\ pos \in 0 .. Blocks
    /\ file \in Seq(1 .. Blocks)
    /\ got \in 0 .. Blocks
    /\ net \subseteq Packet
    /\ starts \in 0 .. MaxStarts

(* Whatever is lost, repeated, late or out of order, and across the wrap   *)
(* of the block number: what has been written is a prefix of the file.     *)
PrefixOnly == Len(file) <= Blocks /\ \A i \in 1 .. Len(file) : file[i] = i

(* A receiver that exits with success has the whole file, and neither a    *)
(* failed download nor one under way is taken for it.                      *)
ReceiverHasAll == proc[Receiver].pc = "ok" => Len(file) = Blocks

(* The sender is never more than one block ahead of what some tftpd, or    *)
(* the client, has written, and its success means that it read all of it.  *)
NeverAhead ==
    /\ pos <= got + 1
    /\ proc[Sender].pc = "ok" => pos = Blocks

(* Both sides come to an end, unless packets that are not accepted keep    *)
(* coming: each of them puts off the timer that a process gives up by, and *)
(* none of them counts as a retry.                                         *)
Stray(p) == \E m \in net : ReceiveOther(p, m)

TransferEnds ==
    \/ <>[](\A p \in Process : ~Running(p))
    \/ \E p \in Process : []<><<Stray(p)>>_vars

=============================================================================

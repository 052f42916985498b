----------------------------- MODULE DhcpSystem -----------------------------
(***************************************************************************)
(* udhcpd and one udhcpc on a network, with one clock.                     *)
(*                                                                         *)
(* Of the clients of the server the one with the hardware address Me is    *)
(* udhcpc in detail; the others may send anything at any time.  Packets    *)
(* to the server wait in its socket, in the order in which they were sent, *)
(* while it serves another one; any of them may be lost.  Packets to the   *)
(* client may be lost, overtake each other, arrive up to MaxDelay seconds  *)
(* late and more than once; one that finds no open socket is lost.         *)
(*                                                                         *)
(* Both programs check addresses by ARP.  Any check may get a reply, or    *)
(* none: also from a client that has the address, as replies are lost too. *)
(***************************************************************************)
EXTENDS Integers, Sequences

CONSTANTS
    Mac, Me, ZeroMac, NoMac, StartIp, EndIp, MaxLeases,
    OfferTime, ConflictTime, DeclineTime, MinLease, MaxLease, TimeWrap,
    Options, DiscoverRetries, DiscoverTimeout, TryagainTimeout, UnicastTime,
    LeaseFloor, LeaseCeiling, ProbeTime, IntMax,
    MaxDelay,       \* how late a packet may reach the client
    MaxTime,        \* bounds of the model: the clock, the transactions of
    MaxXid,         \* the client, and the packets that wait for the server
    MaxWaiting

VARIABLES
    now,
    \* of the server
    leases, pc, client, addr, oldest, answered, promise, quarantine,
    \* of the client
    cpc, state, listen_mode, timeout, already_waited, slept, packet_num,
    requested_ip, opt, offer, probed, iface, left, leased,
    xid,            \* the client's transaction
    servedXid,      \* the transaction of the packet being served
    toServer,       \* packets waiting in the server's socket
    toClient,       \* packets on their way to the client
    declined        \* not in the programs: the transaction of the last DECLINE

serverVars == <<leases, pc, client, addr, oldest, answered, promise, quarantine>>
clientVars == <<cpc, state, listen_mode, timeout, already_waited, slept, packet_num,
                requested_ip, opt, offer, probed, iface, left, leased>>
vars == <<now, serverVars, clientVars, xid, servedXid, toServer, toClient, declined>>

\* The assumptions of Udhcpd and of Udhcpc, as the instances below have them.
ASSUME SystemAssumption ==
    /\ Me \in Mac /\ ZeroMac \notin Mac /\ NoMac \notin Mac /\ ZeroMac # NoMac
    /\ StartIp \in Nat \ {0} /\ EndIp \in Nat /\ StartIp <= EndIp
    /\ MaxLeases \in Nat \ {0} /\ TimeWrap \in Nat \ {0}
    /\ OfferTime \in Nat /\ ConflictTime \in Nat /\ DeclineTime \in Nat
    /\ MinLease \in Nat /\ MaxLease \in Nat
    /\ DiscoverRetries \in Nat \ {0} /\ DiscoverTimeout \in Nat \ {0}
    /\ TryagainTimeout \in Nat \ {0} /\ UnicastTime \in Nat \ {0}
    /\ LeaseFloor \in Nat /\ LeaseCeiling \in Nat /\ IntMax \in Nat
    /\ 2 <= LeaseFloor /\ LeaseFloor <= LeaseCeiling /\ LeaseCeiling <= IntMax
    /\ DiscoverTimeout <= IntMax /\ TryagainTimeout <= IntMax
    /\ ProbeTime \in Nat /\ MaxDelay \in Nat
    /\ MaxTime \in Nat \ {0} /\ MaxXid \in Nat /\ MaxWaiting \in Nat

S == INSTANCE Udhcpd
       WITH ServerIp <- 1, OtherIp <- {}, StaticNip <- [m \in Mac |-> 0],
            LeaseOption <- {0}, EarlyWrite <- FALSE, TimeWrap <- TimeWrap

C == INSTANCE Udhcpc
       WITH pc <- cpc, Ip <- S!Pool, LeaseOption <- {MaxLease}, NoOption <- -1,
            DefaultLease <- LeaseFloor, ReadErrors <- FALSE

Others == Mac \ {Me}

-----------------------------------------------------------------------------
(* The client sends.                                                       *)

\* What the client sends is received in time, or lost.
SendToServer(p) ==
    \/ toServer' = toServer
    \/ Len(toServer) < MaxWaiting /\ toServer' = Append(toServer, p)

\* Fault: the transaction of an earlier DISCOVER is kept.
DiscoversSameXid ==
    /\ C!SendDiscover
    /\ xid' = IF xid = 0 THEN 1 ELSE xid
    /\ SendToServer([type |-> "DISCOVER", xid |-> xid', ip |-> requested_ip])

\* send_discover().  Bound: the client starts no more than MaxXid transactions.
Discovers ==
    /\ C!SendDiscover
    /\ packet_num = 0 => xid < MaxXid
    /\ xid' = IF packet_num = 0 THEN xid + 1 ELSE xid
    /\ SendToServer([type |-> "DISCOVER", xid |-> xid', ip |-> requested_ip])

\* send_select()
Selects ==
    /\ C!SendSelect
    /\ SendToServer([type |-> "SELECT", xid |-> xid, ip |-> requested_ip])
    /\ UNCHANGED xid

\* send_renew() to the server or to all, unless the lease was lost.
Renews ==
    /\ C!HalfLeasePassed \/ C!RenewUnanswered \/ C!RebindUnanswered \/ C!RenewNow
    /\ IF state' = "INIT_SELECTING" THEN UNCHANGED toServer
       ELSE SendToServer([type |-> "RENEW", xid |-> xid, ip |-> requested_ip])
    /\ UNCHANGED xid

\* send_decline(), with the address of the ACK, and a random xid nobody reads.
Declines ==
    /\ C!ProbeAnswered
    /\ SendToServer([type |-> "DECLINE", xid |-> 0, ip |-> offer.ip])
    /\ declined' = xid
    /\ UNCHANGED xid

\* SIGUSR2: send_release() is called with a lease only.
Releases ==
    /\ C!ReleaseNow
    /\ IF state \in C!Bound
         THEN SendToServer([type |-> "RELEASE", xid |-> 0, ip |-> requested_ip])
         ELSE UNCHANGED toServer
    /\ UNCHANGED xid

\* What the client does without sending anything.  It is not told to exit (-n,
\* -q, SIGTERM), after which nothing of it would be left to look at.
Quietly ==
    /\ C!TryAgain \/ C!SleepOn \/ C!StartOver \/ C!ProbeUnanswered
    /\ UNCHANGED <<xid, toServer>>

ClientActs ==
    /\ \/ Declines
       \/ /\ Discovers \/ Selects \/ Renews \/ Releases \/ Quietly
          /\ UNCHANGED declined
    /\ UNCHANGED <<now, serverVars, servedXid, toClient>>

-----------------------------------------------------------------------------
(* The server serves a packet of Me.                                       *)

SendToClient(p) == toClient' = toClient \cup {p}

Packet(type, ip, time, id) ==
    [type |-> type, ip |-> ip, time |-> time, xid |-> id, sent |-> now]

\* An OFFER goes out as soon as the address has been entered; a search for
\* one goes on first.
OffersTo(m, id) ==
    IF m = Me /\ promise'[Me].nip # 0
      THEN SendToClient(Packet("OFFER", promise'[Me].nip, 0, id))
      ELSE UNCHANGED toClient

ServeDiscover(p) ==
    /\ p.type = "DISCOVER"
    /\ \/ S!DiscoverKnown(Me)
       \/ S!DiscoverRequested(Me, p.ip)
       \/ S!DiscoverSearch(Me, p.ip)
    /\ OffersTo(Me, p.xid)

\* A SELECT carries the address as an option, a RENEW as ciaddr.
Grant(p) ==
    /\ \/ p.type = "SELECT" /\ S!RequestAck(Me, p.ip, 0, 0)
       \/ p.type = "RENEW" /\ S!RequestAck(Me, 0, p.ip, 0)
    /\ SendToClient(Packet("ACK", p.ip, S!LeaseTime(0), p.xid))

\* send_NAK(), which only a SELECT gets.
Refuse(p) ==
    /\ p.type = "SELECT" /\ p.ip # S!BoundIp(Me)
    /\ SendToClient(Packet("NAK", 0, 0, p.xid))
    /\ UNCHANGED serverVars

DoNotAnswer(p) ==
    /\ p.type \in {"RENEW", "DECLINE", "RELEASE"} /\ p.ip # S!BoundIp(Me)
    /\ UNCHANGED <<serverVars, toClient>>

GiveUpAddress(p) ==
    /\ \/ p.type = "DECLINE" /\ S!Decline(Me, p.ip)
       \/ p.type = "RELEASE" /\ S!Release(Me, p.ip)
    /\ UNCHANGED toClient

ServeMe ==
    /\ pc = "select" /\ toServer # << >>
    /\ toServer' = Tail(toServer)
    /\ LET p == Head(toServer)
       IN  /\ ServeDiscover(p) \/ Grant(p) \/ Refuse(p) \/ DoNotAnswer(p) \/ GiveUpAddress(p)
           /\ servedXid' = p.xid
    /\ UNCHANGED <<now, clientVars, xid, declined>>

\* The packets of the others, whose answers nobody here waits for.
ServeOthers ==
    /\ \E m \in Others :
        \/ S!DiscoverKnown(m)
        \/ \E a \in S!AskedIp :
            \/ S!DiscoverRequested(m, a) \/ S!DiscoverSearch(m, a)
            \/ S!Decline(m, a) \/ S!Release(m, a)
            \/ S!RequestAck(m, a, 0, 0)
    /\ servedXid' = 0
    /\ UNCHANGED <<now, clientVars, xid, toServer, toClient, declined>>

\* The server goes on with what it began: the search, or the ACK.
ServerGoesOn ==
    /\ \/ S!NobodyAnswers /\ OffersTo(client.mac, servedXid)
       \/ /\ S!Skip \/ S!RememberOldest \/ S!Probe \/ S!ProbeOldest \/ S!Abandon
             \/ S!SomebodyAnswers \/ S!EnterLease
          /\ UNCHANGED toClient
    /\ UNCHANGED <<now, clientVars, xid, servedXid, toServer, declined>>

-----------------------------------------------------------------------------
(* The client receives.                                                    *)

\* Fault: the transaction is not looked at.
AcceptsAny(p) ==
    \/ p.type = "OFFER" /\ C!GetOffer(p.ip)
    \/ p.type = "ACK" /\ (C!GetAck(p.ip, p.time) \/ C!GetAckToProbe(p.ip, p.time))
    \/ p.type = "NAK" /\ C!GetNak

\* The test of the transaction comes before all others.
Accepts(p) ==
    /\ p.xid = xid
    /\ \/ p.type = "OFFER" /\ C!GetOffer(p.ip)
       \/ p.type = "ACK" /\ (C!GetAck(p.ip, p.time) \/ C!GetAckToProbe(p.ip, p.time))
       \/ p.type = "NAK" /\ C!GetNak

\* Another transaction, or not what this state waits for.
Expected(p) == p.xid = xid /\ p.type \in IF state \in C!Asking THEN {"ACK", "NAK"} ELSE {"OFFER"}

Ignores(p) == ~Expected(p) /\ C!IgnorePacket

ClientReceives ==
    /\ \E p \in toClient : Accepts(p) \/ Ignores(p)
    /\ UNCHANGED <<now, serverVars, xid, servedXid, toServer, toClient, declined>>

\* A second passes for both, and packets that are too late are lost.
Tick ==
    /\ S!Tick
    /\ C!Tick
    /\ toClient' = {p \in toClient : now' - p.sent <= MaxDelay}
    /\ UNCHANGED <<xid, servedXid, toServer, declined>>

Init ==
    /\ S!Init /\ C!Init
    /\ requested_ip = 0
    /\ xid = 0 /\ servedXid = 0 /\ declined = 0
    /\ toServer = << >> /\ toClient = {}

Next == ClientActs \/ ServeMe \/ ServeOthers \/ ServerGoesOn \/ ClientReceives \/ Tick

Spec == Init /\ [][Next]_vars

-----------------------------------------------------------------------------
\* The client uses an address, but for the end of the lease, which may have been
\* spent on the network.  After a DECLINE the client goes on listening to the
\* transaction in which it got the address, and if the OFFER and the ACK come
\* again, takes it; such transactions are excepted.
UsesAddress == /\ cpc \in {"wait", "probe"} /\ iface # 0
               /\ left >= MaxDelay /\ xid # declined

\* The server has a slot for the address that the client has configured, and
\* counts the lease from no earlier than the client, but for the time the ACK
\* was on its way: "xid = random_xid(); ...but why bother?", the retries of
\* both requests and late duplicates never give the client an older lease.
LeaseAgreed ==
    UsesAddress =>
        \/ \E s \in S!Slots : /\ leases[s].mac = Me /\ leases[s].nip = iface
                              /\ leases[s].expires >= now + left - MaxDelay
        \/ pc = "ack" /\ client.mac = Me /\ addr = iface

\* While the client uses an address the server promises it to nobody else: the
\* lease the client counts by three variables ends before the server's slot
\* does, whatever is lost, late or repeated on the way.
NoTwoUsers ==
    UsesAddress =>
        \A m \in Others : S!Live(m) => promise[m].nip # iface
=============================================================================

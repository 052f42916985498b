-------------------------------- MODULE Zcip --------------------------------
(***************************************************************************)
(* zcip, the daemon that chooses an IPv4 link-local address for an         *)
(* interface: several hosts on one link pick addresses, probe for them,    *)
(* announce them, use them and defend them, with no server.  zcip's loop   *)
(* (zcip_main) polls its ARP socket: Timeout's actions are its "case 0",   *)
(* Receive's its "case 1".  The kernel of a host answers ARP requests for  *)
(* the address its interface has, and sends requests of its own; both are  *)
(* external.                                                               *)
(*                                                                         *)
(* Time is counted in seconds; a packet is read, or lost, within the       *)
(* second in which it is sent.                                             *)
(***************************************************************************)
EXTENDS Integers, Sequences, FiniteSets

CONSTANTS
    Hosts,           \* the hosts, by their hardware addresses
    Ips,             \* what pick() may return
    NoIp,            \* 0.0.0.0
    NoHost,          \* the hardware address 0
    ProbeWait, ProbeMin, ProbeMax, ProbeNum,
    MaxConflicts, AnnounceNum, AnnounceInterval, DefendInterval,
    MaxLost,         \* bound: packets that are lost in a behaviour
    MaxInFlight      \* bound: packets of a host that another one has still to read

ASSUME ZcipAssumption ==
    /\ NoIp \notin Ips /\ NoHost \notin Hosts
    /\ Ips # {} /\ ProbeMin <= ProbeMax
    /\ \A n \in {ProbeWait, ProbeMin, ProbeMax, ProbeNum, MaxConflicts,
                 AnnounceNum, AnnounceInterval, DefendInterval} : n \in Nat \ {0}
    /\ MaxLost \in Nat /\ MaxInFlight \in Nat \ {0}

VARIABLES
    host,    \* zcip's variables on each host, and its interface's address
    inbox,   \* the packets in the ARP socket of each host's zcip
    lost     \* how many packets were lost

vars == <<host, inbox, lost>>

Running == {"PROBE", "RATE_LIMIT_PROBE", "ANNOUNCE", "MONITOR", "DEFEND"}
Never == -1

\* "off": no zcip and no address; "quit": zcip has exited and left an address.
Host == [state : Running \cup {"off", "quit"}, ip : Ips \cup {NoIp}, timer : Int,
         nprobes : 0..ProbeNum, nclaims : 0..AnnounceNum, conflicts : 0..MaxConflicts,
         iface : Ips \cup {NoIp}]
Packet == [op : {"REQUEST", "REPLY"}, src : Hosts, spa : Ips \cup {NoIp},
           tha : Hosts \cup {NoHost}, tpa : Ips]

Runs(h) == host[h].state \in Running
Due(h) == Runs(h) /\ host[h].timer = 0

\* arp(): what zcip broadcasts, to ask whether its address is in use and to claim it.
ProbeOf(h) ==
    [op |-> "REQUEST", src |-> h, spa |-> NoIp, tha |-> NoHost, tpa |-> host[h].ip]
ClaimOf(h) ==
    [op |-> "REQUEST", src |-> h, spa |-> host[h].ip, tha |-> h, tpa |-> host[h].ip]

\* The kernels that answer a request: those of the hosts whose interface has
\* the address, unless the sender says that it has it too.
Answering(h, p) == {g \in Hosts \ {h} : host[g].iface = p.tpa /\ p.spa # p.tpa}
Answers(h, p) ==
    IF Answering(h, p) = {} THEN <<>>
    ELSE <<[op |-> "REPLY", src |-> CHOOSE g \in Answering(h, p) : TRUE,
            spa |-> p.tpa, tha |-> h, tpa |-> p.tpa]>>

\* The sockets after h has broadcast p, when they were as q.
Broadcast(q, h, p) ==
    [g \in Hosts |-> IF ~Runs(g) THEN q[g]
                     ELSE q[g] \o IF g = h THEN Answers(h, p) ELSE <<p>>]

\* The packets of a host, and the answers to them, that a socket still holds
\* are bounded.
InFlight(h, n) ==
    \E g \in Hosts :
        Cardinality({i \in DOMAIN inbox[g] : h \in {inbox[g][i].src, inbox[g][i].tha}}) >= n
MaySend(h) == ~InFlight(h, MaxInFlight)

\* A host without zcip and without address.
Off == [state |-> "off", ip |-> NoIp, timer |-> Never, nprobes |-> 0, nclaims |-> 0,
        conflicts |-> 0, iface |-> NoIp]

\* timeout_ms = 0: the loop waits for a random part of PROBE_WAIT.
Restarts == 0..ProbeWait

Set(h, r) == host' = [host EXCEPT ![h] = r]
Sends(h, p) == inbox' = Broadcast(inbox, h, p) /\ UNCHANGED lost

-----------------------------------------------------------------------------
\* Everything up to the loop: run("init"), the address of -r or the first pick().
\* It takes longer than what h sent before is in flight.
Boot(h) ==
    /\ host[h].state = "off" /\ ~InFlight(h, 1)
    /\ \E a \in Ips, t \in Restarts :
           Set(h, [state |-> "PROBE", ip |-> a, timer |-> t, nprobes |-> 0,
                   nclaims |-> 0, conflicts |-> 0, iface |-> NoIp])
    /\ UNCHANGED <<inbox, lost>>

\* POLLERR with nothing to read: the link is down; run("deconfig") if ready.
LinkDown(h) ==
    /\ Runs(h) /\ inbox[h] = <<>>
    /\ Set(h, Off)
    /\ UNCHANGED <<inbox, lost>>

\* safe_read() or sendto() fails: zcip exits and leaves the address behind, if it
\* has one ("all other exit paths should deconfig").
Die(h) ==
    /\ Runs(h)
    /\ Set(h, IF host[h].iface = NoIp THEN Off
              ELSE [host[h] EXCEPT !.state = "quit", !.timer = Never])
    /\ inbox' = [inbox EXCEPT ![h] = <<>>]
    /\ UNCHANGED lost

-----------------------------------------------------------------------------
\* Timeouts.

Probe(h) ==
    /\ Due(h) /\ MaySend(h) /\ host[h].state = "PROBE" /\ host[h].nprobes < ProbeNum
    /\ \E t \in ProbeMin..ProbeMax :
           Set(h, [host[h] EXCEPT !.nprobes = @ + 1, !.timer = t])
    /\ Sends(h, ProbeOf(h))

Announce(h) ==
    /\ Due(h) /\ MaySend(h)
    /\ \/ host[h].state = "PROBE" /\ host[h].nprobes = ProbeNum
       \/ host[h].state = "RATE_LIMIT_PROBE"
    /\ Set(h, [host[h] EXCEPT !.state = "ANNOUNCE", !.nclaims = 0,
                              !.timer = AnnounceInterval])
    /\ Sends(h, ClaimOf(h))

ClaimAgain(h) ==
    /\ Due(h) /\ MaySend(h) /\ host[h].state = "ANNOUNCE" /\ host[h].nclaims < AnnounceNum
    /\ Set(h, [host[h] EXCEPT !.nclaims = @ + 1, !.timer = AnnounceInterval])
    /\ Sends(h, ClaimOf(h))

\* run("config"): the interface gets the address.  With -q, which matters here
\* only and which a host may or may not have been given, zcip exits.
Configure(h) ==
    /\ Due(h) /\ host[h].state = "ANNOUNCE" /\ host[h].nclaims = AnnounceNum
    /\ \E s \in {"MONITOR", "quit"} :
           /\ Set(h, [host[h] EXCEPT !.state = s, !.iface = host[h].ip, !.conflicts = 0,
                                     !.timer = Never])
           /\ inbox' = IF s = "quit" THEN [inbox EXCEPT ![h] = <<>>] ELSE inbox
    /\ UNCHANGED lost

\* Nobody answered the defence.
Won(h) ==
    /\ Due(h) /\ host[h].state = "DEFEND"
    /\ Set(h, [host[h] EXCEPT !.state = "MONITOR", !.conflicts = 0, !.timer = Never])
    /\ UNCHANGED <<inbox, lost>>

Timeout(h) == Probe(h) \/ Announce(h) \/ ClaimAgain(h) \/ Configure(h) \/ Won(h)

-----------------------------------------------------------------------------
\* Packets.

SourceConflict(h, p) == p.spa = host[h].ip /\ p.src # h
TargetConflict(h, p) == p.op = "REQUEST" /\ p.tpa = host[h].ip /\ p.tha # h

\* Fault: it counts the conflict, and goes on with the address it has.
RepickSame(h, p) ==
    /\ host[h].state \in {"PROBE", "ANNOUNCE"}
    /\ SourceConflict(h, p) \/ TargetConflict(h, p)
    /\ Set(h, [host[h] EXCEPT !.conflicts = IF @ < MaxConflicts THEN @ + 1 ELSE @])

\* A conflict while probing or announcing: another address, from the start, as
\* the comment has it; but the state stays ANNOUNCE if it was, and the 60
\* seconds of RATE_LIMIT_PROBE are overwritten with 0.  conflicts is only ever
\* compared with MAX_CONFLICTS, and need not grow past it.
Repick(h, p) ==
    /\ host[h].state \in {"PROBE", "ANNOUNCE"}
    /\ SourceConflict(h, p) \/ TargetConflict(h, p)
    /\ \E a \in Ips, t \in Restarts, s \in {host[h].state, "RATE_LIMIT_PROBE"} :
           /\ (s = "RATE_LIMIT_PROBE") <=> (host[h].conflicts + 1 >= MaxConflicts)
           /\ Set(h, [host[h] EXCEPT !.state = s, !.ip = a, !.timer = t, !.nprobes = 0,
                                     !.nclaims = 0,
                                     !.conflicts = IF @ < MaxConflicts THEN @ + 1 ELSE @])

\* Any packet in RATE_LIMIT_PROBE: "Invalid, should never happen".
StartOver(h, p) ==
    /\ host[h].state = "RATE_LIMIT_PROBE"
    /\ \E a \in Ips, t \in Restarts :
           Set(h, [host[h] EXCEPT !.state = "PROBE", !.ip = a, !.timer = t,
                                  !.nprobes = 0, !.nclaims = 0])

\* Fault: it does not remember that it has defended the address.
DefendAlways(h, p) ==
    /\ host[h].state = "MONITOR" /\ SourceConflict(h, p)
    /\ Set(h, [host[h] EXCEPT !.timer = DefendInterval])

\* A conflict: one claim in defence of the address, which Receive sends.
Defend(h, p) ==
    /\ host[h].state = "MONITOR" /\ SourceConflict(h, p)
    /\ Set(h, [host[h] EXCEPT !.state = "DEFEND", !.timer = DefendInterval])

\* Fault: it starts over without "deconfig".
GiveUpConfigured(h, p) ==
    /\ host[h].state = "DEFEND" /\ SourceConflict(h, p)
    /\ \E a \in Ips, t \in Restarts :
           Set(h, [host[h] EXCEPT !.state = "PROBE", !.ip = a, !.timer = t, !.nprobes = 0,
                                  !.nclaims = 0])

\* The defence was answered: run("deconfig"), and another address.
GiveUp(h, p) ==
    /\ host[h].state = "DEFEND" /\ SourceConflict(h, p)
    /\ \E a \in Ips, t \in Restarts :
           Set(h, [host[h] EXCEPT !.state = "PROBE", !.ip = a, !.timer = t, !.nprobes = 0,
                                  !.nclaims = 0, !.iface = NoIp])

\* Fault: conflicts may be overlooked.
IgnoreAnyway(h, p) ==
    /\ host[h].state \in {"PROBE", "ANNOUNCE", "MONITOR", "DEFEND"}
    /\ UNCHANGED host

\* No conflict; a timeout that is due but was overtaken by the packet starts
\* again with a random delay.
Ignore(h, p) ==
    /\ \/ host[h].state \in {"PROBE", "ANNOUNCE"}
          /\ ~SourceConflict(h, p) /\ ~TargetConflict(h, p)
       \/ host[h].state \in {"MONITOR", "DEFEND"} /\ ~SourceConflict(h, p)
    /\ \E t \in IF host[h].timer = 0 THEN Restarts ELSE {host[h].timer} :
           Set(h, [host[h] EXCEPT !.timer = t])

Receive(h) ==
    /\ Runs(h) /\ inbox[h] # <<>>
    /\ LET p == Head(inbox[h])
           rest == [inbox EXCEPT ![h] = Tail(@)]
       IN  \/ Repick(h, p) /\ inbox' = rest
           \/ StartOver(h, p) /\ inbox' = rest
           \/ Defend(h, p) /\ inbox' = Broadcast(rest, h, ClaimOf(h))
           \/ GiveUp(h, p) /\ inbox' = rest
           \/ Ignore(h, p) /\ inbox' = rest
    /\ UNCHANGED lost

-----------------------------------------------------------------------------
\* The environment.

\* A host that has an address looks for another one: its kernel asks for it.
\* One such request at a time is in flight from each host.
Resolve(h) ==
    /\ host[h].iface # NoIp
    /\ MaySend(h)
    /\ \E a \in Ips \ {host[h].iface} :
           inbox' = Broadcast(inbox, h, [op |-> "REQUEST", src |-> h, spa |-> host[h].iface,
                                         tha |-> NoHost, tpa |-> a])
    /\ UNCHANGED <<host, lost>>

Lose(h) ==
    /\ lost < MaxLost /\ inbox[h] # <<>>
    /\ inbox' = [inbox EXCEPT ![h] = Tail(@)]
    /\ lost' = lost + 1
    /\ UNCHANGED host

Tick ==
    /\ \A h \in Hosts : inbox[h] = <<>> /\ ~Due(h)
    /\ \E h \in Hosts : host[h].timer > 0
    /\ host' = [h \in Hosts |-> [host[h] EXCEPT !.timer = IF @ > 0 THEN @ - 1 ELSE @]]
    /\ UNCHANGED <<inbox, lost>>

Init ==
    /\ host = [h \in Hosts |-> Off]
    /\ inbox = [h \in Hosts |-> <<>>]
    /\ lost = 0

Next ==
    \/ \E h \in Hosts : Boot(h) \/ LinkDown(h) \/ Die(h) \/ Timeout(h)
                        \/ Receive(h) \/ Resolve(h) \/ Lose(h)
    \/ Tick

\* zcip polls and reads; time passes; hosts with an address go on using it.
Fairness ==
    /\ \A h \in Hosts : WF_vars(Timeout(h)) /\ WF_vars(Receive(h)) /\ WF_vars(Resolve(h))
    /\ WF_vars(Tick)

Spec == Init /\ [][Next]_vars /\ Fairness

-----------------------------------------------------------------------------
\* Types, and that the interface has zcip's address from "config" to "deconfig".
ZcipTypeOK ==
    /\ host \in [Hosts -> Host]
    /\ inbox \in [Hosts -> Seq(Packet)]
    /\ lost \in 0..MaxLost
    /\ \A h \in Hosts : host[h].iface = IF host[h].state \in {"MONITOR", "DEFEND", "quit"}
                                        THEN host[h].ip ELSE NoIp

SharedBy(g, h) == g # h /\ host[g].iface # NoIp /\ host[g].iface = host[h].iface

Probed(h) == host[h].nprobes = ProbeNum

\* No two interfaces get one address as long as no packet is lost, however the
\* probes, claims and defences of the hosts cross; except that a zcip that has
\* exited does not hear the claims of a host that has not probed.
NeverShared ==
    lost = 0 => \A g, h \in Hosts :
        SharedBy(g, h) => \/ ~Runs(g) /\ ~Probed(h)
                          \/ ~Runs(h) /\ ~Probed(g)

\* A host that has probed for the address it uses gives it up (case DEFEND) only
\* to one that has not, or where packets were lost.
EstablishedStays ==
    [][\A h \in Hosts :
           /\ host[h].state = "DEFEND" /\ host'[h].state = "PROBE"
           /\ Probed(h) /\ lost = 0
           => ~Probed(Head(inbox[h]).src)]_vars

\* Two hosts that have come to use one address, as packets were lost, do not go
\* on doing so while zcip watches on both: the traffic of either is defended
\* against, and the defence is answered or obeyed.
SharingEnds ==
    \A g, h \in Hosts :
        SharedBy(g, h) ~> ~(SharedBy(g, h) /\ Runs(g) /\ Runs(h))
=============================================================================

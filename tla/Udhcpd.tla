------------------------------- MODULE Udhcpd -------------------------------
(***************************************************************************)
(* The DHCP server udhcpd: its table of dynamic leases (leases.c) and the  *)
(* handlers of its main loop (dhcpd.c).  UdhcpdRestart adds the lease file.*)
(*                                                                         *)
(* The server is one thread.  It serves one packet at a time, but serving  *)
(* a DISCOVER may take many seconds: find_free_or_expired_nip() asks, by   *)
(* ARP and for two seconds each, whether an address is in use.  The clock  *)
(* runs meanwhile, so the search is a sequence of steps here.  Sending an  *)
(* ACK, entering the lease and saving the table are three steps as well.   *)
(*                                                                         *)
(* The variables "promise" and "quarantine" are not in the program: they   *)
(* record what the clients were told (an OFFER or an ACK, by the address   *)
(* and the deadline in it) and what the server was told (a DECLINE or an   *)
(* ARP reply).  The properties compare them with the table.                *)
(*                                                                         *)
(* An operator marked "Fault" is not part of the specification: it is what *)
(* the definition after it would be with a likely bug in the code, and     *)
(* serves to show that the properties notice that bug.                     *)
(***************************************************************************)
EXTENDS Integers

CONSTANTS
    Mac,            \* hardware addresses of the clients
    ZeroMac,        \* 00:00:00:00:00:00, in the slots that belong to nobody
    NoMac,          \* the NULL chaddr add_lease() takes for a conflict
    StartIp, EndIp, \* first and last address of the pool, in host order
    ServerIp,       \* the server's own address
    OtherIp,        \* addresses outside the pool that clients ask for
    StaticNip,      \* Mac -> address of its static_lease line, 0 if none
    MaxLeases,      \* max_leases, before it is clamped to the pool's size
    OfferTime, ConflictTime, DeclineTime, MinLease, MaxLease,
    LeaseOption,    \* lease times clients ask for; 0: option absent
    EarlyWrite,     \* FEATURE_UDHCPD_WRITE_LEASES_EARLY
    TimeWrap,       \* 2^32: lease deadlines are 32 bits wide
    MaxTime         \* bound of the model: the clock stops there

Pool == StartIp .. EndIp
StaticIps == {StaticNip[m] : m \in Mac} \ {0}
Slots == 1 .. (IF MaxLeases > EndIp - StartIp + 1
                 THEN EndIp - StartIp + 1 ELSE MaxLeases)
AskedIp == {0} \cup Pool \cup OtherIp \cup StaticIps \* 0: option absent

ASSUME AddressAssumption ==
    /\ StartIp \in Nat \ {0} /\ EndIp \in Nat /\ StartIp <= EndIp
    /\ ServerIp \in Nat /\ OtherIp \subseteq Nat
    /\ StaticNip \in [Mac -> Nat]
    /\ ZeroMac \notin Mac /\ NoMac \notin Mac /\ ZeroMac # NoMac
ASSUME TimeAssumption ==
    /\ OfferTime \in Nat /\ ConflictTime \in Nat /\ DeclineTime \in Nat
    /\ MinLease \in Nat /\ MaxLease \in Nat /\ MaxTime \in Nat \ {0}
    /\ LeaseOption \subseteq Nat
    /\ MaxLeases \in Nat \ {0} /\ TimeWrap \in Nat \ {0}
    /\ EarlyWrite \in BOOLEAN

VARIABLES
    now,        \* time(NULL)
    leases,     \* g_leases
    pc,         \* where the server's thread is
    client,     \* the client being served, and the lease time it asked for
    addr,       \* the address being probed or acknowledged
    oldest,     \* oldest_lease of the search, 0 for NULL
    answered,   \* addresses that answered the probes of this search
    promise,    \* what each client was promised: an address, a deadline, and
                \* whether it was an ACK
    quarantine  \* until when each address must not be handed out

request == <<client, addr, oldest, answered>>
ghosts == <<promise, quarantine>>
vars == <<now, leases, pc, request, ghosts>>

Lease == [mac : Mac \cup {ZeroMac}, nip : Nat, expires : Nat]
Empty == [mac |-> ZeroMac, nip |-> 0, expires |-> 0]
NoPromise == [nip |-> 0, until |-> 0, acked |-> FALSE]
NoClient == [mac |-> ZeroMac, option |-> 0]

-----------------------------------------------------------------------------
(* The lease table.                                                        *)

Deadline(t) == (now + t) % TimeWrap
IsExpired(l) == l.expires < now
IsStatic(m) == StaticNip[m] # 0
IsReserved(a) == a \in StaticIps

\* find_lease_by_mac(), find_lease_by_nip(): the first slot that matches.
WithMac(m) == {s \in Slots : leases[s].mac = m}
WithNip(a) == {s \in Slots : leases[s].nip = a}
First(S) == CHOOSE s \in S : \A r \in S : s <= r

\* Fault: the address is not compared.
ClearedByMac(m, a) ==
    [s \in Slots |-> IF m # NoMac /\ leases[s].mac = m THEN Empty ELSE leases[s]]

Cleared(m, a) ==
    [s \in Slots |-> IF (m # NoMac /\ leases[s].mac = m)
                           \/ (a # 0 /\ leases[s].nip = a)
                       THEN Empty ELSE leases[s]]

\* The scan keeps the first of the slots that expired earliest.
IsOldest(table, s) ==
    /\ IsExpired(table[s])
    /\ \A r \in Slots : \/ table[s].expires < table[r].expires
                        \/ table[s].expires = table[r].expires /\ s <= r

\* add_lease() finds no slot when every lease is unexpired.
HasRoom(table) == \E s \in Slots : IsExpired(table[s])

AddLease(m, a, t) ==
    LET table == Cleared(m, a)
    IN  IF HasRoom(table)
          THEN [table EXCEPT ![CHOOSE s \in Slots : IsOldest(table, s)] =
                  [mac |-> IF m = NoMac THEN ZeroMac ELSE m,
                   nip |-> a, expires |-> Deadline(t)]]
          ELSE table

LeaseTime(opt) ==
    LET capped == IF opt > MaxLease THEN MaxLease ELSE opt
    IN  IF opt = 0 THEN MaxLease
        ELSE IF capped < MinLease THEN MinLease ELSE capped

\* What the search never hands out: x.y.z.0, x.y.z.255, the server's own
\* address and the addresses of the static leases.
Usable(a) == /\ a % 256 \notin {0, 255}
             /\ a # ServerIp
             /\ ~IsReserved(a)

-----------------------------------------------------------------------------
(* DISCOVER.                                                               *)

\* Back to select(): the handler's locals are gone.
Return == /\ pc' = "select" /\ client' = NoClient
          /\ addr' = 0 /\ oldest' = 0 /\ answered' = {}

Promise(m, a, t, acked) ==
    promise' = [promise EXCEPT ![m] = [nip |-> a, until |-> now + t, acked |-> acked]]
Withdraw(m) == promise' = [promise EXCEPT ![m] = NoPromise]

\* Fault: the result of add_lease() is not looked at.
ReserveAnyway(m, a) ==
    /\ leases' = AddLease(m, a, OfferTime)
    /\ Promise(m, a, OfferTime, FALSE)
    /\ Return

\* The end of send_offer() for a client without static lease: the OFFER is
\* abandoned if its address cannot be entered.
Reserve(m, a) ==
    /\ leases' = AddLease(m, a, OfferTime)
    /\ IF HasRoom(Cleared(m, a)) THEN Promise(m, a, OfferTime, FALSE) ELSE Withdraw(m)
    /\ Return

\* A client that sends DISCOVER has given up what it was promised before.
DiscoverStatic(m) ==
    /\ pc = "select" /\ IsStatic(m)
    /\ Promise(m, StaticNip[m], OfferTime, FALSE)
    /\ UNCHANGED <<now, leases, pc, request, quarantine>>

\* "Reuse its IP (even if lease is expired)."
DiscoverKnown(m) ==
    /\ pc = "select" /\ ~IsStatic(m)
    /\ WithMac(m) # {}
    /\ Reserve(m, leases[First(WithMac(m))].nip)
    /\ UNCHANGED <<now, quarantine>>

\* Faults: the lease is not looked up; the test is the wrong way round.
MayHaveAny(a) == a \in Pool
MayHaveLeased(a) ==
    /\ a \in Pool
    /\ WithNip(a) # {} => ~IsExpired(leases[First(WithNip(a))])

MayHaveRequested(a) ==
    /\ a \in Pool
    /\ WithNip(a) # {} => IsExpired(leases[First(WithNip(a))])

DiscoverRequested(m, req) ==
    /\ pc = "select" /\ ~IsStatic(m)
    /\ WithMac(m) = {}
    /\ MayHaveRequested(req)
    /\ Reserve(m, req)
    /\ UNCHANGED <<now, quarantine>>

DiscoverSearch(m, req) ==
    /\ pc = "select" /\ ~IsStatic(m)
    /\ WithMac(m) = {}
    /\ ~MayHaveRequested(req)
    /\ pc' = "scan" /\ addr' = StartIp /\ oldest' = 0
    /\ client' = [mac |-> m, option |-> 0]
    /\ Withdraw(m)
    /\ UNCHANGED <<now, leases, answered, quarantine>>

(* find_free_or_expired_nip(), one address at a time.                      *)

\* Fault: "goto next_addr" without a next address.
SkipForever ==
    /\ pc = "scan" /\ addr \in Pool
    /\ ~Usable(addr)
    /\ UNCHANGED <<now, leases, pc, request, ghosts>>

Skip ==
    /\ pc = "scan" /\ addr \in Pool
    /\ ~Usable(addr)
    /\ addr' = addr + 1
    /\ UNCHANGED <<now, leases, pc, client, oldest, answered, ghosts>>

\* Fault: the newest lease is kept instead of the oldest.
RememberNewest ==
    /\ pc = "scan" /\ addr \in Pool
    /\ Usable(addr) /\ WithNip(addr) # {}
    /\ LET s == First(WithNip(addr))
       IN  oldest' = IF oldest = 0 \/ leases[s].expires > leases[oldest].expires
                       THEN s ELSE oldest
    /\ addr' = addr + 1
    /\ UNCHANGED <<now, leases, pc, client, answered, ghosts>>

RememberOldest ==
    /\ pc = "scan" /\ addr \in Pool
    /\ Usable(addr) /\ WithNip(addr) # {}
    /\ LET s == First(WithNip(addr))
       IN  oldest' = IF oldest = 0 \/ leases[s].expires < leases[oldest].expires
                       THEN s ELSE oldest
    /\ addr' = addr + 1
    /\ UNCHANGED <<now, leases, pc, client, answered, ghosts>>

Probe ==
    /\ pc = "scan" /\ addr \in Pool
    /\ Usable(addr) /\ WithNip(addr) = {}
    /\ pc' = "probe"
    /\ UNCHANGED <<now, leases, request, ghosts>>

\* The pool is exhausted: try the oldest lease, if it has expired.
ProbeOldest ==
    /\ pc = "scan" /\ addr = EndIp + 1
    /\ oldest # 0 /\ IsExpired(leases[oldest])
    /\ pc' = "probeOldest" /\ addr' = leases[oldest].nip
    /\ UNCHANGED <<now, leases, client, oldest, answered, ghosts>>

Abandon ==
    /\ pc = "scan" /\ addr = EndIp + 1
    /\ oldest # 0 => ~IsExpired(leases[oldest])
    /\ Return
    /\ UNCHANGED <<now, leases, ghosts>>

\* arpping(): no reply within two seconds, or only the client's own.
NobodyAnswers ==
    /\ pc \in {"probe", "probeOldest"}
    /\ Reserve(client.mac, addr)
    /\ UNCHANGED <<now, quarantine>>

\* "Check if the IP is taken; if it is, add it to the lease table"
SomebodyAnswers ==
    /\ pc \in {"probe", "probeOldest"}
    /\ leases' = AddLease(NoMac, addr, ConflictTime)
    /\ quarantine' = [quarantine EXCEPT ![addr] = now + ConflictTime]
    /\ IF pc = "probeOldest" THEN Return
       ELSE /\ pc' = "scan" /\ addr' = addr + 1
            /\ answered' = answered \cup {addr}
            /\ UNCHANGED <<client, oldest>>
    /\ UNCHANGED <<now, promise>>

-----------------------------------------------------------------------------
(* REQUEST, DECLINE and RELEASE.  "serverId": the packet names this server;*)
(* packets that name another one are ignored.                              *)

\* The address the client is bound to: lease->lease_nip, 0 if lease is NULL.
BoundIp(m) == IF IsStatic(m) THEN StaticNip[m]
              ELSE IF WithMac(m) = {} THEN 0
              ELSE leases[First(WithMac(m))].nip

RequestedIp(req, ciaddr) == IF req # 0 THEN req ELSE ciaddr

\* send_ACK() as far as send_packet().
RequestAck(m, req, ciaddr, opt) ==
    /\ pc = "select"
    /\ RequestedIp(req, ciaddr) # 0
    /\ RequestedIp(req, ciaddr) = BoundIp(m)
    /\ Promise(m, BoundIp(m), LeaseTime(opt), TRUE)
    /\ pc' = "ack" /\ addr' = BoundIp(m)
    /\ client' = [mac |-> m, option |-> opt]
    /\ UNCHANGED <<now, leases, oldest, answered, quarantine>>

\* Fault: the lease is entered as if it were an offer.
EnterLeaseBriefly ==
    /\ pc = "ack"
    /\ leases' = AddLease(client.mac, addr, OfferTime)
    /\ IF EarlyWrite THEN pc' = "write" /\ UNCHANGED request ELSE Return
    /\ UNCHANGED <<now, ghosts>>

\* The rest of send_ACK() but for write_leases().
EnterLease ==
    /\ pc = "ack"
    /\ leases' = AddLease(client.mac, addr, LeaseTime(client.option))
    /\ IF EarlyWrite THEN pc' = "write" /\ UNCHANGED request ELSE Return
    /\ UNCHANGED <<now, ghosts>>

\* write_leases() changes the file only, which is in UdhcpdRestart.
LeasesWritten ==
    /\ pc = "write"
    /\ Return
    /\ UNCHANGED <<now, leases, ghosts>>

\* Fault: the slot loses its owner but keeps its deadline.
DeclineWithoutTime(m, req) ==
    /\ pc = "select"
    /\ req # 0 /\ req = BoundIp(m)
    /\ leases' = IF IsStatic(m) THEN leases
                 ELSE [leases EXCEPT ![First(WithMac(m))].mac = ZeroMac]
    /\ quarantine' = [quarantine EXCEPT ![req] = now + DeclineTime]
    /\ Withdraw(m)
    /\ UNCHANGED <<now, pc, request>>

\* Only the slot of a dynamic lease changes: the static client's is a
\* fake_lease on the stack.
Decline(m, req) ==
    /\ pc = "select"
    /\ req # 0 /\ req = BoundIp(m)
    /\ leases' = IF IsStatic(m) THEN leases
                 ELSE [leases EXCEPT ![First(WithMac(m))] =
                         [mac |-> ZeroMac, nip |-> @.nip,
                          expires |-> Deadline(DeclineTime)]]
    /\ quarantine' = [quarantine EXCEPT ![req] = now + DeclineTime]
    /\ Withdraw(m)
    /\ UNCHANGED <<now, pc, request>>

Release(m, ciaddr) ==
    /\ pc = "select"
    /\ ciaddr # 0 /\ ciaddr = BoundIp(m)
    /\ leases' = IF IsStatic(m) THEN leases
                 ELSE [leases EXCEPT ![First(WithMac(m))].expires = Deadline(0)]
    /\ Withdraw(m)
    /\ UNCHANGED <<now, pc, request, quarantine>>

\* A promise and a quarantine end at their deadlines.
Tick ==
    /\ now < MaxTime
    /\ now' = now + 1
    /\ promise' = [m \in Mac |-> IF promise[m].until > now' THEN promise[m] ELSE NoPromise]
    /\ quarantine' = [a \in AskedIp |-> IF quarantine[a] > now' THEN quarantine[a] ELSE 0]
    /\ UNCHANGED <<leases, pc, request>>

-----------------------------------------------------------------------------
Init ==
    /\ now = 1
    /\ leases = [s \in Slots |-> Empty]
    /\ pc = "select" /\ client = NoClient
    /\ addr = 0 /\ oldest = 0 /\ answered = {}
    /\ promise = [m \in Mac |-> NoPromise]
    /\ quarantine = [a \in AskedIp |-> 0]

Receive ==
    \/ \E m \in Mac : DiscoverStatic(m) \/ DiscoverKnown(m)
    \/ \E m \in Mac, a \in AskedIp :
        \/ DiscoverRequested(m, a)
        \/ DiscoverSearch(m, a)
        \/ Decline(m, a)
        \/ Release(m, a)
    \/ \E m \in Mac, a, b \in AskedIp, opt \in LeaseOption : RequestAck(m, a, b, opt)

\* What the thread does without waiting for a packet or a signal.
Search == \/ Skip \/ RememberOldest \/ Probe \/ ProbeOldest \/ Abandon
          \/ NobodyAnswers \/ SomebodyAnswers
Serve == Search \/ EnterLease \/ LeasesWritten

Next == Receive \/ Serve \/ Tick

Spec == Init /\ [][Next]_vars

\* The thread keeps running while it serves a request.
FairSpec == Spec /\ WF_vars(Serve)

-----------------------------------------------------------------------------
TypeOK ==
    /\ now \in Nat
    /\ leases \in [Slots -> Lease]
    /\ pc \in {"select", "scan", "probe", "probeOldest", "ack", "write"}
    /\ client \in [mac : Mac \cup {ZeroMac}, option : LeaseOption \cup {0}]
    /\ addr \in Nat
    /\ oldest \in Slots \cup {0}
    /\ answered \subseteq Nat
    /\ promise \in [Mac -> [nip : Nat, until : Nat, acked : BOOLEAN]]
    /\ quarantine \in [AskedIp -> Nat]

Live(m) == promise[m].until > now

\* No address is promised to two clients at once, by OFFER or by ACK
\* (send_offer() and send_ACK(), with find_free_or_expired_nip()).
ExclusivePromises ==
    \A m, n \in Mac :
        m # n /\ Live(m) /\ Live(n) => promise[m].nip # promise[n].nip

\* No address is acknowledged to two clients whose leases both run: the
\* duplicate address a server must never cause (send_ACK()), restarts included.
ExclusiveAcks ==
    \A m, n \in Mac :
        m # n /\ Live(m) /\ Live(n) /\ promise[m].acked /\ promise[n].acked
            => promise[m].nip # promise[n].nip

\* A client that was promised an address has its slot in the table for at
\* least as long as it was told: add_lease() evicts only what has expired.
\* Between send_ACK()'s send_packet() and its add_lease() the old slot stands.
PromiseBacked ==
    \A m \in Mac : Live(m) /\ ~IsStatic(m) =>
        \E s \in Slots :
            /\ leases[s].mac = m /\ leases[s].nip = promise[m].nip
            /\ \/ leases[s].expires >= promise[m].until
               \/ pc = "ack" /\ client.mac = m

\* "Reserve the IP for a short time hoping to get DHCPREQUEST soon": a client
\* that asks in time for what it was promised gets an ACK and never a NAK.
PromiseKept == \A m \in Mac : Live(m) => BoundIp(m) = promise[m].nip

\* No client owns two slots and no address is in two slots: add_lease()
\* clears the old ones first, on every path that enters a lease.
LeaseTableConsistent ==
    \A s, r \in Slots : s # r =>
        /\ leases[s].mac # ZeroMac => leases[s].mac # leases[r].mac
        /\ leases[s].nip # 0 => leases[s].nip # leases[r].nip

\* decline_time and conflict_time: an address that was declined, or that
\* answered a probe, is promised to nobody before they are over.
QuarantineHonoured ==
    \A m \in Mac : Live(m) => quarantine[promise[m].nip] <= now

\* The addresses that answered, the one being probed included.
Answered == IF pc = "probeOldest" THEN answered \cup {addr} ELSE answered

AbandonsSearch == /\ pc \in {"scan", "probe", "probeOldest"} /\ pc' = "select"
                  /\ promise'[client.mac] = NoPromise

\* Either all slots are taken, or all addresses but the ones in "known".
NoFreeAddress(known) ==
    \/ ~HasRoom(leases)
    \/ \A a \in Pool \ known : Usable(a) =>
           \E s \in Slots : leases[s].nip = a /\ ~IsExpired(leases[s])

\* "no free IP addresses. OFFER abandoned" is logged, for a search in which no
\* probe was answered, only when all slots are taken, or every usable address is
\* leased.
QuietSearchFinds ==
    [][AbandonsSearch /\ Answered = {} => NoFreeAddress({})]_vars

\* The table, as the book it implements: the slots that hold an address.
Book == INSTANCE AddressBook
          WITH Client <- Mac, Nobody <- ZeroMac,
               book <- {leases[s] : s \in {r \in Slots : leases[r].nip # 0}}

\* Whatever slot, search or probe a step of the server involves, an unexpired
\* lease changes only on behalf of its own client.
ImplementsAddressBook == Book!Spec

\* A search for an address comes to an end.
SearchEnds == (pc = "scan") ~> (pc = "select")
=============================================================================

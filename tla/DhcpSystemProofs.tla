-------------------------- MODULE DhcpSystemProofs --------------------------
(***************************************************************************)
(* DhcpSystem, for every pool, table size, set of clients and choice of    *)
(* times: the client uses no address that the server has not kept for it.  *)
(*                                                                         *)
(* Server and client keep what UdhcpdProofs and UdhcpcProofs say of them,  *)
(* as every step of the system is one of theirs (ServerStep, ClientStep).  *)
(* What is left is between them. The server's socket is a queue: what the  *)
(* client sent before its request has been served when the request is,     *)
(* and it sends nothing that gives up its lease before the next            *)
(* transaction begins. So from the first ACK of a transaction to the next  *)
(* DISCOVER nothing of its own ends the lease in the table, and all ACKs   *)
(* are for one address (Queued, Unasked, Served); nothing of the others    *)
(* touches it (OfNoConcernStep). An ACK that arrives, late or repeated,    *)
(* is therefore covered by the table (AcksHeld), and so is what the        *)
(* client counts from it (LeaseHeld).                                      *)
(***************************************************************************)
EXTENDS DhcpSystem, TLAPS

\* What is proved of the server and of the client alone.  The lease file plays
\* no part here.
SP == INSTANCE UdhcpdProofs
        WITH ServerIp <- 1, OtherIp <- {}, StaticNip <- [m \in Mac |-> 0],
             LeaseOption <- {0}, EarlyWrite <- FALSE, TimeWrap <- TimeWrap,
             FileMaxAge <- 0, MaxRuns <- 0, file <- 0, next <- 0, passed <- 0,
             runs <- 0, unsaved <- {}, forgotten <- {}

CP == INSTANCE UdhcpcProofs
        WITH pc <- cpc, Ip <- S!Pool, LeaseOption <- {MaxLease}, NoOption <- -1,
             DefaultLease <- LeaseFloor, ReadErrors <- FALSE

\* No deadline reaches 2^32, -A is at most 60, and the server gives no lease
\* that is shorter than the least time the client counts.
NoWrap == \A t \in {OfferTime, ConflictTime, DeclineTime, MinLease, MaxLease} :
              MaxTime + t < TimeWrap
Careful == TryagainTimeout <= UnicastTime
LongLeases == LeaseFloor <= MaxLease

Request == [type : {"DISCOVER", "SELECT", "RENEW", "DECLINE", "RELEASE"},
            xid : Nat, ip : S!Pool \cup {0}]
Reply == [type : {"OFFER", "ACK", "NAK"}, ip : S!Pool \cup {0},
          time : {0, MaxLease}, xid : Nat, sent : Nat]

PacketsOK ==
    /\ xid \in Nat /\ servedXid \in 0 .. xid /\ declined \in 0 .. xid
    /\ toServer \in Seq(Request)
    /\ \A i \in 1 .. Len(toServer) : toServer[i].xid <= xid
    /\ toClient \subseteq Reply
    /\ \A p \in toClient :
          /\ p.xid <= xid /\ p.sent <= now /\ now - p.sent <= MaxDelay
          /\ p.type = "OFFER" => p.ip \in S!Pool
          /\ p.type = "ACK" => p.ip \in S!Pool /\ p.time = MaxLease

\* The transaction has neither been declined nor released, nor given up for
\* the next one.
Open ==
    /\ xid # declined
    /\ state # "RELEASED"
    /\ state = "INIT_SELECTING" => packet_num > 0 \/ timeout > 0

Asked(p) == p.type \in {"SELECT", "RENEW"} /\ p.xid = xid
Cutting(p) == p.type \in {"DISCOVER", "DECLINE", "RELEASE"}
Acked(p) == p.type = "ACK" /\ p.xid = xid

\* The addresses acknowledged in this transaction: in use, being probed, or on
\* their way.
Granted == ({iface, offer.ip} \ {0}) \cup {p.ip : p \in {q \in toClient : Acked(q)}}

\* What may end a lease was sent before what asks for one.
Queued == Open => \A i, j \in 1 .. Len(toServer) :
    i < j /\ Asked(toServer[i]) => ~Cutting(toServer[j])

\* Between a DISCOVER and its OFFER nothing is asked for.
Unasked == state = "INIT_SELECTING" /\ packet_num > 0 =>
    /\ \A i \in 1 .. Len(toServer) : ~Asked(toServer[i])
    /\ \A p \in toClient : ~Acked(p)

\* From the first ACK on the server gets nothing that ends the lease, and all
\* ACKs are for the address in its table.
Served == Open /\ Granted # {} =>
    /\ \A i \in 1 .. Len(toServer) : ~Cutting(toServer[i])
    /\ pc \in {"scan", "probe", "probeOldest"} => client.mac # Me
    /\ \A a \in Granted :
          /\ \A b \in Granted : a = b
          /\ \A s \in S!Slots : leases[s].mac = Me => leases[s].nip = a
          /\ pc = "ack" /\ client.mac = Me => addr = a

\* The client has the address in the table until t, or is about to have.
Held(a, t) ==
    \/ \E s \in S!Slots : /\ leases[s].mac = Me /\ leases[s].nip = a
                          /\ leases[s].expires >= t
    \/ pc = "ack" /\ client.mac = Me /\ addr = a

AcksHeld == Open => \A p \in toClient :
    Acked(p) /\ p.sent + MaxLease >= now => Held(p.ip, p.sent + MaxLease)

LeaseHeld == Open /\ cpc \in {"wait", "probe"} /\ left >= MaxDelay =>
    \A a \in {iface, offer.ip} \ {0} : Held(a, now + left - MaxDelay)

LeftOK == left <= MaxLease

IInv == /\ SP!IInv /\ CP!IInv
        /\ PacketsOK /\ Queued /\ Unasked /\ Served /\ AcksHeld /\ LeaseHeld /\ LeftOK

-----------------------------------------------------------------------------
(* The assumptions of the two modules, in the terms of this one.           *)

LEMMA Addresses ==
    /\ StartIp \in Nat \ {0} /\ EndIp \in Nat /\ StartIp <= EndIp
    /\ 1 \in Nat /\ {} \subseteq Nat
    /\ [m \in Mac |-> 0] \in [Mac -> Nat]
    /\ ZeroMac \notin Mac /\ NoMac \notin Mac /\ ZeroMac # NoMac
BY SystemAssumption

LEMMA Times ==
    /\ OfferTime \in Nat /\ ConflictTime \in Nat /\ DeclineTime \in Nat
    /\ MinLease \in Nat /\ MaxLease \in Nat /\ MaxTime \in Nat \ {0}
    /\ {0} \subseteq Nat
    /\ MaxLeases \in Nat \ {0} /\ TimeWrap \in Nat \ {0}
    /\ FALSE \in BOOLEAN
BY SystemAssumption

LEMMA NoFile == 0 \in Nat /\ 0 \in Nat
OBVIOUS

LEMMA PoolNat == S!Pool \subseteq Nat \ {0}
<1>1. StartIp \in Nat \ {0} /\ EndIp \in Nat
  BY SystemAssumption
<1> QED
  BY <1>1 DEF S!Pool

LEMMA ClientTimes ==
    /\ S!Pool \subseteq Nat \ {0}
    /\ DiscoverRetries \in Nat \ {0} /\ DiscoverTimeout \in Nat \ {0}
    /\ TryagainTimeout \in Nat \ {0} /\ UnicastTime \in Nat \ {0}
    /\ {MaxLease} \subseteq Int /\ -1 \in Int \ Nat
    /\ LeaseFloor \in Nat /\ LeaseFloor \in Nat /\ LeaseCeiling \in Nat
    /\ 2 <= LeaseFloor /\ LeaseFloor <= LeaseCeiling
    /\ LeaseFloor <= LeaseFloor /\ LeaseFloor <= LeaseCeiling
    /\ ProbeTime \in Nat /\ FALSE \in BOOLEAN /\ IntMax \in Nat
    /\ DiscoverTimeout <= IntMax /\ TryagainTimeout <= IntMax
    /\ LeaseCeiling <= IntMax
BY SystemAssumption, PoolNat

\* What the lemmas about the server ask for: it has no static leases here.
LEMMA Hypotheses ==
    ASSUME NoWrap
    PROVE  SP!NoWrap /\ SP!StaticsOutside
BY DEF NoWrap, SP!NoWrap, SP!StaticsOutside, SP!IsStatic

LEMMA ServerNext ==
    ASSUME SP!NoWrap, SP!StaticsOutside, SP!IInv, [SP!Next]_SP!vars
    PROVE  SP!IInv'
BY SP!NextIInv, Addresses, Times, NoFile

LEMMA ClientNext ==
    ASSUME CP!Careful, CP!IInv, [CP!Next]_CP!vars
    PROVE  CP!IInv'
BY CP!NextKeeps, ClientTimes

-----------------------------------------------------------------------------
(* The steps of the server are those of Udhcpd.                            *)

USE DEF S!Slots, SP!Slots, S!Pool, SP!Pool, S!StaticIps, SP!StaticIps, S!AskedIp,
        SP!AskedIp, S!Empty, SP!Empty, S!NoPromise, SP!NoPromise, S!NoClient,
        SP!NoClient, S!Deadline, SP!Deadline, S!IsExpired, SP!IsExpired, S!IsStatic,
        SP!IsStatic, S!IsReserved, SP!IsReserved, S!WithMac, SP!WithMac, S!WithNip,
        SP!WithNip, S!First, SP!First, S!Cleared, SP!Cleared, S!IsOldest, SP!IsOldest,
        S!HasRoom, SP!HasRoom, S!AddLease, SP!AddLease, S!LeaseTime, SP!LeaseTime,
        S!Usable, SP!Usable, S!Return, SP!Return, S!Promise, SP!Promise, S!Withdraw,
        SP!Withdraw, S!Reserve, SP!Reserve, S!MayHaveRequested, SP!MayHaveRequested,
        S!BoundIp, SP!BoundIp, S!RequestedIp, SP!RequestedIp, S!request, SP!request,
        S!ghosts, SP!ghosts, S!vars, SP!vars, S!Live, SP!Live

LEMMA SameServer ==
    /\ S!Slots = SP!Slots /\ S!Pool = SP!Pool /\ S!AskedIp = SP!AskedIp
    /\ \A m \in Mac : S!BoundIp(m) = SP!BoundIp(m) /\ S!Live(m) = SP!Live(m)
    /\ \A o : S!LeaseTime(o) = SP!LeaseTime(o)
OBVIOUS

LEMMA SameSearch ==
    /\ S!Skip => SP!Skip
    /\ S!RememberOldest => SP!RememberOldest
    /\ S!Probe => SP!Probe
    /\ S!ProbeOldest => SP!ProbeOldest
    /\ S!Abandon => SP!Abandon
BY DEF S!Skip, SP!Skip, S!RememberOldest, SP!RememberOldest, S!Probe, SP!Probe,
       S!ProbeOldest, SP!ProbeOldest, S!Abandon, SP!Abandon

LEMMA SameAnswers ==
    /\ S!NobodyAnswers => SP!NobodyAnswers
    /\ S!SomebodyAnswers => SP!SomebodyAnswers
    /\ S!EnterLease => SP!EnterLease
BY DEF S!NobodyAnswers, SP!NobodyAnswers, S!SomebodyAnswers, SP!SomebodyAnswers,
       S!EnterLease, SP!EnterLease

LEMMA SameDiscover ==
    ASSUME NEW m \in Mac, NEW a
    PROVE  /\ S!DiscoverKnown(m) => SP!DiscoverKnown(m)
           /\ S!DiscoverRequested(m, a) => SP!DiscoverRequested(m, a)
           /\ S!DiscoverSearch(m, a) => SP!DiscoverSearch(m, a)
BY DEF S!DiscoverKnown, SP!DiscoverKnown, S!DiscoverRequested, SP!DiscoverRequested,
       S!DiscoverSearch, SP!DiscoverSearch

LEMMA SameRequest ==
    ASSUME NEW m \in Mac, NEW a, NEW b, NEW o
    PROVE  /\ S!RequestAck(m, a, b, o) => SP!RequestAck(m, a, b, o)
           /\ S!Decline(m, a) => SP!Decline(m, a)
           /\ S!Release(m, a) => SP!Release(m, a)
BY DEF S!RequestAck, SP!RequestAck, S!Decline, SP!Decline, S!Release, SP!Release

LEMMA SameTick == S!Tick => SP!Tick
BY DEF S!Tick, SP!Tick

LEMMA SameInit == S!Init => SP!Init
BY DEF S!Init, SP!Init

HIDE DEF S!Slots, SP!Slots, S!Pool, SP!Pool, S!StaticIps, SP!StaticIps, S!AskedIp,
         SP!AskedIp, S!Empty, SP!Empty, S!NoPromise, SP!NoPromise, S!NoClient,
         SP!NoClient, S!Deadline, SP!Deadline, S!IsExpired, SP!IsExpired, S!IsStatic,
         SP!IsStatic, S!IsReserved, SP!IsReserved, S!WithMac, SP!WithMac, S!WithNip,
         SP!WithNip, S!First, SP!First, S!Cleared, SP!Cleared, S!IsOldest, SP!IsOldest,
         S!HasRoom, SP!HasRoom, S!AddLease, SP!AddLease, S!LeaseTime, SP!LeaseTime,
         S!Usable, SP!Usable, S!Return, SP!Return, S!Promise, SP!Promise, S!Withdraw,
         SP!Withdraw, S!Reserve, SP!Reserve, S!MayHaveRequested, SP!MayHaveRequested,
         S!BoundIp, SP!BoundIp, S!RequestedIp, SP!RequestedIp, S!request, SP!request,
         S!ghosts, SP!ghosts, S!vars, SP!vars, S!Live, SP!Live

-----------------------------------------------------------------------------
(* The steps of the client are those of Udhcpc.                            *)

USE DEF C!NoOffer, CP!NoOffer, C!Bound, CP!Bound, C!Asking, CP!Asking, C!Wait, CP!Wait,
       C!Deconfig, CP!Deconfig, C!Select, CP!Select, C!LongOver, CP!LongOver, C!Passes,
       CP!Passes, C!TimerFired, CP!TimerFired, C!Selecting, CP!Selecting,
       C!LeaseSeconds, CP!LeaseSeconds, C!PerformRelease, CP!PerformRelease,
       C!SendRenew, CP!SendRenew, C!SendRebind, CP!SendRebind, C!LoseLease,
       CP!LoseLease, C!Renew, CP!Renew, C!NoAnswer, CP!NoAnswer, C!Receiving,
       CP!Receiving, C!OptionsWithLease, CP!OptionsWithLease, C!Bind, CP!Bind, C!timer,
       CP!timer, C!probe, CP!probe, C!lease, CP!lease

LEMMA SameWaits ==
    /\ C!SendDiscover => CP!SendDiscover
    /\ C!SendSelect => CP!SendSelect
    /\ C!TryAgain => CP!TryAgain
    /\ C!SleepOn => CP!SleepOn
    /\ C!StartOver => CP!StartOver
BY DEF C!SendDiscover, CP!SendDiscover, C!SendSelect, CP!SendSelect, C!TryAgain,
       CP!TryAgain, C!SleepOn, CP!SleepOn, C!StartOver, CP!StartOver

LEMMA SameRenewals ==
    /\ C!HalfLeasePassed => CP!HalfLeasePassed
    /\ C!RenewUnanswered => CP!RenewUnanswered
    /\ C!RebindUnanswered => CP!RebindUnanswered
    /\ C!RenewNow => CP!RenewNow
    /\ C!ReleaseNow => CP!ReleaseNow
BY DEF C!HalfLeasePassed, CP!HalfLeasePassed, C!RenewUnanswered, CP!RenewUnanswered,
       C!RebindUnanswered, CP!RebindUnanswered, C!RenewNow, CP!RenewNow, C!ReleaseNow,
       CP!ReleaseNow

LEMMA SameProbe ==
    /\ C!ProbeAnswered => CP!ProbeAnswered
    /\ C!ProbeUnanswered => CP!ProbeUnanswered
BY DEF C!ProbeAnswered, CP!ProbeAnswered, C!ProbeUnanswered, CP!ProbeUnanswered

LEMMA SameReceive ==
    ASSUME NEW ip, NEW l
    PROVE  /\ C!GetOffer(ip) => CP!GetOffer(ip)
           /\ C!GetAck(ip, l) => CP!GetAck(ip, l)
           /\ C!GetAckToProbe(ip, l) => CP!GetAckToProbe(ip, l)
           /\ C!GetNak => CP!GetNak
           /\ C!IgnorePacket => CP!IgnorePacket
BY DEF C!GetOffer, CP!GetOffer, C!GetAck, CP!GetAck, C!GetAckToProbe, CP!GetAckToProbe,
       C!GetNak, CP!GetNak, C!IgnorePacket, CP!IgnorePacket

LEMMA SameClientTick ==
    /\ C!Tick => CP!Tick
BY DEF C!Tick, CP!Tick

LEMMA SameClientInit ==
    /\ C!Init => CP!Init
BY DEF C!Init, CP!Init

HIDE DEF C!NoOffer, CP!NoOffer, C!Bound, CP!Bound, C!Asking, CP!Asking, C!Wait, CP!Wait,
       C!Deconfig, CP!Deconfig, C!Select, CP!Select, C!LongOver, CP!LongOver, C!Passes,
       CP!Passes, C!TimerFired, CP!TimerFired, C!Selecting, CP!Selecting,
       C!LeaseSeconds, CP!LeaseSeconds, C!PerformRelease, CP!PerformRelease,
       C!SendRenew, CP!SendRenew, C!SendRebind, CP!SendRebind, C!LoseLease,
       CP!LoseLease, C!Renew, CP!Renew, C!NoAnswer, CP!NoAnswer, C!Receiving,
       CP!Receiving, C!OptionsWithLease, CP!OptionsWithLease, C!Bind, CP!Bind, C!timer,
       CP!timer, C!probe, CP!probe, C!lease, CP!lease

-----------------------------------------------------------------------------
(* Packets.                                                                *)

LEMMA HeadAndTail ==
    ASSUME NEW R, NEW s \in Seq(R), s # << >>
    PROVE  /\ Head(s) = s[1] /\ Head(s) \in R /\ 1 \in 1 .. Len(s)
           /\ Tail(s) \in Seq(R)
           /\ \A i \in 1 .. Len(Tail(s)) : i + 1 \in 1 .. Len(s) /\ Tail(s)[i] = s[i + 1]
OBVIOUS

LEMMA Appended ==
    ASSUME NEW R, NEW s \in Seq(R), NEW e \in R
    PROVE  /\ Append(s, e) \in Seq(R) /\ Len(Append(s, e)) = Len(s) + 1
           /\ \A i \in 1 .. Len(Append(s, e)) :
                 \/ i \in 1 .. Len(s) /\ Append(s, e)[i] = s[i]
                 \/ i = Len(s) + 1 /\ Append(s, e)[i] = e
OBVIOUS

LEMMA ServedPacket ==
    ASSUME PacketsOK, toServer # << >>
    PROVE  /\ Head(toServer) \in Request /\ Head(toServer).ip \in S!AskedIp
           /\ Head(toServer).xid <= xid
<1>1. toServer \in Seq(Request)
  BY DEF PacketsOK
<1>2. Head(toServer) = toServer[1] /\ Head(toServer) \in Request /\ 1 \in 1 .. Len(toServer)
  BY <1>1, HeadAndTail
<1>3. Head(toServer).ip \in S!AskedIp
  BY <1>2 DEF Request, S!AskedIp
<1> QED
  BY <1>2, <1>3 DEF PacketsOK

-----------------------------------------------------------------------------
(* The server and the client keep their invariants.                        *)

LEMMA ServerUnchanged ==
    ASSUME UNCHANGED now, UNCHANGED serverVars
    PROVE  UNCHANGED SP!vars
BY DEF serverVars, SP!vars, SP!request, SP!ghosts

LEMMA ClientUnchanged ==
    ASSUME UNCHANGED clientVars
    PROVE  UNCHANGED CP!vars
BY DEF clientVars, CP!vars, CP!timer, CP!probe, CP!lease

LEMMA ServeMeStep ==
    ASSUME PacketsOK, ServeMe
    PROVE  [SP!Next]_SP!vars
<1> DEFINE p == Head(toServer)
<1>1. toServer # << >> /\ UNCHANGED now
  BY DEF ServeMe
<1>2. Me \in Mac /\ p.ip \in SP!AskedIp /\ 0 \in SP!AskedIp
  BY <1>1, ServedPacket, SameServer, SystemAssumption DEF SP!AskedIp
<1> HIDE DEF p
<1>3. CASE ServeDiscover(p)
  BY <1>2, <1>3, SameDiscover DEF ServeDiscover, SP!Next, SP!Receive
<1>4. CASE Grant(p)
  BY <1>2, <1>4, SameRequest DEF Grant, SP!Next, SP!Receive
<1>5. CASE GiveUpAddress(p)
  BY <1>2, <1>5, SameRequest DEF GiveUpAddress, SP!Next, SP!Receive
<1>6. CASE Refuse(p) \/ DoNotAnswer(p)
  <2>1. UNCHANGED serverVars
    BY <1>6 DEF Refuse, DoNotAnswer
  <2> QED
    BY <1>1, <2>1, ServerUnchanged
<1> QED
  BY <1>3, <1>4, <1>5, <1>6 DEF ServeMe, p

LEMMA ServeOthersStep ==
    ASSUME ServeOthers
    PROVE  [SP!Next]_SP!vars
<1>1. 0 \in SP!AskedIp /\ Others \subseteq Mac
  BY DEF SP!AskedIp, Others
<1>2. PICK m \in Others :
        \/ S!DiscoverKnown(m)
        \/ \E a \in S!AskedIp :
            \/ S!DiscoverRequested(m, a) \/ S!DiscoverSearch(m, a)
            \/ S!Decline(m, a) \/ S!Release(m, a)
            \/ S!RequestAck(m, a, 0, 0)
  BY DEF ServeOthers
<1>3. m \in Mac
  BY <1>1
<1>4. CASE S!DiscoverKnown(m)
  BY <1>3, <1>4, SameDiscover DEF SP!Next, SP!Receive
<1>5. ASSUME NEW a \in S!AskedIp, S!DiscoverRequested(m, a) \/ S!DiscoverSearch(m, a)
      PROVE  SP!Next
  BY <1>3, <1>5, SameDiscover, SameServer DEF SP!Next, SP!Receive
<1>6. ASSUME NEW a \in S!AskedIp,
             S!Decline(m, a) \/ S!Release(m, a) \/ S!RequestAck(m, a, 0, 0)
      PROVE  SP!Next
  BY <1>1, <1>3, <1>6, SameRequest, SameServer DEF SP!Next, SP!Receive
<1> QED
  BY <1>2, <1>4, <1>5, <1>6

LEMMA ServerGoesOnStep ==
    ASSUME ServerGoesOn
    PROVE  SP!Next
BY SameSearch, SameAnswers DEF ServerGoesOn, SP!Next, SP!Serve, SP!Search

LEMMA ServerStep ==
    ASSUME PacketsOK, [Next]_vars
    PROVE  [SP!Next]_SP!vars
<1>1. CASE ClientActs \/ ClientReceives \/ UNCHANGED vars
  <2>1. UNCHANGED now /\ UNCHANGED serverVars
    BY <1>1 DEF ClientActs, ClientReceives, vars
  <2> QED
    BY <2>1, ServerUnchanged
<1>2. CASE Tick
  BY <1>2, SameTick DEF Tick, SP!Next
<1> QED
  BY <1>1, <1>2, ServeMeStep, ServeOthersStep, ServerGoesOnStep DEF Next

LEMMA ReceivesStep ==
    ASSUME PacketsOK, ClientReceives
    PROVE  CP!Next
<1>1. PICK p \in toClient : Accepts(p) \/ Ignores(p)
  BY DEF ClientReceives
<1>2. /\ p.type = "OFFER" => p.ip \in S!Pool
      /\ p.type = "ACK" => p.ip \in S!Pool /\ p.time \in {MaxLease}
  BY DEF PacketsOK
<1>3. CASE p.type = "OFFER" /\ C!GetOffer(p.ip)
  BY <1>2, <1>3, SameReceive DEF CP!Next, CP!Receive
<1>4. CASE p.type = "ACK" /\ (C!GetAck(p.ip, p.time) \/ C!GetAckToProbe(p.ip, p.time))
  BY <1>2, <1>4, SameReceive DEF CP!Next, CP!Receive
<1>5. CASE C!GetNak \/ C!IgnorePacket
  BY <1>5, SameReceive DEF CP!Next, CP!Receive
<1> QED
  BY <1>1, <1>3, <1>4, <1>5 DEF Accepts, Ignores

LEMMA ClientStep ==
    ASSUME PacketsOK, [Next]_vars
    PROVE  [CP!Next]_CP!vars
<1>1. CASE ServeMe \/ ServeOthers \/ ServerGoesOn \/ UNCHANGED vars
  <2>1. UNCHANGED clientVars
    BY <1>1 DEF ServeMe, ServeOthers, ServerGoesOn, vars
  <2> QED
    BY <2>1, ClientUnchanged
<1>2. CASE Tick
  BY <1>2, SameClientTick DEF Tick, CP!Next
<1>3. CASE ClientActs
  BY <1>3, SameWaits, SameRenewals, SameProbe
     DEF ClientActs, Declines, Discovers, Selects, Renews, Releases, Quietly,
         CP!Next, CP!TimesOut, CP!Signalled
<1> QED
  BY <1>1, <1>2, <1>3, ReceivesStep DEF Next

-----------------------------------------------------------------------------
(* What the two invariants say of the variables used here.                 *)

LEMMA ClientFacts ==
    ASSUME CP!IInv
    PROVE  /\ cpc \in {"wait", "probe", "exited", "failed"}
           /\ packet_num \in Nat /\ timeout \in Nat /\ left \in Int
           /\ already_waited \in Nat /\ slept \in Nat
           /\ requested_ip \in S!Pool \cup {0}
           /\ iface \in S!Pool \cup {0} /\ offer.ip \in S!Pool \cup {0}
           /\ cpc # "probe" => offer.ip = 0
           /\ cpc \in {"wait", "probe"}
                /\ state \in {"INIT_SELECTING", "REQUESTING", "RELEASED"} => iface = 0
           /\ cpc = "probe" => state \in C!Asking
<1>1. /\ CP!UdhcpcTypeOK /\ CP!ConfiguredAsStated /\ CP!LeaseLeft
  BY DEF CP!IInv
<1>2. /\ cpc \in {"wait", "probe", "exited", "failed"}
      /\ left \in Int /\ already_waited \in Nat /\ slept \in Nat
      /\ requested_ip \in S!Pool \cup {0} /\ iface \in S!Pool \cup {0}
  BY <1>1 DEF CP!UdhcpcTypeOK
<1>3. packet_num \in Nat /\ timeout \in Nat
  BY <1>1, SystemAssumption DEF CP!UdhcpcTypeOK
<1>4. offer.ip \in S!Pool \cup {0} /\ (cpc # "probe" => offer.ip = 0)
  BY <1>1 DEF CP!UdhcpcTypeOK, CP!NoOffer
<1>5. /\ cpc \in {"wait", "probe"}
           /\ state \in {"INIT_SELECTING", "REQUESTING", "RELEASED"} => iface = 0
      /\ cpc = "probe" => state \in C!Asking
  BY <1>1 DEF CP!ConfiguredAsStated, CP!LeaseLeft, CP!Asking, C!Asking
<1> QED
  BY <1>2, <1>3, <1>4, <1>5

LEMMA ServerFacts ==
    ASSUME SP!IInv
    PROVE  /\ now \in Nat
           /\ \A s \in S!Slots : leases[s].expires \in Nat
           /\ \A s, r \in S!Slots : leases[s].mac = Me /\ leases[r].mac = Me => s = r
           /\ pc = "ack" /\ client.mac = Me =>
                  \E s \in S!Slots : leases[s].mac = Me /\ leases[s].nip = addr
           /\ \A m \in Mac : ~SP!IsStatic(m)
           /\ client.option = 0
<1>1. /\ SP!StateOK /\ SP!TableInv /\ SP!AckInv
  BY DEF SP!IInv, SP!CoreInv
<1>2. Me \in Mac /\ Me # ZeroMac
  BY SystemAssumption
<1>3. \A m \in Mac : ~SP!IsStatic(m)
  BY DEF SP!IsStatic
<1>4. now \in Nat /\ client.option = 0 /\ \A s \in SP!Slots : leases[s].expires \in Nat
  BY <1>1 DEF SP!StateOK, SP!Lease
<1>5. \A s, r \in SP!Slots : leases[s].mac = Me /\ leases[r].mac = Me => s = r
  BY <1>1, <1>2 DEF SP!TableInv, SP!Distinct
<1>6. pc = "ack" /\ client.mac = Me =>
          \E s \in SP!Slots : leases[s].mac = Me /\ leases[s].nip = addr
  BY <1>1, <1>2, <1>3 DEF SP!AckInv
<1> QED
  BY <1>3, <1>4, <1>5, <1>6, SameServer

-----------------------------------------------------------------------------
(* Packets and transactions.                                               *)

LEMMA Shrinks ==
    ASSUME toServer \in Seq(Request),
           toServer' = toServer \/ (toServer # << >> /\ toServer' = Tail(toServer))
    PROVE  /\ toServer' \in Seq(Request)
           /\ \A i \in 1 .. Len(toServer') :
                 \E k \in 1 .. Len(toServer) : toServer'[i] = toServer[k]
           /\ \A i, j \in 1 .. Len(toServer') : i < j =>
                 \E k, l \in 1 .. Len(toServer) :
                    k < l /\ toServer'[i] = toServer[k] /\ toServer'[j] = toServer[l]
<1>1. CASE toServer' = toServer
  BY <1>1
<1>2. CASE toServer # << >> /\ toServer' = Tail(toServer)
  <2>1. /\ toServer' \in Seq(Request)
        /\ \A i \in 1 .. Len(toServer') :
              i + 1 \in 1 .. Len(toServer) /\ toServer'[i] = toServer[i + 1]
    BY <1>2, HeadAndTail
  <2>2. ASSUME NEW i \in 1 .. Len(toServer'), NEW j \in 1 .. Len(toServer'), i < j
        PROVE  \E k, l \in 1 .. Len(toServer) :
                  k < l /\ toServer'[i] = toServer[k] /\ toServer'[j] = toServer[l]
    <3>1. i + 1 < j + 1
      BY <2>2
    <3> QED
      BY <2>1, <3>1
  <2> QED
    BY <2>1, <2>2
<1> QED
  BY <1>1, <1>2

LEMMA EarlierXids ==
    ASSUME PacketsOK, xid' \in Nat, xid <= xid'
    PROVE  \A i \in 1 .. Len(toServer) : toServer[i].xid <= xid'
<1> SUFFICES ASSUME NEW i \in 1 .. Len(toServer) PROVE toServer[i].xid <= xid'
  OBVIOUS
<1>1. xid \in Nat /\ toServer[i] \in Request /\ toServer[i].xid <= xid
  BY DEF PacketsOK
<1>2. toServer[i].xid \in Nat
  BY <1>1 DEF Request
<1> QED
  BY <1>1, <1>2

LEMMA Sent ==
    ASSUME PacketsOK, NEW p \in Request, SendToServer(p), xid' \in Nat, xid <= xid',
           p.xid <= xid'
    PROVE  /\ toServer' \in Seq(Request)
           /\ \A i \in 1 .. Len(toServer') : toServer'[i].xid <= xid'
<1>1. /\ toServer \in Seq(Request) /\ xid \in Nat
      /\ \A i \in 1 .. Len(toServer) : toServer[i].xid <= xid
  BY DEF PacketsOK
<1>3. \A i \in 1 .. Len(toServer) : toServer[i].xid <= xid'
  BY EarlierXids
<1>4. CASE toServer' = toServer
  BY <1>1, <1>3, <1>4
<1>5. CASE toServer' = Append(toServer, p)
  <2>1. /\ toServer' \in Seq(Request)
        /\ \A i \in 1 .. Len(toServer') :
              \/ i \in 1 .. Len(toServer) /\ toServer'[i] = toServer[i]
              \/ toServer'[i] = p
    BY <1>1, <1>5, Appended
  <2> QED
    BY <1>3, <2>1
<1> QED
  BY <1>4, <1>5 DEF SendToServer

LEMMA ClientActsPackets ==
    ASSUME IInv, ClientActs
    PROVE  PacketsOK'
<1>1. /\ xid \in Nat /\ servedXid \in 0 .. xid /\ declined \in 0 .. xid
      /\ toServer \in Seq(Request) /\ toClient \subseteq Reply
      /\ \A i \in 1 .. Len(toServer) : toServer[i].xid <= xid
      /\ \A p \in toClient : p.xid \in Nat
  BY DEF IInv, PacketsOK, Reply
<1>2. requested_ip \in S!Pool \cup {0} /\ offer.ip \in S!Pool \cup {0}
  BY ClientFacts DEF IInv
<1>3. UNCHANGED <<now, servedXid, toClient>>
  BY DEF ClientActs
<1>4. xid' \in Nat /\ xid <= xid' /\ declined' \in {declined, xid}
  BY <1>1 DEF ClientActs, Declines, Discovers, Selects, Renews, Releases, Quietly
<1>5. \/ toServer' = toServer
      \/ \E p \in Request : SendToServer(p) /\ p.xid <= xid'
  <2>1. ASSUME NEW t \in {"DISCOVER", "SELECT", "RENEW", "DECLINE", "RELEASE"},
               NEW x \in Nat, NEW ip \in S!Pool \cup {0}
        PROVE  [type |-> t, xid |-> x, ip |-> ip] \in Request
    BY DEF Request
  <2>2. CASE Discovers
    BY <1>2, <1>4, <2>1, <2>2 DEF Discovers
  <2>3. CASE Selects \/ Renews
    BY <1>1, <1>2, <2>1, <2>3 DEF Selects, Renews
  <2>4. CASE Releases \/ Declines
    BY <1>1, <1>2, <1>4, <2>1, <2>4 DEF Releases, Declines
  <2>5. CASE Quietly
    BY <2>5 DEF Quietly
  <2> QED
    BY <2>2, <2>3, <2>4, <2>5 DEF ClientActs
<1>6. /\ toServer' \in Seq(Request)
      /\ \A i \in 1 .. Len(toServer') : toServer'[i].xid <= xid'
  <2>2. CASE toServer' = toServer
    BY <1>1, <1>4, <2>2, EarlierXids DEF IInv
  <2>3. CASE \E p \in Request : SendToServer(p) /\ p.xid <= xid'
    BY <1>4, <2>3, Sent DEF IInv
  <2> QED
    BY <1>5, <2>2, <2>3
<1>7. \A p \in toClient' : p.xid <= xid' /\ p.sent <= now' /\ now' - p.sent <= MaxDelay
  BY <1>1, <1>3, <1>4 DEF IInv, PacketsOK
<1>8. servedXid' \in 0 .. xid' /\ declined' \in 0 .. xid'
  BY <1>1, <1>3, <1>4
<1> QED
  BY <1>1, <1>3, <1>4, <1>6, <1>7, <1>8 DEF IInv, PacketsOK

\* The server answers Me with an address of the pool.
LEMMA ServerPackets ==
    ASSUME IInv, UNCHANGED <<now, xid, declined>>, servedXid' \in 0 .. xid,
           toServer' = toServer \/ (toServer # << >> /\ toServer' = Tail(toServer)),
           NEW type \in {"OFFER", "ACK", "NAK"}, NEW ip \in S!Pool \cup {0},
           NEW time \in {0, MaxLease}, NEW id \in 0 .. xid,
           toClient' = toClient \/ SendToClient(Packet(type, ip, time, id)),
           type # "NAK" => ip \in S!Pool, type = "ACK" => time = MaxLease
    PROVE  PacketsOK'
<1>1. toServer \in Seq(Request) /\ xid \in Nat /\ toClient \subseteq Reply
  BY DEF IInv, PacketsOK
<1>2. /\ toServer' \in Seq(Request)
      /\ \A i \in 1 .. Len(toServer') : toServer'[i].xid <= xid'
  BY <1>1, Shrinks DEF IInv, PacketsOK
<1>3. now \in Nat /\ MaxDelay \in Nat /\ now - now <= MaxDelay
  BY ServerFacts, SystemAssumption DEF IInv
<1>4. Packet(type, ip, time, id) \in Reply
  BY <1>1, <1>3 DEF Packet, Reply
<1>5. \A p \in toClient' : p \in toClient \/ p = Packet(type, ip, time, id)
  BY DEF SendToClient
<1>6. ASSUME NEW p \in toClient'
      PROVE  /\ p.xid <= xid /\ p.sent <= now /\ now - p.sent <= MaxDelay
             /\ p.type = "OFFER" => p.ip \in S!Pool
             /\ p.type = "ACK" => p.ip \in S!Pool /\ p.time = MaxLease
  <2>1. CASE p \in toClient
    BY <2>1 DEF IInv, PacketsOK
  <2>2. CASE p = Packet(type, ip, time, id)
    BY <1>3, <2>2 DEF Packet
  <2> QED
    BY <1>5, <2>1, <2>2
<1>7. toClient' \subseteq Reply
  BY <1>1, <1>4, <1>5
<1> QED
  BY <1>1, <1>2, <1>6, <1>7 DEF IInv, PacketsOK

LEMMA OfferFromPool ==
    ASSUME SP!IInv, NEW m \in Mac, NEW a,
           \/ S!DiscoverKnown(m) \/ S!DiscoverRequested(m, a) \/ S!DiscoverSearch(m, a)
           \/ S!NobodyAnswers /\ m = client.mac
    PROVE  promise'[m].nip \in S!Pool \cup {0}
<1>1. \/ SP!DiscoverKnown(m) \/ SP!DiscoverRequested(m, a) \/ SP!DiscoverSearch(m, a)
      \/ SP!NobodyAnswers /\ m = client.mac
  BY SameDiscover, SameAnswers
<1>2. SP!CoreInv
  BY DEF SP!IInv
<1>3. promise'[m].nip \in SP!Pool \cup {0}
  BY <1>1, <1>2, SP!OfferedInPool, Addresses, Times, NoFile
<1> QED
  BY <1>3, SameServer

LEMMA OfferPackets ==
    ASSUME IInv, UNCHANGED <<now, xid, declined>>, servedXid' \in 0 .. xid,
           toServer' = toServer \/ (toServer # << >> /\ toServer' = Tail(toServer)),
           NEW m \in Mac, NEW id \in 0 .. xid, OffersTo(m, id),
           promise'[m].nip \in S!Pool \cup {0}
    PROVE  PacketsOK'
<1>1. CASE m = Me /\ promise'[Me].nip # 0
  <2>1. promise'[Me].nip \in S!Pool
    BY <1>1
  <2>2. SendToClient(Packet("OFFER", promise'[Me].nip, 0, id))
    BY <1>1 DEF OffersTo
  <2> QED
    BY <2>1, <2>2, ServerPackets
<1>2. CASE ~(m = Me /\ promise'[Me].nip # 0)
  <2>1. toClient' = toClient /\ 0 \in 0 .. xid
    BY <1>2 DEF OffersTo, IInv, PacketsOK
  <2> QED
    BY <2>1, ServerPackets
<1> QED
  BY <1>1, <1>2

LEMMA SameClientPackets ==
    ASSUME IInv, UNCHANGED <<now, xid, declined, toClient>>, servedXid' \in 0 .. xid,
           toServer' = toServer \/ (toServer # << >> /\ toServer' = Tail(toServer))
    PROVE  PacketsOK'
<1>1. 0 \in 0 .. xid
  BY DEF IInv, PacketsOK
<1> QED
  BY <1>1, ServerPackets

\* The address of an ACK is the one in the table.
LEMMA AckFromTable ==
    ASSUME SP!IInv, NEW p \in Request, Grant(p)
    PROVE  /\ p.ip \in S!Pool /\ S!LeaseTime(0) = MaxLease
           /\ \A s \in S!Slots : leases[s].mac = Me => leases[s].nip = p.ip
           /\ \E s \in S!Slots : leases[s].mac = Me /\ leases[s].nip = p.ip
           /\ pc = "select" /\ pc' = "ack" /\ client'.mac = Me /\ addr' = p.ip
           /\ UNCHANGED <<now, leases>>
<1>1. /\ p.ip # 0 /\ p.ip = S!BoundIp(Me)
      /\ pc = "select" /\ pc' = "ack" /\ client'.mac = Me /\ addr' = S!BoundIp(Me)
      /\ UNCHANGED <<now, leases>>
  <2>1. S!RequestAck(Me, p.ip, 0, 0) \/ S!RequestAck(Me, 0, p.ip, 0)
    BY DEF Grant
  <2>2. S!RequestedIp(p.ip, 0) = p.ip /\ S!RequestedIp(0, p.ip) = p.ip
    BY DEF S!RequestedIp
  <2>3. CASE S!RequestAck(Me, p.ip, 0, 0)
    BY <2>2, <2>3 DEF S!RequestAck
  <2>4. CASE S!RequestAck(Me, 0, p.ip, 0)
    BY <2>2, <2>4 DEF S!RequestAck
  <2> QED
    BY <2>1, <2>3, <2>4
<1>2. Me \in Mac /\ S!BoundIp(Me) = SP!BoundIp(Me) /\ ~SP!IsStatic(Me)
  BY SystemAssumption, SameServer, ServerFacts
<1>5. SP!CoreInv
  BY DEF SP!IInv
<1>3. /\ SP!BoundIp(Me) \in SP!Pool
      /\ \A s \in SP!Slots : leases[s].mac = Me => leases[s].nip = SP!BoundIp(Me)
      /\ \E s \in SP!Slots : leases[s].mac = Me /\ leases[s].nip = SP!BoundIp(Me)
  BY <1>1, <1>2, <1>5, SP!BoundInPool, Addresses, Times, NoFile
<1>4. S!LeaseTime(0) = MaxLease
  BY DEF S!LeaseTime
<1> QED
  BY <1>1, <1>2, <1>3, <1>4, SameServer

LEMMA ServeMePackets ==
    ASSUME IInv, ServeMe
    PROVE  PacketsOK'
<1> DEFINE p == Head(toServer)
<1>1. /\ toServer # << >> /\ toServer' = Tail(toServer) /\ servedXid' = p.xid
      /\ UNCHANGED <<now, xid, declined>>
  BY DEF ServeMe
<1>2. p \in Request /\ p.xid \in 0 .. xid /\ Me \in Mac
  <2>1. p \in Request /\ p.xid <= xid /\ xid \in Nat
    BY <1>1, ServedPacket DEF IInv, PacketsOK
  <2>2. p.xid \in Nat
    BY <2>1 DEF Request
  <2> QED
    BY <2>1, <2>2, SystemAssumption
<1>3. ServeDiscover(p) \/ Grant(p) \/ Refuse(p) \/ DoNotAnswer(p) \/ GiveUpAddress(p)
  BY DEF ServeMe
<1> HIDE DEF p
<1>4. CASE ServeDiscover(p)
  <2>1. OffersTo(Me, p.xid) /\ promise'[Me].nip \in S!Pool \cup {0}
    BY <1>2, <1>4, OfferFromPool DEF ServeDiscover, IInv
  <2> QED
    BY <1>1, <1>2, <2>1, OfferPackets
<1>5. CASE Grant(p)
  <2>1. p.ip \in S!Pool /\ S!LeaseTime(0) = MaxLease
    BY <1>2, <1>5, AckFromTable DEF IInv
  <2>2. SendToClient(Packet("ACK", p.ip, MaxLease, p.xid))
    BY <1>5, <2>1 DEF Grant
  <2> QED
    BY <1>1, <1>2, <2>1, <2>2, ServerPackets
<1>6. CASE Refuse(p)
  <2>1. SendToClient(Packet("NAK", 0, 0, p.xid))
    BY <1>6 DEF Refuse
  <2> QED
    BY <1>1, <1>2, <2>1, ServerPackets
<1>7. CASE DoNotAnswer(p) \/ GiveUpAddress(p)
  BY <1>1, <1>2, <1>7, SameClientPackets DEF DoNotAnswer, GiveUpAddress
<1> QED
  BY <1>3, <1>4, <1>5, <1>6, <1>7

LEMMA ServerGoesOnPackets ==
    ASSUME IInv, ServerGoesOn
    PROVE  PacketsOK'
<1>1. servedXid \in 0 .. xid /\ UNCHANGED <<now, xid, servedXid, toServer, declined>>
  <2>1. UNCHANGED now
    BY DEF ServerGoesOn, S!NobodyAnswers, S!Skip, S!RememberOldest, S!Probe, S!ProbeOldest,
           S!Abandon, S!SomebodyAnswers, S!EnterLease
  <2> QED
    BY <2>1 DEF ServerGoesOn, IInv, PacketsOK
<1>2. CASE S!NobodyAnswers /\ OffersTo(client.mac, servedXid)
  <2>1. client.mac \in Mac
    BY <1>2, SameAnswers DEF IInv, SP!IInv, SP!CoreInv, SP!SearchInv, SP!NobodyAnswers
  <2>2. promise'[client.mac].nip \in S!Pool \cup {0}
    BY <1>2, <2>1, OfferFromPool DEF IInv
  <2> QED
    BY <1>1, <1>2, <2>1, <2>2, OfferPackets
<1>3. CASE UNCHANGED toClient
  BY <1>1, <1>3, SameClientPackets
<1> QED
  BY <1>2, <1>3 DEF ServerGoesOn

LEMMA TickPackets ==
    ASSUME IInv, Tick
    PROVE  PacketsOK'
<1>1. /\ now' = now + 1 /\ now \in Nat
      /\ UNCHANGED <<xid, servedXid, toServer, declined>>
      /\ toClient' = {p \in toClient : now' - p.sent <= MaxDelay}
  BY ServerFacts DEF Tick, S!Tick, IInv
<1>2. \A p \in toClient : p.sent \in Nat
  BY DEF IInv, PacketsOK, Reply
<1>3. \A p \in toClient' : /\ p \in toClient
                           /\ p.sent <= now' /\ now' - p.sent <= MaxDelay
  BY <1>1, <1>2 DEF IInv, PacketsOK
<1> QED
  BY <1>1, <1>3 DEF IInv, PacketsOK

LEMMA PacketsStep ==
    ASSUME IInv, [Next]_vars
    PROVE  PacketsOK'
<1>1. CASE ServeOthers
  <2>1. 0 \in 0 .. xid
    BY DEF IInv, PacketsOK
  <2>2. UNCHANGED now
    BY <1>1 DEF ServeOthers, S!DiscoverKnown, S!DiscoverRequested, S!DiscoverSearch,
                S!Decline, S!Release, S!RequestAck
  <2> QED
    BY <1>1, <2>1, <2>2, SameClientPackets DEF ServeOthers
<1>2. CASE ClientReceives \/ UNCHANGED vars
  <2>1. UNCHANGED <<now, xid, servedXid, toServer, toClient, declined>>
    BY <1>2 DEF ClientReceives, vars
  <2> QED
    BY <2>1 DEF IInv, PacketsOK
<1> QED
  BY <1>1, <1>2, ClientActsPackets, ServeMePackets, ServerGoesOnPackets, TickPackets DEF Next

-----------------------------------------------------------------------------
(* What the client does with its lease.                                    *)

\* A transaction goes on, with no other addresses than before.
GoesOn ==
    /\ Open' => Open
    /\ xid' = xid
    /\ state' = "INIT_SELECTING" /\ packet_num' > 0 =>
           state = "INIT_SELECTING" /\ packet_num > 0
    /\ {iface', offer'.ip} \subseteq Granted \cup {0}
    /\ UNCHANGED <<leases, pc, client, addr>>
    /\ now \in Nat /\ now' \in Nat /\ now <= now'
    /\ toClient' \subseteq toClient

\* The client sends nothing, or asks for its lease.
OnlyAsks ==
    \/ toServer' = toServer
    \/ /\ state' # "INIT_SELECTING"
       /\ \E p \in Request : ~Cutting(p) /\ toServer' = Append(toServer, p)

LEMMA GrantedLess ==
    ASSUME GoesOn
    PROVE  Granted' \subseteq Granted
BY DEF GoesOn, Granted, Acked

LEMMA GoesOnQueue ==
    ASSUME IInv, GoesOn, OnlyAsks
    PROVE  /\ Queued' /\ Unasked'
           /\ (\A i \in 1 .. Len(toServer) : ~Cutting(toServer[i])) =>
                  \A i \in 1 .. Len(toServer') : ~Cutting(toServer'[i])
<1>1. toServer \in Seq(Request) /\ Queued /\ Unasked
  BY DEF IInv, PacketsOK
<1>2. /\ \A p : Asked(p)' <=> Asked(p)
      /\ \A p : Acked(p)' <=> Acked(p)
      /\ \A p : Cutting(p)' <=> Cutting(p)
  BY DEF GoesOn, Asked, Acked, Cutting
<1>3. CASE toServer' = toServer
  <2>1. Queued'
    BY <1>1, <1>2, <1>3 DEF GoesOn, Queued
  <2>2. Unasked'
    BY <1>1, <1>2, <1>3 DEF GoesOn, Unasked
  <2> QED
    BY <1>3, <2>1, <2>2
<1>4. ASSUME NEW p \in Request, ~Cutting(p), toServer' = Append(toServer, p),
             state' # "INIT_SELECTING"
      PROVE  /\ Queued' /\ Unasked'
             /\ (\A i \in 1 .. Len(toServer) : ~Cutting(toServer[i])) =>
                    \A i \in 1 .. Len(toServer') : ~Cutting(toServer'[i])
  <2>1. /\ Len(toServer') = Len(toServer) + 1 /\ Len(toServer) \in Nat
        /\ \A i \in 1 .. Len(toServer') :
              \/ i \in 1 .. Len(toServer) /\ toServer'[i] = toServer[i]
              \/ i = Len(toServer) + 1 /\ toServer'[i] = p
    BY <1>1, <1>4, Appended
  <2>2. Unasked'
    BY <1>4 DEF Unasked
  <2>3. ASSUME Open', NEW i \in 1 .. Len(toServer'), NEW j \in 1 .. Len(toServer'),
               i < j, Asked(toServer'[i])
        PROVE  ~Cutting(toServer'[j])
    <3>1. CASE j = Len(toServer) + 1
      BY <1>4, <2>1, <3>1
    <3>2. CASE j # Len(toServer) + 1
      <4>1. /\ j \in 1 .. Len(toServer) /\ toServer'[j] = toServer[j]
            /\ i \in 1 .. Len(toServer) /\ toServer'[i] = toServer[i]
        BY <2>1, <2>3, <3>2
      <4> QED
        BY <1>1, <2>3, <4>1 DEF GoesOn, Queued
    <3> QED
      BY <3>1, <3>2
  <2>4. Queued'
    BY <1>2, <2>3 DEF Queued
  <2> QED
    BY <1>4, <2>1, <2>2, <2>4
<1> QED
  BY <1>3, <1>4 DEF OnlyAsks

LEMMA GoesOnHeld ==
    ASSUME IInv, GoesOn, OnlyAsks
    PROVE  Served' /\ AcksHeld' /\ \A a, t : Held(a, t)' <=> Held(a, t)
<1>1. \A a, t : Held(a, t)' <=> Held(a, t)
  BY DEF GoesOn, Held
<1>2. Served'
  <2> SUFFICES ASSUME Open', Granted' # {} PROVE Served'
    BY DEF Served
  <2>1. Open /\ Granted # {} /\ Granted' \subseteq Granted
    BY GrantedLess DEF GoesOn
  <2>2. \A i \in 1 .. Len(toServer') : ~Cutting(toServer'[i])
    BY <2>1, GoesOnQueue DEF IInv, Served
  <2>3. \A p : Cutting(p)' <=> Cutting(p)
    BY DEF Cutting
  <2>4. /\ pc \in {"scan", "probe", "probeOldest"} => client.mac # Me
        /\ \A a \in Granted :
              /\ \A b \in Granted : a = b
              /\ \A s \in S!Slots : leases[s].mac = Me => leases[s].nip = a
              /\ pc = "ack" /\ client.mac = Me => addr = a
    BY <2>1 DEF IInv, Served
  <2>5. UNCHANGED <<leases, pc, client, addr>>
    BY DEF GoesOn
  <2> QED
    BY <2>1, <2>2, <2>3, <2>4, <2>5 DEF Served
<1>3. AcksHeld'
  <2> SUFFICES ASSUME Open', NEW p \in toClient', Acked(p)', p.sent + MaxLease >= now'
               PROVE  Held(p.ip, p.sent + MaxLease)'
    BY DEF AcksHeld
  <2>1. Open /\ p \in toClient /\ Acked(p)
    BY DEF GoesOn, Acked
  <2>2. p.sent + MaxLease >= now
    <3>1. p.sent \in Nat /\ MaxLease \in Nat /\ now \in Nat /\ now' \in Nat /\ now <= now'
      BY <2>1, SystemAssumption DEF IInv, PacketsOK, Reply, GoesOn
    <3> QED
      BY <3>1
  <2> QED
    BY <1>1, <2>1, <2>2 DEF IInv, AcksHeld
<1> QED
  BY <1>1, <1>2, <1>3

\* The seconds that are left, and the addresses, as they were: so is the lease.
LEMMA GoesOnLease ==
    ASSUME IInv, GoesOn, OnlyAsks,
           cpc' \in {"wait", "probe"} => cpc \in {"wait", "probe"},
           left' = left, now' = now,
           {iface', offer'.ip} \subseteq {iface, offer.ip, 0}
    PROVE  LeaseHeld'
<1> SUFFICES ASSUME Open', cpc' \in {"wait", "probe"}, left' >= MaxDelay,
                    NEW a \in {iface', offer'.ip} \ {0}
             PROVE  Held(a, now + left - MaxDelay)'
  BY DEF LeaseHeld
<1>1. Open /\ a \in {iface, offer.ip} \ {0}
  BY DEF GoesOn
<1>2. Held(a, now + left - MaxDelay)
  BY <1>1 DEF IInv, LeaseHeld
<1> DEFINE t == now + left - MaxDelay
<1>3. t' = t
  OBVIOUS
<1>4. \A u : Held(a, u)' <=> Held(a, u)
  BY GoesOnHeld
<1> QED
  BY <1>2, <1>4 DEF Held

\* All that remains to be shown but for the packets.
LeaseParts == Queued /\ Unasked /\ Served /\ AcksHeld /\ LeaseHeld /\ LeftOK

\* The transaction is over.
LEMMA Ends ==
    ASSUME ~Open', ~(state' = "INIT_SELECTING" /\ packet_num' > 0), LeftOK'
    PROVE  LeaseParts'
BY DEF LeaseParts, Queued, Unasked, Served, AcksHeld, LeaseHeld

\* With a DISCOVER there is nothing to lose: the first one begins a transaction,
\* and while it is repeated nothing has been asked for.
LEMMA DiscoversStep ==
    ASSUME IInv, Discovers, UNCHANGED <<now, serverVars, toClient, declined>>
    PROVE  LeaseParts'
<1> DEFINE p == [type |-> "DISCOVER", xid |-> xid', ip |-> requested_ip]
           NotAsked(q) == q.type \in {"SELECT", "RENEW"} => q.xid # xid'
           NotAcked(q) == q.type = "ACK" => q.xid # xid'
<1>1. /\ cpc = "wait" /\ state = "INIT_SELECTING" /\ state' = state
      /\ packet_num' = packet_num + 1
      /\ UNCHANGED <<iface, offer, left>>
  BY DEF Discovers, C!SendDiscover, C!TimerFired, C!lease, C!probe
<1>2. xid' = IF packet_num = 0 THEN xid + 1 ELSE xid
  BY DEF Discovers
<1>3. iface = 0 /\ offer.ip = 0 /\ packet_num \in Nat
  BY <1>1, ClientFacts DEF IInv
<1>4. /\ xid \in Nat /\ toServer \in Seq(Request) /\ toClient \subseteq Reply
      /\ \A i \in 1 .. Len(toServer) : toServer[i] \in Request /\ toServer[i].xid <= xid
      /\ \A q \in toClient : q.xid <= xid
  BY DEF IInv, PacketsOK
<1>5. /\ \A i \in 1 .. Len(toServer) : NotAsked(toServer[i])
      /\ \A q \in toClient : NotAcked(q)
  <2>1. CASE packet_num = 0
    <3>1. xid' = xid + 1
      BY <1>2, <2>1
    <3>2. ASSUME NEW x \in Nat, x <= xid PROVE x # xid'
      BY <1>4, <3>1, <3>2
    <3>3. ASSUME NEW i \in 1 .. Len(toServer) PROVE toServer[i].xid # xid'
      BY <1>4, <3>2 DEF Request
    <3>4. ASSUME NEW q \in toClient PROVE q.xid # xid'
      BY <1>4, <3>2 DEF Reply
    <3> QED
      BY <3>3, <3>4
  <2>2. CASE packet_num # 0
    <3>1. xid' = xid /\ packet_num > 0
      BY <1>2, <1>3, <2>2
    <3> QED
      BY <1>1, <3>1 DEF IInv, Unasked, Asked, Acked
  <2> QED
    BY <2>1, <2>2
<1>6. \A i \in 1 .. Len(toServer') : NotAsked(toServer'[i])
  <2>1. p \in Request /\ NotAsked(p)
    <3>1. requested_ip \in S!Pool \cup {0} /\ xid' \in Nat
      BY <1>2, <1>4, ClientFacts DEF IInv
    <3> QED
      BY <3>1 DEF Request
  <2>2. toServer' = toServer \/ toServer' = Append(toServer, p)
    BY DEF Discovers, SendToServer
  <2> HIDE DEF p
  <2>3. CASE toServer' = toServer
    BY <1>5, <2>3
  <2>4. CASE toServer' = Append(toServer, p)
    <3>1. \A i \in 1 .. Len(toServer') :
             \/ i \in 1 .. Len(toServer) /\ toServer'[i] = toServer[i]
             \/ toServer'[i] = p
      BY <1>4, <2>1, <2>4, Appended
    <3> QED
      BY <1>5, <2>1, <3>1
  <2> QED
    BY <2>2, <2>3, <2>4
<1>7. \A q \in toClient' : NotAcked(q)
  BY <1>5
<1>8. Granted' = {}
  BY <1>1, <1>3, <1>7 DEF Granted, Acked
<1>9. Queued' /\ Unasked' /\ Served' /\ AcksHeld'
  <2>1. Queued'
    BY <1>6 DEF Queued, Asked
  <2>2. Unasked'
    BY <1>6, <1>7 DEF Unasked, Asked, Acked
  <2>3. Served' /\ AcksHeld'
    BY <1>7, <1>8 DEF Served, AcksHeld, Acked
  <2> QED
    BY <2>1, <2>2, <2>3
<1>10. LeaseHeld' /\ LeftOK'
  BY <1>1, <1>3 DEF IInv, LeaseHeld, LeftOK
<1> QED
  BY <1>9, <1>10 DEF LeaseParts

\* What the client does without changing its lease.
LEMMA GoesOnStep ==
    ASSUME IInv, GoesOn, OnlyAsks,
           cpc' \in {"wait", "probe"} => cpc \in {"wait", "probe"},
           left' = left, now' = now,
           {iface', offer'.ip} \subseteq {iface, offer.ip, 0}
    PROVE  LeaseParts'
<1>1. LeftOK'
  BY DEF IInv, LeftOK
<1> QED
  BY <1>1, GoesOnQueue, GoesOnHeld, GoesOnLease DEF LeaseParts

LEMMA SameServerVars ==
    ASSUME UNCHANGED serverVars
    PROVE  UNCHANGED <<leases, pc, client, addr>>
BY DEF serverVars

LEMMA SelectsStep ==
    ASSUME IInv, Selects, UNCHANGED <<now, serverVars, toClient, declined>>
    PROVE  LeaseParts'
<1> DEFINE p == [type |-> "SELECT", xid |-> xid, ip |-> requested_ip]
<1>1. /\ state = "REQUESTING" /\ state' = state
      /\ UNCHANGED <<cpc, iface, offer, left, xid>>
      /\ toServer' = toServer \/ toServer' = Append(toServer, p)
  BY DEF Selects, C!SendSelect, C!lease, C!probe, SendToServer
<1>2. p \in Request /\ ~Cutting(p)
  BY ClientFacts DEF IInv, PacketsOK, Request, Cutting
<1> HIDE DEF p
<1>3. OnlyAsks
  BY <1>1, <1>2 DEF OnlyAsks
<1>4. GoesOn
  BY <1>1, SameServerVars, ServerFacts DEF IInv, GoesOn, Open, Granted
<1> QED
  BY <1>1, <1>3, <1>4, GoesOnStep

LEMMA RenewsStep ==
    ASSUME IInv, Renews, UNCHANGED <<now, serverVars, toClient, declined>>
    PROVE  LeaseParts'
<1> DEFINE p == [type |-> "RENEW", xid |-> xid, ip |-> requested_ip]
<1>1. /\ state \in {"BOUND", "RENEWING", "RENEW_REQUESTED", "REBINDING"}
      /\ xid' = xid /\ cpc' = cpc
      /\ \/ /\ state' \in {"RENEWING", "RENEW_REQUESTED", "REBINDING"}
            /\ UNCHANGED <<iface, offer, left>>
         \/ /\ state' = "INIT_SELECTING" /\ packet_num' = 0 /\ timeout' = 0
            /\ left' = 0
  BY DEF Renews, C!HalfLeasePassed, C!RenewUnanswered, C!RebindUnanswered, C!RenewNow,
         C!Renew, C!SendRenew, C!SendRebind, C!LoseLease, C!Select, C!Wait, C!Deconfig,
         C!Bound, C!lease, C!probe
<1>2. CASE state' = "INIT_SELECTING"
  <2>1. ~Open' /\ ~(state' = "INIT_SELECTING" /\ packet_num' > 0)
    BY <1>1, <1>2 DEF Open
  <2>2. LeftOK'
    BY <1>1, <1>2, SystemAssumption DEF LeftOK
  <2> QED
    BY <2>1, <2>2, Ends
<1>3. CASE state' # "INIT_SELECTING"
  <2>1. p \in Request /\ ~Cutting(p)
    BY ClientFacts DEF IInv, PacketsOK, Request, Cutting
  <2>2. toServer' = toServer \/ toServer' = Append(toServer, p)
    BY <1>3 DEF Renews, SendToServer
  <2> HIDE DEF p
  <2>3. OnlyAsks
    BY <1>3, <2>1, <2>2 DEF OnlyAsks
  <2>4. GoesOn
    BY <1>1, <1>3, SameServerVars, ServerFacts DEF IInv, GoesOn, Open, Granted
  <2> QED
    BY <1>1, <1>3, <2>3, <2>4, GoesOnStep
<1> QED
  BY <1>2, <1>3

LEMMA DeclinesStep ==
    ASSUME Declines
    PROVE  LeaseParts'
<1>1. /\ declined' = xid' /\ packet_num' = 0 /\ left' = 0
  BY DEF Declines, C!ProbeAnswered, C!Select
<1> QED
  BY <1>1, Ends, SystemAssumption DEF Open, LeftOK

LEMMA ReleasesStep ==
    ASSUME IInv, Releases
    PROVE  LeaseParts'
<1>1. state' = "RELEASED" /\ left' \in {left, 0}
  BY DEF Releases, C!ReleaseNow, C!PerformRelease, C!Deconfig, C!lease
<1> QED
  BY <1>1, Ends, SystemAssumption DEF Open, LeftOK, IInv

LEMMA QuietlyStep ==
    ASSUME IInv, Quietly, UNCHANGED <<now, serverVars, toClient, declined>>
    PROVE  LeaseParts'
<1>1. UNCHANGED <<xid, toServer>> /\ OnlyAsks
  BY DEF Quietly, OnlyAsks
<1>2. CASE C!TryAgain
  <2>1. /\ state' = "INIT_SELECTING" /\ packet_num' = 0
        /\ state \in {"INIT_SELECTING", "REQUESTING"} /\ packet_num >= DiscoverRetries
        /\ UNCHANGED <<cpc, iface, offer, left>>
    BY <1>2 DEF C!TryAgain, C!NoAnswer, C!Select, C!lease, C!probe
  <2>2. packet_num > 0
    BY <2>1, ClientFacts, SystemAssumption DEF IInv
  <2>3. GoesOn
    BY <1>1, <2>1, <2>2, SameServerVars, ServerFacts DEF IInv, GoesOn, Open, Granted
  <2> QED
    BY <1>1, <2>1, <2>3, GoesOnStep
<1>3. CASE C!SleepOn
  <2>1. state' = "RELEASED" /\ left' = left
    BY <1>3 DEF C!SleepOn, C!lease
  <2> QED
    BY <2>1, Ends DEF Open, LeftOK, IInv
<1>4. CASE C!StartOver
  <2>1. /\ state' = "INIT_SELECTING" /\ packet_num' = 0 /\ timeout' = 0
        /\ left' \in {left, 0}
    BY <1>4 DEF C!StartOver, C!Select, C!Wait, C!Deconfig, C!lease
  <2> QED
    BY <2>1, Ends, SystemAssumption DEF Open, LeftOK, IInv
<1>5. CASE C!ProbeUnanswered
  <2>1. /\ cpc = "probe" /\ left' = left
        /\ iface' \in {offer.ip, 0} /\ offer'.ip = 0
        /\ state' # "INIT_SELECTING"
    BY <1>5 DEF C!ProbeUnanswered, C!Bind, C!NoOffer
  <2>2. state \in {"REQUESTING", "RENEWING", "RENEW_REQUESTED", "REBINDING"}
    BY <2>1, ClientFacts DEF IInv, C!Asking
  <2>3. GoesOn
    BY <1>1, <2>1, <2>2, SameServerVars, ServerFacts DEF IInv, GoesOn, Open, Granted
  <2> QED
    BY <1>1, <2>1, <2>3, GoesOnStep
<1> QED
  BY <1>2, <1>3, <1>4, <1>5 DEF Quietly

LEMMA ClientActsStep ==
    ASSUME IInv, ClientActs
    PROVE  LeaseParts'
<1>1. UNCHANGED <<now, serverVars, toClient>>
  BY DEF ClientActs
<1> QED
  BY <1>1, DiscoversStep, SelectsStep, RenewsStep, ReleasesStep, QuietlyStep, DeclinesStep
     DEF ClientActs

-----------------------------------------------------------------------------
(* What the client receives.                                               *)

\* The client counts no more than the server gave.
LEMMA SecondsCounted ==
    ASSUME LongLeases
    PROVE  C!LeaseSeconds(MaxLease) \in Nat /\ C!LeaseSeconds(MaxLease) <= MaxLease
BY SystemAssumption DEF LongLeases, C!LeaseSeconds

\* An ACK is for an address that is granted, and the server keeps it as long as
\* the client will count, but for the time the ACK was on its way.
LEMMA AckStep ==
    ASSUME IInv, LongLeases, UNCHANGED <<now, serverVars, xid, toServer, toClient, declined>>,
           NEW p \in toClient, p.xid = xid, p.type = "ACK",
           C!GetAck(p.ip, p.time) \/ C!GetAckToProbe(p.ip, p.time)
    PROVE  LeaseParts'
<1>1. /\ state \in {"REQUESTING", "RENEWING", "RENEW_REQUESTED", "REBINDING"}
      /\ state' # "INIT_SELECTING"
      /\ left' = C!LeaseSeconds(p.time)
      /\ {iface', offer'.ip} \subseteq {iface, p.ip, 0}
  <2>1. CASE C!GetAck(p.ip, p.time)
    BY <2>1 DEF C!GetAck, C!Bind, C!Asking, C!NoOffer
  <2>2. CASE C!GetAckToProbe(p.ip, p.time)
    BY <2>2 DEF C!GetAckToProbe, C!Asking
  <2> QED
    BY <2>1, <2>2
<1>2. /\ Acked(p) /\ p.ip \in S!Pool /\ p.time = MaxLease
      /\ p.sent \in Nat /\ now \in Nat /\ now - p.sent <= MaxDelay
  BY ServerFacts DEF IInv, PacketsOK, Reply, Acked
<1>3. left' \in Nat /\ left' <= MaxLease /\ MaxLease \in Nat /\ MaxDelay \in Nat
  BY <1>1, <1>2, SecondsCounted, SystemAssumption
<1>4. p.ip \in Granted /\ iface \in Granted \cup {0}
  BY <1>2 DEF Granted
<1>5. GoesOn /\ OnlyAsks
  BY <1>1, <1>2, <1>4, SameServerVars DEF GoesOn, OnlyAsks, Open
<1>6. Queued' /\ Unasked' /\ Served' /\ AcksHeld'
  BY <1>5, GoesOnQueue, GoesOnHeld
<1>7. LeaseHeld'
  <2> SUFFICES ASSUME Open', left' >= MaxDelay, NEW a \in {iface', offer'.ip} \ {0}
               PROVE  Held(a, now + left - MaxDelay)'
    BY DEF LeaseHeld
  <2>1. Open /\ a \in Granted
    BY <1>1, <1>4, <1>5 DEF GoesOn
  <2>2. a = p.ip
    BY <1>4, <2>1 DEF IInv, Served
  <2>3. p.sent + MaxLease >= now /\ now' + left' - MaxDelay <= p.sent + MaxLease
    BY <1>2, <1>3
  <2>4. Held(p.ip, p.sent + MaxLease)
    BY <1>2, <2>1, <2>3 DEF IInv, AcksHeld
  <2>5. UNCHANGED <<leases, pc, client, addr>>
    BY SameServerVars
  <2>6. \A s \in S!Slots : leases[s].expires \in Nat
    BY ServerFacts DEF IInv
  <2>7. CASE pc = "ack" /\ client.mac = Me /\ addr = p.ip
    BY <2>2, <2>5, <2>7 DEF Held
  <2>8. CASE \E s \in S!Slots : /\ leases[s].mac = Me /\ leases[s].nip = p.ip
                                /\ leases[s].expires >= p.sent + MaxLease
    <3>1. PICK s \in S!Slots : /\ leases[s].mac = Me /\ leases[s].nip = p.ip
                               /\ leases[s].expires >= p.sent + MaxLease
      BY <2>8
    <3>2. leases[s].expires >= now' + left' - MaxDelay
      BY <1>2, <1>3, <2>3, <2>6, <3>1
    <3> QED
      BY <2>2, <2>5, <3>1, <3>2 DEF Held
  <2> QED
    BY <2>4, <2>7, <2>8 DEF Held
<1>8. LeftOK'
  BY <1>3 DEF LeftOK
<1> QED
  BY <1>6, <1>7, <1>8 DEF LeaseParts

LEMMA ReceivesLease ==
    ASSUME IInv, LongLeases, ClientReceives
    PROVE  LeaseParts'
<1>1. UNCHANGED <<now, serverVars, xid, toServer, toClient, declined>> /\ OnlyAsks
  BY DEF ClientReceives, OnlyAsks
<1>2. PICK p \in toClient : Accepts(p) \/ Ignores(p)
  BY DEF ClientReceives
<1>3. CASE p.type = "OFFER" /\ C!GetOffer(p.ip)
  <2>1. /\ state = "INIT_SELECTING" /\ state' = "REQUESTING"
        /\ already_waited + slept < timeout
        /\ UNCHANGED <<cpc, iface, offer, left>>
    BY <1>3 DEF C!GetOffer, C!Receiving, C!Selecting, C!probe, C!lease
  <2>2. timeout > 0
    BY <2>1, ClientFacts DEF IInv
  <2>3. GoesOn
    BY <1>1, <2>1, <2>2, SameServerVars, ServerFacts DEF IInv, GoesOn, Open, Granted
  <2> QED
    BY <1>1, <2>1, <2>3, GoesOnStep
<1>4. CASE /\ p.xid = xid /\ p.type = "ACK"
           /\ C!GetAck(p.ip, p.time) \/ C!GetAckToProbe(p.ip, p.time)
  BY <1>1, <1>4, AckStep
<1>5. CASE C!GetNak
  <2>1. /\ state' = "INIT_SELECTING" /\ packet_num' = 0 /\ timeout' = 0
        /\ left' \in {left, 0}
    BY <1>5 DEF C!GetNak, C!Select, C!Wait, C!Deconfig, C!lease
  <2> QED
    BY <2>1, Ends, SystemAssumption DEF Open, LeftOK, IInv
<1>6. CASE C!IgnorePacket
  <2>1. UNCHANGED <<cpc, state, packet_num, timeout, iface, offer, left>>
    BY <1>6 DEF C!IgnorePacket, C!probe, C!lease
  <2>2. GoesOn
    BY <1>1, <2>1, SameServerVars, ServerFacts DEF IInv, GoesOn, Open, Granted
  <2> QED
    BY <1>1, <2>1, <2>2, GoesOnStep
<1> QED
  BY <1>2, <1>3, <1>4, <1>5, <1>6 DEF Accepts, Ignores

\* A second passes: what is left of the lease ends at the same time as before.
LEMMA TickLease ==
    ASSUME IInv, Tick
    PROVE  LeaseParts'
<1>1. /\ now' = now + 1
      /\ UNCHANGED <<leases, pc, client, addr, xid, toServer, declined,
                     cpc, state, timeout, packet_num, iface, offer>>
      /\ toClient' \subseteq toClient
  BY DEF Tick, S!Tick, C!Tick, S!request
<1>2. /\ now \in Nat /\ left \in Int /\ MaxDelay \in Nat /\ MaxLease \in Nat
      /\ C!LongOver \in Int /\ C!LongOver < 0
  BY ServerFacts, ClientFacts, SystemAssumption DEF IInv, C!LongOver
<1>3. \/ iface = 0 /\ cpc # "probe" /\ left' = left
      \/ left' = left - 1
      \/ left' \in Int /\ left' < 0
  BY <1>2 DEF Tick, C!Tick, C!Passes
<1>4. GoesOn /\ OnlyAsks
  BY <1>1, <1>2 DEF GoesOn, OnlyAsks, Open, Granted
<1>5. LeaseHeld'
  <2> SUFFICES ASSUME Open', cpc' \in {"wait", "probe"}, left' >= MaxDelay,
                      NEW a \in {iface', offer'.ip} \ {0}
               PROVE  Held(a, now + left - MaxDelay)'
    BY DEF LeaseHeld
  <2>1. Open /\ a \in {iface, offer.ip} \ {0}
    BY <1>1, <1>4 DEF GoesOn
  <2>2. offer.ip = 0 \/ cpc = "probe"
    BY ClientFacts DEF IInv
  <2>3. CASE left' = left - 1
    <3>1. left >= MaxDelay /\ now' + left' - MaxDelay = now + left - MaxDelay
      BY <1>1, <1>2, <2>3
    <3>2. Held(a, now + left - MaxDelay)
      BY <1>1, <2>1, <3>1 DEF IInv, LeaseHeld
    <3> QED
      BY <1>1, <3>1, <3>2 DEF Held
  <2>4. left' >= 0
    BY <1>2, <1>3
  <2> QED
    BY <1>1, <1>3, <2>1, <2>2, <2>3, <2>4
<1>6. LeftOK'
  BY <1>2, <1>3 DEF IInv, LeftOK
<1> QED
  BY <1>4, <1>5, <1>6, GoesOnQueue, GoesOnHeld DEF LeaseParts

-----------------------------------------------------------------------------
(* What the server does with the lease of the client.                      *)

\* The client waits meanwhile, and the server has taken a packet from its socket
\* or goes on with the last one.
Serves ==
    /\ UNCHANGED <<now, clientVars, xid, declined>>
    /\ toServer' = toServer \/ (toServer # << >> /\ toServer' = Tail(toServer))

\* What was served last is not the client's, unless it has no lease to lose.
OfNoConcern ==
    Open /\ Granted # {} =>
        /\ SP!Undisturbed(Me)
        /\ ~(pc = "ack" /\ client.mac = Me)
        /\ pc' \in {"scan", "probe", "probeOldest", "ack"} => client'.mac # Me

LEMMA ServesSame ==
    ASSUME Serves
    PROVE  /\ Open' <=> Open
           /\ UNCHANGED <<now, cpc, state, packet_num, iface, offer, left, xid, declined>>
           /\ \A p : Asked(p)' <=> Asked(p)
           /\ \A p : Acked(p)' <=> Acked(p)
           /\ \A p : Cutting(p)' <=> Cutting(p)
BY DEF Serves, clientVars, Open, Asked, Acked, Cutting

LEMMA ServesQueue ==
    ASSUME IInv, Serves
    PROVE  /\ Queued'
           /\ (\A p \in toClient' : p \in toClient \/ ~Acked(p)) => Unasked'
           /\ (\A i \in 1 .. Len(toServer) : ~Cutting(toServer[i])) =>
                  \A i \in 1 .. Len(toServer') : ~Cutting(toServer'[i])
<1>1. /\ \A i \in 1 .. Len(toServer') :
            \E k \in 1 .. Len(toServer) : toServer'[i] = toServer[k]
      /\ \A i, j \in 1 .. Len(toServer') : i < j =>
            \E k, l \in 1 .. Len(toServer) :
               k < l /\ toServer'[i] = toServer[k] /\ toServer'[j] = toServer[l]
  BY Shrinks DEF Serves, IInv, PacketsOK
<1>2. Queued'
  BY <1>1, ServesSame DEF IInv, Queued
<1>3. ASSUME \A p \in toClient' : p \in toClient \/ ~Acked(p)
      PROVE  Unasked'
  BY <1>1, <1>3, ServesSame DEF IInv, Unasked
<1>4. ASSUME \A i \in 1 .. Len(toServer) : ~Cutting(toServer[i]),
             NEW i \in 1 .. Len(toServer')
      PROVE  ~Cutting(toServer'[i])
  BY <1>1, <1>4
<1> QED
  BY <1>2, <1>3, <1>4

\* An unexpired lease that is not disturbed goes on being held.
LEMMA HeldKept ==
    ASSUME IInv, SP!Undisturbed(Me), ~(pc = "ack" /\ client.mac = Me),
           NEW a, NEW t \in Int, t >= now, Held(a, t)
    PROVE  Held(a, t)'
<1>1. PICK s \in S!Slots : /\ leases[s].mac = Me /\ leases[s].nip = a
                           /\ leases[s].expires >= t
  BY DEF Held
<1>2. leases[s].expires \in Nat /\ now \in Nat
  BY ServerFacts DEF IInv
<1>3. ~SP!IsExpired(leases[s])
  BY <1>1, <1>2 DEF SP!IsExpired
<1>4. leases'[s] = leases[s]
  BY <1>1, <1>3, SameServer DEF SP!Undisturbed
<1> QED
  BY <1>1, <1>4 DEF Held

LEMMA OfNoConcernStep ==
    ASSUME IInv, Serves, OfNoConcern, \A p \in toClient' : p \in toClient \/ p.type # "ACK"
    PROVE  LeaseParts'
<1>1. \A p \in toClient' : Acked(p) => p \in toClient
  BY DEF Acked
<1>2. Granted' \subseteq Granted
  BY <1>1, ServesSame DEF Granted
<1>3. Queued' /\ Unasked'
  BY <1>1, ServesQueue
<1>4. Served'
  <2> SUFFICES ASSUME Open', Granted' # {} PROVE Served'
    BY DEF Served
  <2>1. Open /\ Granted # {}
    BY <1>2, ServesSame
  <2>2. /\ SP!Undisturbed(Me)
        /\ pc' \in {"scan", "probe", "probeOldest", "ack"} => client'.mac # Me
    BY <2>1 DEF OfNoConcern
  <2>3. /\ \A i \in 1 .. Len(toServer) : ~Cutting(toServer[i])
        /\ \A a \in Granted :
              /\ \A b \in Granted : a = b
              /\ \A s \in S!Slots : leases[s].mac = Me => leases[s].nip = a
    BY <2>1 DEF IInv, Served
  <2>4. \A i \in 1 .. Len(toServer') : ~Cutting(toServer'[i])
    BY <2>3, ServesQueue
  <2>5. \A s \in S!Slots : leases'[s].mac = Me =>
            leases[s].mac = Me /\ leases'[s].nip = leases[s].nip
    BY <2>2, SameServer DEF SP!Undisturbed
  <2> QED
    BY <1>2, <2>2, <2>3, <2>4, <2>5, ServesSame DEF Served
<1>5. AcksHeld'
  <2> SUFFICES ASSUME Open', NEW p \in toClient', Acked(p)', p.sent + MaxLease >= now'
               PROVE  Held(p.ip, p.sent + MaxLease)'
    BY DEF AcksHeld
  <2>1. /\ Open /\ p \in toClient /\ Acked(p) /\ p.sent + MaxLease >= now
    BY <1>1, ServesSame
  <2>2. p.ip \in Granted /\ p.sent + MaxLease \in Int
    BY <2>1, SystemAssumption DEF Granted, IInv, PacketsOK, Reply
  <2>3. Held(p.ip, p.sent + MaxLease)
    BY <2>1 DEF IInv, AcksHeld
  <2>4. SP!Undisturbed(Me) /\ ~(pc = "ack" /\ client.mac = Me)
    BY <2>1, <2>2 DEF OfNoConcern
  <2> QED
    BY <2>1, <2>2, <2>3, <2>4, HeldKept
<1>6. LeaseHeld'
  <2> SUFFICES ASSUME Open', cpc' \in {"wait", "probe"}, left' >= MaxDelay,
                      NEW a \in {iface', offer'.ip} \ {0}
               PROVE  Held(a, now + left - MaxDelay)'
    BY DEF LeaseHeld
  <2>1. /\ Open /\ a \in {iface, offer.ip} \ {0}
        /\ cpc \in {"wait", "probe"} /\ left >= MaxDelay
        /\ UNCHANGED <<now, left>>
    BY ServesSame
  <2>2. a \in Granted
    BY <2>1 DEF Granted
  <2>3. now + left - MaxDelay \in Int /\ now + left - MaxDelay >= now
    BY <2>1, ServerFacts, ClientFacts, SystemAssumption DEF IInv
  <2>4. PICK t \in Int : t = now + left - MaxDelay
    BY <2>3
  <2>5. Held(a, t)
    BY <2>1, <2>4 DEF IInv, LeaseHeld
  <2>6. SP!Undisturbed(Me) /\ ~(pc = "ack" /\ client.mac = Me)
    BY <2>1, <2>2 DEF OfNoConcern
  <2>7. Held(a, t)'
    BY <2>3, <2>4, <2>5, <2>6, HeldKept
  <2>8. now' + left' - MaxDelay = t
    BY <2>1, <2>4
  <2> QED
    BY <2>7, <2>8 DEF Held
<1>7. LeftOK'
  BY ServesSame DEF IInv, LeftOK
<1> QED
  BY <1>3, <1>4, <1>5, <1>6, <1>7 DEF LeaseParts

\* An ACK on its way: what it grants is what was granted before.
LEMMA GrantLease ==
    ASSUME IInv, Serves, toServer # << >>, toServer' = Tail(toServer), Grant(Head(toServer))
    PROVE  LeaseParts'
<1> DEFINE p == Head(toServer)
           q == Packet("ACK", p.ip, MaxLease, p.xid)
<1>1. /\ toServer \in Seq(Request) /\ 1 \in 1 .. Len(toServer)
      /\ p = toServer[1] /\ p \in Request
      /\ \A i \in 1 .. Len(toServer') :
            i + 1 \in 1 .. Len(toServer) /\ toServer'[i] = toServer[i + 1]
  BY HeadAndTail DEF IInv, PacketsOK
<1>2. p.type \in {"SELECT", "RENEW"}
  BY DEF Grant
<1>3. Grant(p)
  OBVIOUS
<1> HIDE DEF p
<1>4. /\ \A s \in S!Slots : leases[s].mac = Me => leases[s].nip = p.ip
      /\ \E s \in S!Slots : leases[s].mac = Me /\ leases[s].nip = p.ip
      /\ pc' = "ack" /\ client'.mac = Me /\ addr' = p.ip /\ leases' = leases
      /\ S!LeaseTime(0) = MaxLease
  BY <1>1, <1>3, AckFromTable DEF IInv
<1>5. toClient' = toClient \cup {q} /\ q.ip = p.ip /\ q.xid = p.xid
  BY <1>3, <1>4 DEF Grant, SendToClient, Packet
<1> HIDE DEF q
<1>6. ASSUME Open, Granted # {}, NEW a \in Granted PROVE a = p.ip
  BY <1>4, <1>6 DEF IInv, Served
<1>7. ASSUME Open', NEW a \in Granted' PROVE a = p.ip
  <2>1. a \in Granted \/ a = q.ip
    BY <1>5, <1>7, ServesSame DEF Granted
  <2>2. Open
    BY <1>7, ServesSame
  <2> QED
    BY <1>5, <1>6, <2>1, <2>2
<1>8. ASSUME Open', NEW a \in Granted', NEW t PROVE Held(a, t)'
  BY <1>4, <1>7, <1>8 DEF Held
<1>9. Queued'
  BY ServesQueue
<1>10. Unasked'
  <2> SUFFICES ASSUME state = "INIT_SELECTING", packet_num > 0 PROVE Unasked'
    BY ServesSame DEF Unasked
  <2>1. ~Asked(p)
    BY <1>1 DEF IInv, Unasked
  <2>2. q.xid # xid
    BY <1>2, <1>5, <2>1 DEF Asked
  <2> QED
    BY <1>5, <2>2, ServesQueue DEF Acked
<1>11. Served'
  <2> SUFFICES ASSUME Open', Granted' # {} PROVE Served'
    BY DEF Served
  <2>1. Open
    BY ServesSame
  <2>2. \A i \in 1 .. Len(toServer') : ~Cutting(toServer'[i])
    <3>1. CASE p.xid = xid
      <4>1. Asked(toServer[1])
        BY <1>1, <1>2, <3>1 DEF Asked
      <4>2. ASSUME NEW i \in 1 .. Len(toServer') PROVE 1 < i + 1
        OBVIOUS
      <4> QED
        BY <1>1, <2>1, <4>1, <4>2 DEF IInv, Queued
    <3>2. CASE p.xid # xid
      <4>1. Granted' \subseteq Granted
        BY <1>5, <3>2, ServesSame DEF Granted, Acked
      <4>2. \A i \in 1 .. Len(toServer) : ~Cutting(toServer[i])
        BY <2>1, <4>1 DEF IInv, Served
      <4> QED
        BY <4>2, ServesQueue
    <3> QED
      BY <3>1, <3>2
  <2> QED
    BY <1>4, <1>7, <2>2, ServesSame DEF Served
<1>12. AcksHeld'
  BY <1>8 DEF AcksHeld, Granted
<1>13. LeaseHeld'
  BY <1>8 DEF LeaseHeld, Granted
<1>14. LeftOK'
  BY ServesSame DEF IInv, LeftOK
<1> QED
  BY <1>9, <1>10, <1>11, <1>12, <1>13, <1>14 DEF LeaseParts

\* The lease that the ACK promised is entered, for as long as it said.
LEMMA EnterOwnLease ==
    ASSUME IInv, NoWrap, Serves, UNCHANGED <<toServer, toClient>>,
           S!EnterLease, client.mac = Me
    PROVE  LeaseParts'
<1>1. SP!CoreInv /\ SP!EnterLease /\ SP!NoWrap /\ SP!StaticsOutside /\ ~SP!IsStatic(client.mac)
  <2>1. SP!CoreInv /\ SP!EnterLease
    BY SameAnswers DEF IInv, SP!IInv
  <2>2. SP!NoWrap /\ SP!StaticsOutside
    BY Hypotheses
  <2>3. ~SP!IsStatic(client.mac)
    BY SystemAssumption, ServerFacts DEF IInv
  <2> QED
    BY <2>1, <2>2, <2>3
<1>2. /\ \E s \in SP!Slots :
            leases'[s] = [mac |-> client.mac, nip |-> addr,
                          expires |-> now + SP!LeaseTime(client.option)]
      /\ \A s \in SP!Slots : leases'[s].mac = client.mac => leases'[s].nip = addr
  BY <1>1, SP!EnterLeaseEnters, Addresses, Times, NoFile
<1>3. SP!LeaseTime(client.option) = MaxLease
  BY ServerFacts DEF IInv, SP!LeaseTime
<1>4. PICK r \in S!Slots : leases'[r] = [mac |-> Me, nip |-> addr, expires |-> now + MaxLease]
  BY <1>2, <1>3, SameServer
<1>5. \A s \in S!Slots : leases'[s].mac = Me => leases'[s].nip = addr
  BY <1>2, SameServer
<1>6. pc = "ack" /\ pc' = "select"
  BY DEF S!EnterLease, S!Return
<1>7. Granted' = Granted
  BY ServesSame DEF Granted
<1>8. ASSUME Open, NEW a \in Granted PROVE a = addr
  BY <1>6, <1>8 DEF IInv, Served
<1>9. ASSUME Open, NEW a \in Granted, NEW t, now + MaxLease >= t PROVE Held(a, t)'
  BY <1>4, <1>8, <1>9 DEF Held
<1>10. Queued' /\ Unasked'
  BY ServesQueue
<1>11. Served'
  BY <1>5, <1>6, <1>7, <1>8, ServesSame DEF IInv, Served
<1>12. AcksHeld'
  <2> SUFFICES ASSUME Open', NEW p \in toClient', Acked(p)' PROVE Held(p.ip, p.sent + MaxLease)'
    BY DEF AcksHeld
  <2>1. Open /\ p.ip \in Granted /\ p \in toClient
    BY ServesSame DEF Granted
  <2>2. now + MaxLease >= p.sent + MaxLease
    BY <2>1, ServerFacts, SystemAssumption DEF IInv, PacketsOK, Reply
  <2> QED
    BY <1>9, <2>1, <2>2
<1>13. LeaseHeld'
  <2> SUFFICES ASSUME Open', NEW a \in {iface', offer'.ip} \ {0}
               PROVE  Held(a, now + left - MaxDelay)'
    BY DEF LeaseHeld
  <2>1. Open /\ a \in Granted
    BY ServesSame DEF Granted
  <2>2. now + MaxLease >= now' + left' - MaxDelay
    BY ServesSame, ServerFacts, ClientFacts, SystemAssumption DEF IInv, LeftOK
  <2>3. PICK t : t = now' + left' - MaxDelay
    OBVIOUS
  <2>4. Held(a, t)'
    BY <1>9, <2>1, <2>2, <2>3
  <2> QED
    BY <2>3, <2>4 DEF Held
<1>14. LeftOK'
  BY ServesSame DEF IInv, LeftOK
<1> QED
  BY <1>10, <1>11, <1>12, <1>13, <1>14 DEF LeaseParts

LEMMA NotAck ==
    ASSUME NEW m, NEW id, OffersTo(m, id)
    PROVE  \A p \in toClient' : p \in toClient \/ p.type # "ACK"
BY DEF OffersTo, SendToClient, Packet

LEMMA ServeMeLease ==
    ASSUME IInv, NoWrap, ServeMe
    PROVE  LeaseParts'
<1> DEFINE p == Head(toServer)
<1>1. /\ toServer # << >> /\ toServer' = Tail(toServer) /\ pc = "select"
      /\ ServeDiscover(p) \/ Grant(p) \/ Refuse(p) \/ DoNotAnswer(p) \/ GiveUpAddress(p)
  BY DEF ServeMe
<1>2. UNCHANGED now
  <2>1. CASE Refuse(p) \/ DoNotAnswer(p)
    BY <2>1 DEF ServeMe
  <2> QED
    BY DEF ServeMe
<1>3. Serves
  BY <1>1, <1>2 DEF ServeMe, Serves
<1>4. p = toServer[1] /\ 1 \in 1 .. Len(toServer)
  BY <1>1, HeadAndTail DEF IInv, PacketsOK
<1> HIDE DEF p
<1>5. CASE ServeDiscover(p) \/ GiveUpAddress(p)
  <2>1. Cutting(p)
    BY <1>5 DEF ServeDiscover, GiveUpAddress, Cutting
  <2>2. OfNoConcern
    BY <1>4, <2>1 DEF IInv, Served, OfNoConcern
  <2>3. \A q \in toClient' : q \in toClient \/ q.type # "ACK"
    BY <1>5, NotAck DEF ServeDiscover, GiveUpAddress
  <2> QED
    BY <1>3, <2>2, <2>3, OfNoConcernStep
<1>6. CASE Refuse(p) \/ DoNotAnswer(p)
  <2>1. UNCHANGED serverVars
    BY <1>6 DEF Refuse, DoNotAnswer
  <2>2. UNCHANGED leases /\ pc' = "select"
    BY <1>1, <2>1 DEF serverVars
  <2>3. OfNoConcern
    BY <1>1, <2>2 DEF OfNoConcern, SP!Undisturbed
  <2>4. \A q \in toClient' : q \in toClient \/ q.type # "ACK"
    BY <1>6 DEF Refuse, DoNotAnswer, SendToClient, Packet
  <2> QED
    BY <1>3, <2>3, <2>4, OfNoConcernStep
<1>7. CASE Grant(p)
  BY <1>1, <1>3, <1>7, GrantLease DEF p
<1> QED
  BY <1>1, <1>5, <1>6, <1>7

LEMMA ServeOthersLease ==
    ASSUME IInv, NoWrap, ServeOthers
    PROVE  LeaseParts'
<1>1. PICK m \in Others :
        \/ S!DiscoverKnown(m)
        \/ \E a \in S!AskedIp :
            \/ S!DiscoverRequested(m, a) \/ S!DiscoverSearch(m, a)
            \/ S!Decline(m, a) \/ S!Release(m, a)
            \/ S!RequestAck(m, a, 0, 0)
  BY DEF ServeOthers
<1>2. m \in Mac /\ m # Me /\ Me \in Mac /\ Me # ZeroMac
  BY SystemAssumption DEF Others
<1>3. SP!CoreInv /\ SP!NoWrap
  BY Hypotheses DEF IInv, SP!IInv
<1>4. ASSUME NEW a, \/ SP!DiscoverKnown(m) \/ SP!DiscoverRequested(m, a)
                    \/ SP!Decline(m, a) \/ SP!Release(m, a)
      PROVE  SP!Undisturbed(Me)
  BY <1>2, <1>3, <1>4, SP!ReceiveUndisturbed, Addresses, Times, NoFile
<1>5. /\ UNCHANGED now /\ pc = "select"
      /\ pc' = "select" \/ client'.mac = m
  <2>1. UNCHANGED now
    BY DEF ServeOthers
  <2>2. CASE S!DiscoverKnown(m)
    BY <2>1, <2>2 DEF S!DiscoverKnown, S!Reserve, S!Return
  <2>3. ASSUME NEW a \in S!AskedIp, S!DiscoverRequested(m, a)
        PROVE  pc = "select" /\ pc' = "select"
    BY <2>3 DEF S!DiscoverRequested, S!Reserve, S!Return
  <2>4. ASSUME NEW a \in S!AskedIp, S!DiscoverSearch(m, a)
        PROVE  pc = "select" /\ client'.mac = m
    BY <2>4 DEF S!DiscoverSearch
  <2>5. ASSUME NEW a \in S!AskedIp, S!Decline(m, a) \/ S!Release(m, a)
        PROVE  pc = "select" /\ pc' = "select"
    BY <2>5 DEF S!Decline, S!Release
  <2>6. ASSUME NEW a \in S!AskedIp, S!RequestAck(m, a, 0, 0)
        PROVE  pc = "select" /\ client'.mac = m
    BY <2>6 DEF S!RequestAck
  <2> QED
    BY <1>1, <2>1, <2>2, <2>3, <2>4, <2>5, <2>6
<1>6. SP!Undisturbed(Me)
  <2>1. CASE S!DiscoverKnown(m)
    BY <1>2, <1>4, <2>1, SameDiscover
  <2>2. ASSUME NEW a \in S!AskedIp, S!DiscoverRequested(m, a) PROVE SP!Undisturbed(Me)
    BY <1>2, <1>4, <2>2, SameDiscover
  <2>3. ASSUME NEW a \in S!AskedIp, S!Decline(m, a) \/ S!Release(m, a)
        PROVE  SP!Undisturbed(Me)
    BY <1>2, <1>4, <2>3, SameRequest
  <2>4. ASSUME NEW a \in S!AskedIp, S!DiscoverSearch(m, a) \/ S!RequestAck(m, a, 0, 0)
        PROVE  SP!Undisturbed(Me)
    BY <2>4 DEF S!DiscoverSearch, S!RequestAck, SP!Undisturbed
  <2> QED
    BY <1>1, <2>1, <2>2, <2>3, <2>4
<1>7. Serves
  BY <1>5 DEF ServeOthers, Serves
<1>8. OfNoConcern
  BY <1>2, <1>5, <1>6 DEF OfNoConcern
<1> QED
  BY <1>7, <1>8, OfNoConcernStep DEF ServeOthers

LEMMA ServerGoesOnLease ==
    ASSUME IInv, NoWrap, ServerGoesOn
    PROVE  LeaseParts'
<1>1. Me \in Mac /\ Me # ZeroMac
  BY SystemAssumption
<1>2. SP!CoreInv /\ SP!NoWrap /\ SP!StaticsOutside
  BY Hypotheses DEF IInv, SP!IInv
<1>3. UNCHANGED now
  BY DEF ServerGoesOn, S!NobodyAnswers, S!Skip, S!RememberOldest, S!Probe, S!ProbeOldest,
         S!Abandon, S!SomebodyAnswers, S!EnterLease
<1>4. Serves
  BY <1>3 DEF ServerGoesOn, Serves
<1>5. \A p \in toClient' : p \in toClient \/ p.type # "ACK"
  BY NotAck DEF ServerGoesOn
<1>6. ASSUME Open, Granted # {}, pc \in {"scan", "probe", "probeOldest"}
      PROVE  client.mac # Me
  BY <1>6 DEF IInv, Served
<1>7. CASE S!Skip \/ S!RememberOldest \/ S!Probe \/ S!ProbeOldest \/ S!Abandon
  <2>1. /\ pc = "scan" /\ pc' \in {"scan", "probe", "probeOldest", "select"}
        /\ pc' = "select" \/ client' = client
        /\ UNCHANGED leases
    BY <1>7 DEF S!Skip, S!RememberOldest, S!Probe, S!ProbeOldest, S!Abandon, S!Return,
                S!request
  <2>2. OfNoConcern
    BY <1>6, <2>1 DEF OfNoConcern, SP!Undisturbed
  <2> QED
    BY <1>4, <1>5, <2>2, OfNoConcernStep
<1>8. CASE S!NobodyAnswers
  <2>1. pc \in {"probe", "probeOldest"} /\ pc' = "select"
    BY <1>8 DEF S!NobodyAnswers, S!Reserve, S!Return
  <2>2. ASSUME client.mac # Me PROVE SP!Undisturbed(Me)
    BY <1>1, <1>2, <1>8, <2>2, SameAnswers, SP!ProbesUndisturbed, Addresses, Times, NoFile
  <2>3. OfNoConcern
    BY <1>6, <2>1, <2>2 DEF OfNoConcern
  <2> QED
    BY <1>4, <1>5, <2>3, OfNoConcernStep
<1>9. CASE S!SomebodyAnswers
  <2>1. /\ pc \in {"probe", "probeOldest"} /\ pc' \in {"scan", "select"}
        /\ pc' = "select" \/ client' = client
    BY <1>9 DEF S!SomebodyAnswers, S!Return
  <2>2. SP!Undisturbed(Me)
    BY <1>1, <1>2, <1>9, SameAnswers, SP!ProbesUndisturbed, Addresses, Times, NoFile
  <2>3. OfNoConcern
    BY <1>6, <2>1, <2>2 DEF OfNoConcern
  <2> QED
    BY <1>4, <1>5, <2>3, OfNoConcernStep
<1>10. CASE S!EnterLease /\ UNCHANGED toClient
  <2>1. pc = "ack" /\ pc' = "select"
    BY <1>10 DEF S!EnterLease, S!Return
  <2>2. CASE client.mac = Me
    BY <1>4, <1>10, <2>2, EnterOwnLease DEF ServerGoesOn
  <2>3. CASE client.mac # Me
    <3>1. SP!EnterLease
      BY <1>10, SameAnswers
    <3>2. SP!Undisturbed(Me)
      BY <1>1, <1>2, <2>3, <3>1, SP!EnterLeaseUndisturbed, Addresses, Times, NoFile
    <3>3. OfNoConcern
      BY <2>1, <2>3, <3>2 DEF OfNoConcern
    <3> QED
      BY <1>4, <1>5, <3>3, OfNoConcernStep
  <2> QED
    BY <2>2, <2>3
<1> QED
  BY <1>7, <1>8, <1>9, <1>10 DEF ServerGoesOn

-----------------------------------------------------------------------------
(* The system.                                                             *)

LEMMA UnchangedLease ==
    ASSUME IInv, UNCHANGED vars
    PROVE  LeaseParts'
<1>1. /\ UNCHANGED <<now, leases, pc, client, addr>>
      /\ UNCHANGED <<cpc, state, timeout, packet_num, offer, iface, left>>
      /\ UNCHANGED <<xid, toServer, toClient, declined>>
  BY DEF vars, serverVars, clientVars
<1>2. now \in Nat
  BY ServerFacts DEF IInv
<1>3. GoesOn /\ OnlyAsks
  BY <1>1, <1>2, ClientFacts DEF IInv, GoesOn, OnlyAsks, Open, Granted
<1> QED
  BY <1>1, <1>3, GoesOnStep

LEMMA InitPackets ==
    ASSUME Init
    PROVE  PacketsOK /\ LeaseParts
<1>1. /\ xid = 0 /\ servedXid = 0 /\ declined = 0
      /\ toServer = << >> /\ toClient = {}
      /\ packet_num = 0 /\ left = 0
  BY DEF Init, C!Init
<1>2. ~Open
  BY <1>1 DEF Open
<1>3. PacketsOK
  BY <1>1 DEF PacketsOK
<1>4. LeaseParts
  BY <1>1, <1>2, SystemAssumption
     DEF LeaseParts, Queued, Unasked, Served, AcksHeld, LeaseHeld, LeftOK
<1> QED
  BY <1>3, <1>4

LEMMA InitIInv == Init => IInv
<1> SUFFICES ASSUME Init PROVE IInv
  OBVIOUS
<1>1. SP!IInv
  <2>1. SP!Init
    BY SameInit DEF Init
  <2> QED
    BY <2>1, SP!InitIInv, Addresses, Times, NoFile
<1>2. CP!IInv
  <2>1. CP!Init
    BY SameClientInit DEF Init
  <2> QED
    BY <2>1, CP!InitInvariant, ClientTimes
<1> QED
  BY <1>1, <1>2, InitPackets DEF IInv, LeaseParts

LEMMA NextIInv ==
    ASSUME NoWrap, Careful, LongLeases, IInv, [Next]_vars
    PROVE  IInv'
<1>1. SP!IInv'
  BY ServerStep, ServerNext, Hypotheses DEF IInv
<1>2. CP!IInv'
  <2>1. CP!Careful
    BY DEF Careful, CP!Careful
  <2> QED
    BY <2>1, ClientStep, ClientNext DEF IInv
<1>3. PacketsOK'
  BY PacketsStep
<1>4. LeaseParts'
  BY ClientActsStep, ServeMeLease, ServeOthersLease, ServerGoesOnLease, ReceivesLease,
     TickLease, UnchangedLease DEF Next
<1> QED
  BY <1>1, <1>2, <1>3, <1>4 DEF IInv, LeaseParts

\* What the two programs and the packets between them keep to, at every step of
\* either: the table of the server, the lease of the client, and the queues.
THEOREM SystemInvariance ==
    ASSUME NoWrap, Careful, LongLeases
    PROVE  Spec => []IInv
<1>1. Init => IInv
  BY InitIInv
<1>2. IInv /\ [Next]_vars => IInv'
  BY NextIInv
<1> QED
  BY <1>1, <1>2, PTL DEF Spec

\* The server of the system is the one of Udhcpd, which serves any client at any
\* time, and its client the one of Udhcpc, which gets any packet at any time:
\* what is proved of each alone holds of it here, whatever the other sends.
THEOREM PartsAreThePrograms ==
    ASSUME NoWrap, Careful, LongLeases
    PROVE  Spec => SP!Spec /\ CP!Spec
<1>1. Init => SP!Init /\ CP!Init
  BY SameInit, SameClientInit DEF Init
<1>2. IInv /\ [Next]_vars => [SP!Next]_(SP!vars) /\ [CP!Next]_(CP!vars)
  BY ServerStep, ClientStep DEF IInv
<1> QED
  BY <1>1, <1>2, SystemInvariance, PTL DEF Spec, SP!Spec, CP!Spec

\* A client that has configured an address has not given up the transaction.
LEMMA UserIsOpen ==
    ASSUME IInv, UsesAddress
    PROVE  Open /\ iface \in S!Pool /\ iface # 0
<1>1. /\ cpc \in {"wait", "probe"} /\ iface # 0 /\ xid # declined
  BY DEF UsesAddress
<1>2. state \notin {"INIT_SELECTING", "RELEASED"} /\ iface \in S!Pool
  BY <1>1, ClientFacts DEF IInv
<1> QED
  BY <1>1, <1>2 DEF Open

LEMMA LeaseIsAgreed ==
    ASSUME IInv
    PROVE  LeaseAgreed
<1> SUFFICES ASSUME UsesAddress
             PROVE  Held(iface, now + left - MaxDelay)
  BY DEF LeaseAgreed, Held
<1> QED
  BY UserIsOpen DEF IInv, LeaseHeld, UsesAddress

\* Two slots for one address there are not, and a promise has its slot.
LEMMA NobodyElseUses ==
    ASSUME IInv
    PROVE  NoTwoUsers
<1> SUFFICES ASSUME UsesAddress, NEW m \in Others, S!Live(m), promise[m].nip = iface
             PROVE  FALSE
  BY DEF NoTwoUsers
<1>1. m \in Mac /\ m # Me /\ m # ZeroMac /\ Me \in Mac /\ Me # ZeroMac
  BY SystemAssumption DEF Others
<1>2. iface # 0
  BY UserIsOpen
<1>3. PICK s \in S!Slots : leases[s].mac = Me /\ leases[s].nip = iface
  BY LeaseIsAgreed, ServerFacts DEF IInv, LeaseAgreed
<1>4. PICK r \in S!Slots : leases[r].mac = m /\ leases[r].nip = iface
  <2>1. SP!Live(m) /\ ~SP!IsStatic(m)
    BY <1>1, SameServer, ServerFacts DEF IInv
  <2> QED
    BY <1>1, <2>1, SameServer DEF IInv, SP!IInv, SP!PromiseBacked
<1>5. \A q, t \in S!Slots : q # t /\ leases[q].nip # 0 => leases[q].nip # leases[t].nip
  BY SameServer DEF IInv, SP!IInv, SP!CoreInv, SP!TableInv, SP!Distinct
<1> QED
  BY <1>1, <1>2, <1>3, <1>4, <1>5

\* While the client uses an address the server has a slot for it that lasts as
\* long as the client counts, or is about to enter it: retries, losses, late and
\* repeated packets included.
THEOREM LeasesAgree ==
    ASSUME NoWrap, Careful, LongLeases
    PROVE  Spec => []LeaseAgreed
<1>1. IInv => LeaseAgreed
  BY LeaseIsAgreed
<1> QED
  BY <1>1, SystemInvariance, PTL

\* The address that the client uses is promised to no other client.
THEOREM NeverTwoUsers ==
    ASSUME NoWrap, Careful, LongLeases
    PROVE  Spec => []NoTwoUsers
<1>1. IInv => NoTwoUsers
  BY NobodyElseUses
<1> QED
  BY <1>1, SystemInvariance, PTL
=============================================================================

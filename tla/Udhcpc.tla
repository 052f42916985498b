------------------------------- MODULE Udhcpc -------------------------------
(***************************************************************************)
(* The DHCP client udhcpc (dhcpc.c): the loop of udhcpc_main() with its    *)
(* timer, its signals and the packets it receives.                         *)
(*                                                                         *)
(* Each turn of the loop waits in select() for what is left of "timeout",  *)
(* which is counted in seconds by two variables: "already_waited", the     *)
(* earlier waits that a packet cut short, and "slept", the one that runs.  *)
(* A turn is one step, except that checking an acknowledged address by ARP *)
(* takes up to ProbeTime seconds in which nothing else is served.          *)
(*                                                                         *)
(* Any packet may arrive while a socket is open, whoever sent it and       *)
(* however late: the network and the servers are not restricted.           *)
(*                                                                         *)
(* "iface" is the address the script has configured.  "left" and "leased"  *)
(* are not in the program: the seconds that remain of the lease last       *)
(* acknowledged, negative when it is over, and whether there ever was one. *)
(***************************************************************************)
EXTENDS Integers

CONSTANTS
    Ip,               \* addresses servers assign
    Options,          \* command line options that may be given: a,b,f,n,q,R
    DiscoverRetries, DiscoverTimeout, TryagainTimeout,  \* -t, -T and -A
    UnicastTime,      \* 60: no unicast renewal for shorter timeouts
    LeaseOption,      \* lease times in ACKs, NoOption included
    NoOption,         \* an ACK without lease time
    DefaultLease, LeaseFloor, LeaseCeiling, \* 3600, 0x10 and 0x0fffffff
    ProbeTime,        \* how long arpping() may take
    ReadErrors,       \* whether reading from the socket may fail
    IntMax            \* INT_MAX

ASSUME UdhcpcAssumption ==
    /\ Ip \subseteq Nat \ {0}
    /\ DiscoverRetries \in Nat \ {0} /\ DiscoverTimeout \in Nat \ {0}
    /\ TryagainTimeout \in Nat \ {0} /\ UnicastTime \in Nat \ {0}
    /\ LeaseOption \subseteq Int /\ NoOption \in Int \ Nat
    /\ DefaultLease \in Nat /\ LeaseFloor \in Nat /\ LeaseCeiling \in Nat
    /\ 2 <= LeaseFloor /\ LeaseFloor <= LeaseCeiling
    /\ LeaseFloor <= DefaultLease /\ DefaultLease <= LeaseCeiling
    /\ ProbeTime \in Nat /\ ReadErrors \in BOOLEAN /\ IntMax \in Nat
    /\ DiscoverTimeout <= IntMax /\ TryagainTimeout <= IntMax
    /\ LeaseCeiling <= IntMax

VARIABLES
    pc,              \* "wait" in select(), "probe" in arpping(), "exited" or,
                     \* for want of a lease, "failed"
    state, listen_mode,
    timeout, already_waited, slept,
    packet_num,      \* packets sent in this state
    requested_ip,
    opt,             \* the options that are still set
    offer,           \* while in arpping(): the address and the time in the ACK
    probed,          \* seconds spent in arpping()
    iface, left, leased

timer == <<timeout, already_waited, slept>>
probe == <<offer, probed>>
lease == <<iface, left, leased>>
vars == <<pc, state, listen_mode, timer, packet_num, requested_ip, opt, probe, lease>>

NoOffer == [ip |-> 0, time |-> 0]
Bound == {"BOUND", "RENEWING", "REBINDING"}
Asking == {"REQUESTING", "RENEWING", "RENEW_REQUESTED", "REBINDING"}

-----------------------------------------------------------------------------
(* What several turns have in common.                                      *)

\* Wait for t seconds from now on.
Wait(t) == timeout' = t /\ already_waited' = 0 /\ slept' = 0

\* udhcp_run_script(NULL, "deconfig")
Deconfig == iface' = 0 /\ left' = 0 /\ UNCHANGED leased

\* Back to INIT_SELECTING, to send a DISCOVER or to wait first.
Select(t) ==
    /\ state' = "INIT_SELECTING" /\ listen_mode' = "RAW"
    /\ packet_num' = 0
    /\ Wait(t)

\* The lease runs for t seconds.  Bound: it is not counted on for ever.
LongOver == -(ProbeTime + DiscoverTimeout)
Passes(t) ==
    left' = IF iface = 0 /\ pc # "probe" THEN left
            ELSE IF left - t < LongOver THEN LongOver ELSE left - t

TimerFired == pc = "wait" /\ already_waited + slept >= timeout
Selecting == pc = "wait" /\ already_waited + slept < timeout

LeaseSeconds(l) ==
    IF l = NoOption THEN DefaultLease
    ELSE IF l < LeaseFloor THEN LeaseFloor
    ELSE IF l > LeaseCeiling THEN LeaseCeiling ELSE l

\* Fault: a client that is rebinding has nothing to release.
ReleaseUnlessRebinding ==
    /\ IF state \in {"BOUND", "RENEWING"} THEN Deconfig ELSE UNCHANGED lease
    /\ listen_mode' = "NONE" /\ state' = "RELEASED"

\* perform_release()
PerformRelease ==
    /\ IF state \in Bound THEN Deconfig ELSE UNCHANGED lease
    /\ listen_mode' = "NONE" /\ state' = "RELEASED"

\* The label ret0.
Quit ==
    /\ pc' = "exited"
    /\ IF "R" \in opt THEN PerformRelease
       ELSE UNCHANGED <<listen_mode, state, lease>>

-----------------------------------------------------------------------------
(* select() timed out.                                                     *)

SendDiscover ==
    /\ TimerFired /\ state = "INIT_SELECTING"
    /\ packet_num < DiscoverRetries
    /\ packet_num' = packet_num + 1
    /\ Wait(DiscoverTimeout)
    /\ UNCHANGED <<pc, state, listen_mode, requested_ip, opt, probe, lease>>

SendSelect ==
    /\ TimerFired /\ state = "REQUESTING"
    /\ packet_num < DiscoverRetries
    /\ packet_num' = packet_num + 1
    /\ Wait(DiscoverTimeout)
    /\ UNCHANGED <<pc, state, listen_mode, requested_ip, opt, probe, lease>>

\* The label leasefail: go to the background, fail or try again.
NoAnswer ==
    /\ TimerFired /\ state \in {"INIT_SELECTING", "REQUESTING"}
    /\ packet_num >= DiscoverRetries

GiveUp ==
    /\ NoAnswer
    /\ "n" \in opt /\ "b" \notin opt
    /\ pc' = "failed"
    /\ UNCHANGED <<state, listen_mode, timer, packet_num, requested_ip, opt, probe, lease>>

\* Fault: the packets are not counted from zero again.
TryAgainCounting ==
    /\ NoAnswer
    /\ "b" \in opt \/ "n" \notin opt
    /\ opt' = IF "b" \in opt THEN (opt \ {"b"}) \cup {"f"} ELSE opt
    /\ state' = "INIT_SELECTING" /\ listen_mode' = "RAW"
    /\ Wait(TryagainTimeout)
    /\ UNCHANGED <<pc, packet_num, requested_ip, probe, lease>>

TryAgain ==
    /\ NoAnswer
    /\ "b" \in opt \/ "n" \notin opt
    /\ opt' = IF "b" \in opt THEN (opt \ {"b"}) \cup {"f"} ELSE opt
    /\ Select(TryagainTimeout)
    /\ UNCHANGED <<pc, requested_ip, probe, lease>>

\* The cases from BOUND to REBINDING, for a timeout of t seconds.
SendRenew(t, st, mode) ==
    /\ t > UnicastTime
    /\ state' = st /\ listen_mode' = mode
    /\ Wait(t \div 2)
    /\ UNCHANGED <<pc, packet_num, requested_ip, opt, probe, lease>>

SendRebind(t) ==
    /\ t > 0
    /\ state' = "REBINDING" /\ listen_mode' = "RAW"
    /\ Wait(t \div 2)
    /\ UNCHANGED <<pc, packet_num, requested_ip, opt, probe, lease>>

LoseLease(t) ==
    /\ t = 0
    /\ Deconfig
    /\ Select(0)
    /\ UNCHANGED <<pc, requested_ip, opt, probe>>

Renew(t, st, mode) ==
    \/ SendRenew(t, st, mode)
    \/ t <= UnicastTime /\ SendRebind(t)
    \/ LoseLease(t)

HalfLeasePassed ==
    /\ TimerFired /\ state = "BOUND"
    /\ Renew(timeout, "RENEWING", "KERNEL")

RenewUnanswered ==
    /\ TimerFired /\ state \in {"RENEWING", "RENEW_REQUESTED"}
    /\ Renew(timeout, state, listen_mode)

RebindUnanswered ==
    /\ TimerFired /\ state = "REBINDING"
    /\ SendRebind(timeout) \/ LoseLease(timeout)

SleepOn ==
    /\ TimerFired /\ state = "RELEASED"
    /\ Wait(IntMax)
    /\ UNCHANGED <<pc, state, listen_mode, packet_num, requested_ip, opt, probe, lease>>

InterfaceGone ==
    /\ TimerFired
    /\ Quit
    /\ UNCHANGED <<timer, packet_num, requested_ip, opt, probe>>

-----------------------------------------------------------------------------
(* Signals.                                                                *)

\* Fault: the socket stays closed.
RenewNowDeaf ==
    /\ Selecting /\ state \in Bound
    /\ Renew(IF timeout > TryagainTimeout THEN TryagainTimeout ELSE timeout,
             "RENEW_REQUESTED", listen_mode)

\* SIGUSR1 with a lease: the socket for the answer is opened first.
RenewNow ==
    /\ Selecting /\ state \in Bound
    /\ Renew(IF timeout > TryagainTimeout THEN TryagainTimeout ELSE timeout,
             "RENEW_REQUESTED",
             IF state = "BOUND" THEN "KERNEL" ELSE listen_mode)

\* SIGUSR1 without lease, or for the second time: "fine, square 1".
StartOver ==
    /\ Selecting /\ state \notin Bound
    /\ IF state = "RENEW_REQUESTED" THEN Deconfig ELSE UNCHANGED lease
    /\ Select(0)
    /\ UNCHANGED <<pc, requested_ip, opt, probe>>

\* SIGUSR2.  already_waited is not reset: the interrupted wait is added to it.
ReleaseNow ==
    /\ Selecting
    /\ PerformRelease
    /\ timeout' = IntMax
    /\ already_waited' = already_waited + slept /\ slept' = 0
    /\ UNCHANGED <<pc, packet_num, requested_ip, opt, probe>>

\* SIGTERM.
Terminate ==
    /\ Selecting
    /\ Quit
    /\ UNCHANGED <<timer, packet_num, requested_ip, opt, probe>>

-----------------------------------------------------------------------------
(* Packets.                                                                *)

Receiving == Selecting /\ listen_mode # "NONE"

\* Fault: the wait starts afresh.
IgnorePacketAfresh ==
    /\ Receiving
    /\ already_waited' = 0 /\ slept' = 0
    /\ UNCHANGED <<pc, state, listen_mode, timeout, packet_num, requested_ip, opt, probe, lease>>

\* Not ours, of another transaction, damaged, or not expected in this state.
IgnorePacket ==
    /\ Receiving
    /\ already_waited' = already_waited + slept /\ slept' = 0
    /\ UNCHANGED <<pc, state, listen_mode, timeout, packet_num, requested_ip, opt, probe, lease>>

\* The socket is reopened after a sleep, which counts as waiting.
ReadError ==
    /\ Receiving /\ ReadErrors
    /\ already_waited' = already_waited + slept + DiscoverTimeout /\ slept' = 0
    /\ Passes(DiscoverTimeout)
    /\ UNCHANGED <<pc, state, listen_mode, timeout, packet_num, requested_ip, opt, probe,
                   iface, leased>>

GetOffer(ip) ==
    /\ Receiving /\ state = "INIT_SELECTING"
    /\ requested_ip' = ip
    /\ state' = "REQUESTING" /\ packet_num' = 0
    /\ Wait(0)
    /\ UNCHANGED <<pc, listen_mode, opt, probe, lease>>

\* Fault: -n is kept.
OptionsKept == IF "f" \in opt THEN opt ELSE (opt \ {"b"}) \cup {"f"}

\* "future renew failures should not exit", and the background is entered.
OptionsWithLease ==
    IF "f" \in opt THEN opt \ {"n"} ELSE (opt \ {"n", "b"}) \cup {"f"}

\* The address is taken for l seconds; with -q the client exits, -R included.
Bind(ip, l) ==
    /\ requested_ip' = ip /\ leased' = TRUE
    /\ listen_mode' = "NONE"
    /\ Wait(l \div 2)
    /\ offer' = NoOffer /\ probed' = 0
    /\ IF "q" \in opt
         THEN /\ pc' = "exited" /\ UNCHANGED opt
              /\ state' = IF "R" \in opt THEN "RELEASED" ELSE "BOUND"
              /\ iface' = IF "R" \in opt THEN 0 ELSE ip
         ELSE /\ pc' = "wait" /\ opt' = OptionsWithLease
              /\ state' = "BOUND" /\ iface' = ip
    /\ UNCHANGED packet_num

GetAck(ip, l) ==
    /\ Receiving /\ state \in Asking /\ "a" \notin opt
    /\ Bind(ip, LeaseSeconds(l))
    /\ left' = LeaseSeconds(l)

\* With -a the address is probed first; requested_ip is still the old one.
GetAckToProbe(ip, l) ==
    /\ Receiving /\ state \in Asking /\ "a" \in opt
    /\ pc' = "probe" /\ probed' = 0
    /\ offer' = [ip |-> ip, time |-> LeaseSeconds(l)]
    /\ left' = LeaseSeconds(l)
    /\ UNCHANGED <<state, listen_mode, timer, packet_num, requested_ip, opt, iface, leased>>

ProbeUnanswered ==
    /\ pc = "probe"
    /\ Bind(offer.ip, offer.time)
    /\ UNCHANGED left

\* "Offered address is in use (got ARP reply), declining"
ProbeAnswered ==
    /\ pc = "probe"
    /\ pc' = "wait" /\ offer' = NoOffer /\ probed' = 0
    /\ requested_ip' = 0
    /\ iface' = (IF state # "REQUESTING" THEN 0 ELSE iface) /\ left' = 0
    /\ Select(TryagainTimeout)
    /\ UNCHANGED <<opt, leased>>

\* The sleep(3) after a NAK is left out: nothing is configured meanwhile.
GetNak ==
    /\ Receiving /\ state \in Asking
    /\ requested_ip' = 0
    /\ IF state # "REQUESTING" THEN Deconfig ELSE UNCHANGED lease
    /\ Select(0)
    /\ UNCHANGED <<pc, opt, probe>>

-----------------------------------------------------------------------------
Init ==
    /\ pc = "wait"
    /\ state = "INIT_SELECTING" /\ listen_mode = "RAW"
    /\ timeout = 0 /\ already_waited = 0 /\ slept = 0
    /\ packet_num = 0
    /\ requested_ip \in Ip \cup {0}
    /\ opt \in SUBSET Options
    /\ offer = NoOffer /\ probed = 0
    /\ iface = 0 /\ left = 0 /\ leased = FALSE

\* A second passes in select() or in arpping().
Tick ==
    /\ Passes(1)
    /\ \/ Selecting /\ slept' = slept + 1 /\ UNCHANGED probed
       \/ pc = "probe" /\ probed < ProbeTime /\ probed' = probed + 1 /\ UNCHANGED slept
    /\ UNCHANGED <<pc, state, listen_mode, timeout, already_waited, packet_num, requested_ip,
                   opt, offer, iface, leased>>

TimesOut ==
    \/ SendDiscover \/ SendSelect \/ GiveUp \/ TryAgain
    \/ HalfLeasePassed \/ RenewUnanswered \/ RebindUnanswered \/ SleepOn

Signalled == RenewNow \/ StartOver \/ ReleaseNow \/ Terminate

Receive ==
    \/ IgnorePacket \/ ReadError \/ GetNak
    \/ \E ip \in Ip :
        \/ GetOffer(ip)
        \/ \E l \in LeaseOption : GetAck(ip, l) \/ GetAckToProbe(ip, l)

Next == \/ Tick \/ TimesOut \/ InterfaceGone \/ Signalled \/ Receive
        \/ ProbeUnanswered \/ ProbeAnswered

Spec == Init /\ [][Next]_vars

\* Time passes, and the loop acts on a timeout.
FairSpec == Spec /\ WF_vars(Tick) /\ WF_vars(TimesOut)
                 /\ WF_vars(ProbeUnanswered \/ ProbeAnswered)

-----------------------------------------------------------------------------
UdhcpcTypeOK ==
    /\ pc \in {"wait", "probe", "exited", "failed"}
    /\ state \in Asking \cup {"INIT_SELECTING", "BOUND", "RELEASED"}
    /\ listen_mode \in {"NONE", "KERNEL", "RAW"}
    /\ timeout \in 0 .. IntMax
    /\ already_waited \in Nat /\ slept \in Nat
    /\ packet_num \in 0 .. DiscoverRetries
    /\ requested_ip \in Ip \cup {0}
    /\ opt \subseteq Options \cup {"f"}
    /\ offer \in [ip : Ip, time : LeaseFloor .. LeaseCeiling] \cup {NoOffer}
    /\ (pc = "probe") <=> (offer # NoOffer)
    /\ probed \in 0 .. ProbeTime
    /\ iface \in Ip \cup {0}
    /\ left \in Int
    /\ leased \in BOOLEAN

\* However often a wait is cut short by packets or by the user, and whichever
\* requests stay unanswered, the address is not used past its lease by more
\* than the time the ARP check took ("Lease is *really* about to run out").
LeaseRespected ==
    pc \in {"wait", "probe"} /\ iface # 0 => left >= IF "a" \in opt THEN -ProbeTime ELSE 0

\* A client that has asked for something has the socket open on which the
\* answer comes: before it has an address only the raw one can receive it, and
\* a renewal is answered on the kernel's ("Thus we open listen socket BEFORE
\* we send renew request").
ListensForAnswers ==
    pc = "wait" =>
        /\ state \in {"INIT_SELECTING", "REQUESTING", "REBINDING"} => listen_mode = "RAW"
        /\ state \in {"RENEWING", "RENEW_REQUESTED"} => listen_mode = "KERNEL"
        /\ state \in {"BOUND", "RELEASED"} => listen_mode = "NONE"

\* The states of the client tell whether the script has configured an address,
\* it is the one that renewals and the RELEASE carry as ciaddr, and after
\* "USR2: Release lease" there is none.
ConfiguredAsStated ==
    pc \in {"wait", "probe"} =>
        /\ state \in {"INIT_SELECTING", "REQUESTING"} => iface = 0
        /\ state \in Bound \cup {"RENEW_REQUESTED"} => iface # 0 /\ iface = requested_ip
        /\ state = "RELEASED" => iface = 0

\* -n gives up the first lease only: "future renew failures should not exit".
FailsOnlyWithoutLease == pc = "failed" => ~leased

\* A client that has no lease, and has neither been released nor stopped, never
\* falls silent: it keeps asking for one.
KeepsAsking ==
    \/ []<><<SendDiscover \/ SendSelect>>_vars
    \/ []<>(pc # "wait" \/ state \notin {"INIT_SELECTING", "REQUESTING"})
=============================================================================

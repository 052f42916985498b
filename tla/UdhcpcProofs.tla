---------------------------- MODULE UdhcpcProofs ----------------------------
(***************************************************************************)
(* Proofs about Udhcpc, for every value of its constants that satisfies    *)
(* UdhcpcAssumption, if the options are careful: an address is never used  *)
(* past its lease.  The invariant says how much of the lease is left at    *)
(* every moment of a wait: twice the timeout, less what has been waited    *)
(* and what an ARP check took.  Each request that stays unanswered halves  *)
(* the timeout, and so keeps it true whenever the wait was cut short.      *)
(***************************************************************************)
EXTENDS Udhcpc, TLAPS

\* With -A above 60 a SIGUSR2 may leave the address configured, and a sleep
\* after a read error may outlast the lease: two runs of TLC show how.
Careful == TryagainTimeout <= UnicastTime /\ ~ReadErrors

Slack == IF "a" \in opt THEN ProbeTime ELSE 0
Running == pc \in {"wait", "probe"}

Listens ==
    Running =>
        /\ state \in {"INIT_SELECTING", "REQUESTING", "REBINDING"} => listen_mode = "RAW"
        /\ state = "RENEWING" => listen_mode = "KERNEL"
        /\ state \in {"BOUND", "RELEASED"} => listen_mode = "NONE"

\* A short -A never leaves the client in RENEW_REQUESTED.
NeverRequested == state # "RENEW_REQUESTED"

Waits == Running => already_waited + slept <= timeout

LeaseLeft ==
    /\ pc = "wait" /\ state \in Bound =>
           left >= 2 * timeout - (already_waited + slept) - Slack
    /\ pc = "probe" => /\ "a" \in opt /\ state \in Asking
                       /\ left >= offer.time - probed

NoLongerNow == Running /\ leased => "n" \notin opt

IInv ==
    /\ UdhcpcTypeOK /\ Listens /\ NeverRequested /\ Waits /\ LeaseLeft
    /\ ConfiguredAsStated
    /\ FailsOnlyWithoutLease /\ NoLongerNow

USE DEF Asking, Bound, NoOffer, Running

LEMMA LeaseSecondsType ==
    ASSUME NEW l \in LeaseOption
    PROVE  LeaseSeconds(l) \in LeaseFloor .. LeaseCeiling
BY UdhcpcAssumption DEF LeaseSeconds

LEMMA HalfType ==
    ASSUME NEW t \in Nat
    PROVE  t \div 2 \in Nat /\ 2 * (t \div 2) <= t /\ t \div 2 <= t
OBVIOUS

LEMMA InitInvariant == Init => IInv
<1> SUFFICES ASSUME Init PROVE IInv
  OBVIOUS
<1>1. UdhcpcTypeOK
  <2>1. opt \subseteq Options \cup {"f"} /\ offer = NoOffer
    BY DEF Init
  <2>2. timeout \in 0 .. IntMax /\ packet_num \in 0 .. DiscoverRetries /\ probed \in 0 .. ProbeTime
    BY UdhcpcAssumption DEF Init
  <2>3. (pc = "probe") <=> (offer # NoOffer)
    <3>1. pc # "probe"
      BY DEF Init
    <3>2. QED
      BY <2>1, <3>1
  <2>4. requested_ip \in Ip \cup {0} /\ iface \in Ip \cup {0} /\ left \in Int
        /\ already_waited \in Nat /\ slept \in Nat
    BY DEF Init
  <2>5. leased \in BOOLEAN
    BY DEF Init
  <2>6. QED
    BY <2>1, <2>2, <2>3, <2>4, <2>5 DEF Init, UdhcpcTypeOK
<1>2. Listens /\ NeverRequested /\ Waits /\ LeaseLeft
  BY DEF Init, Listens, NeverRequested, Waits, LeaseLeft
<1>3. ConfiguredAsStated /\ FailsOnlyWithoutLease /\ NoLongerNow
  BY DEF Init, ConfiguredAsStated, FailsOnlyWithoutLease, NoLongerNow
<1>4. QED
  BY <1>1, <1>2, <1>3 DEF IInv

-----------------------------------------------------------------------------
LEMMA SendDiscoverKeeps == IInv /\ SendDiscover => IInv'
BY UdhcpcAssumption
   DEF SendDiscover, TimerFired, Wait, timer, probe, lease, IInv, UdhcpcTypeOK, Listens,
       NeverRequested, Waits, LeaseLeft, Slack, ConfiguredAsStated,
       FailsOnlyWithoutLease, NoLongerNow

LEMMA SendSelectKeeps == IInv /\ SendSelect => IInv'
BY UdhcpcAssumption
   DEF SendSelect, TimerFired, Wait, timer, probe, lease, IInv, UdhcpcTypeOK, Listens,
       NeverRequested, Waits, LeaseLeft, Slack, ConfiguredAsStated,
       FailsOnlyWithoutLease, NoLongerNow

LEMMA GiveUpKeeps == IInv /\ GiveUp => IInv'
BY UdhcpcAssumption
   DEF GiveUp, NoAnswer, TimerFired, Wait, timer, probe, lease, IInv, UdhcpcTypeOK, Listens,
       NeverRequested, Waits, LeaseLeft, Slack, ConfiguredAsStated,
       FailsOnlyWithoutLease, NoLongerNow

LEMMA TryAgainKeeps == IInv /\ TryAgain => IInv'
BY UdhcpcAssumption
   DEF TryAgain, NoAnswer, Select, TimerFired, Wait, timer, probe, lease, IInv, UdhcpcTypeOK, Listens,
       NeverRequested, Waits, LeaseLeft, Slack, ConfiguredAsStated,
       FailsOnlyWithoutLease, NoLongerNow

LEMMA SleepOnKeeps == IInv /\ SleepOn => IInv'
BY UdhcpcAssumption
   DEF SleepOn, TimerFired, Wait, timer, probe, lease, IInv, UdhcpcTypeOK, Listens,
       NeverRequested, Waits, LeaseLeft, Slack, ConfiguredAsStated,
       FailsOnlyWithoutLease, NoLongerNow

LEMMA IgnorePacketKeeps == IInv /\ IgnorePacket => IInv'
BY UdhcpcAssumption
   DEF IgnorePacket, Receiving, Selecting, TimerFired, Wait, timer, probe, lease, IInv, UdhcpcTypeOK, Listens,
       NeverRequested, Waits, LeaseLeft, Slack, ConfiguredAsStated,
       FailsOnlyWithoutLease, NoLongerNow

LEMMA StartOverKeeps == IInv /\ StartOver => IInv'
BY UdhcpcAssumption
   DEF StartOver, Selecting, Select, Deconfig, TimerFired, Wait, timer, probe, lease, IInv, UdhcpcTypeOK, Listens,
       NeverRequested, Waits, LeaseLeft, Slack, ConfiguredAsStated,
       FailsOnlyWithoutLease, NoLongerNow

LEMMA ReleaseNowKeeps == IInv /\ ReleaseNow => IInv'
BY UdhcpcAssumption
   DEF ReleaseNow, Selecting, PerformRelease, Deconfig, TimerFired, Wait, timer, probe, lease, IInv, UdhcpcTypeOK, Listens,
       NeverRequested, Waits, LeaseLeft, Slack, ConfiguredAsStated,
       FailsOnlyWithoutLease, NoLongerNow

LEMMA TerminateKeeps == IInv /\ Terminate => IInv'
BY UdhcpcAssumption
   DEF Terminate, Selecting, Quit, PerformRelease, Deconfig, TimerFired, Wait, timer, probe, lease, IInv, UdhcpcTypeOK, Listens,
       NeverRequested, Waits, LeaseLeft, Slack, ConfiguredAsStated,
       FailsOnlyWithoutLease, NoLongerNow

LEMMA InterfaceGoneKeeps == IInv /\ InterfaceGone => IInv'
BY UdhcpcAssumption
   DEF InterfaceGone, Quit, PerformRelease, Deconfig, TimerFired, Wait, timer, probe, lease, IInv, UdhcpcTypeOK, Listens,
       NeverRequested, Waits, LeaseLeft, Slack, ConfiguredAsStated,
       FailsOnlyWithoutLease, NoLongerNow

LEMMA ProbeAnsweredKeeps == IInv /\ ProbeAnswered => IInv'
BY UdhcpcAssumption
   DEF ProbeAnswered, Select, TimerFired, Wait, timer, probe, lease, IInv, UdhcpcTypeOK, Listens,
       NeverRequested, Waits, LeaseLeft, Slack, ConfiguredAsStated,
       FailsOnlyWithoutLease, NoLongerNow

LEMMA GetNakKeeps == IInv /\ GetNak => IInv'
BY UdhcpcAssumption
   DEF GetNak, Receiving, Selecting, Select, Deconfig, TimerFired, Wait, timer, probe, lease, IInv, UdhcpcTypeOK, Listens,
       NeverRequested, Waits, LeaseLeft, Slack, ConfiguredAsStated,
       FailsOnlyWithoutLease, NoLongerNow

-----------------------------------------------------------------------------
(* Renewals: t is the timeout, or the part of it that SIGUSR1 leaves.      *)

LEMMA RenewKeeps ==
    ASSUME NEW t \in 0 .. timeout, NEW st \in {"RENEWING", "RENEW_REQUESTED"}, NEW mode,
           IInv, pc = "wait", state \in Bound,
           Renew(t, st, mode),
           t > UnicastTime => st = "RENEWING" /\ mode = "KERNEL"
    PROVE  IInv'
<1>1. t \in Nat /\ t \div 2 \in Nat /\ 2 * (t \div 2) <= t
  BY HalfType DEF IInv, UdhcpcTypeOK
<1>2. CASE SendRenew(t, st, mode)
BY <1>1, <1>2, UdhcpcAssumption
   DEF SendRenew, TimerFired, Selecting, Wait, timer, probe, lease, IInv, UdhcpcTypeOK, Listens,
       NeverRequested, Waits, LeaseLeft, Slack, ConfiguredAsStated,
       FailsOnlyWithoutLease, NoLongerNow

<1>3. CASE t <= UnicastTime /\ SendRebind(t)
BY <1>1, <1>3, UdhcpcAssumption
   DEF SendRebind, TimerFired, Selecting, Wait, timer, probe, lease, IInv, UdhcpcTypeOK, Listens,
       NeverRequested, Waits, LeaseLeft, Slack, ConfiguredAsStated,
       FailsOnlyWithoutLease, NoLongerNow

<1>4. CASE LoseLease(t)
BY <1>1, <1>4, UdhcpcAssumption
   DEF LoseLease, Select, Deconfig, TimerFired, Selecting, Wait, timer, probe, lease, IInv, UdhcpcTypeOK, Listens,
       NeverRequested, Waits, LeaseLeft, Slack, ConfiguredAsStated,
       FailsOnlyWithoutLease, NoLongerNow

<1>5. QED
  BY <1>2, <1>3, <1>4 DEF Renew

LEMMA TickKeeps == IInv /\ Tick => IInv'
BY UdhcpcAssumption
   DEF Tick, Passes, LongOver, TimerFired, Selecting, Wait, timer, probe, lease, IInv, UdhcpcTypeOK, Listens,
       NeverRequested, Waits, LeaseLeft, Slack, ConfiguredAsStated,
       FailsOnlyWithoutLease, NoLongerNow

LEMMA GetOfferKeeps == IInv /\ (\E ip \in Ip : GetOffer(ip)) => IInv'
BY UdhcpcAssumption
   DEF GetOffer, Receiving, TimerFired, Selecting, Wait, timer, probe, lease, IInv, UdhcpcTypeOK, Listens,
       NeverRequested, Waits, LeaseLeft, Slack, ConfiguredAsStated,
       FailsOnlyWithoutLease, NoLongerNow

-----------------------------------------------------------------------------
(* Acknowledgements.                                                       *)

LEMMA BindKeeps ==
    ASSUME NEW ip \in Ip, NEW l \in LeaseFloor .. LeaseCeiling,
           IInv, Running,
           Bind(ip, l), left' \in Int,
           left' >= l - IF "a" \in opt THEN ProbeTime ELSE 0
    PROVE  IInv'
<1>1. l \in Nat /\ l \div 2 \in Nat /\ 2 * (l \div 2) <= l /\ l <= IntMax
  BY HalfType, UdhcpcAssumption
<1>2. OptionsWithLease \subseteq Options \cup {"f"} /\ "n" \notin OptionsWithLease
      /\ ("a" \in OptionsWithLease <=> "a" \in opt)
  BY DEF OptionsWithLease, IInv, UdhcpcTypeOK
<1>3. CASE "q" \in opt
  BY <1>1, <1>3, UdhcpcAssumption
     DEF Bind, Wait, IInv, UdhcpcTypeOK, Listens, NeverRequested, Waits, LeaseLeft,
         ConfiguredAsStated, FailsOnlyWithoutLease, NoLongerNow
<1>4. CASE "q" \notin opt
  BY <1>1, <1>2, <1>4, UdhcpcAssumption
     DEF Bind, Wait, IInv, UdhcpcTypeOK, Listens, NeverRequested, Waits, LeaseLeft, Slack,
         ConfiguredAsStated, FailsOnlyWithoutLease, NoLongerNow
<1>5. QED
  BY <1>3, <1>4

LEMMA GetAckKeeps ==
    ASSUME NEW ip \in Ip, NEW l \in LeaseOption, IInv, GetAck(ip, l)
    PROVE  IInv'
<1>1. LeaseSeconds(l) \in LeaseFloor .. LeaseCeiling
  BY LeaseSecondsType
<1>2. left' \in Int /\ left' >= LeaseSeconds(l)
  BY <1>1, UdhcpcAssumption DEF GetAck
<1>3. "a" \notin opt /\ Running /\ Bind(ip, LeaseSeconds(l))
  BY DEF GetAck, Receiving, Selecting
<1>4. QED
  BY <1>1, <1>2, <1>3, BindKeeps

LEMMA GetAckToProbeKeeps ==
    ASSUME NEW ip \in Ip, NEW l \in LeaseOption, IInv, GetAckToProbe(ip, l)
    PROVE  IInv'
<1>1. LeaseSeconds(l) \in LeaseFloor .. LeaseCeiling
  BY LeaseSecondsType
<1>2. [ip |-> ip, time |-> LeaseSeconds(l)] # NoOffer
  BY <1>1, UdhcpcAssumption
<1>3. QED
  BY <1>1, <1>2, UdhcpcAssumption
     DEF GetAckToProbe, Receiving, Selecting, timer, IInv, UdhcpcTypeOK, Listens,
         NeverRequested, Waits, LeaseLeft, ConfiguredAsStated,
         FailsOnlyWithoutLease, NoLongerNow

LEMMA ProbeUnansweredKeeps == IInv /\ ProbeUnanswered => IInv'
<1> SUFFICES ASSUME IInv, ProbeUnanswered PROVE IInv'
  OBVIOUS
<1>1. offer.ip \in Ip /\ offer.time \in LeaseFloor .. LeaseCeiling /\ "a" \in opt
  BY DEF IInv, ProbeUnanswered, UdhcpcTypeOK, LeaseLeft
<1>2. left' \in Int /\ left' >= offer.time - ProbeTime
  BY <1>1, UdhcpcAssumption DEF IInv, ProbeUnanswered, UdhcpcTypeOK, LeaseLeft
<1>3. Running /\ Bind(offer.ip, offer.time)
  BY DEF ProbeUnanswered
<1>4. QED
  BY <1>1, <1>2, <1>3, BindKeeps

-----------------------------------------------------------------------------
LEMMA HalfLeasePassedKeeps == IInv /\ HalfLeasePassed => IInv'
<1> SUFFICES ASSUME IInv, HalfLeasePassed PROVE IInv'
  OBVIOUS
<1>1. timeout \in 0 .. timeout /\ pc = "wait" /\ state \in Bound
  BY DEF IInv, UdhcpcTypeOK, HalfLeasePassed, TimerFired
<1>2. QED
  BY <1>1, RenewKeeps DEF HalfLeasePassed

LEMMA RenewUnansweredKeeps == IInv /\ RenewUnanswered => IInv'
<1> SUFFICES ASSUME IInv, RenewUnanswered PROVE IInv'
  OBVIOUS
<1>1. timeout \in 0 .. timeout /\ pc = "wait" /\ state = "RENEWING" /\ listen_mode = "KERNEL"
  BY DEF IInv, UdhcpcTypeOK, RenewUnanswered, TimerFired, NeverRequested, Listens
<1>2. QED
  BY <1>1, RenewKeeps DEF RenewUnanswered

LEMMA RebindUnansweredKeeps == IInv /\ RebindUnanswered => IInv'
<1> SUFFICES ASSUME IInv, RebindUnanswered PROVE IInv'
  OBVIOUS
<1>1. timeout \in Nat /\ timeout \div 2 \in Nat /\ 2 * (timeout \div 2) <= timeout
  BY HalfType DEF IInv, UdhcpcTypeOK
<1>2. CASE SendRebind(timeout)
  BY <1>1, <1>2, UdhcpcAssumption
     DEF RebindUnanswered, SendRebind, TimerFired, Wait, timer, probe, lease, IInv,
         UdhcpcTypeOK, Listens, NeverRequested, Waits, LeaseLeft, Slack, ConfiguredAsStated,
         FailsOnlyWithoutLease, NoLongerNow
<1>3. CASE LoseLease(timeout)
  BY <1>1, <1>3, UdhcpcAssumption
     DEF RebindUnanswered, LoseLease, Select, Deconfig, TimerFired, Wait, timer, probe, lease,
         IInv, UdhcpcTypeOK, Listens, NeverRequested, Waits, LeaseLeft, ConfiguredAsStated,
         FailsOnlyWithoutLease, NoLongerNow
<1>4. QED
  BY <1>2, <1>3 DEF RebindUnanswered

\* SIGUSR1 shortens the timeout to at most -A, and so renews by broadcast.
LEMMA RenewNowKeeps == Careful /\ IInv /\ RenewNow => IInv'
<1> SUFFICES ASSUME Careful, IInv, RenewNow PROVE IInv'
  OBVIOUS
<1> DEFINE t == IF timeout > TryagainTimeout THEN TryagainTimeout ELSE timeout
           mode == IF state = "BOUND" THEN "KERNEL" ELSE listen_mode
<1>1. t \in 0 .. timeout /\ t <= UnicastTime
  BY UdhcpcAssumption DEF Careful, IInv, UdhcpcTypeOK
<1>2. pc = "wait" /\ state \in Bound /\ Renew(t, "RENEW_REQUESTED", mode)
  BY DEF RenewNow, Selecting
<1>3. ~(t > UnicastTime)
  BY <1>1, UdhcpcAssumption DEF IInv, UdhcpcTypeOK
<1> HIDE DEF t, mode
<1>4. QED
  BY <1>1, <1>2, <1>3, RenewKeeps

-----------------------------------------------------------------------------
LEMMA StutterKeeps == IInv /\ UNCHANGED vars => IInv'
BY DEF vars, timer, probe, lease, IInv, UdhcpcTypeOK, Listens, NeverRequested, Waits,
       LeaseLeft, Slack, ConfiguredAsStated, FailsOnlyWithoutLease,
       NoLongerNow

LEMMA NextKeeps == Careful /\ IInv /\ [Next]_vars => IInv'
<1> SUFFICES ASSUME Careful, IInv, [Next]_vars PROVE IInv'
  OBVIOUS
<1>1. CASE Tick
  BY <1>1, TickKeeps
<1>2. CASE TimesOut
  BY <1>2, SendDiscoverKeeps, SendSelectKeeps, GiveUpKeeps, TryAgainKeeps, HalfLeasePassedKeeps,
     RenewUnansweredKeeps, RebindUnansweredKeeps, SleepOnKeeps DEF TimesOut
<1>3. CASE InterfaceGone
  BY <1>3, InterfaceGoneKeeps
<1>4. CASE Signalled
  BY <1>4, RenewNowKeeps, StartOverKeeps, ReleaseNowKeeps, TerminateKeeps DEF Signalled
<1>5. CASE Receive
  BY <1>5, IgnorePacketKeeps, GetNakKeeps, GetOfferKeeps, GetAckKeeps, GetAckToProbeKeeps
     DEF Careful, Receive, ReadError
<1>6. CASE ProbeUnanswered \/ ProbeAnswered
  BY <1>6, ProbeUnansweredKeeps, ProbeAnsweredKeeps
<1>7. CASE UNCHANGED vars
  BY <1>7, StutterKeeps
<1>8. QED
  BY <1>1, <1>2, <1>3, <1>4, <1>5, <1>6, <1>7 DEF Next

\* The invariant holds in every state of the client.
THEOREM ClientInvariance ==
    ASSUME Careful
    PROVE  Spec => []IInv
<1>1. Init => IInv
  BY InitInvariant
<1>2. IInv /\ [Next]_vars => IInv'
  BY NextKeeps
<1>3. QED
  BY <1>1, <1>2, PTL DEF Spec

\* udhcpc's variables have their types.
THEOREM ClientTypeCorrect ==
    ASSUME Careful
    PROVE  Spec => []UdhcpcTypeOK
<1>1. IInv => UdhcpcTypeOK
  BY DEF IInv
<1>2. QED
  BY <1>1, ClientInvariance, PTL

\* An address is not used past its lease: the halving of the timeout in the
\* cases BOUND to REBINDING, whatever packets and signals cut the waits short.
THEOREM LeasesAreRespected ==
    ASSUME Careful
    PROVE  Spec => []LeaseRespected
<1>1. IInv => LeaseRespected
  <2> SUFFICES ASSUME IInv, pc \in {"wait", "probe"}, iface # 0
               PROVE  left >= IF "a" \in opt THEN -ProbeTime ELSE 0
    BY DEF LeaseRespected
  <2>1. CASE pc = "wait"
    <3>1. state \in Bound
      BY <2>1 DEF IInv, ConfiguredAsStated, NeverRequested, UdhcpcTypeOK
    <3>2. left >= 2 * timeout - (already_waited + slept) - Slack
          /\ already_waited + slept <= timeout
      BY <2>1, <3>1 DEF IInv, LeaseLeft, Waits
    <3>3. QED
      BY <3>2, UdhcpcAssumption DEF IInv, UdhcpcTypeOK, Slack
  <2>2. CASE pc = "probe"
    BY <2>2, UdhcpcAssumption DEF IInv, UdhcpcTypeOK, LeaseLeft
  <2>3. QED
    BY <2>1, <2>2
<1>2. QED
  BY <1>1, ClientInvariance, PTL

\* The right socket is open whenever an answer is due (change_listen_mode()).
THEOREM AnswersAreListenedFor ==
    ASSUME Careful
    PROVE  Spec => []ListensForAnswers
<1>1. IInv => ListensForAnswers
  BY DEF IInv, Listens, NeverRequested, ListensForAnswers
<1>2. QED
  BY <1>1, ClientInvariance, PTL

\* The state tells whether an address is configured, and which one.
THEOREM StateTellsConfiguration ==
    ASSUME Careful
    PROVE  Spec => []ConfiguredAsStated
<1>1. IInv => ConfiguredAsStated
  BY DEF IInv
<1>2. QED
  BY <1>1, ClientInvariance, PTL

\* "Future renew failures should not exit": -n ends with the first lease.
THEOREM NoFailureWithLease ==
    ASSUME Careful
    PROVE  Spec => []FailsOnlyWithoutLease
<1>1. IInv => FailsOnlyWithoutLease
  BY DEF IInv
<1>2. QED
  BY <1>1, ClientInvariance, PTL
=============================================================================

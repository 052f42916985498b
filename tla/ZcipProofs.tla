----------------------------- MODULE ZcipProofs -----------------------------
(***************************************************************************)
(* Types of Zcip, and that the interface has zcip's address exactly from   *)
(* "config" to "deconfig", whatever packets come, are lost, or cross; and, *)
(* as long as none is lost, that hosts which probe neither share an        *)
(* address nor lose theirs to each other (LinkInv).                        *)
(***************************************************************************)
EXTENDS Zcip, TLAPS

Agrees(r) == r.iface = IF r.state \in {"MONITOR", "DEFEND", "quit"} THEN r.ip ELSE NoIp

LEMMA Constants ==
    /\ NoIp \notin Ips /\ NoHost \notin Hosts /\ Ips # {}
    /\ ProbeWait \in Nat /\ ProbeMin \in Nat /\ ProbeMax \in Nat /\ ProbeNum \in Nat
    /\ MaxConflicts \in Nat /\ AnnounceNum \in Nat /\ AnnounceInterval \in Nat
    /\ DefendInterval \in Nat /\ MaxLost \in Nat
BY ZcipAssumption

\* A host that is given a record of the right kind leaves ZcipTypeOK true.
LEMMA SetKeeps ==
    ASSUME ZcipTypeOK, NEW h \in Hosts, NEW r \in Host, Agrees(r), Set(h, r),
           inbox' \in [Hosts -> Seq(Packet)], lost' \in 0..MaxLost
    PROVE  ZcipTypeOK'
<1>1. host' \in [Hosts -> Host] BY DEF ZcipTypeOK, Set
<1>2. ASSUME NEW g \in Hosts PROVE Agrees(host'[g])
  <2>1. CASE g = h BY <2>1 DEF ZcipTypeOK, Set
  <2>2. CASE g # h
    <3>1. host'[g] = host[g] BY <2>2 DEF ZcipTypeOK, Set
    <3> QED BY <3>1 DEF ZcipTypeOK, Agrees
  <2> QED BY <2>1, <2>2
<1> QED BY <1>1, <1>2 DEF ZcipTypeOK, Agrees

\* What is broadcast, and the kernels' answers to it, are packets.
LEMMA AnswersType ==
    ASSUME NEW h \in Hosts, NEW p \in Packet
    PROVE  Answers(h, p) \in Seq(Packet)
<1>1. CASE Answering(h, p) = {} BY <1>1 DEF Answers
<1>2. CASE Answering(h, p) # {}
  <2> DEFINE g == CHOOSE g \in Answering(h, p) : TRUE
  <2>1. g \in Hosts BY <1>2 DEF Answering
  <2> HIDE DEF g
  <2>2. [op |-> "REPLY", src |-> g, spa |-> p.tpa, tha |-> h, tpa |-> p.tpa] \in Packet
    BY <2>1 DEF Packet
  <2>3. Answers(h, p) = <<[op |-> "REPLY", src |-> g, spa |-> p.tpa, tha |-> h,
                           tpa |-> p.tpa]>>
    BY <1>2 DEF Answers, g
  <2> QED BY <2>2, <2>3
<1> QED BY <1>1, <1>2

LEMMA BroadcastType ==
    ASSUME NEW q \in [Hosts -> Seq(Packet)], NEW h \in Hosts, NEW p \in Packet
    PROVE  Broadcast(q, h, p) \in [Hosts -> Seq(Packet)]
<1>1. Answers(h, p) \in Seq(Packet) /\ <<p>> \in Seq(Packet) BY AnswersType
<1>2. ASSUME NEW g \in Hosts
      PROVE  (IF ~Runs(g) THEN q[g]
              ELSE q[g] \o IF g = h THEN Answers(h, p) ELSE <<p>>) \in Seq(Packet)
  BY <1>1
<1> QED BY <1>2 DEF Broadcast

\* A host that runs zcip has chosen an address, which its packets are about.
HasAddress == \A h \in Hosts : host[h].state # "off" => host[h].ip \in Ips

Inv == ZcipTypeOK /\ HasAddress

LEMMA PacketsOf ==
    ASSUME Inv, NEW h \in Hosts, Runs(h)
    PROVE  ProbeOf(h) \in Packet /\ ClaimOf(h) \in Packet
BY DEF Inv, ZcipTypeOK, HasAddress, Runs, Running, Host, ProbeOf, ClaimOf, Packet

\* Most steps give one host a new record, with an address.
LEMMA SetKeepsInv ==
    ASSUME Inv, NEW h \in Hosts, NEW r \in Host, Agrees(r),
           r.state # "off" => r.ip \in Ips, Set(h, r),
           inbox' \in [Hosts -> Seq(Packet)], lost' \in 0..MaxLost
    PROVE  Inv'
<1>1. ZcipTypeOK' BY SetKeeps DEF Inv
<1>2. ASSUME NEW g \in Hosts, host'[g].state # "off" PROVE host'[g].ip \in Ips
  BY <1>2 DEF Inv, ZcipTypeOK, HasAddress, Set
<1> QED BY <1>1, <1>2 DEF Inv, HasAddress

\* What the actions may count on about the record they change.
LEMMA Known ==
    ASSUME Inv, NEW h \in Hosts
    PROVE  /\ host \in [Hosts -> Host] /\ inbox \in [Hosts -> Seq(Packet)]
           /\ lost \in 0..MaxLost /\ host[h] \in Host /\ Agrees(host[h])
           /\ host[h].state # "off" => host[h].ip \in Ips
           /\ host[h].nprobes \in 0..ProbeNum /\ host[h].nclaims \in 0..AnnounceNum
           /\ host[h].conflicts \in 0..MaxConflicts
BY DEF Inv, ZcipTypeOK, HasAddress, Host, Agrees

LEMMA SendsType ==
    ASSUME Inv, NEW h \in Hosts, NEW p \in Packet, Sends(h, p)
    PROVE  inbox' \in [Hosts -> Seq(Packet)] /\ lost' \in 0..MaxLost
BY BroadcastType, Known DEF Sends

LEMMA BootStep ==
    ASSUME Inv, NEW h \in Hosts, Boot(h) PROVE Inv'
<1>1. PICK a \in Ips, t \in Restarts :
          Set(h, [state |-> "PROBE", ip |-> a, timer |-> t, nprobes |-> 0,
                  nclaims |-> 0, conflicts |-> 0, iface |-> NoIp])
  BY DEF Boot
<1> DEFINE r == [state |-> "PROBE", ip |-> a, timer |-> t, nprobes |-> 0,
                 nclaims |-> 0, conflicts |-> 0, iface |-> NoIp]
<1>2. r \in Host /\ Agrees(r) /\ r.ip \in Ips
  BY Constants DEF Host, Running, Agrees, Restarts
<1>3. inbox' = inbox /\ lost' = lost BY DEF Boot
<1> HIDE DEF r
<1>4. Set(h, r) BY <1>1 DEF r
<1> QED BY <1>2, <1>3, <1>4, Known, SetKeepsInv

LEMMA OffType == Off \in Host /\ Agrees(Off) /\ Off.state = "off"
BY Constants DEF Off, Host, Running, Agrees, Never

LEMMA LinkDownStep ==
    ASSUME Inv, NEW h \in Hosts, LinkDown(h) PROVE Inv'
<1>1. inbox' = inbox /\ lost' = lost /\ Set(h, Off) BY DEF LinkDown
<1> QED BY <1>1, OffType, Known, SetKeepsInv

LEMMA DieStep ==
    ASSUME Inv, NEW h \in Hosts, Die(h) PROVE Inv'
<1>1. inbox' \in [Hosts -> Seq(Packet)] /\ lost' \in 0..MaxLost BY Known DEF Die
<1>2. CASE host[h].iface = NoIp
  <2>1. Set(h, Off) BY <1>2 DEF Die
  <2> QED BY <1>1, <2>1, OffType, SetKeepsInv
<1>3. CASE host[h].iface # NoIp
  <2> DEFINE r == [host[h] EXCEPT !.state = "quit", !.timer = Never]
  <2>1. Set(h, r) BY <1>3 DEF Die
  <2>2. host[h] \in Host /\ Agrees(host[h]) /\ Never \in Int BY Known DEF Never
  <2>3. host[h].state \in {"MONITOR", "DEFEND", "quit"} BY <1>3, <2>2 DEF Agrees
  <2>4. host[h].ip \in Ips /\ host[h].iface = host[h].ip BY <2>2, <2>3, Known DEF Agrees
  <2>5. r \in Host /\ Agrees(r) /\ r.ip \in Ips BY <2>2, <2>4 DEF Host, Agrees
  <2> HIDE DEF r
  <2> QED BY <1>1, <2>1, <2>5, SetKeepsInv
<1> QED BY <1>2, <1>3

LEMMA ProbeStep ==
    ASSUME Inv, NEW h \in Hosts, Probe(h) PROVE Inv'
<1>1. PICK t \in ProbeMin..ProbeMax :
          Set(h, [host[h] EXCEPT !.nprobes = @ + 1, !.timer = t])
  BY DEF Probe
<1> DEFINE r == [host[h] EXCEPT !.nprobes = @ + 1, !.timer = t]
<1>2. t \in Int BY Constants
<1>3. host[h].state = "PROBE" /\ host[h].nprobes < ProbeNum BY DEF Probe
<1>4. r \in Host /\ Agrees(r) /\ (r.state # "off" => r.ip \in Ips)
  <2>1. PICK n : n = host[h].nprobes + 1 OBVIOUS
  <2>2. n \in 0..ProbeNum BY <1>3, <2>1, Known, Constants
  <2>3. r = [host[h] EXCEPT !.nprobes = n, !.timer = t] BY <2>1
  <2>4. host[h] \in Host /\ Agrees(host[h]) /\ host[h].ip \in Ips BY <1>3, Known
  <2> HIDE DEF r
  <2> QED BY <1>2, <1>3, <2>2, <2>3, <2>4 DEF Host, Agrees
<1>5. inbox' \in [Hosts -> Seq(Packet)] /\ lost' \in 0..MaxLost
  BY PacketsOf, SendsType DEF Probe, Due
<1> HIDE DEF r
<1>6. Set(h, r) BY <1>1 DEF r
<1> QED BY <1>4, <1>5, <1>6, SetKeepsInv

LEMMA AnnounceStep ==
    ASSUME Inv, NEW h \in Hosts, Announce(h) PROVE Inv'
<1> DEFINE r == [host[h] EXCEPT !.state = "ANNOUNCE", !.nclaims = 0,
                                !.timer = AnnounceInterval]
<1>1. host[h].state \in {"PROBE", "RATE_LIMIT_PROBE"} BY DEF Announce
<1>2. r \in Host /\ Agrees(r) /\ (r.state # "off" => r.ip \in Ips)
  <2>1. 0 \in 0..AnnounceNum /\ AnnounceInterval \in Int BY Constants
  <2>2. host[h] \in Host /\ Agrees(host[h]) /\ host[h].ip \in Ips
    BY <1>1, Known
  <2> QED BY <1>1, <2>1, <2>2 DEF Host, Agrees, Running
<1>3. inbox' \in [Hosts -> Seq(Packet)] /\ lost' \in 0..MaxLost
  BY PacketsOf, SendsType DEF Announce, Due
<1>4. Set(h, r) BY DEF Announce
<1> HIDE DEF r
<1> QED BY <1>2, <1>3, <1>4, SetKeepsInv

LEMMA ClaimAgainStep ==
    ASSUME Inv, NEW h \in Hosts, ClaimAgain(h) PROVE Inv'
<1> DEFINE r == [host[h] EXCEPT !.nclaims = @ + 1, !.timer = AnnounceInterval]
<1>1. host[h].state = "ANNOUNCE" /\ host[h].nclaims < AnnounceNum BY DEF ClaimAgain
<1>2. r \in Host /\ Agrees(r) /\ (r.state # "off" => r.ip \in Ips)
  <2>1. PICK n : n = host[h].nclaims + 1 OBVIOUS
  <2>2. n \in 0..AnnounceNum /\ AnnounceInterval \in Int BY <1>1, <2>1, Known, Constants
  <2>3. r = [host[h] EXCEPT !.nclaims = n, !.timer = AnnounceInterval] BY <2>1
  <2>4. host[h] \in Host /\ Agrees(host[h]) /\ host[h].ip \in Ips BY <1>1, Known
  <2> HIDE DEF r
  <2> QED BY <1>1, <2>2, <2>3, <2>4 DEF Host, Agrees
<1>3. inbox' \in [Hosts -> Seq(Packet)] /\ lost' \in 0..MaxLost
  BY PacketsOf, SendsType DEF ClaimAgain, Due
<1>4. Set(h, r) BY DEF ClaimAgain
<1> HIDE DEF r
<1> QED BY <1>2, <1>3, <1>4, SetKeepsInv

LEMMA ConfigureStep ==
    ASSUME Inv, NEW h \in Hosts, Configure(h) PROVE Inv'
<1>1. PICK s \in {"MONITOR", "quit"} :
          /\ Set(h, [host[h] EXCEPT !.state = s, !.iface = host[h].ip, !.conflicts = 0,
                                    !.timer = Never])
          /\ inbox' = IF s = "quit" THEN [inbox EXCEPT ![h] = <<>>] ELSE inbox
  BY DEF Configure
<1> DEFINE r == [host[h] EXCEPT !.state = s, !.iface = host[h].ip, !.conflicts = 0,
                                !.timer = Never]
<1>2. host[h].state = "ANNOUNCE" /\ lost' = lost BY DEF Configure
<1>3. r \in Host /\ Agrees(r) /\ (r.state # "off" => r.ip \in Ips)
  <2>1. 0 \in 0..MaxConflicts /\ Never \in Int BY Constants DEF Never
  <2>2. host[h] \in Host /\ Agrees(host[h]) /\ host[h].ip \in Ips BY <1>2, Known
  <2> QED BY <1>2, <2>1, <2>2 DEF Host, Agrees, Running
<1>4. inbox' \in [Hosts -> Seq(Packet)] BY <1>1, Known
<1> HIDE DEF r
<1>5. Set(h, r) BY <1>1 DEF r
<1> QED BY <1>2, <1>3, <1>4, <1>5, Known, SetKeepsInv

LEMMA WonStep ==
    ASSUME Inv, NEW h \in Hosts, Won(h) PROVE Inv'
<1> DEFINE r == [host[h] EXCEPT !.state = "MONITOR", !.conflicts = 0, !.timer = Never]
<1>1. host[h].state = "DEFEND" /\ inbox' = inbox /\ lost' = lost /\ Set(h, r)
  BY DEF Won
<1>2. r \in Host /\ Agrees(r) /\ (r.state # "off" => r.ip \in Ips)
  <2>1. 0 \in 0..MaxConflicts /\ Never \in Int BY Constants DEF Never
  <2>2. host[h] \in Host /\ Agrees(host[h]) /\ host[h].ip \in Ips BY <1>1, Known
  <2> QED BY <1>1, <2>1, <2>2 DEF Host, Agrees, Running
<1> HIDE DEF r
<1> QED BY <1>1, <1>2, Known, SetKeepsInv

-----------------------------------------------------------------------------
\* Every way to handle a packet gives the host such a record.
LEMMA HandlersStep ==
    ASSUME Inv, NEW h \in Hosts, Runs(h), NEW p,
           Repick(h, p) \/ StartOver(h, p) \/ Defend(h, p) \/ GiveUp(h, p) \/ Ignore(h, p),
           inbox' \in [Hosts -> Seq(Packet)], lost' \in 0..MaxLost
    PROVE  Inv'
<1>1. CASE Repick(h, p)
  <2>1. PICK a \in Ips, t \in Restarts, s \in {host[h].state, "RATE_LIMIT_PROBE"} :
            Set(h, [host[h] EXCEPT !.state = s, !.ip = a, !.timer = t, !.nprobes = 0,
                                   !.nclaims = 0,
                                   !.conflicts = IF @ < MaxConflicts THEN @ + 1 ELSE @])
    BY <1>1 DEF Repick
  <2> DEFINE r == [host[h] EXCEPT !.state = s, !.ip = a, !.timer = t, !.nprobes = 0,
                                  !.nclaims = 0,
                                  !.conflicts = IF @ < MaxConflicts THEN @ + 1 ELSE @]
  <2>2. t \in Int /\ host[h].state \in {"PROBE", "ANNOUNCE"}
    <3>1. t \in Int BY Constants DEF Restarts
    <3>2. host[h].state \in {"PROBE", "ANNOUNCE"} BY ONLY <1>1 DEF Repick
    <3> QED BY <3>1, <3>2
  <2>3. r \in Host /\ Agrees(r) /\ r.ip \in Ips
    <3>1. PICK c : c = IF host[h].conflicts < MaxConflicts THEN host[h].conflicts + 1
                       ELSE host[h].conflicts
      OBVIOUS
    <3>2. c \in 0..MaxConflicts /\ 0 \in 0..ProbeNum /\ 0 \in 0..AnnounceNum
      BY <3>1, Known, Constants
    <3>3. r = [host[h] EXCEPT !.state = s, !.ip = a, !.timer = t, !.nprobes = 0,
                              !.nclaims = 0, !.conflicts = c]
      BY <3>1
    <3>4. host[h] \in Host /\ Agrees(host[h]) BY Known
    <3> HIDE DEF r
    <3> QED BY <2>2, <3>2, <3>3, <3>4 DEF Host, Agrees, Running
  <2> HIDE DEF r
  <2>4. Set(h, r) BY <2>1 DEF r
  <2> QED BY <2>3, <2>4, SetKeepsInv
<1>2. CASE StartOver(h, p)
  <2>1. PICK a \in Ips, t \in Restarts :
            Set(h, [host[h] EXCEPT !.state = "PROBE", !.ip = a, !.timer = t,
                                   !.nprobes = 0, !.nclaims = 0])
    BY <1>2 DEF StartOver
  <2> DEFINE r == [host[h] EXCEPT !.state = "PROBE", !.ip = a, !.timer = t,
                                  !.nprobes = 0, !.nclaims = 0]
  <2>2. t \in Int /\ host[h].state = "RATE_LIMIT_PROBE"
    <3>1. t \in Int BY Constants DEF Restarts
    <3>2. host[h].state = "RATE_LIMIT_PROBE" BY ONLY <1>2 DEF StartOver
    <3> QED BY <3>1, <3>2
  <2>3. r \in Host /\ Agrees(r) /\ r.ip \in Ips
    <3>1. 0 \in 0..ProbeNum /\ 0 \in 0..AnnounceNum BY Constants
    <3>2. host[h] \in Host /\ Agrees(host[h]) BY Known
    <3> QED BY <2>2, <3>1, <3>2 DEF Host, Agrees, Running
  <2> HIDE DEF r
  <2>4. Set(h, r) BY <2>1 DEF r
  <2> QED BY <2>3, <2>4, SetKeepsInv
<1>3. CASE Defend(h, p)
  <2> DEFINE r == [host[h] EXCEPT !.state = "DEFEND", !.timer = DefendInterval]
  <2>1. host[h].state = "MONITOR" /\ Set(h, r) BY <1>3 DEF Defend
  <2>2. r \in Host /\ Agrees(r) /\ (r.state # "off" => r.ip \in Ips)
    <3>1. host[h] \in Host /\ Agrees(host[h]) /\ host[h].ip \in Ips BY <2>1, Known
    <3>2. DefendInterval \in Int BY Constants
    <3> QED BY <2>1, <3>1, <3>2 DEF Host, Agrees, Running
  <2> HIDE DEF r
  <2> QED BY <2>1, <2>2, SetKeepsInv
<1>4. CASE GiveUp(h, p)
  <2>1. PICK a \in Ips, t \in Restarts :
            Set(h, [host[h] EXCEPT !.state = "PROBE", !.ip = a, !.timer = t, !.nprobes = 0,
                                   !.nclaims = 0, !.iface = NoIp])
    BY <1>4 DEF GiveUp
  <2> DEFINE r == [host[h] EXCEPT !.state = "PROBE", !.ip = a, !.timer = t, !.nprobes = 0,
                                  !.nclaims = 0, !.iface = NoIp]
  <2>2. t \in Int BY Constants DEF Restarts
  <2>3. r \in Host /\ Agrees(r) /\ r.ip \in Ips
    <3>1. 0 \in 0..ProbeNum /\ 0 \in 0..AnnounceNum BY Constants
    <3>2. host[h] \in Host /\ Agrees(host[h]) BY Known
    <3> QED BY <2>2, <3>1, <3>2 DEF Host, Agrees, Running
  <2> HIDE DEF r
  <2>4. Set(h, r) BY <2>1 DEF r
  <2> QED BY <2>3, <2>4, SetKeepsInv
<1>5. CASE Ignore(h, p)
  <2>1. PICK t \in IF host[h].timer = 0 THEN Restarts ELSE {host[h].timer} :
            Set(h, [host[h] EXCEPT !.timer = t])
    BY <1>5 DEF Ignore
  <2> DEFINE r == [host[h] EXCEPT !.timer = t]
  <2>2. t \in Int BY Known, Constants DEF Restarts, Host
  <2>3. r \in Host /\ Agrees(r) /\ (r.state # "off" => r.ip \in Ips)
    BY <2>2, Known DEF Host, Agrees
  <2> HIDE DEF r
  <2>4. Set(h, r) BY <2>1 DEF r
  <2> QED BY <2>3, <2>4, SetKeepsInv
<1> QED BY <1>1, <1>2, <1>3, <1>4, <1>5

LEMMA ReceiveStep ==
    ASSUME Inv, NEW h \in Hosts, Receive(h) PROVE Inv'
<1> DEFINE p == Head(inbox[h])
           rest == [inbox EXCEPT ![h] = Tail(@)]
<1>1. Runs(h) /\ inbox[h] # <<>> /\ lost' = lost BY DEF Receive
<1>2. rest \in [Hosts -> Seq(Packet)] BY <1>1, Known
<1>3. Broadcast(rest, h, ClaimOf(h)) \in [Hosts -> Seq(Packet)]
  BY <1>1, <1>2, PacketsOf, BroadcastType
<1>4. /\ Repick(h, p) \/ StartOver(h, p) \/ Defend(h, p) \/ GiveUp(h, p) \/ Ignore(h, p)
      /\ inbox' \in {rest, Broadcast(rest, h, ClaimOf(h))}
  BY DEF Receive
<1> HIDE DEF p, rest
<1> QED BY <1>1, <1>2, <1>3, <1>4, Known, HandlersStep

-----------------------------------------------------------------------------
\* The steps that leave the hosts alone, and the clock.
LEMMA ResolveStep ==
    ASSUME Inv, NEW h \in Hosts, Resolve(h) PROVE Inv'
<1>1. PICK a \in Ips \ {host[h].iface} :
          inbox' = Broadcast(inbox, h, [op |-> "REQUEST", src |-> h, spa |-> host[h].iface,
                                        tha |-> NoHost, tpa |-> a])
  BY DEF Resolve
<1>2. [op |-> "REQUEST", src |-> h, spa |-> host[h].iface, tha |-> NoHost, tpa |-> a]
          \in Packet
  BY Known DEF Packet, Host
<1>3. inbox' \in [Hosts -> Seq(Packet)] BY <1>1, <1>2, Known, BroadcastType
<1>4. host' = host /\ lost' = lost BY DEF Resolve
<1> QED BY <1>3, <1>4 DEF Inv, ZcipTypeOK, HasAddress

LEMMA LoseStep ==
    ASSUME Inv, NEW h \in Hosts, Lose(h) PROVE Inv'
<1>1. inbox' \in [Hosts -> Seq(Packet)] BY Known DEF Lose
<1>2. lost' \in 0..MaxLost BY Known, Constants DEF Lose
<1>3. host' = host BY DEF Lose
<1> QED BY <1>1, <1>2, <1>3 DEF Inv, ZcipTypeOK, HasAddress

LEMMA TickStep ==
    ASSUME Inv, Tick PROVE Inv'
<1>1. ASSUME NEW h \in Hosts
      PROVE  /\ host'[h] \in Host /\ Agrees(host'[h])
             /\ host'[h].state # "off" => host'[h].ip \in Ips
  <2>1. PICK t : t = IF host[h].timer > 0 THEN host[h].timer - 1 ELSE host[h].timer
    OBVIOUS
  <2>2. host'[h] = [host[h] EXCEPT !.timer = t] BY <2>1 DEF Tick
  <2>3. host[h] \in Host /\ Agrees(host[h]) /\ (host[h].state # "off" => host[h].ip \in Ips)
    BY Known
  <2>4. t \in Int BY <2>1, <2>3 DEF Host
  <2> QED BY <2>2, <2>3, <2>4 DEF Host, Agrees
<1>2. host' \in [Hosts -> Host] BY <1>1 DEF Tick
<1>3. inbox' = inbox /\ lost' = lost BY DEF Tick
<1> QED BY <1>1, <1>2, <1>3 DEF Inv, ZcipTypeOK, HasAddress, Agrees

LEMMA NextStep == Inv /\ [Next]_vars => Inv'
<1> SUFFICES ASSUME Inv, [Next]_vars PROVE Inv' OBVIOUS
<1>1. ASSUME NEW h \in Hosts,
             \/ Boot(h) \/ LinkDown(h) \/ Die(h) \/ Timeout(h)
             \/ Receive(h) \/ Resolve(h) \/ Lose(h)
      PROVE  Inv'
  BY <1>1, BootStep, LinkDownStep, DieStep, ProbeStep, AnnounceStep, ClaimAgainStep, ConfigureStep,
     WonStep, ReceiveStep, ResolveStep, LoseStep DEF Timeout
<1>2. CASE Tick BY <1>2, TickStep
<1>3. CASE UNCHANGED vars BY <1>3 DEF vars, Inv, ZcipTypeOK, HasAddress
<1> QED BY <1>1, <1>2, <1>3 DEF Next

LEMMA InitInv == Init => Inv
<1> SUFFICES ASSUME Init PROVE Inv OBVIOUS
<1>1. ASSUME NEW h \in Hosts
      PROVE  host[h] \in Host /\ Agrees(host[h]) /\ host[h].state = "off"
  BY OffType DEF Init
<1>2. host \in [Hosts -> Host] BY <1>1 DEF Init
<1>3. inbox \in [Hosts -> Seq(Packet)] /\ lost \in 0..MaxLost BY Constants DEF Init
<1> QED BY <1>1, <1>2, <1>3 DEF Inv, ZcipTypeOK, HasAddress, Agrees

\* For any number of hosts and addresses, with packets lost or not and links
\* that go down at any moment: ZcipTypeOK, and with it that an interface has
\* an address exactly while its zcip watches over that address, or after it has
\* exited and left it; run("config") and run("deconfig") (zcip_main) are never
\* out of step.
THEOREM ZcipTypes == Spec => []ZcipTypeOK
<1>1. Inv => ZcipTypeOK BY DEF Inv
<1> QED BY <1>1, InitInv, NextStep, PTL DEF Spec
-----------------------------------------------------------------------------
\* Two hosts at one address.  What follows is about a link on which no packet is
\* lost: each is read within its second, before the clock ticks.

\* A host probes at least twice (PROBE_NUM is 3).  After one probe only, a host
\* that exits (-q) in the second in which it is asked would not be heard.
ProbesTwice == ProbeNum >= 2

\* What a host has still to read.
Of(s) == {s[i] : i \in DOMAIN s}
In(h) == Of(inbox[h])

\* A conflict that h will notice when it uses its address, or before it does.
Warned(h) == \E p \in In(h) : SourceConflict(h, p)
Alarmed(h) == \E p \in In(h) : SourceConflict(h, p) \/ TargetConflict(h, p)

Holds(h) == host[h].iface # NoIp
Claimed(h) == host[h].state = "ANNOUNCE" /\ host[h].nclaims >= 1
\* It has claimed its address in an earlier second, and configures it now.
Firm(h) == Claimed(h) /\ host[h].timer = 0
Probing(h, n) == host[h].state = "PROBE" /\ host[h].nprobes >= n
Announcing(h) == host[h].state = "ANNOUNCE" /\ Probed(h)

\* Of two that claim one address, or of which one has it, one will hear of it
\* in this second, before either can go on.
ClaimsMeet(g, h) ==
    /\ Claimed(h) /\ (Claimed(g) \/ (Holds(g) /\ Runs(g))) => Warned(g) \/ Warned(h)
    /\ Firm(h) => ~Firm(g) /\ ~(Holds(g) /\ Runs(g))

\* g claims what h probes for.
ProbesMeet(g, h) ==
    /\ Claimed(g) /\ (Probing(h, 1) \/ Announcing(h)) => Alarmed(g) \/ Alarmed(h)
    /\ Firm(g) => /\ ~Announcing(h)
                  /\ Probing(h, 1) => host[h].nprobes = 1 /\ host[h].timer > 0

\* g has what h probes for.
ProbeAnswered(g, h) ==
    Holds(g) => /\ ~Announcing(h)
                /\ Probing(h, 2) => host[h].timer > 0 /\ Alarmed(h)

Excused(g, h) == (~Runs(g) /\ ~Probed(h)) \/ (~Runs(h) /\ ~Probed(g))

Pair(g, h) ==
    /\ ClaimsMeet(g, h)
    /\ ProbesMeet(g, h)
    /\ ProbeAnswered(g, h)
    /\ Holds(g) /\ Holds(h) => Excused(g, h)

\* A host of which a claim is still to be read has not come far with a new address.
SenderOK(p) ==
    p.spa # NoIp => /\ ~Probing(p.src, 2)
                    /\ Probing(p.src, 1) => host[p.src].timer > 0

Settled(h) == Firm(h) \/ (Holds(h) /\ Runs(h))

\* What h, which has probed, hears about its address is from one that has not.
HeardOK(h, p) ==
    Settled(h) /\ Probed(h) /\ SourceConflict(h, p) => ~Probed(p.src)

Pairs == \A g, h \in Hosts : g # h /\ host[g].ip = host[h].ip => Pair(g, h)
Inboxes == \A h \in Hosts : \A p \in In(h) : SenderOK(p) /\ HeardOK(h, p)
RateLimited == \A h \in Hosts : host[h].state = "RATE_LIMIT_PROBE" => host[h].nprobes = 0

LinkInv == Pairs /\ Inboxes /\ RateLimited

LEMMA OfJoin ==
    ASSUME NEW S, NEW s \in Seq(S), NEW t \in Seq(S)
    PROVE  Of(s \o t) = Of(s) \cup Of(t)
<1>1. /\ DOMAIN s = 1..Len(s) /\ DOMAIN t = 1..Len(t) /\ Len(s) \in Nat /\ Len(t) \in Nat
      /\ DOMAIN (s \o t) = 1..Len(s) + Len(t)
      /\ \A i \in 1..Len(s) : (s \o t)[i] = s[i]
      /\ \A i \in 1..Len(t) : (s \o t)[Len(s) + i] = t[i]
  <2>1. s \o t \in Seq(S) /\ Len(s \o t) = Len(s) + Len(t) OBVIOUS
  <2> QED BY <2>1
<1>2. ASSUME NEW x \in Of(s \o t) PROVE x \in Of(s) \cup Of(t)
  <2>1. PICK i \in 1..Len(s) + Len(t) : x = (s \o t)[i] BY <1>1 DEF Of
  <2>2. CASE i <= Len(s) BY <1>1, <2>1, <2>2 DEF Of
  <2>3. CASE i > Len(s)
    <3>1. i - Len(s) \in 1..Len(t) /\ Len(s) + (i - Len(s)) = i BY <1>1, <2>1, <2>3
    <3>2. x = t[i - Len(s)] BY <1>1, <2>1, <3>1
    <3> QED BY <1>1, <3>1, <3>2 DEF Of
  <2> QED BY <1>1, <2>1, <2>2, <2>3
<1>3. ASSUME NEW x \in Of(s) PROVE x \in Of(s \o t)
  <2>1. PICK i \in 1..Len(s) : x = s[i] BY <1>1 DEF Of
  <2>2. i \in 1..Len(s) + Len(t) BY <1>1
  <2> QED BY <1>1, <2>1, <2>2 DEF Of
<1>4. ASSUME NEW x \in Of(t) PROVE x \in Of(s \o t)
  <2>1. PICK i \in 1..Len(t) : x = t[i] BY <1>1 DEF Of
  <2>2. Len(s) + i \in 1..Len(s) + Len(t) BY <1>1
  <2> QED BY <1>1, <2>1, <2>2 DEF Of
<1> QED BY <1>2, <1>3, <1>4

LEMMA OfHead ==
    ASSUME NEW S, NEW s \in Seq(S), s # <<>>
    PROVE  /\ Of(s) = {Head(s)} \cup Of(Tail(s))
           /\ Head(s) \in S /\ Tail(s) \in Seq(S)
<1>1. /\ Len(s) \in Nat \ {0} /\ DOMAIN s = 1..Len(s) /\ Head(s) = s[1]
      /\ DOMAIN Tail(s) = 1..Len(s) - 1
      /\ \A i \in 1..Len(s) - 1 : Tail(s)[i] = s[i + 1]
  OBVIOUS
<1>2. ASSUME NEW x \in Of(s) PROVE x \in {Head(s)} \cup Of(Tail(s))
  <2>1. PICK i \in 1..Len(s) : x = s[i] BY <1>1 DEF Of
  <2>2. CASE i = 1 BY <1>1, <2>1, <2>2
  <2>3. CASE i # 1
    <3>1. i - 1 \in 1..Len(s) - 1 /\ (i - 1) + 1 = i BY <1>1, <2>1, <2>3
    <3>2. x = Tail(s)[i - 1] BY <1>1, <2>1, <3>1
    <3> QED BY <1>1, <3>1, <3>2 DEF Of
  <2> QED BY <2>2, <2>3
<1>3. ASSUME NEW x \in Of(Tail(s)) PROVE x \in Of(s)
  <2>1. PICK i \in 1..Len(s) - 1 : x = Tail(s)[i] BY <1>1 DEF Of
  <2>2. i + 1 \in 1..Len(s) /\ x = s[i + 1] BY <1>1, <2>1
  <2> QED BY <1>1, <2>2 DEF Of
<1>4. Head(s) \in Of(s)
  <2>1. 1 \in 1..Len(s) BY <1>1
  <2> QED BY <1>1, <2>1 DEF Of
<1>5. Head(s) \in S /\ Tail(s) \in Seq(S) OBVIOUS
<1> QED BY <1>2, <1>3, <1>4, <1>5

\* What the kernels answer, and where it goes.
LEMMA AnswersAre ==
    ASSUME NEW h \in Hosts, NEW p \in Packet
    PROVE  /\ p.spa = p.tpa => Of(Answers(h, p)) = {}
           /\ \A a \in Of(Answers(h, p)) :
                  a.spa = p.tpa /\ a.src \in Answering(h, p) /\ p.spa # p.tpa
           /\ Answering(h, p) # {} => \E a \in Of(Answers(h, p)) : TRUE
<1>1. CASE Answering(h, p) = {}
  <2>1. Of(Answers(h, p)) = {} BY <1>1 DEF Answers, Of
  <2> QED BY <1>1, <2>1
<1>2. CASE Answering(h, p) # {}
  <2> DEFINE g == CHOOSE g \in Answering(h, p) : TRUE
  <2>1. g \in Answering(h, p) BY <1>2
  <2> DEFINE a == [op |-> "REPLY", src |-> g, spa |-> p.tpa, tha |-> h, tpa |-> p.tpa]
  <2>2. Answers(h, p) = <<a>> BY <1>2 DEF Answers
  <2>3. a.spa = p.tpa /\ a.src = g OBVIOUS
  <2> HIDE DEF a
  <2>4. Of(Answers(h, p)) = {a} BY <2>2 DEF Of
  <2>5. p.spa # p.tpa BY <2>1 DEF Answering
  <2> HIDE DEF g
  <2> QED BY <2>1, <2>3, <2>4, <2>5
<1> QED BY <1>1, <1>2

LEMMA SentTo ==
    ASSUME NEW q \in [Hosts -> Seq(Packet)], NEW h \in Hosts, NEW p \in Packet,
           inbox' = Broadcast(q, h, p), NEW k \in Hosts
    PROVE  /\ ~Runs(k) => In(k)' = Of(q[k])
           /\ Runs(k) /\ k # h => In(k)' = Of(q[k]) \cup {p}
           /\ Runs(k) /\ k = h => In(k)' = Of(q[k]) \cup Of(Answers(h, p))
<1>1. Answers(h, p) \in Seq(Packet) /\ <<p>> \in Seq(Packet) /\ q[k] \in Seq(Packet)
  BY AnswersType
<1>2. Of(<<p>>) = {p} BY DEF Of
<1>3. In(k)' = Of(inbox'[k]) BY DEF In
<1>4. CASE ~Runs(k)
  <2>1. inbox'[k] = q[k] BY <1>4 DEF Broadcast
  <2> QED BY <1>3, <1>4, <2>1
<1>5. CASE Runs(k) /\ k # h
  <2> DEFINE t == <<p>>
  <2>1. inbox'[k] = q[k] \o t BY <1>5 DEF Broadcast
  <2>2. t \in Seq(Packet) /\ Of(t) = {p} BY <1>1, <1>2
  <2> HIDE DEF t
  <2>3. Of(q[k] \o t) = Of(q[k]) \cup Of(t) BY <1>1, <2>2, OfJoin
  <2> QED BY <1>3, <1>5, <2>1, <2>2, <2>3
<1>6. CASE Runs(k) /\ k = h
  <2>1. inbox'[k] = q[k] \o Answers(h, p) BY <1>6 DEF Broadcast
  <2> QED BY <1>1, <1>3, <1>6, <2>1, OfJoin
<1> QED BY <1>4, <1>5, <1>6

LEMMA SentNow ==
    ASSUME Inv, NEW h \in Hosts, NEW p \in Packet, inbox' = Broadcast(inbox, h, p)
    PROVE  /\ Runs(h) => In(h)' = In(h) \cup Of(Answers(h, p))
           /\ ~Runs(h) => In(h)' = In(h)
           /\ \A k \in Hosts \ {h} : /\ Runs(k) => In(k)' = In(k) \cup {p}
                                     /\ ~Runs(k) => In(k)' = In(k)
<1>1. inbox \in [Hosts -> Seq(Packet)] BY Known
<1>2. ASSUME NEW k \in Hosts
      PROVE  /\ ~Runs(k) => In(k)' = In(k)
             /\ Runs(k) /\ k # h => In(k)' = In(k) \cup {p}
             /\ Runs(k) /\ k = h => In(k)' = In(k) \cup Of(Answers(h, p))
  <2>1. In(k) = Of(inbox[k]) BY DEF In
  <2> QED BY ONLY <1>1, <2>1, k \in Hosts, h \in Hosts, p \in Packet,
             inbox' = Broadcast(inbox, h, p), SentTo
<1> QED BY <1>2

-----------------------------------------------------------------------------
\* What one host's step leaves alone.
Aside(h) == \A k \in Hosts \ {h} : host'[k] = host[k]

LEMMA SetIsAside ==
    ASSUME Inv, NEW h \in Hosts, NEW r, Set(h, r)
    PROVE  Aside(h) /\ host'[h] = r
BY Known DEF Set, Aside

LEMMA WarningsStay ==
    ASSUME NEW k \in Hosts, host'[k].ip = host[k].ip, In(k) \subseteq In(k)'
    PROVE  (Warned(k) => Warned(k)') /\ (Alarmed(k) => Alarmed(k)')
BY DEF Warned, Alarmed, SourceConflict, TargetConflict

\* Two other hosts.
LEMMA PairAside ==
    ASSUME NEW g \in Hosts, NEW k \in Hosts, host'[g] = host[g], host'[k] = host[k],
           In(g) \subseteq In(g)', In(k) \subseteq In(k)', Pair(g, k)
    PROVE  Pair(g, k)'
<1>1. (Warned(g) => Warned(g)') /\ (Alarmed(g) => Alarmed(g)') BY WarningsStay
<1>2. (Warned(k) => Warned(k)') /\ (Alarmed(k) => Alarmed(k)') BY WarningsStay
<1>3. ClaimsMeet(g, k)' BY <1>1, <1>2 DEF Pair, ClaimsMeet, Claimed, Firm, Holds, Runs
<1>4. ProbesMeet(g, k)'
  BY <1>1, <1>2 DEF Pair, ProbesMeet, Claimed, Firm, Probing, Announcing, Probed
<1>5. ProbeAnswered(g, k)'
  BY <1>2 DEF Pair, ProbeAnswered, Holds, Probing, Announcing, Probed
<1> QED BY <1>3, <1>4, <1>5 DEF Pair, Holds, Excused, Runs, Probed

\* All pairs, if those of the host that took the step are in order.
LEMMA PairsStep ==
    ASSUME Pairs, NEW h \in Hosts, Aside(h),
           \A k \in Hosts \ {h} : In(k) \subseteq In(k)',
           \A k \in Hosts \ {h} : host'[h].ip = host'[k].ip => Pair(h, k)' /\ Pair(k, h)'
    PROVE  Pairs'
<1> SUFFICES ASSUME NEW g \in Hosts, NEW k \in Hosts, g # k, host'[g].ip = host'[k].ip
             PROVE  Pair(g, k)'
  BY DEF Pairs
<1>1. CASE g = h BY <1>1
<1>2. CASE k = h BY <1>2
<1>3. CASE g # h /\ k # h
  <2>1. host'[g] = host[g] /\ host'[k] = host[k] /\ Pair(g, k) BY <1>3 DEF Aside, Pairs
  <2> QED BY <1>3, <2>1, PairAside
<1> QED BY <1>1, <1>2, <1>3

\* A host that has done nothing with its address yet.
Blank(h) == host[h].iface = NoIp /\ host[h].nprobes = 0 /\ host[h].nclaims = 0

LEMMA BlankPairs ==
    ASSUME ProbesTwice, Inv, NEW h \in Hosts, NEW k \in Hosts, Blank(h)'
    PROVE  Pair(h, k)' /\ Pair(k, h)'
<1>1. ~Holds(h)' /\ ~Claimed(h)' /\ ~Firm(h)' /\ ~Probing(h, 1)' /\ ~Probing(h, 2)'
      /\ ~Announcing(h)'
  BY DEF Blank, Holds, Claimed, Firm, Probing, Announcing, Probed, ProbesTwice
<1>2. ClaimsMeet(h, k)' /\ ClaimsMeet(k, h)' BY <1>1 DEF ClaimsMeet
<1>3. ProbesMeet(h, k)' /\ ProbesMeet(k, h)' BY <1>1 DEF ProbesMeet
<1>4. ProbeAnswered(h, k)' /\ ProbeAnswered(k, h)' BY <1>1 DEF ProbeAnswered
<1> QED BY <1>1, <1>2, <1>3, <1>4 DEF Pair

\* All inboxes: what is new in them, and what is known of the host that took
\* the step.
LEMMA InboxesStep ==
    ASSUME Inv, Inboxes, NEW h \in Hosts, Aside(h),
           \A k \in Hosts : \A p \in In(k)' : p \in In(k) \/ (SenderOK(p)' /\ HeardOK(k, p)'),
           \A k \in Hosts : \A p \in In(k) : p.src = h => SenderOK(p)',
           \A k \in Hosts : \A p \in In(k) :
               p.src = h /\ p.spa # NoIp /\ Probed(h)' => Probed(h),
           Settled(h)' /\ Probed(h)' =>
               Settled(h) /\ Probed(h) /\ host'[h].ip = host[h].ip
    PROVE  Inboxes'
<1> SUFFICES ASSUME NEW k \in Hosts, NEW p \in In(k)'
             PROVE  SenderOK(p)' /\ HeardOK(k, p)'
  BY DEF Inboxes
<1>1. CASE p \notin In(k) BY <1>1
<1>2. CASE p \in In(k)
  <2>1. SenderOK(p) /\ HeardOK(k, p) BY <1>2 DEF Inboxes
  <2>2. p \in Packet BY <1>2, Known DEF In, Of
  <2>3. p.src \in Hosts BY <2>2 DEF Packet
  <2>4. SenderOK(p)'
    <3>1. CASE p.src = h BY <1>2, <3>1
    <3>2. CASE p.src # h
      <4>1. host'[p.src] = host[p.src] BY <2>3, <3>2 DEF Aside
      <4> QED BY <2>1, <4>1 DEF SenderOK, Probing
    <3> QED BY <3>1, <3>2
  <2>5. HeardOK(k, p)'
    <3> SUFFICES ASSUME Settled(k)', Probed(k)', SourceConflict(k, p)'
                 PROVE  ~Probed(p.src)'
      BY DEF HeardOK
    <3>1. Settled(k) /\ Probed(k) /\ host'[k].ip = host[k].ip
      <4>1. CASE k = h BY <4>1
      <4>2. CASE k # h
        <5>1. host'[k] = host[k] BY <4>2 DEF Aside
        <5> QED BY <5>1 DEF Settled, Firm, Claimed, Holds, Runs, Probed
      <4> QED BY <4>1, <4>2
    <3>2. ~Probed(p.src) /\ p.spa = host[k].ip
      BY <2>1, <3>1 DEF HeardOK, SourceConflict
    <3>3. p.spa # NoIp
      <4>1. host[k].state # "off"
        BY <3>1, Known, Constants DEF Settled, Firm, Claimed, Runs, Running
      <4> QED BY <3>2, <4>1, Known, Constants
    <3>4. CASE p.src = h BY <1>2, <3>2, <3>3, <3>4
    <3>5. CASE p.src # h
      <4>1. host'[p.src] = host[p.src] BY <2>3, <3>5 DEF Aside
      <4> QED BY <3>2, <4>1 DEF Probed
    <3> QED BY <3>4, <3>5
  <2> QED BY <2>4, <2>5
<1> QED BY <1>1, <1>2

LEMMA RateStep ==
    ASSUME LinkInv, NEW h \in Hosts, Aside(h),
           host'[h].state = "RATE_LIMIT_PROBE" => host'[h].nprobes = 0
    PROVE  RateLimited'
<1> SUFFICES ASSUME NEW k \in Hosts, host'[k].state = "RATE_LIMIT_PROBE"
             PROVE  host'[k].nprobes = 0
  BY DEF RateLimited
<1>1. CASE k = h BY <1>1
<1>2. CASE k # h
  <2>1. host'[k] = host[k] BY <1>2 DEF Aside
  <2> QED BY <2>1 DEF LinkInv, RateLimited
<1> QED BY <1>1, <1>2

-----------------------------------------------------------------------------
\* The steps of a host.

\* One that begins anew, or ends.
LEMMA BlankStep ==
    ASSUME ProbesTwice, Inv, LinkInv, NEW h \in Hosts, Aside(h), Blank(h)',
           \A k \in Hosts \ {h} : In(k)' = In(k), In(h)' \subseteq In(h)
    PROVE  LinkInv'
<1>1. Pairs' BY BlankPairs, PairsStep DEF LinkInv
<1>2. ~Probing(h, 1)' /\ ~Probing(h, 2)' /\ ~Probed(h)' /\ ~Firm(h)' /\ ~Holds(h)'
  BY DEF Blank, Probing, Probed, Firm, Claimed, Holds, ProbesTwice
<1>3. \A k \in Hosts : In(k)' \subseteq In(k) OBVIOUS
<1>4. ASSUME NEW p, p.src = h PROVE SenderOK(p)' BY <1>2, <1>4 DEF SenderOK
<1>5. ~Settled(h)' BY <1>2 DEF Settled
<1>6. Inboxes' BY <1>2, <1>3, <1>4, <1>5, InboxesStep DEF LinkInv
<1>7. RateLimited' BY DEF RateLimited, LinkInv, Aside, Blank
<1> QED BY <1>1, <1>6, <1>7 DEF LinkInv

LEMMA InIsSame ==
    ASSUME inbox' = inbox PROVE \A k \in Hosts : In(k)' = In(k)
BY DEF In

LEMMA BootLink ==
    ASSUME ProbesTwice, Inv, LinkInv, NEW h \in Hosts, Boot(h) PROVE LinkInv'
<1>1. PICK a \in Ips, t \in Restarts :
          Set(h, [state |-> "PROBE", ip |-> a, timer |-> t, nprobes |-> 0,
                  nclaims |-> 0, conflicts |-> 0, iface |-> NoIp])
  BY DEF Boot
<1>2. Aside(h) /\ Blank(h)' BY <1>1, SetIsAside DEF Blank
<1>3. \A k \in Hosts : In(k)' = In(k) BY InIsSame DEF Boot
<1> QED BY <1>2, <1>3, BlankStep

LEMMA LinkDownLink ==
    ASSUME ProbesTwice, Inv, LinkInv, NEW h \in Hosts, LinkDown(h) PROVE LinkInv'
<1>1. Aside(h) /\ Blank(h)' BY SetIsAside DEF LinkDown, Blank, Off
<1>2. \A k \in Hosts : In(k)' = In(k) BY InIsSame DEF LinkDown
<1> QED BY <1>1, <1>2, BlankStep

\* A host that ends and leaves its address.
LEMMA QuitStep ==
    ASSUME ProbesTwice, Inv, Inv', LinkInv, NEW h \in Hosts, Aside(h), Holds(h),
           Runs(h), ~Runs(h)', host'[h].state = "quit",
           host'[h].ip = host[h].ip, host'[h].nprobes = host[h].nprobes,
           \A k \in Hosts \ {h} : In(k)' = In(k), In(h)' = {}
    PROVE  LinkInv'
<1>1. ~Claimed(h)' /\ ~Firm(h)' /\ ~Probing(h, 1)' /\ ~Probing(h, 2)' /\ ~Announcing(h)'
      /\ (Probed(h)' <=> Probed(h))
  BY DEF Claimed, Firm, Probing, Announcing, Probed
<1>2. ASSUME NEW k \in Hosts \ {h}, host'[h].ip = host'[k].ip
      PROVE  Pair(h, k)' /\ Pair(k, h)'
  <2>1. host'[k] = host[k] /\ In(k)' = In(k) BY DEF Aside
  <2>2. Pair(h, k) /\ Pair(k, h) BY <1>2, <2>1 DEF LinkInv, Pairs
  <2>3. Alarmed(k)' <=> Alarmed(k)
    BY <2>1 DEF Alarmed, SourceConflict, TargetConflict
  <2>4. ClaimsMeet(h, k)' /\ ClaimsMeet(k, h)' BY <1>1 DEF ClaimsMeet
  <2>5. ProbesMeet(h, k)' /\ ProbesMeet(k, h)' BY <1>1 DEF ProbesMeet
  <2>6. ProbeAnswered(h, k)'
    BY <2>1, <2>2, <2>3 DEF Pair, ProbeAnswered, Announcing, Probing, Probed
  <2>7. ProbeAnswered(k, h)' BY <1>1 DEF ProbeAnswered
  <2>8. Holds(k)' => Excused(h, k)' /\ Excused(k, h)'
    BY <1>1, <2>1, <2>2 DEF Pair, Excused, Holds, Runs, Probed
  <2> QED BY <2>4, <2>5, <2>6, <2>7, <2>8 DEF Pair
<1>3. Pairs' BY <1>2, PairsStep DEF LinkInv
<1>4. \A k \in Hosts : In(k)' \subseteq In(k) OBVIOUS
<1>5. ASSUME NEW p, p.src = h PROVE SenderOK(p)' BY <1>1, <1>5 DEF SenderOK
<1>6. ~Settled(h)' BY <1>1 DEF Settled
<1>7. Inboxes' BY <1>1, <1>4, <1>5, <1>6, InboxesStep DEF LinkInv
<1>8. RateLimited' BY DEF RateLimited, LinkInv, Aside
<1> QED BY <1>3, <1>7, <1>8 DEF LinkInv

LEMMA Emptied ==
    ASSUME Inv, NEW h \in Hosts, inbox' = [inbox EXCEPT ![h] = <<>>]
    PROVE  In(h)' = {} /\ \A k \in Hosts \ {h} : In(k)' = In(k)
BY Known DEF In, Of

LEMMA DieLink ==
    ASSUME ProbesTwice, Inv, Inv', LinkInv, NEW h \in Hosts, Die(h) PROVE LinkInv'
<1>1. In(h)' = {} /\ \A k \in Hosts \ {h} : In(k)' = In(k) BY Emptied DEF Die
<1>2. CASE host[h].iface = NoIp
  <2>1. Aside(h) /\ Blank(h)' BY <1>2, SetIsAside DEF Die, Blank, Off
  <2> QED BY <1>1, <2>1, BlankStep
<1>3. CASE host[h].iface # NoIp
  <2>1. Set(h, [host[h] EXCEPT !.state = "quit", !.timer = Never]) BY <1>3 DEF Die
  <2>2. Aside(h) /\ host'[h] = [host[h] EXCEPT !.state = "quit", !.timer = Never]
    BY <2>1, SetIsAside
  <2>3. /\ host'[h].state = "quit" /\ host'[h].ip = host[h].ip
        /\ host'[h].nprobes = host[h].nprobes
    BY <2>2, Known DEF Host
  <2>4. Holds(h) /\ Runs(h) /\ ~Runs(h)' BY <1>3, <2>3 DEF Holds, Die, Runs, Running
  <2> QED BY <1>1, <2>2, <2>3, <2>4, QuitStep
<1> QED BY <1>2, <1>3

\* The host probes.  Whoever claims the address hears it, and the kernel of
\* whoever has it answers.
LEMMA ProbeLink ==
    ASSUME ProbesTwice, Inv, Inv', LinkInv, NEW h \in Hosts, Probe(h) PROVE LinkInv'
<1>0. PICK p : p = ProbeOf(h) OBVIOUS
<1>1. /\ Aside(h) /\ host[h].state = "PROBE" /\ host'[h].state = "PROBE"
      /\ host'[h].ip = host[h].ip /\ host'[h].iface = host[h].iface
      /\ host'[h].nprobes = host[h].nprobes + 1 /\ host'[h].timer > 0
      /\ host[h].timer = 0 /\ Runs(h)
  <2>1. PICK t \in ProbeMin..ProbeMax :
            Set(h, [host[h] EXCEPT !.nprobes = @ + 1, !.timer = t])
    BY DEF Probe
  <2>2. Aside(h) /\ host'[h] = [host[h] EXCEPT !.nprobes = @ + 1, !.timer = t]
    BY <2>1, SetIsAside
  <2>3. t > 0 BY ZcipAssumption
  <2>4. host[h].state = "PROBE" /\ host[h].timer = 0 /\ Runs(h) BY DEF Probe, Due
  <2> QED BY <2>2, <2>3, <2>4, Known DEF Host
<1>2. /\ p \in Packet /\ p.op = "REQUEST" /\ p.src = h /\ p.spa = NoIp
      /\ p.tpa = host[h].ip /\ p.tha = NoHost
  BY <1>0, <1>1, PacketsOf DEF ProbeOf
<1>3. p.spa # p.tpa BY <1>1, <1>2, Known, Constants
<1>4. inbox' = Broadcast(inbox, h, p) BY <1>0 DEF Probe, Sends
<1>5. In(h)' = In(h) \cup Of(Answers(h, p)) BY <1>1, <1>2, <1>4, SentNow
<1>6. ASSUME NEW k \in Hosts \ {h}
      PROVE  (Runs(k) => In(k)' = In(k) \cup {p}) /\ (~Runs(k) => In(k)' = In(k))
  BY <1>2, <1>4, SentNow
<1>7. host[h].nprobes \in Nat /\ (Probing(h, 1) => host[h].nprobes >= 1) BY Known DEF Probing
<1>8. ~Holds(h) /\ ~Holds(h)' /\ ~Claimed(h)' /\ ~Firm(h)' /\ ~Announcing(h)'
  BY <1>1, Known DEF Holds, Agrees, Claimed, Firm, Announcing
<1>9. ASSUME NEW k \in Hosts \ {h}, host'[h].ip = host'[k].ip
      PROVE  Pair(h, k)' /\ Pair(k, h)'
  <2>1. host'[k] = host[k] /\ host[k].ip = host[h].ip BY <1>1, <1>9 DEF Aside
  <2>2. Pair(h, k) /\ Pair(k, h) BY <2>1 DEF LinkInv, Pairs
  <2>3. ClaimsMeet(h, k)' /\ ClaimsMeet(k, h)' BY <1>8 DEF ClaimsMeet
  <2>4. ProbesMeet(h, k)' BY <1>8 DEF ProbesMeet
  <2>5. ProbesMeet(k, h)'
    <3>1. ASSUME Claimed(k)' PROVE Alarmed(k)'
      <4>1. Runs(k) BY <2>1, <3>1 DEF Claimed, Runs, Running
      <4>2. p \in In(k)' BY <1>6, <4>1
      <4>3. TargetConflict(k, p)'
        BY <1>2, <2>1, Constants DEF TargetConflict
      <4> QED BY <4>2, <4>3 DEF Alarmed
    <3>2. ASSUME Firm(k)' PROVE host'[h].nprobes = 1
      <4>1. Firm(k) BY <2>1, <3>2 DEF Firm, Claimed
      <4>2. ~Probing(h, 1) BY <1>1, <2>2, <4>1 DEF Pair, ProbesMeet
      <4> QED BY <1>1, <1>7, <4>2 DEF Probing
    <3> QED BY <1>1, <1>8, <3>1, <3>2 DEF ProbesMeet
  <2>6. ProbeAnswered(h, k)' BY <1>8 DEF ProbeAnswered
  <2>7. ProbeAnswered(k, h)'
    <3> SUFFICES ASSUME Holds(k)' PROVE Alarmed(h)' BY <1>1, <1>8 DEF ProbeAnswered
    <3>1. host[k].iface = host[h].ip /\ host[h].ip # NoIp
      BY <2>1, Known DEF Holds, Agrees
    <3>2. k \in Answering(h, p) BY <1>2, <1>3, <3>1 DEF Answering
    <3>3. PICK a \in Of(Answers(h, p)) : TRUE BY <1>2, <3>2, AnswersAre
    <3>4. a.spa = host[h].ip /\ a.src \in Answering(h, p) BY <1>2, AnswersAre
    <3>5. a.src # h BY <3>4 DEF Answering
    <3>6. SourceConflict(h, a)' BY <1>1, <3>4, <3>5 DEF SourceConflict
    <3> QED BY <1>5, <3>6 DEF Alarmed
  <2> QED BY <1>8, <2>3, <2>4, <2>5, <2>6, <2>7 DEF Pair
<1>10. Pairs' BY <1>1, <1>6, <1>9, PairsStep DEF LinkInv
<1>11. ASSUME NEW k \in Hosts, NEW x \in In(k)', x \notin In(k)
       PROVE  SenderOK(x)' /\ HeardOK(k, x)'
  <2>1. CASE k = h
    <3>1. x \in Of(Answers(h, p)) BY <1>5, <1>11, <2>1
    <3>2. x.src \in Answering(h, p) BY <1>2, <3>1, AnswersAre
    <3>3. x.src \in Hosts \ {h} /\ host[x.src].iface = host[h].ip
      BY <1>2, <3>2 DEF Answering
    <3>4. host'[x.src] = host[x.src] /\ host[x.src].state # "PROBE"
      BY <1>1, <3>3, Known, Constants DEF Aside, Agrees
    <3> QED BY <1>8, <2>1, <3>4 DEF SenderOK, Probing, HeardOK, Settled
  <2>2. CASE k # h
    <3>1. x = p BY <1>6, <1>11, <2>2
    <3>2. SenderOK(x)' BY <1>2, <3>1 DEF SenderOK
    <3>3. HeardOK(k, x)'
      <4> SUFFICES ASSUME Settled(k)', SourceConflict(k, x)'
                   PROVE  FALSE
        BY DEF HeardOK
      <4>1. host'[k].state # "off" BY DEF Settled, Firm, Claimed, Runs, Running
      <4>2. host'[k].ip \in Ips BY <4>1 DEF Inv, HasAddress
      <4> QED BY <1>2, <3>1, <4>2, Constants DEF SourceConflict
    <3> QED BY <3>2, <3>3
  <2> QED BY <2>1, <2>2
<1>12. ASSUME NEW k \in Hosts, NEW x \in In(k), x.src = h
       PROVE  SenderOK(x)' /\ (x.spa # NoIp => ~Probed(h)')
  <2>1. SenderOK(x) BY DEF LinkInv, Inboxes
  <2>2. x.spa # NoIp => host'[h].nprobes = 1
    BY <1>1, <1>7, <1>12, <2>1 DEF SenderOK, Probing
  <2> QED BY <1>1, <1>12, <2>2 DEF SenderOK, Probing, Probed, ProbesTwice
<1>13. ~Settled(h)' BY <1>8 DEF Settled
<1>14. Inboxes' BY <1>1, <1>11, <1>12, <1>13, InboxesStep DEF LinkInv
<1>15. RateLimited' BY <1>1 DEF RateLimited, LinkInv, Aside
<1> QED BY <1>10, <1>14, <1>15 DEF LinkInv

\* The host claims its address: it is heard by everyone that runs.  If it has
\* probed, nobody has the address, or is about to configure it.
LEMMA ClaimStep ==
    ASSUME ProbesTwice, Inv, LinkInv, NEW h \in Hosts, Aside(h), Runs(h),
           host'[h].state = "ANNOUNCE", host'[h].ip = host[h].ip,
           host[h].iface = NoIp, host'[h].iface = NoIp,
           host'[h].nprobes = host[h].nprobes, host'[h].timer > 0,
           Sends(h, ClaimOf(h)),
           \A k \in Hosts \ {h} :
               host[k].ip = host[h].ip /\ (Firm(k) \/ Holds(k)) => ~Probed(h)
    PROVE  LinkInv'
<1>0. PICK p : p = ClaimOf(h) OBVIOUS
<1>1. p \in Packet /\ p.src = h /\ p.spa = host[h].ip /\ p.tpa = host[h].ip
  BY <1>0, PacketsOf DEF ClaimOf
<1>2. inbox' = Broadcast(inbox, h, p) BY <1>0 DEF Sends
<1>3. In(h)' = In(h)
  <2>1. Of(Answers(h, p)) = {} BY <1>1, AnswersAre
  <2>2. In(h)' = In(h) \cup Of(Answers(h, p)) BY <1>1, <1>2, SentNow
  <2> QED BY <2>1, <2>2
<1>4. ASSUME NEW k \in Hosts \ {h}
      PROVE  (Runs(k) => In(k)' = In(k) \cup {p}) /\ (~Runs(k) => In(k)' = In(k))
  BY <1>1, <1>2, SentNow
<1>5. /\ ~Firm(h)' /\ ~Holds(h)' /\ ~Probing(h, 1)' /\ ~Probing(h, 2)'
      /\ (Probed(h)' <=> Probed(h)) /\ (Announcing(h)' => Probed(h))
  BY DEF Firm, Holds, Probing, Probed, Announcing
<1>6. ASSUME NEW k \in Hosts \ {h}, host'[h].ip = host'[k].ip
      PROVE  Pair(h, k)' /\ Pair(k, h)'
  <2>1. host'[k] = host[k] /\ host[k].ip = host[h].ip BY <1>6 DEF Aside
  <2>2. /\ Firm(k)' <=> Firm(k)
        /\ Holds(k)' <=> Holds(k)
        /\ Claimed(k)' \/ Runs(k)' \/ Probing(k, 1)' \/ Announcing(k)' => Runs(k)
    BY <2>1 DEF Firm, Holds, Claimed, Runs, Running, Probing, Announcing
  <2>3. Firm(k) \/ Holds(k) => ~Probed(h) BY <2>1
  <2>4. Runs(k) => Warned(k)' /\ Alarmed(k)'
    <3> SUFFICES ASSUME Runs(k) PROVE \E x \in In(k)' : SourceConflict(k, x)'
      BY DEF Warned, Alarmed
    <3>1. p \in In(k)' BY <1>4
    <3>2. SourceConflict(k, p)' BY <1>1, <2>1 DEF SourceConflict
    <3> QED BY <3>1, <3>2
  <2>5. ClaimsMeet(h, k)' /\ ClaimsMeet(k, h)' BY <1>5, <2>2, <2>4 DEF ClaimsMeet
  <2>6. ProbesMeet(h, k)' /\ ProbesMeet(k, h)' BY <1>5, <2>2, <2>3, <2>4 DEF ProbesMeet
  <2>7. ProbeAnswered(h, k)' /\ ProbeAnswered(k, h)'
    BY <1>5, <2>2, <2>3 DEF ProbeAnswered
  <2> QED BY <1>5, <2>5, <2>6, <2>7 DEF Pair
<1>7. Pairs' BY <1>4, <1>6, PairsStep DEF LinkInv
<1>8. ASSUME NEW k \in Hosts, NEW x \in In(k)', x \notin In(k)
      PROVE  SenderOK(x)' /\ HeardOK(k, x)'
  <2>1. k \in Hosts \ {h} /\ x = p BY <1>3, <1>4, <1>8
  <2>2. SenderOK(x)' BY <1>1, <1>5, <2>1 DEF SenderOK
  <2>3. HeardOK(k, x)'
    <3> SUFFICES ASSUME Settled(k)', SourceConflict(k, x)'
                 PROVE  ~Probed(h)'
      BY <1>1, <2>1 DEF HeardOK
    <3>1. host'[k] = host[k] BY <2>1 DEF Aside
    <3>2. Firm(k) \/ Holds(k) BY <3>1 DEF Settled, Firm, Claimed, Holds, Runs
    <3>3. host[k].ip = host[h].ip BY <1>1, <2>1, <3>1 DEF SourceConflict
    <3> QED BY <1>5, <2>1, <3>2, <3>3
  <2> QED BY <2>2, <2>3
<1>9. ASSUME NEW x, x.src = h PROVE SenderOK(x)' BY <1>5, <1>9 DEF SenderOK
<1>10. ~Settled(h)' BY <1>5 DEF Settled
<1>11. Inboxes' BY <1>5, <1>8, <1>9, <1>10, InboxesStep DEF LinkInv
<1>12. RateLimited' BY DEF RateLimited, LinkInv, Aside
<1> QED BY <1>7, <1>11, <1>12 DEF LinkInv

LEMMA AnnounceLink ==
    ASSUME ProbesTwice, Inv, LinkInv, NEW h \in Hosts, Announce(h) PROVE LinkInv'
<1>1. /\ Aside(h) /\ Runs(h) /\ host'[h].state = "ANNOUNCE"
      /\ host'[h].ip = host[h].ip /\ host'[h].iface = host[h].iface
      /\ host'[h].nprobes = host[h].nprobes /\ host'[h].timer > 0
  <2>1. /\ Aside(h)
        /\ host'[h] = [host[h] EXCEPT !.state = "ANNOUNCE", !.nclaims = 0,
                                      !.timer = AnnounceInterval]
    BY SetIsAside DEF Announce
  <2>2. AnnounceInterval > 0 BY ZcipAssumption
  <2>3. Runs(h) BY DEF Announce, Due
  <2> QED BY <2>1, <2>2, <2>3, Known DEF Host
<1>2. /\ \/ host[h].state = "PROBE" /\ host[h].nprobes = ProbeNum
         \/ host[h].state = "RATE_LIMIT_PROBE"
      /\ host[h].timer = 0 /\ Sends(h, ClaimOf(h))
  BY DEF Announce, Due
<1>3. host[h].iface = NoIp BY <1>2, Known DEF Agrees
<1>4. ASSUME NEW k \in Hosts \ {h}, host[k].ip = host[h].ip, Firm(k) \/ Holds(k), Probed(h)
      PROVE  FALSE
  <2>1. ProbesMeet(k, h) /\ ProbeAnswered(k, h) BY <1>4 DEF LinkInv, Pairs, Pair
  <2>2. host[h].nprobes = ProbeNum /\ ProbeNum >= 2 BY <1>4 DEF Probed, ProbesTwice
  <2>3. host[h].state = "PROBE" BY <1>2, <2>2 DEF LinkInv, RateLimited
  <2>4. Probing(h, 1) /\ Probing(h, 2) BY <2>2, <2>3, Constants DEF Probing
  <2> QED BY <1>2, <1>4, <2>1, <2>4 DEF ProbesMeet, ProbeAnswered
<1> QED BY <1>1, <1>2, <1>3, <1>4, ClaimStep

LEMMA ClaimAgainLink ==
    ASSUME ProbesTwice, Inv, LinkInv, NEW h \in Hosts, ClaimAgain(h) PROVE LinkInv'
<1>1. /\ Aside(h) /\ Runs(h) /\ host[h].state = "ANNOUNCE" /\ host'[h].state = "ANNOUNCE"
      /\ host'[h].ip = host[h].ip /\ host'[h].iface = host[h].iface
      /\ host'[h].nprobes = host[h].nprobes /\ host'[h].timer > 0
  <2>1. /\ Aside(h)
        /\ host'[h] = [host[h] EXCEPT !.nclaims = @ + 1, !.timer = AnnounceInterval]
    BY SetIsAside DEF ClaimAgain
  <2>2. AnnounceInterval > 0 BY ZcipAssumption
  <2>3. Runs(h) /\ host[h].state = "ANNOUNCE" BY DEF ClaimAgain, Due
  <2> QED BY <2>1, <2>2, <2>3, Known DEF Host
<1>2. host[h].iface = NoIp BY <1>1, Known DEF Agrees
<1>3. ASSUME NEW k \in Hosts \ {h}, host[k].ip = host[h].ip, Firm(k) \/ Holds(k), Probed(h)
      PROVE  FALSE
  <2>1. ProbesMeet(k, h) /\ ProbeAnswered(k, h) BY <1>3 DEF LinkInv, Pairs, Pair
  <2>2. Announcing(h) BY <1>1, <1>3 DEF Announcing
  <2> QED BY <1>3, <2>1, <2>2 DEF ProbesMeet, ProbeAnswered
<1>4. Sends(h, ClaimOf(h)) BY DEF ClaimAgain
<1> QED BY <1>1, <1>2, <1>3, <1>4, ClaimStep

\* A second after its last claim the host has heard of everyone that claims or
\* has its address, and runs.
LEMMA ConfigureLink ==
    ASSUME ProbesTwice, Inv, Inv', LinkInv, NEW h \in Hosts, Configure(h) PROVE LinkInv'
<1>1. PICK s \in {"MONITOR", "quit"} :
          /\ Set(h, [host[h] EXCEPT !.state = s, !.iface = host[h].ip, !.conflicts = 0,
                                    !.timer = Never])
          /\ inbox' = IF s = "quit" THEN [inbox EXCEPT ![h] = <<>>] ELSE inbox
  BY DEF Configure
<1>2. /\ Aside(h) /\ host'[h].state = s /\ host'[h].ip = host[h].ip
      /\ host'[h].iface = host[h].ip /\ host'[h].nprobes = host[h].nprobes
      /\ host[h].state = "ANNOUNCE" /\ Firm(h) /\ Claimed(h)
  <2>1. /\ Aside(h)
        /\ host'[h] = [host[h] EXCEPT !.state = s, !.iface = host[h].ip, !.conflicts = 0,
                                      !.timer = Never]
    BY <1>1, SetIsAside
  <2>2. host[h].state = "ANNOUNCE" /\ host[h].nclaims = AnnounceNum /\ host[h].timer = 0
    BY DEF Configure, Due
  <2>3. AnnounceNum >= 1 BY ZcipAssumption
  <2> QED BY <2>1, <2>2, <2>3, Known DEF Host, Firm, Claimed
<1>3. /\ \A k \in Hosts \ {h} : In(k)' = In(k)
      /\ In(h)' \subseteq In(h) /\ (s = "MONITOR" => In(h)' = In(h))
  <2>1. CASE s = "quit" BY <1>1, <2>1, Emptied
  <2>2. CASE s = "MONITOR" BY <1>1, <2>2, InIsSame
  <2> QED BY <2>1, <2>2
<1>4. /\ Holds(h)' /\ ~Claimed(h)' /\ ~Firm(h)' /\ ~Probing(h, 1)' /\ ~Probing(h, 2)'
      /\ ~Announcing(h)' /\ (Probed(h)' <=> Probed(h))
  <2>1. host[h].ip # NoIp BY <1>2, Known, Constants
  <2> QED BY <1>2, <2>1 DEF Holds, Claimed, Firm, Probing, Announcing, Probed
<1>5. ASSUME NEW k \in Hosts \ {h}, host'[h].ip = host'[k].ip
      PROVE  Pair(h, k)' /\ Pair(k, h)'
  <2>1. host'[k] = host[k] /\ host[k].ip = host[h].ip BY <1>2, <1>5 DEF Aside
  <2>2. Pair(h, k) /\ Pair(k, h) BY <2>1 DEF LinkInv, Pairs
  <2>3. /\ Claimed(k)' <=> Claimed(k)
        /\ Firm(k)' <=> Firm(k)
        /\ Holds(k)' <=> Holds(k)
        /\ Runs(k)' <=> Runs(k)
        /\ Announcing(k)' <=> Announcing(k)
        /\ Probing(k, 2)' => Probing(k, 1) /\ host[k].nprobes # 1
    <3>1. host[k].nprobes \in Nat BY Known
    <3> QED BY <2>1, <3>1 DEF Claimed, Firm, Holds, Runs, Announcing, Probed, Probing
  <2>4. Runs(h)' => s = "MONITOR" BY <1>2 DEF Runs, Running
  <2>5. Runs(h)' /\ Warned(h) => Warned(h)'
    BY <1>2, <1>3, <2>4 DEF Warned, SourceConflict
  <2>6. Warned(k) => Warned(k)' BY <1>3, <2>1 DEF Warned, SourceConflict
  <2>7. ClaimsMeet(h, k)'
    BY <1>2, <1>4, <2>2, <2>3, <2>5, <2>6 DEF Pair, ClaimsMeet
  <2>8. ClaimsMeet(k, h)' BY <1>4 DEF ClaimsMeet
  <2>9. ProbesMeet(h, k)' /\ ProbesMeet(k, h)' BY <1>4 DEF ProbesMeet
  <2>10. ProbeAnswered(h, k)'
    BY <1>2, <2>2, <2>3 DEF Pair, ProbesMeet, ProbeAnswered
  <2>11. ProbeAnswered(k, h)' BY <1>4 DEF ProbeAnswered
  <2>12. Holds(k)' => Excused(h, k)' /\ Excused(k, h)'
    <3> SUFFICES ASSUME Holds(k) PROVE ~Runs(k) /\ ~Probed(h)
      BY <1>4, <2>3 DEF Excused
    <3> QED BY <1>2, <2>2 DEF Pair, ClaimsMeet, ProbeAnswered, Announcing
  <2> QED BY <2>7, <2>8, <2>9, <2>10, <2>11, <2>12 DEF Pair
<1>6. Pairs' BY <1>2, <1>3, <1>5, PairsStep DEF LinkInv
<1>7. \A k \in Hosts : In(k)' \subseteq In(k) BY <1>3
<1>8. ASSUME NEW x, x.src = h PROVE SenderOK(x)' BY <1>4, <1>8 DEF SenderOK
<1>9. Settled(h) BY <1>2 DEF Settled
<1>10. Inboxes' BY <1>2, <1>4, <1>7, <1>8, <1>9, InboxesStep DEF LinkInv
<1>11. RateLimited'
  <2>1. host'[h].state # "RATE_LIMIT_PROBE" BY <1>2
  <2> QED BY <1>2, <2>1, RateStep
<1> QED BY <1>6, <1>10, <1>11 DEF LinkInv

\* A host that keeps its address.  A conflict that it takes from its inbox it
\* tells the other host of.
LEMMA HolderStep ==
    ASSUME ProbesTwice, Inv, LinkInv, NEW h \in Hosts, Aside(h),
           host[h].state \in {"MONITOR", "DEFEND"}, host'[h].state \in {"MONITOR", "DEFEND"},
           host'[h].ip = host[h].ip, host'[h].iface = host[h].iface,
           host'[h].nprobes = host[h].nprobes,
           \A k \in Hosts \ {h} : In(k) \subseteq In(k)',
           \A k \in Hosts \ {h} : host[k].ip = host[h].ip /\ Runs(k) /\ Warned(h)
               => Warned(h)' \/ Warned(k)',
           \A k \in Hosts : \A x \in In(k)' : x \in In(k) \/ (SenderOK(x)' /\ HeardOK(k, x)')
    PROVE  LinkInv'
<1>1. /\ Holds(h) /\ Holds(h)' /\ Runs(h) /\ Runs(h)' /\ ~Claimed(h)' /\ ~Firm(h)'
      /\ ~Probing(h, 1)' /\ ~Probing(h, 2)' /\ ~Announcing(h)' /\ (Probed(h)' <=> Probed(h))
  <2>1. host[h].iface # NoIp BY Known, Constants DEF Agrees
  <2> QED BY <2>1 DEF Holds, Runs, Running, Claimed, Firm, Probing, Announcing, Probed
<1>2. ASSUME NEW k \in Hosts \ {h}, host'[h].ip = host'[k].ip
      PROVE  Pair(h, k)' /\ Pair(k, h)'
  <2>1. host'[k] = host[k] /\ host[k].ip = host[h].ip BY <1>2 DEF Aside
  <2>2. Pair(h, k) /\ Pair(k, h) BY <2>1 DEF LinkInv, Pairs
  <2>3. /\ Claimed(k)' <=> Claimed(k)
        /\ Claimed(k) => Runs(k)
        /\ Firm(k)' <=> Firm(k)
        /\ Holds(k)' <=> Holds(k)
        /\ Announcing(k)' <=> Announcing(k)
        /\ Probing(k, 2)' <=> Probing(k, 2)
    BY <2>1 DEF Claimed, Firm, Holds, Runs, Running, Announcing, Probed, Probing
  <2>4. (Warned(k) => Warned(k)') /\ (Alarmed(k) => Alarmed(k)') BY <2>1, WarningsStay
  <2>5. ClaimsMeet(h, k)'
    BY <1>1, <2>1, <2>2, <2>3, <2>4 DEF Pair, ClaimsMeet
  <2>6. ClaimsMeet(k, h)' BY <1>1 DEF ClaimsMeet
  <2>7. ProbesMeet(h, k)' /\ ProbesMeet(k, h)' BY <1>1 DEF ProbesMeet
  <2>8. ProbeAnswered(h, k)' BY <1>1, <2>1, <2>2, <2>3, <2>4 DEF Pair, ProbeAnswered
  <2>9. ProbeAnswered(k, h)' BY <1>1 DEF ProbeAnswered
  <2>10. Holds(k)' => Excused(h, k)' /\ Excused(k, h)'
    BY <1>1, <2>1, <2>2, <2>3 DEF Pair, Excused, Runs, Probed
  <2> QED BY <2>5, <2>6, <2>7, <2>8, <2>9, <2>10 DEF Pair
<1>3. Pairs' BY <1>2, PairsStep DEF LinkInv
<1>4. ASSUME NEW x, x.src = h PROVE SenderOK(x)' BY <1>1, <1>4 DEF SenderOK
<1>5. Settled(h) BY <1>1 DEF Settled
<1>6. Inboxes' BY <1>1, <1>4, <1>5, InboxesStep DEF LinkInv
<1>7. RateLimited'
  <2>1. host'[h].state # "RATE_LIMIT_PROBE" OBVIOUS
  <2> QED BY <2>1, RateStep
<1> QED BY <1>3, <1>6, <1>7 DEF LinkInv

LEMMA WonLink ==
    ASSUME ProbesTwice, Inv, LinkInv, NEW h \in Hosts, Won(h) PROVE LinkInv'
<1>1. /\ Aside(h) /\ host[h].state = "DEFEND"
      /\ host'[h] = [host[h] EXCEPT !.state = "MONITOR", !.conflicts = 0, !.timer = Never]
  BY SetIsAside DEF Won
<1>2. /\ host'[h].state = "MONITOR" /\ host'[h].ip = host[h].ip
      /\ host'[h].iface = host[h].iface /\ host'[h].nprobes = host[h].nprobes
  BY <1>1, Known DEF Host
<1>3. \A k \in Hosts : In(k)' = In(k) BY InIsSame DEF Won
<1>4. Warned(h) => Warned(h)' BY <1>2, <1>3 DEF Warned, SourceConflict
<1> QED BY <1>1, <1>2, <1>3, <1>4, HolderStep

\* A packet that is no conflict is taken while the host probes or announces.
LEMMA OverlookStep ==
    ASSUME ProbesTwice, Inv, LinkInv, NEW h \in Hosts, Aside(h),
           host[h].state \in {"PROBE", "ANNOUNCE"}, host'[h].state = host[h].state,
           host'[h].ip = host[h].ip, host'[h].iface = host[h].iface,
           host'[h].nprobes = host[h].nprobes, host'[h].nclaims = host[h].nclaims,
           host[h].timer # 0 => host'[h].timer = host[h].timer,
           \A k \in Hosts \ {h} : In(k)' = In(k), In(h)' \subseteq In(h),
           \A x \in In(h) \ In(h)' : ~SourceConflict(h, x) /\ ~TargetConflict(h, x)
    PROVE  LinkInv'
<1>1. /\ ~Holds(h) /\ ~Holds(h)'
      /\ Claimed(h)' <=> Claimed(h)
      /\ Firm(h)' => Firm(h)
      /\ Probing(h, 1)' <=> Probing(h, 1)
      /\ Probing(h, 2)' <=> Probing(h, 2)
      /\ Announcing(h)' <=> Announcing(h)
      /\ Probed(h)' <=> Probed(h)
      /\ host[h].timer > 0 => host'[h].timer > 0
      /\ Runs(h) /\ Runs(h)'
  <2>1. host[h].iface = NoIp /\ host[h].timer \in Int BY Known DEF Agrees, Host
  <2> QED BY <2>1 DEF Holds, Claimed, Firm, Probing, Announcing, Probed, Runs, Running
<1>2. (Warned(h) => Warned(h)') /\ (Alarmed(h) => Alarmed(h)')
  BY DEF Warned, Alarmed, SourceConflict, TargetConflict
<1>3. ASSUME NEW k \in Hosts \ {h}, host'[h].ip = host'[k].ip
      PROVE  Pair(h, k)' /\ Pair(k, h)'
  <2>1. host'[k] = host[k] /\ host[k].ip = host[h].ip /\ In(k)' = In(k)
    BY <1>3 DEF Aside
  <2>2. Pair(h, k) /\ Pair(k, h) BY <2>1 DEF LinkInv, Pairs
  <2>3. /\ Claimed(k)' <=> Claimed(k)
        /\ Firm(k)' <=> Firm(k)
        /\ Holds(k)' <=> Holds(k)
        /\ Runs(k)' <=> Runs(k)
        /\ Announcing(k)' <=> Announcing(k)
        /\ Probing(k, 1)' <=> Probing(k, 1)
        /\ Probing(k, 2)' <=> Probing(k, 2)
        /\ host'[k].nprobes = host[k].nprobes /\ host'[k].timer = host[k].timer
    BY <2>1 DEF Claimed, Firm, Holds, Runs, Announcing, Probed, Probing
  <2>4. (Warned(k) => Warned(k)') /\ (Alarmed(k) => Alarmed(k)') BY <2>1, WarningsStay
  <2>5. ClaimsMeet(h, k)' /\ ClaimsMeet(k, h)'
    BY <1>1, <1>2, <2>2, <2>3, <2>4 DEF Pair, ClaimsMeet
  <2>6. ProbesMeet(h, k)' /\ ProbesMeet(k, h)'
    BY <1>1, <1>2, <2>2, <2>3, <2>4 DEF Pair, ProbesMeet
  <2>7. ProbeAnswered(h, k)' /\ ProbeAnswered(k, h)'
    BY <1>1, <1>2, <2>2, <2>3, <2>4 DEF Pair, ProbeAnswered
  <2> QED BY <1>1, <2>5, <2>6, <2>7 DEF Pair
<1>4. Pairs' BY <1>3, PairsStep DEF LinkInv
<1>5. \A k \in Hosts : In(k)' \subseteq In(k) OBVIOUS
<1>6. ASSUME NEW k \in Hosts, NEW x \in In(k), x.src = h PROVE SenderOK(x)'
  <2>1. SenderOK(x) BY DEF LinkInv, Inboxes
  <2> QED BY <1>1, <1>6, <2>1 DEF SenderOK
<1>7. Settled(h)' => Settled(h) BY <1>1 DEF Settled
<1>8. Inboxes' BY <1>1, <1>5, <1>6, <1>7, InboxesStep DEF LinkInv
<1>9. RateLimited'
  <2>1. host'[h].state # "RATE_LIMIT_PROBE" OBVIOUS
  <2> QED BY <2>1, RateStep
<1> QED BY <1>4, <1>8, <1>9 DEF LinkInv

LEMMA ReceiveLink ==
    ASSUME ProbesTwice, Inv, Inv', LinkInv, NEW h \in Hosts, Receive(h) PROVE LinkInv'
<1>0. PICK p, rest : p = Head(inbox[h]) /\ rest = [inbox EXCEPT ![h] = Tail(@)] OBVIOUS
<1>1. Runs(h) /\ inbox[h] # <<>> BY DEF Receive
<1>2. /\ p \in Packet /\ rest \in [Hosts -> Seq(Packet)]
      /\ In(h) = {p} \cup Of(rest[h])
      /\ \A k \in Hosts \ {h} : rest[k] = inbox[k]
  <2>1. inbox[h] \in Seq(Packet) BY Known
  <2>2. /\ Of(inbox[h]) = {p} \cup Of(Tail(inbox[h])) /\ p \in Packet
        /\ Tail(inbox[h]) \in Seq(Packet)
    BY <1>0, <1>1, <2>1, OfHead
  <2>3. rest[h] = Tail(inbox[h]) BY <1>0, Known
  <2> QED BY <1>0, <2>2, <2>3, Known DEF In
<1>3. ASSUME inbox' = rest
      PROVE  In(h) = {p} \cup In(h)' /\ \A k \in Hosts \ {h} : In(k)' = In(k)
  BY <1>2, <1>3 DEF In
<1>4. CASE Repick(h, p) /\ inbox' = rest
  <2>1. host[h].state \in {"PROBE", "ANNOUNCE"} BY <1>4 DEF Repick
  <2>2. PICK a \in Ips, t \in Restarts, s \in {host[h].state, "RATE_LIMIT_PROBE"} :
            Set(h, [host[h] EXCEPT !.state = s, !.ip = a, !.timer = t, !.nprobes = 0,
                                   !.nclaims = 0,
                                   !.conflicts = IF @ < MaxConflicts THEN @ + 1 ELSE @])
    BY <1>4 DEF Repick
  <2>3. PICK c : c = IF host[h].conflicts < MaxConflicts THEN host[h].conflicts + 1
                     ELSE host[h].conflicts
    OBVIOUS
  <2>4. Aside(h) /\ host'[h] = [host[h] EXCEPT !.state = s, !.ip = a, !.timer = t,
                                   !.nprobes = 0, !.nclaims = 0, !.conflicts = c]
    BY <2>2, <2>3, SetIsAside
  <2>5. Blank(h)' BY <2>1, <2>4, Known DEF Blank, Agrees, Host
  <2> QED BY <1>3, <1>4, <2>4, <2>5, BlankStep
<1>5. CASE StartOver(h, p) /\ inbox' = rest
  <2>1. PICK a \in Ips, t \in Restarts :
            Set(h, [host[h] EXCEPT !.state = "PROBE", !.ip = a, !.timer = t,
                                   !.nprobes = 0, !.nclaims = 0])
    BY <1>5 DEF StartOver
  <2>2. Aside(h) /\ host'[h] = [host[h] EXCEPT !.state = "PROBE", !.ip = a, !.timer = t,
                                               !.nprobes = 0, !.nclaims = 0]
    BY <2>1, SetIsAside
  <2>3. host[h].state = "RATE_LIMIT_PROBE" BY <1>5 DEF StartOver
  <2>4. Blank(h)' BY <2>2, <2>3, Known DEF Blank, Agrees, Host
  <2> QED BY <1>3, <1>5, <2>2, <2>4, BlankStep
<1>6. CASE GiveUp(h, p) /\ inbox' = rest
  <2>1. PICK a \in Ips, t \in Restarts :
            Set(h, [host[h] EXCEPT !.state = "PROBE", !.ip = a, !.timer = t, !.nprobes = 0,
                                   !.nclaims = 0, !.iface = NoIp])
    BY <1>6 DEF GiveUp
  <2>2. Aside(h) /\ host'[h] = [host[h] EXCEPT !.state = "PROBE", !.ip = a, !.timer = t,
                                   !.nprobes = 0, !.nclaims = 0, !.iface = NoIp]
    BY <2>1, SetIsAside
  <2>3. Blank(h)' BY <2>2, Known DEF Blank, Host
  <2> QED BY <1>3, <1>6, <2>2, <2>3, BlankStep
<1>7. CASE Ignore(h, p) /\ inbox' = rest
  <2>1. PICK t : Set(h, [host[h] EXCEPT !.timer = t]) /\ (host[h].timer # 0 => t = host[h].timer)
    BY <1>7 DEF Ignore
  <2>2. Aside(h) /\ host'[h] = [host[h] EXCEPT !.timer = t] BY <2>1, SetIsAside
  <2>3. /\ host'[h].state = host[h].state /\ host'[h].ip = host[h].ip
        /\ host'[h].iface = host[h].iface /\ host'[h].nprobes = host[h].nprobes
        /\ host'[h].nclaims = host[h].nclaims /\ host'[h].timer = t
    BY <2>2, Known DEF Host
  <2>4. CASE /\ host[h].state \in {"PROBE", "ANNOUNCE"}
             /\ ~SourceConflict(h, p) /\ ~TargetConflict(h, p)
    <3>1. In(h)' \subseteq In(h) /\ \A x \in In(h) \ In(h)' : x = p BY <1>3, <1>7
    <3> QED BY <1>3, <1>7, <2>1, <2>2, <2>3, <2>4, <3>1, OverlookStep
  <2>5. CASE host[h].state \in {"MONITOR", "DEFEND"} /\ ~SourceConflict(h, p)
    <3>1. Warned(h) => Warned(h)' BY <1>3, <1>7, <2>3, <2>5 DEF Warned, SourceConflict
    <3>2. /\ \A k \in Hosts \ {h} : In(k) \subseteq In(k)'
          /\ \A k \in Hosts : In(k)' \subseteq In(k)
      BY <1>3, <1>7
    <3> QED BY <2>2, <2>3, <2>5, <3>1, <3>2, HolderStep
  <2> QED BY <1>7, <2>4, <2>5 DEF Ignore
<1>8. CASE Defend(h, p) /\ inbox' = Broadcast(rest, h, ClaimOf(h))
  <2>0. PICK c : c = ClaimOf(h) OBVIOUS
  <2>1. /\ c \in Packet /\ c.src = h /\ c.spa = host[h].ip /\ c.tpa = host[h].ip
    BY <1>1, <2>0, PacketsOf DEF ClaimOf
  <2>2. /\ Aside(h) /\ host[h].state = "MONITOR"
        /\ host'[h] = [host[h] EXCEPT !.state = "DEFEND", !.timer = DefendInterval]
    BY <1>8, SetIsAside DEF Defend
  <2>3. /\ host'[h].state = "DEFEND" /\ host'[h].ip = host[h].ip
        /\ host'[h].iface = host[h].iface /\ host'[h].nprobes = host[h].nprobes
    BY <2>2, Known DEF Host
  <2>4. inbox' = Broadcast(rest, h, c) BY <1>8, <2>0
  <2>5. In(h)' \subseteq In(h)
    <3>1. Of(Answers(h, c)) = {} BY <2>1, AnswersAre
    <3>2. In(h)' = Of(rest[h]) \cup Of(Answers(h, c)) BY <1>1, <1>2, <2>1, <2>4, SentTo
    <3> QED BY <1>2, <3>1, <3>2
  <2>6. ASSUME NEW k \in Hosts \ {h}
        PROVE  (Runs(k) => In(k)' = In(k) \cup {c}) /\ (~Runs(k) => In(k)' = In(k))
    <3>1. Of(rest[k]) = In(k) BY <1>2 DEF In
    <3> QED BY ONLY <1>2, <2>1, <2>4, <3>1, k \in Hosts \ {h}, h \in Hosts, SentTo
  <2>7. ASSUME NEW k \in Hosts \ {h}, host[k].ip = host[h].ip, Runs(k) PROVE Warned(k)'
    <3>1. c \in In(k)' BY <2>6, <2>7
    <3>2. host'[k] = host[k] BY <2>2 DEF Aside
    <3>3. SourceConflict(k, c)' BY <2>1, <2>7, <3>2 DEF SourceConflict
    <3> QED BY <3>1, <3>3 DEF Warned
  <2>8. Holds(h) /\ ~Probing(h, 1)' /\ ~Probing(h, 2)'
    BY <1>1, <2>2, <2>3, Known, Constants DEF Holds, Agrees, Probing
  <2>9. ASSUME NEW k \in Hosts, NEW x \in In(k)', x \notin In(k)
        PROVE  SenderOK(x)' /\ HeardOK(k, x)'
    <3>1. k \in Hosts \ {h} /\ x = c BY <2>5, <2>6, <2>9
    <3>2. SenderOK(x)' BY <2>1, <2>8, <3>1 DEF SenderOK
    <3>3. HeardOK(k, x)'
      <4> SUFFICES ASSUME Settled(k)', SourceConflict(k, x)'
                   PROVE  FALSE
        BY DEF HeardOK
      <4>1. host'[k] = host[k] BY <2>2, <3>1 DEF Aside
      <4>2. Firm(k) \/ (Holds(k) /\ Runs(k)) BY <4>1 DEF Settled, Firm, Claimed, Holds, Runs
      <4>3. host[k].ip = host[h].ip BY <2>1, <3>1, <4>1 DEF SourceConflict
      <4>4. Pair(h, k) BY <3>1, <4>3 DEF LinkInv, Pairs
      <4> QED BY <1>1, <2>8, <4>2, <4>4 DEF Pair, ClaimsMeet, Excused
    <3> QED BY <3>2, <3>3
  <2>10. \A k \in Hosts \ {h} : In(k) \subseteq In(k)' BY <2>6
  <2> QED BY <2>2, <2>3, <2>7, <2>9, <2>10, HolderStep
<1>9. \/ Repick(h, p) /\ inbox' = rest
      \/ StartOver(h, p) /\ inbox' = rest
      \/ Defend(h, p) /\ inbox' = Broadcast(rest, h, ClaimOf(h))
      \/ GiveUp(h, p) /\ inbox' = rest
      \/ Ignore(h, p) /\ inbox' = rest
  BY <1>0 DEF Receive
<1> QED BY <1>4, <1>5, <1>6, <1>7, <1>8, <1>9

\* The traffic of a host that has an address.
LEMMA ResolveLink ==
    ASSUME ProbesTwice, Inv, LinkInv, NEW h \in Hosts, Resolve(h) PROVE LinkInv'
<1>1. host' = host /\ Holds(h) BY DEF Resolve, Holds
<1>2. host[h].iface = host[h].ip /\ host[h].ip \in Ips
      /\ host[h].state \in {"MONITOR", "DEFEND", "quit"}
  BY <1>1, Known, Constants DEF Holds, Agrees
<1>0. PICK a \in Ips \ {host[h].iface} :
          inbox' = Broadcast(inbox, h, [op |-> "REQUEST", src |-> h, spa |-> host[h].iface,
                                        tha |-> NoHost, tpa |-> a])
  BY DEF Resolve
<1>3. PICK p :
          /\ p = [op |-> "REQUEST", src |-> h, spa |-> host[h].iface, tha |-> NoHost,
                  tpa |-> a]
          /\ inbox' = Broadcast(inbox, h, p)
  BY <1>0
<1>4. p \in Packet /\ p.src = h /\ p.spa = host[h].ip /\ p.tpa = a
  BY <1>2, <1>3 DEF Packet
<1>5. /\ Runs(h) => In(h)' = In(h) \cup Of(Answers(h, p))
      /\ ~Runs(h) => In(h)' = In(h)
      /\ \A k \in Hosts \ {h} : /\ Runs(k) => In(k)' = In(k) \cup {p}
                                /\ ~Runs(k) => In(k)' = In(k)
  BY <1>3, <1>4, SentNow
<1>6. \A k \in Hosts : In(k) \subseteq In(k)' BY <1>5
<1>7. Pairs' BY <1>1, <1>6, PairAside DEF LinkInv, Pairs
<1>8. Aside(h) BY <1>1 DEF Aside
<1>9. ASSUME NEW k \in Hosts, NEW x \in In(k)', x \notin In(k)
      PROVE  SenderOK(x)' /\ HeardOK(k, x)'
  <2>1. CASE k = h
    <3>1. x \in Of(Answers(h, p)) BY <1>5, <1>9, <2>1
    <3>2. x.spa = a /\ x.src \in Answering(h, p) BY <1>4, <3>1, AnswersAre
    <3>3. x.src \in Hosts /\ host[x.src].iface = a BY <1>4, <3>2 DEF Answering
    <3>4. host[x.src].state # "PROBE" BY <3>3, Known, Constants DEF Agrees
    <3>5. ~SourceConflict(h, x)' BY <1>1, <1>2, <3>2 DEF SourceConflict
    <3> QED BY <1>1, <2>1, <3>4, <3>5 DEF SenderOK, Probing, HeardOK
  <2>2. CASE k # h
    <3>1. x = p BY <1>5, <1>9, <2>2
    <3>2. SenderOK(x)' BY <1>1, <1>2, <1>4, <3>1 DEF SenderOK, Probing
    <3>3. HeardOK(k, x)'
      <4> SUFFICES ASSUME Settled(k), Probed(k),
                          host[k].ip = host[h].ip
                   PROVE  FALSE
        BY <1>1, <1>4, <3>1
           DEF HeardOK, Settled, Firm, Claimed, Holds, Runs, Probed, SourceConflict
      <4>1. Pair(h, k) /\ Pair(k, h) BY <2>2 DEF LinkInv, Pairs
      <4>2. CASE Firm(k)
        <5>1. ~Announcing(k) BY <1>1, <4>1 DEF Pair, ProbeAnswered
        <5> QED BY <4>2, <5>1 DEF Announcing, Firm, Claimed
      <4>3. CASE Holds(k) /\ Runs(k) BY <1>1, <4>1, <4>3 DEF Pair, Excused
      <4> QED BY <4>2, <4>3 DEF Settled
    <3> QED BY <3>2, <3>3
  <2> QED BY <2>1, <2>2
<1>10. \A k \in Hosts : \A x \in In(k) : SenderOK(x)'
  BY <1>1 DEF LinkInv, Inboxes, SenderOK, Probing
<1>11. (Probed(h)' => Probed(h)) /\ (Settled(h)' => Settled(h))
  BY <1>1 DEF Probed, Settled, Firm, Claimed, Holds, Runs
<1>12. Inboxes' BY <1>1, <1>8, <1>9, <1>10, <1>11, InboxesStep DEF LinkInv
<1>13. RateLimited' BY <1>1 DEF LinkInv, RateLimited
<1> QED BY <1>7, <1>12, <1>13 DEF LinkInv

\* The clock ticks when all packets have been read.
LEMMA TickLink ==
    ASSUME ProbesTwice, Inv, LinkInv, Tick PROVE LinkInv'
<1>1. \A k \in Hosts : In(k) = {} /\ In(k)' = {} BY DEF Tick, In, Of
<1>2. ASSUME NEW k \in Hosts
      PROVE  /\ ~Warned(k) /\ ~Alarmed(k)
             /\ Claimed(k)' <=> Claimed(k)
             /\ Firm(k)' => Claimed(k)
             /\ Holds(k)' <=> Holds(k)
             /\ Runs(k)' <=> Runs(k)
             /\ Probed(k)' <=> Probed(k)
             /\ Announcing(k)' <=> Announcing(k)
             /\ Probing(k, 1)' <=> Probing(k, 1)
             /\ Probing(k, 2)' <=> Probing(k, 2)
             /\ host'[k].ip = host[k].ip
             /\ host'[k].state = "RATE_LIMIT_PROBE" => host'[k].nprobes = 0
  <2>1. PICK t : host'[k] = [host[k] EXCEPT !.timer = t] BY DEF Tick
  <2>2. /\ host'[k].state = host[k].state /\ host'[k].ip = host[k].ip
        /\ host'[k].iface = host[k].iface /\ host'[k].nprobes = host[k].nprobes
        /\ host'[k].nclaims = host[k].nclaims
    BY <2>1, Known DEF Host
  <2>3. ~Warned(k) /\ ~Alarmed(k) BY <1>1 DEF Warned, Alarmed
  <2>4. host[k].state = "RATE_LIMIT_PROBE" => host[k].nprobes = 0
    BY DEF LinkInv, RateLimited
  <2> QED BY <2>2, <2>3, <2>4 DEF Claimed, Firm, Holds, Runs, Probed, Announcing, Probing
<1>3. ASSUME NEW g \in Hosts, NEW k \in Hosts, g # k, host'[g].ip = host'[k].ip
      PROVE  Pair(g, k)'
  <2>1. Pair(g, k) BY <1>2, <1>3 DEF LinkInv, Pairs
  <2>2. ClaimsMeet(g, k)' BY <1>2, <2>1 DEF Pair, ClaimsMeet
  <2>3. ProbesMeet(g, k)' BY <1>2, <2>1 DEF Pair, ProbesMeet
  <2>4. ProbeAnswered(g, k)' BY <1>2, <2>1 DEF Pair, ProbeAnswered
  <2> QED BY <1>2, <2>1, <2>2, <2>3, <2>4 DEF Pair, Excused
<1>4. Pairs' BY <1>3 DEF Pairs
<1>5. Inboxes' BY <1>1 DEF Inboxes
<1>6. RateLimited' BY <1>2 DEF RateLimited
<1> QED BY <1>4, <1>5, <1>6 DEF LinkInv

-----------------------------------------------------------------------------
\* The whole: as long as nothing is lost, LinkInv.
Quiet == lost = 0 => LinkInv

LEMMA QuietStep == ASSUME ProbesTwice PROVE Inv /\ Inv' /\ Quiet /\ [Next]_vars => Quiet'
<1> SUFFICES ASSUME Inv, Inv', Quiet, [Next]_vars, lost' = 0 PROVE LinkInv'
  BY DEF Quiet
<1>1. ASSUME NEW h \in Hosts, Lose(h) PROVE FALSE
  <2>1. lost' = lost + 1 /\ lost \in Nat BY <1>1, Known, Constants DEF Lose
  <2> QED BY <2>1
<1>2. ASSUME NEW h \in Hosts,
             \/ Boot(h) \/ LinkDown(h) \/ Die(h) \/ Timeout(h)
             \/ Receive(h) \/ Resolve(h)
      PROVE  LinkInv'
  <2>1. LinkInv
    BY <1>2 DEF Quiet, Boot, LinkDown, Die, Timeout, Probe, Announce, ClaimAgain, Configure,
                Won, Receive, Resolve, Sends
  <2> QED
    BY <1>2, <2>1, BootLink, LinkDownLink, DieLink, ProbeLink, AnnounceLink, ClaimAgainLink,
       ConfigureLink, WonLink, ReceiveLink, ResolveLink DEF Timeout
<1>3. CASE Tick
  <2>1. LinkInv BY <1>3 DEF Quiet, Tick
  <2> QED BY <1>3, <2>1, TickLink
<1>4. CASE UNCHANGED vars
  <2>1. LinkInv BY <1>4 DEF Quiet, vars
  <2>2. host' = host /\ inbox' = inbox BY <1>4 DEF vars
  <2>3. \A k \in Hosts : In(k)' = In(k) BY <2>2, InIsSame
  <2>4. Pairs' BY <2>1, <2>2, <2>3, PairAside DEF LinkInv, Pairs
  <2>5. Inboxes'
    BY <2>1, <2>2, <2>3 DEF LinkInv, Inboxes, SenderOK, Probing, HeardOK, Settled, Firm,
                            Claimed, Holds, Runs, Probed, SourceConflict
  <2>6. RateLimited' BY <2>1, <2>2 DEF LinkInv, RateLimited
  <2> QED BY <2>4, <2>5, <2>6 DEF LinkInv
<1> QED BY <1>1, <1>2, <1>3, <1>4 DEF Next

LEMMA QuietInit == Init => Quiet
<1> SUFFICES ASSUME Init PROVE LinkInv BY DEF Quiet
<1>1. \A h \in Hosts : host[h] = Off /\ In(h) = {} BY DEF Init, In, Of
<1>2. \A h \in Hosts : ~Holds(h) /\ ~Claimed(h) /\ ~Firm(h) /\ ~Announcing(h)
  BY <1>1 DEF Off, Holds, Claimed, Firm, Announcing
<1>3. Pairs BY <1>2 DEF Pairs, Pair, ClaimsMeet, ProbesMeet, ProbeAnswered
<1>4. Inboxes BY <1>1 DEF Inboxes
<1>5. RateLimited BY <1>1 DEF RateLimited, Off
<1> QED BY <1>3, <1>4, <1>5 DEF LinkInv

\* For any number of hosts, addresses, and packets in flight: as long as no
\* packet is lost, no two interfaces get one address (zcip_main), whatever
\* hosts boot, lose their link or die; but for a zcip that has exited, which
\* does not hear the claims of a host that has not probed.
THEOREM NeverTwoOwners == ASSUME ProbesTwice PROVE Spec => []NeverShared
<1>1. Inv /\ Quiet => NeverShared
  <2> SUFFICES ASSUME Inv, Quiet, lost = 0, NEW g \in Hosts, NEW h \in Hosts, SharedBy(g, h)
               PROVE  Excused(g, h)
    BY DEF NeverShared, Excused
  <2>1. Holds(g) /\ Holds(h) /\ host[g].iface = host[h].iface /\ g # h
    BY DEF SharedBy, Holds
  <2>2. host[g].ip = host[h].ip BY <2>1, Known DEF Holds, Agrees
  <2> QED BY <2>1, <2>2 DEF Quiet, LinkInv, Pairs, Pair
<1>2. Init => Inv /\ Quiet BY InitInv, QuietInit
<1>3. Inv /\ Quiet /\ [Next]_vars => (Inv /\ Quiet)' BY NextStep, QuietStep
<1> QED BY <1>1, <1>2, <1>3, PTL DEF Spec

\* To whom a host in DEFEND gives up its address.
LEMMA GivesUpTo ==
    ASSUME Inv, Quiet, lost = 0, [Next]_vars, NEW h \in Hosts,
           host[h].state = "DEFEND", host'[h].state = "PROBE", Probed(h)
    PROVE  ~Probed(Head(inbox[h]).src)
<1>1. ASSUME NEW k \in Hosts, Receive(k), k = h PROVE ~Probed(Head(inbox[h]).src)
  <2>1. PICK p : p = Head(inbox[h]) OBVIOUS
  <2>2. inbox[h] # <<>> /\ inbox[h] \in Seq(Packet) BY <1>1, Known DEF Receive
  <2>3. p \in In(h) /\ p \in Packet BY <2>1, <2>2, OfHead DEF In
  <2>4. GiveUp(h, p)
    <3>1. ~Repick(h, p) /\ ~StartOver(h, p) BY DEF Repick, StartOver
    <3>2. ASSUME NEW t, Set(h, [host[h] EXCEPT !.timer = t]) PROVE FALSE
      <4>1. host'[h] = [host[h] EXCEPT !.timer = t] BY <3>2, SetIsAside
      <4> QED BY <4>1, Known DEF Host
    <3>3. ~Ignore(h, p) BY <3>2 DEF Ignore
    <3>4. ~Defend(h, p) BY DEF Defend
    <3> QED BY <1>1, <2>1, <3>1, <3>3, <3>4 DEF Receive
  <2>5. SourceConflict(h, p) BY <2>4 DEF GiveUp
  <2>6. Settled(h)
    <3>1. host[h].iface # NoIp BY Known, Constants DEF Agrees
    <3> QED BY <3>1 DEF Settled, Holds, Runs, Running
  <2>7. ~Probed(p.src) BY <2>3, <2>5, <2>6 DEF Quiet, LinkInv, Inboxes, HeardOK
  <2> QED BY <2>1, <2>7
<1>2. ASSUME NEW k \in Hosts, NEW r, Set(k, r), k = h => r.state # "PROBE" PROVE FALSE
  <2>1. Aside(k) /\ host'[k] = r BY <1>2, SetIsAside
  <2>2. CASE k = h BY <1>2, <2>1, <2>2
  <2>3. CASE k # h BY <2>1, <2>3 DEF Aside
  <2> QED BY <2>2, <2>3
<1>3. ASSUME NEW k \in Hosts, Aside(k), k # h PROVE FALSE BY <1>3 DEF Aside
<1>4. host[h] \in Host BY Known
<1>5. ASSUME NEW k \in Hosts, Boot(k) PROVE FALSE
  <2>1. k # h BY <1>5 DEF Boot
  <2> QED BY <1>5, <2>1, <1>3, SetIsAside DEF Boot
<1>6. ASSUME NEW k \in Hosts, LinkDown(k) PROVE FALSE
  BY <1>2, <1>6 DEF LinkDown, Off
<1>7. ASSUME NEW k \in Hosts, Die(k) PROVE FALSE
  <2>1. CASE host[k].iface = NoIp BY <1>2, <1>7, <2>1 DEF Die, Off
  <2>2. CASE host[k].iface # NoIp
    <3>1. host[k] \in Host BY Known
    <3>2. [host[k] EXCEPT !.state = "quit", !.timer = Never].state # "PROBE"
      BY <3>1 DEF Host
    <3> QED BY <1>2, <1>7, <2>2, <3>2 DEF Die
  <2> QED BY <2>1, <2>2
<1>8. ASSUME NEW k \in Hosts, Timeout(k) PROVE FALSE
  <2>1. CASE Won(k)
    <3>1. host[k] \in Host BY Known
    <3>2. [host[k] EXCEPT !.state = "MONITOR", !.conflicts = 0, !.timer = Never].state
              # "PROBE"
      BY <3>1 DEF Host
    <3> QED BY <1>2, <2>1, <3>2 DEF Won
  <2>2. CASE ~Won(k)
    <3>1. k # h BY <1>8, <2>2 DEF Timeout, Probe, Announce, ClaimAgain, Configure
    <3>2. Aside(k)
      BY <1>8, <2>2, SetIsAside DEF Timeout, Probe, Announce, ClaimAgain, Configure
    <3> QED BY <1>3, <3>1, <3>2
  <2> QED BY <2>1, <2>2
<1>9. ASSUME NEW k \in Hosts, Receive(k), k # h PROVE FALSE
  <2>1. Aside(k)
    BY <1>9, SetIsAside DEF Receive, Repick, StartOver, Defend, GiveUp, Ignore
  <2> QED BY <1>3, <1>9, <2>1
<1>10. host' # host OBVIOUS
<1>11. ~Tick
  <2> SUFFICES ASSUME Tick PROVE FALSE OBVIOUS
  <2>1. PICK t : host'[h] = [host[h] EXCEPT !.timer = t] BY DEF Tick
  <2> QED BY <1>4, <2>1 DEF Host
<1>12. ASSUME NEW k \in Hosts, Resolve(k) \/ Lose(k) PROVE FALSE
  BY <1>10, <1>12 DEF Resolve, Lose
<1>13. ~UNCHANGED vars BY <1>10 DEF vars
<1>14. PICK k \in Hosts : Receive(k)
  BY <1>5, <1>6, <1>7, <1>8, <1>11, <1>12, <1>13 DEF Next
<1> QED BY <1>1, <1>9, <1>14

\* A host that has probed for its address is not made to give it up (case
\* DEFEND of zcip_main) by a host that has probed too, however many there are,
\* as long as no packet is lost.
THEOREM ProbedKeepsAddress == ASSUME ProbesTwice PROVE Spec => EstablishedStays
<1>1. Inv /\ Quiet /\ [Next]_vars =>
        [\A h \in Hosts :
            /\ host[h].state = "DEFEND" /\ host'[h].state = "PROBE"
            /\ Probed(h) /\ lost = 0
            => ~Probed(Head(inbox[h]).src)]_vars
  BY GivesUpTo
<1>2. Init => Inv /\ Quiet BY InitInv, QuietInit
<1>3. Inv /\ Quiet /\ [Next]_vars => (Inv /\ Quiet)' BY NextStep, QuietStep
<1> QED BY <1>1, <1>2, <1>3, PTL DEF Spec, EstablishedStays
=============================================================================

---------------------------- MODULE UdhcpdProofs ----------------------------
(***************************************************************************)
(* Udhcpd, for every pool, table size, set of clients and choice of times: *)
(* a promise stands until its deadline, and no address is promised twice,  *)
(* if the static leases lie outside the pool and no deadline wraps around. *)
(* What is in quarantine is not offered if the table has a slot for each   *)
(* address; a search without answers gives up only if nothing is free; and *)
(* the table implements AddressBook.                                       *)
(* The same with stops, crashes and starts (UdhcpdRestart).  At the end,   *)
(* what a step leaves of the lease of one client, for DhcpSystem.          *)
(***************************************************************************)
EXTENDS UdhcpdRestart, FiniteSetTheorems, WellFoundedInduction, TLAPS

\* The static leases are distinct and outside the pool.
StaticsOutside ==
    \A m \in Mac : IsStatic(m) =>
        /\ StaticNip[m] \notin Pool
        /\ \A n \in Mac : n # m => StaticNip[n] # StaticNip[m]

\* No deadline reaches 2^32.
NoWrap == \A t \in {OfferTime, ConflictTime, DeclineTime, MinLease, MaxLease} :
              MaxTime + t < TimeWrap

Clock == now \in 1 .. MaxTime

Distinct(table) == \A s, r \in Slots : s # r =>
    /\ table[s].mac # ZeroMac => table[s].mac # table[r].mac
    /\ table[s].nip # 0 => table[s].nip # table[r].nip

\* Clients have the addresses they may have.
Placed(l) == IF l.mac = ZeroMac THEN l.nip \in Pool \cup {0}
             ELSE IF IsStatic(l.mac) THEN l.nip = StaticNip[l.mac]
             ELSE l.nip \in Pool

TableInv == Distinct(leases) /\ \A s \in Slots : Placed(leases[s])

StaticPromise ==
    \A m \in Mac : Live(m) /\ IsStatic(m) => promise[m].nip = StaticNip[m]

SearchInv ==
    /\ pc \in {"scan", "probe", "probeOldest"} =>
           client.mac \in Mac /\ ~IsStatic(client.mac)
    /\ pc = "scan" => addr \in StartIp .. EndIp + 1
    /\ pc = "probe" => addr \in Pool /\ \A s \in Slots : leases[s].nip # addr
    /\ pc = "probeOldest" =>
           /\ addr \in Pool
           /\ \E s \in Slots : leases[s].nip = addr /\ IsExpired(leases[s])
    /\ pc \in {"scan", "probe"} /\ oldest # 0 => leases[oldest].nip \in Pool

AckInv ==
    pc = "ack" =>
        /\ client.mac \in Mac
        /\ Live(client.mac) =>
              /\ promise[client.mac].nip = addr
              /\ promise[client.mac].until <= now + LeaseTime(client.option)
        /\ IF IsStatic(client.mac) THEN addr = StaticNip[client.mac]
           ELSE \E s \in Slots : leases[s].mac = client.mac /\ leases[s].nip = addr

\* The types of all the variables but pc, which has more values in UdhcpdRestart.
StateOK ==
    /\ now \in Nat
    /\ leases \in [Slots -> Lease]
    /\ client \in [mac : Mac \cup {ZeroMac}, option : LeaseOption \cup {0}]
    /\ addr \in Nat
    /\ oldest \in Slots \cup {0}
    /\ answered \subseteq Nat
    /\ promise \in [Mac -> [nip : Nat, until : Nat, acked : BOOLEAN]]
    /\ quarantine \in [AskedIp -> Nat]

\* What every step of the server keeps, also after a restart.
CoreInv == StateOK /\ Clock /\ TableInv /\ StaticPromise /\ SearchInv /\ AckInv

IInv == TypeOK /\ CoreInv /\ PromiseBacked

\* The slot that backs the promise to a client.
Backed(n) ==
    \E s \in Slots : /\ leases[s].mac = n /\ leases[s].nip = promise[n].nip
                     /\ \/ leases[s].expires >= promise[n].until
                        \/ pc = "ack" /\ client.mac = n

\* A step backs the promises it makes, and keeps backed the ones that were.
BackingKept ==
    \A n \in Mac : ~IsStatic(n) /\ Live(n)' =>
        Backed(n)' \/ (promise'[n] = promise[n] /\ ~Backed(n))

-----------------------------------------------------------------------------
LEMMA NatMin ==
    ASSUME NEW T \in SUBSET Nat, T # {}
    PROVE  \E x \in T : \A y \in T : x <= y
<1>1. \E x \in T : \A y \in T : ~(<<y, x>> \in OpToRel(<, Nat))
  BY NatLessThanWellFounded, WFMin, Zenon
<1>2. PICK x \in T : \A y \in T : ~(<<y, x>> \in OpToRel(<, Nat))
  BY <1>1
<1>3. \A y \in T : ~(y < x)
  BY <1>2 DEF OpToRel
<1> QED
  BY <1>3

LEMMA SlotsNat == Slots \subseteq Nat /\ Slots # {}
<1>1. MaxLeases \in Nat \ {0} /\ StartIp \in Nat /\ EndIp \in Nat /\ StartIp <= EndIp
  BY AddressAssumption, TimeAssumption
<1>2. 1 \in Slots
  BY <1>1 DEF Slots
<1>3. Slots \subseteq Nat
  BY <1>1 DEF Slots
<1> QED
  BY <1>2, <1>3

\* First() names a slot of the set.
LEMMA FirstIn ==
    ASSUME NEW T \in SUBSET Slots, T # {}
    PROVE  First(T) \in T
<1>1. \E s \in T : \A r \in T : s <= r
  BY NatMin, SlotsNat
<1> QED
  BY <1>1 DEF First

\* oldest_expired_lease() finds a slot whenever one has expired.
LEMMA OldestExists ==
    ASSUME NEW table \in [Slots -> Lease], HasRoom(table), now \in Nat
    PROVE  \E s \in Slots : IsOldest(table, s)
<1> DEFINE Times == {table[s].expires : s \in Slots}
<1>1. Times \in SUBSET Nat /\ Times # {}
  BY SlotsNat DEF Lease
<1>2. PICK x \in Times : \A y \in Times : x <= y
  BY <1>1, NatMin
<1> DEFINE Ties == {s \in Slots : table[s].expires = x}
<1>3. Ties \in SUBSET Nat /\ Ties # {}
  BY <1>2, SlotsNat
<1>4. PICK s \in Ties : \A r \in Ties : s <= r
  BY <1>3, NatMin
<1>5. \A r \in Slots : \/ table[s].expires < table[r].expires
                       \/ table[s].expires = table[r].expires /\ s <= r
  <2> SUFFICES ASSUME NEW r \in Slots
               PROVE  \/ table[s].expires < table[r].expires
                      \/ table[s].expires = table[r].expires /\ s <= r
    OBVIOUS
  <2>1. table[r].expires \in Nat /\ x \in Nat /\ x <= table[r].expires
    BY <1>1, <1>2 DEF Lease
  <2> QED
    BY <2>1, <1>4
<1>6. IsExpired(table[s])
  <2>1. PICK r \in Slots : IsExpired(table[r])
    BY DEF HasRoom
  <2>2. table[s].expires \in Nat /\ table[r].expires \in Nat
    BY <1>4 DEF Lease
  <2> QED
    BY <2>1, <2>2, <1>5 DEF IsExpired
<1> QED
  BY <1>4, <1>5, <1>6 DEF IsOldest

Entry(m, a, t) == [mac |-> IF m = NoMac THEN ZeroMac ELSE m,
                   nip |-> a, expires |-> now + t]

\* What add_lease() does to the table: it drops the leases of the client and
\* of the address, and the new one replaces a lease that has expired.
LEMMA AddLeaseShape ==
    ASSUME StateOK, Clock, NEW m \in Mac \cup {NoMac, ZeroMac}, NEW a \in Nat \ {0},
           NEW t \in Nat, now + t < TimeWrap
    PROVE  LET C == Cleared(m, a)
           IN  /\ C \in [Slots -> Lease]
               /\ HasRoom(C) => \E v \in Slots :
                      /\ IsExpired(C[v])
                      /\ AddLease(m, a, t) = [C EXCEPT ![v] = Entry(m, a, t)]
               /\ ~HasRoom(C) => AddLease(m, a, t) = leases
<1> DEFINE C == Cleared(m, a)
<1>1. C \in [Slots -> Lease]
  BY DEF Cleared, Empty, Lease, StateOK
<1>2. ASSUME HasRoom(C)
      PROVE  \E v \in Slots : /\ IsExpired(C[v])
                              /\ AddLease(m, a, t) = [C EXCEPT ![v] = Entry(m, a, t)]
  <2> DEFINE v == CHOOSE s \in Slots : IsOldest(C, s)
  <2>1. now \in Nat /\ (now + t) % TimeWrap = now + t
    BY TimeAssumption DEF StateOK
  <2>2. v \in Slots /\ IsOldest(C, v)
    BY <1>1, <1>2, <2>1, OldestExists
  <2>3. AddLease(m, a, t) = [C EXCEPT ![v] = Entry(m, a, t)]
    BY <1>2, <2>1 DEF AddLease, Entry, Deadline
  <2> QED
    BY <2>2, <2>3 DEF IsOldest
<1>3. ASSUME ~HasRoom(C) PROVE AddLease(m, a, t) = leases
  <2>1. \A s \in Slots : C[s] # Empty
    BY <1>3 DEF HasRoom, IsExpired, Empty, Clock
  <2>2. \A s \in Slots : C[s] = leases[s]
    BY <2>1 DEF Cleared
  <2>3. C = leases
    BY <2>2, <1>1 DEF StateOK
  <2> QED
    BY <1>3, <2>3 DEF AddLease
<1> QED
  BY <1>1, <1>2, <1>3

\* A lease that has not expired, of another client and another address, stays.
LEMMA AddLeaseKeeps ==
    ASSUME StateOK, Clock, NEW m \in Mac \cup {NoMac, ZeroMac}, NEW a \in Nat \ {0},
           NEW t \in Nat, now + t < TimeWrap,
           NEW s \in Slots, leases[s].mac # m, leases[s].nip # a,
           ~IsExpired(leases[s])
    PROVE  AddLease(m, a, t)[s] = leases[s]
<1> DEFINE C == Cleared(m, a)
<1>1. C[s] = leases[s]
  BY DEF Cleared
<1>2. CASE HasRoom(C)
  BY <1>1, <1>2, AddLeaseShape
<1>3. CASE ~HasRoom(C)
  BY <1>3, AddLeaseShape
<1> QED
  BY <1>2, <1>3

\* Every slot is left alone, emptied, or has the new lease.
LEMMA AddLeaseSlots ==
    ASSUME StateOK, Clock, NEW m \in Mac \cup {NoMac, ZeroMac}, NEW a \in Nat \ {0},
           NEW t \in Nat, now + t < TimeWrap
    PROVE  LET T == AddLease(m, a, t)
           IN  /\ T \in [Slots -> Lease]
               /\ \A s \in Slots : T[s] \in {leases[s], Empty, Entry(m, a, t)}
               /\ TableInv => Distinct(T)
               /\ HasRoom(Cleared(m, a)) => \E s \in Slots : T[s] = Entry(m, a, t)
<1> DEFINE C == Cleared(m, a)
           T == AddLease(m, a, t)
<1>1. C \in [Slots -> Lease] /\ leases \in [Slots -> Lease]
  BY AddLeaseShape DEF StateOK
<1>2. \A s \in Slots : C[s] \in {leases[s], Empty}
  BY DEF Cleared
<1>3. Entry(m, a, t) \in Lease
  BY DEF Entry, Lease, StateOK
<1>4. CASE HasRoom(C)
  <2>1. PICK v \in Slots : T = [C EXCEPT ![v] = Entry(m, a, t)]
    BY <1>4, AddLeaseShape
  <2>2. T \in [Slots -> Lease] /\ T[v] = Entry(m, a, t)
    BY <2>1, <1>1, <1>3
  <2>3. \A s \in Slots : s # v => T[s] = C[s]
    BY <2>1, <1>1
  <2>4. \A s \in Slots : T[s] \in {leases[s], Empty, Entry(m, a, t)}
    BY <2>2, <2>3, <1>2
  <2>5. ASSUME TableInv PROVE Distinct(T)
    <3> SUFFICES ASSUME NEW s \in Slots, NEW r \in Slots, s # r
                 PROVE  /\ T[s].mac # ZeroMac => T[s].mac # T[r].mac
                        /\ T[s].nip # 0 => T[s].nip # T[r].nip
      BY DEF Distinct
    <3>1. \A q \in Slots :
             \/ C[q] = Empty
             \/ /\ C[q] = leases[q]
                /\ m # NoMac => C[q].mac # m
                /\ C[q].nip # a
      BY DEF Cleared
    <3>2. Empty.mac = ZeroMac /\ Empty.nip = 0
      BY DEF Empty
    <3>3. /\ C[s].mac # ZeroMac => C[s].mac # C[r].mac
          /\ C[s].nip # 0 => C[s].nip # C[r].nip
      BY <2>5, <3>1, <3>2 DEF TableInv, Distinct
    <3>4. /\ Entry(m, a, t).nip = a
          /\ Entry(m, a, t).mac = IF m = NoMac THEN ZeroMac ELSE m
      BY DEF Entry
    <3>5. CASE s = v
      BY <3>5, <2>2, <2>3, <3>1, <3>2, <3>4, AddressAssumption
    <3>6. CASE r = v
      BY <3>6, <2>2, <2>3, <3>1, <3>2, <3>4, AddressAssumption
    <3>7. CASE s # v /\ r # v
      BY <3>7, <2>3, <3>3
    <3> QED
      BY <3>5, <3>6, <3>7
  <2> QED
    BY <2>2, <2>4, <2>5
<1>5. CASE ~HasRoom(C)
  BY <1>1, <1>5, AddLeaseShape DEF TableInv
<1> QED
  BY <1>4, <1>5

-----------------------------------------------------------------------------
\* Nobody else has an unexpired lease of the address.
FreeFor(m, a) ==
    \A s \in Slots : leases[s].nip = a /\ leases[s].mac # m => IsExpired(leases[s])

\* add_lease() keeps the table consistent.
LEMMA TableStep ==
    ASSUME CoreInv, NEW m \in Mac \cup {NoMac, ZeroMac}, NEW a \in Nat \ {0},
           NEW t \in Nat, now + t < TimeWrap, Placed(Entry(m, a, t)),
           leases' = AddLease(m, a, t)
    PROVE  leases' \in [Slots -> Lease] /\ TableInv'
<1>1. /\ leases' \in [Slots -> Lease]
      /\ \A s \in Slots : leases'[s] \in {leases[s], Empty, Entry(m, a, t)}
      /\ Distinct(leases')
  BY AddLeaseSlots DEF CoreInv
<1>2. \A s \in Slots : Placed(leases[s])
  BY DEF CoreInv, TableInv
<1>3. Placed(Empty)
  BY DEF Placed, Empty
<1>4. \A s \in Slots : Placed(leases'[s])
  BY <1>1, <1>2, <1>3
<1> QED
  BY <1>1, <1>4 DEF TableInv

\* add_lease() leaves what backs the promises to the others.
LEMMA OthersKeep ==
    ASSUME CoreInv, NEW m \in Mac \cup {NoMac}, NEW a \in Nat \ {0},
           NEW t \in Nat, now + t < TimeWrap, FreeFor(m, a),
           leases' = AddLease(m, a, t), now' = now,
           NEW n \in Mac, n # m, promise'[n] = promise[n], Live(n)', Backed(n),
           pc # "ack" \/ client.mac # n
    PROVE  Backed(n)'
<1>1. PICK s \in Slots : /\ leases[s].mac = n /\ leases[s].nip = promise[n].nip
                         /\ leases[s].expires >= promise[n].until
  BY DEF Backed
<1>2. ~IsExpired(leases[s])
  <2>1. leases[s].expires \in Nat /\ promise[n].until \in Nat /\ now \in Nat
    BY DEF CoreInv, StateOK, Lease
  <2>2. promise[n].until > now
    BY DEF Live
  <2> QED
    BY ONLY <1>1, <2>1, <2>2 DEF IsExpired
<1>3. leases[s].nip # a
  BY <1>1, <1>2 DEF FreeFor
<1>4. leases'[s] = leases[s]
  BY <1>1, <1>2, <1>3, AddLeaseKeeps DEF CoreInv
<1> QED
  BY ONLY <1>1, <1>4, promise'[n] = promise[n] DEF Backed

LEMMA LeaseTimeFits ==
    ASSUME CoreInv, NoWrap, NEW opt \in LeaseOption \cup {0}
    PROVE  LeaseTime(opt) \in Nat /\ now + LeaseTime(opt) < TimeWrap
<1>1. opt \in Nat /\ MinLease \in Nat /\ MaxLease \in Nat
  BY TimeAssumption
<1>2. MaxTime + MinLease < TimeWrap /\ MaxTime + MaxLease < TimeWrap
  BY DEF NoWrap
<1>3. now \in Nat /\ now <= MaxTime /\ MaxTime \in Nat /\ TimeWrap \in Nat
  BY TimeAssumption DEF CoreInv, Clock
<1>4. /\ LeaseTime(opt) \in Nat
      /\ LeaseTime(opt) <= MaxLease \/ LeaseTime(opt) = MinLease
  BY <1>1 DEF LeaseTime
<1> QED
  BY <1>1, <1>2, <1>3, <1>4

LEMMA TimesFit ==
    ASSUME CoreInv, NoWrap, NEW t \in {OfferTime, ConflictTime, DeclineTime}
    PROVE  t \in Nat /\ now + t < TimeWrap
<1>1. t \in Nat /\ MaxTime + t < TimeWrap
  BY TimeAssumption DEF NoWrap
<1>2. now \in Nat /\ now <= MaxTime /\ MaxTime \in Nat /\ TimeWrap \in Nat
  BY TimeAssumption DEF CoreInv, Clock
<1> QED
  BY <1>1, <1>2

LEMMA PoolNat == Pool \subseteq Nat \ {0}
<1>1. StartIp \in Nat \ {0} /\ EndIp \in Nat
  BY AddressAssumption
<1> QED
  BY <1>1 DEF Pool

-----------------------------------------------------------------------------
\* The end of send_offer().
LEMMA ReserveStep ==
    ASSUME CoreInv, NoWrap, NEW m \in Mac, ~IsStatic(m), NEW a \in Pool,
           FreeFor(m, a), pc # "ack", Reserve(m, a), UNCHANGED <<now, quarantine>>
    PROVE  CoreInv' /\ BackingKept
<1>1. /\ OfferTime \in Nat /\ now + OfferTime < TimeWrap
      /\ a \in Nat \ {0} /\ m # NoMac /\ m # ZeroMac
  BY TimesFit, PoolNat, AddressAssumption
<1>2. Entry(m, a, OfferTime) = [mac |-> m, nip |-> a, expires |-> now + OfferTime]
  BY <1>1 DEF Entry
<1>3. Placed(Entry(m, a, OfferTime))
  BY <1>1, <1>2 DEF Placed
<1>4. leases' = AddLease(m, a, OfferTime)
  BY DEF Reserve
<1>5. leases' \in [Slots -> Lease] /\ TableInv'
  BY <1>1, <1>3, <1>4, TableStep
<1>6. pc' = "select" /\ client' = NoClient /\ addr' = 0 /\ oldest' = 0 /\ answered' = {}
  BY DEF Reserve, Return
<1>7. /\ promise' \in [Mac -> [nip : Nat, until : Nat, acked : BOOLEAN]]
      /\ \A n \in Mac : n # m => promise'[n] = promise[n]
      /\ \/ /\ HasRoom(Cleared(m, a))
            /\ promise'[m] = [nip |-> a, until |-> now + OfferTime, acked |-> FALSE]
         \/ promise'[m] = NoPromise
  <2>1. promise \in [Mac -> [nip : Nat, until : Nat, acked : BOOLEAN]] /\ now \in Nat
    BY DEF CoreInv, StateOK
  <2>2. CASE HasRoom(Cleared(m, a))
    <3>1. promise' = [promise EXCEPT ![m] =
                        [nip |-> a, until |-> now + OfferTime, acked |-> FALSE]]
      BY <2>2 DEF Reserve, Promise
    <3>2. [nip |-> a, until |-> now + OfferTime, acked |-> FALSE]
             \in [nip : Nat, until : Nat, acked : BOOLEAN]
      BY <1>1, <2>1
    <3> QED
      BY <2>1, <2>2, <3>1, <3>2
  <2>3. CASE ~HasRoom(Cleared(m, a))
    <3>1. promise' = [promise EXCEPT ![m] = NoPromise]
      BY <2>3 DEF Reserve, Withdraw
    <3>2. NoPromise \in [nip : Nat, until : Nat, acked : BOOLEAN]
      BY DEF NoPromise
    <3> QED
      BY <2>1, <3>1, <3>2
  <2> QED
    BY <2>2, <2>3
<1>8. StateOK' /\ Clock'
  BY <1>5, <1>6, <1>7 DEF CoreInv, StateOK, Clock, NoClient
<1>9. BackingKept
  <2> SUFFICES ASSUME NEW n \in Mac, Live(n)', promise'[n] = promise[n] => Backed(n)
               PROVE  Backed(n)'
    BY DEF BackingKept
  <2>1. CASE n = m
    <3>1. HasRoom(Cleared(m, a)) /\ promise'[m] = [nip |-> a, until |-> now + OfferTime, acked |-> FALSE]
      BY <1>7, <2>1 DEF Live, NoPromise, CoreInv, Clock
    <3>2. \E s \in Slots : leases'[s] = Entry(m, a, OfferTime)
      BY <1>1, <1>4, <3>1, AddLeaseSlots DEF CoreInv
    <3>3. now + OfferTime \in Nat
      BY <1>1 DEF CoreInv, StateOK
    <3> QED
      BY ONLY <1>2, <2>1, <3>1, <3>2, <3>3 DEF Backed
  <2>2. CASE n # m
    BY <1>1, <1>4, <1>7, <2>2, OthersKeep
  <2> QED
    BY <2>1, <2>2
<1>10. StaticPromise'
  BY <1>7 DEF CoreInv, StaticPromise, Live, IsStatic
<1>11. SearchInv' /\ AckInv'
  BY <1>6 DEF SearchInv, AckInv
<1> QED
  BY <1>5, <1>8, <1>9, <1>10, <1>11 DEF CoreInv

\* The first slot of a client, or of an address, is its only one.
LEMMA OnlySlot ==
    ASSUME CoreInv, NEW s \in Slots
    PROVE  /\ leases[s].mac # ZeroMac => First(WithMac(leases[s].mac)) = s
           /\ leases[s].nip # 0 => First(WithNip(leases[s].nip)) = s
<1>1. ASSUME leases[s].mac # ZeroMac PROVE First(WithMac(leases[s].mac)) = s
  <2>1. WithMac(leases[s].mac) = {s}
    BY <1>1 DEF WithMac, CoreInv, TableInv, Distinct
  <2> QED
    BY <2>1, FirstIn
<1>2. ASSUME leases[s].nip # 0 PROVE First(WithNip(leases[s].nip)) = s
  <2>1. WithNip(leases[s].nip) = {s}
    BY <1>2 DEF WithNip, CoreInv, TableInv, Distinct
  <2> QED
    BY <2>1, FirstIn
<1> QED
  BY <1>1, <1>2

\* The slot of a dynamic client, and the address in it.
LEMMA SlotOfClient ==
    ASSUME CoreInv, NEW m \in Mac, ~IsStatic(m), WithMac(m) # {}
    PROVE  LET s == First(WithMac(m))
           IN  /\ s \in Slots /\ leases[s].mac = m
               /\ leases[s].nip \in Pool /\ FreeFor(m, leases[s].nip)
<1> DEFINE s == First(WithMac(m))
<1>1. s \in Slots /\ leases[s].mac = m
  BY FirstIn DEF WithMac
<1>2. leases[s].nip \in Pool
  BY <1>1, AddressAssumption DEF CoreInv, TableInv, Placed
<1>3. FreeFor(m, leases[s].nip)
  BY <1>1, <1>2, PoolNat DEF FreeFor, CoreInv, TableInv, Distinct
<1> QED
  BY <1>1, <1>2, <1>3

LEMMA DiscoverKnownStep ==
    ASSUME CoreInv, NoWrap, NEW m \in Mac, DiscoverKnown(m)
    PROVE  CoreInv' /\ BackingKept
  BY SlotOfClient, ReserveStep DEF DiscoverKnown

\* The requested address that may be given to any client.
LEMMA RequestedFree ==
    ASSUME CoreInv, NEW req, MayHaveRequested(req), NEW m
    PROVE  req \in Pool /\ FreeFor(m, req)
<1>1. req \in Pool /\ req # 0
  BY PoolNat DEF MayHaveRequested
<1>2. ASSUME NEW s \in Slots, leases[s].nip = req PROVE IsExpired(leases[s])
  <2>1. First(WithNip(req)) = s /\ WithNip(req) # {}
    BY <1>1, <1>2, OnlySlot DEF WithNip
  <2> QED
    BY <2>1 DEF MayHaveRequested
<1> QED
  BY <1>1, <1>2 DEF FreeFor

\* The address that is being probed is nobody's.
LEMMA ProbedFree ==
    ASSUME CoreInv, pc \in {"probe", "probeOldest"}, NEW m
    PROVE  addr \in Pool /\ addr # 0 /\ FreeFor(m, addr)
<1>1. addr \in Pool /\ addr # 0
  BY PoolNat DEF CoreInv, SearchInv
<1>2. ASSUME NEW s \in Slots, leases[s].nip = addr PROVE IsExpired(leases[s])
  <2>1. pc = "probeOldest"
    BY <1>2 DEF CoreInv, SearchInv
  <2>2. PICK r \in Slots : leases[r].nip = addr /\ IsExpired(leases[r])
    BY <2>1 DEF CoreInv, SearchInv
  <2>3. r = s
    BY <1>1, <1>2, <2>2 DEF CoreInv, TableInv, Distinct
  <2> QED
    BY <2>2, <2>3
<1> QED
  BY <1>1, <1>2 DEF FreeFor

LEMMA DiscoverRequestedStep ==
    ASSUME CoreInv, NoWrap, NEW m \in Mac, NEW req, DiscoverRequested(m, req)
    PROVE  CoreInv' /\ BackingKept
<1>1. req \in Pool /\ FreeFor(m, req)
  BY RequestedFree DEF DiscoverRequested
<1> QED
  BY <1>1, ReserveStep DEF DiscoverRequested

LEMMA NobodyAnswersStep ==
    ASSUME CoreInv, NoWrap, NobodyAnswers
    PROVE  CoreInv' /\ BackingKept
<1>1. client.mac \in Mac /\ ~IsStatic(client.mac) /\ pc # "ack"
  BY DEF NobodyAnswers, CoreInv, SearchInv
<1>2. addr \in Pool /\ FreeFor(client.mac, addr)
  BY ProbedFree DEF NobodyAnswers
<1> QED
  BY <1>1, <1>2, ReserveStep DEF NobodyAnswers

LEMMA SomebodyAnswersStep ==
    ASSUME CoreInv, NoWrap, SomebodyAnswers
    PROVE  CoreInv' /\ BackingKept
<1>1. /\ client.mac \in Mac /\ ~IsStatic(client.mac)
      /\ addr \in Pool /\ addr \in Nat \ {0} /\ pc \in {"probe", "probeOldest"}
  BY PoolNat DEF SomebodyAnswers, CoreInv, SearchInv
<1>2. ConflictTime \in Nat /\ now + ConflictTime < TimeWrap
  BY TimesFit
<1>3. Entry(NoMac, addr, ConflictTime) =
        [mac |-> ZeroMac, nip |-> addr, expires |-> now + ConflictTime]
  BY DEF Entry
<1>4. Placed(Entry(NoMac, addr, ConflictTime))
  BY <1>1, <1>3 DEF Placed
<1>5. leases' = AddLease(NoMac, addr, ConflictTime) /\ UNCHANGED <<now, promise>>
  BY DEF SomebodyAnswers
<1>6. leases' \in [Slots -> Lease] /\ TableInv'
  BY <1>1, <1>2, <1>4, <1>5, TableStep
<1>7. FreeFor(NoMac, addr)
  BY <1>1, ProbedFree
<1>8. BackingKept
  <2> SUFFICES ASSUME NEW n \in Mac, Live(n)', Backed(n)
               PROVE  Backed(n)'
    BY <1>5 DEF BackingKept
  <2>1. n # NoMac
    BY AddressAssumption
  <2> QED
    BY <1>1, <1>2, <1>5, <1>7, <2>1, OthersKeep
<1>9. StaticPromise' /\ Clock'
  BY <1>5 DEF CoreInv, StaticPromise, Live, IsStatic, Clock
<1>10. quarantine' \in [AskedIp -> Nat]
  <2>1. now + ConflictTime \in Nat
    BY <1>2 DEF CoreInv, StateOK
  <2> QED
    BY <2>1 DEF SomebodyAnswers, CoreInv, StateOK
<1>11. CASE pc = "probe"
  <2>1. /\ pc' = "scan" /\ addr' = addr + 1 /\ UNCHANGED <<client, oldest>>
        /\ answered' = answered \cup {addr}
    BY <1>11 DEF SomebodyAnswers
  <2>2. StartIp \in Nat /\ EndIp \in Nat
    BY AddressAssumption
  <2>3. addr' \in StartIp .. EndIp + 1 /\ addr' \in Nat
    BY <1>1, <2>1, <2>2 DEF Pool
  <2>4. StateOK'
    BY <1>1, <1>5, <1>6, <1>10, <2>1, <2>3 DEF CoreInv, StateOK
  <2>5. ASSUME oldest # 0 PROVE leases'[oldest].nip \in Pool
    <3>1. leases[oldest].nip \in Pool /\ oldest \in Slots
      BY <1>11, <2>5 DEF CoreInv, SearchInv, StateOK
    <3>2. leases'[oldest] \in {leases[oldest], Entry(NoMac, addr, ConflictTime)}
      <4>1. Cleared(NoMac, addr) = leases
        <5>1. \A s \in Slots : leases[s].nip # addr
          BY <1>11 DEF CoreInv, SearchInv
        <5> QED
          BY <5>1 DEF Cleared, CoreInv, StateOK
      <4>2. leases \in [Slots -> Lease]
        BY DEF CoreInv, StateOK
      <4> QED
        BY <1>1, <1>2, <1>5, <3>1, <4>1, <4>2, AddLeaseShape DEF CoreInv
    <3> QED
      BY <1>1, <1>3, <3>1, <3>2
  <2>6. SearchInv' /\ AckInv'
    BY <1>1, <2>1, <2>3, <2>5 DEF SearchInv, AckInv, IsStatic
  <2> QED
    BY <1>6, <1>8, <1>9, <2>4, <2>6 DEF CoreInv
<1>12. CASE pc = "probeOldest"
  <2>1. pc' = "select" /\ client' = NoClient /\ addr' = 0 /\ oldest' = 0 /\ answered' = {}
    BY <1>12 DEF SomebodyAnswers, Return
  <2>2. StateOK'
    BY <1>5, <1>6, <1>10, <2>1 DEF CoreInv, StateOK, NoClient
  <2>3. SearchInv' /\ AckInv'
    BY <2>1 DEF SearchInv, AckInv
  <2> QED
    BY <1>6, <1>8, <1>9, <2>2, <2>3 DEF CoreInv
<1> QED
  BY <1>1, <1>11, <1>12

\* The steps of a search that leave the table alone.
LEMMA ScanStep ==
    ASSUME CoreInv, Skip \/ RememberOldest \/ Probe \/ ProbeOldest \/ Abandon
    PROVE  CoreInv' /\ BackingKept
<1>1. UNCHANGED <<now, leases, ghosts>> /\ pc = "scan"
  BY DEF Skip, RememberOldest, Probe, ProbeOldest, Abandon
<1>2. UNCHANGED <<promise, quarantine>> /\ pc' # "ack"
  BY <1>1 DEF ghosts, Skip, RememberOldest, Probe, ProbeOldest, Abandon, Return
<1>3. Clock' /\ TableInv' /\ BackingKept /\ StaticPromise' /\ AckInv'
  <2>1. Clock' /\ TableInv' /\ StaticPromise' /\ AckInv'
    BY <1>1, <1>2 DEF CoreInv, Clock, TableInv, StaticPromise, Live, AckInv,
                      Distinct, Placed, IsStatic
  <2>2. BackingKept
    BY <1>1, <1>2 DEF BackingKept, Backed
  <2> QED BY <2>1, <2>2
<1>4. /\ client.mac \in Mac /\ ~IsStatic(client.mac)
      /\ addr \in StartIp .. EndIp + 1
      /\ StartIp \in Nat /\ EndIp \in Nat
      /\ oldest # 0 => leases[oldest].nip \in Pool
  BY <1>1, AddressAssumption DEF CoreInv, SearchInv
<1>5. CASE Skip
  <2>1. addr' = addr + 1 /\ UNCHANGED <<pc, client, oldest, answered>> /\ addr \in Pool
    BY <1>5 DEF Skip
  <2>2. addr' \in StartIp .. EndIp + 1 /\ addr' \in Nat
    BY <1>4, <2>1 DEF Pool
  <2>3. StateOK' /\ SearchInv'
    BY <1>1, <1>2, <1>4, <2>1, <2>2 DEF CoreInv, StateOK, SearchInv, IsStatic
  <2> QED
    BY <1>3, <2>3 DEF CoreInv
<1>6. CASE RememberOldest
  <2>1. addr' = addr + 1 /\ UNCHANGED <<pc, client, answered>> /\ addr \in Pool
    BY <1>6 DEF RememberOldest
  <2>2. addr' \in StartIp .. EndIp + 1 /\ addr' \in Nat
    BY <1>4, <2>1 DEF Pool
  <2>3. First(WithNip(addr)) \in Slots /\ leases[First(WithNip(addr))].nip = addr
    BY <1>6, FirstIn DEF RememberOldest, WithNip
  <2>4. oldest' \in {oldest, First(WithNip(addr))}
    BY <1>6 DEF RememberOldest
  <2>5. oldest' \in Slots \cup {0} /\ (oldest' # 0 => leases[oldest'].nip \in Pool)
    BY <1>4, <2>1, <2>3, <2>4 DEF CoreInv, StateOK
  <2>6. StateOK' /\ SearchInv'
    BY <1>1, <1>2, <1>4, <2>1, <2>2, <2>5 DEF CoreInv, StateOK, SearchInv, IsStatic
  <2> QED
    BY <1>3, <2>6 DEF CoreInv
<1>7. CASE Probe
  <2>1. /\ pc' = "probe" /\ addr \in Pool /\ UNCHANGED <<client, addr, oldest, answered>>
        /\ \A s \in Slots : leases[s].nip # addr
    BY <1>7 DEF Probe, request, WithNip
  <2>2. StateOK' /\ SearchInv'
    BY <1>1, <1>2, <1>4, <2>1 DEF CoreInv, StateOK, SearchInv, IsStatic
  <2> QED
    BY <1>3, <2>2 DEF CoreInv
<1>8. CASE ProbeOldest
  <2>1. /\ pc' = "probeOldest" /\ addr' = leases[oldest].nip
        /\ UNCHANGED <<client, oldest, answered>>
        /\ oldest # 0 /\ IsExpired(leases[oldest])
    BY <1>8 DEF ProbeOldest
  <2>2. oldest \in Slots /\ addr' \in Pool /\ addr' \in Nat
    BY <1>4, <2>1, PoolNat DEF CoreInv, StateOK
  <2>3. StateOK' /\ SearchInv'
    BY <1>1, <1>2, <1>4, <2>1, <2>2 DEF CoreInv, StateOK, SearchInv, IsStatic, IsExpired
  <2> QED
    BY <1>3, <2>3 DEF CoreInv
<1>9. CASE Abandon
  <2>1. pc' = "select" /\ client' = NoClient /\ addr' = 0 /\ oldest' = 0 /\ answered' = {}
    BY <1>9 DEF Abandon, Return
  <2>2. StateOK' /\ SearchInv'
    BY <1>1, <1>2, <2>1 DEF CoreInv, StateOK, SearchInv, NoClient
  <2> QED
    BY <1>3, <2>2 DEF CoreInv
<1> QED
  BY <1>5, <1>6, <1>7, <1>8, <1>9

\* The handlers that change the promises, and at most one slot of "m" itself.
LEMMA OwnSlotStep ==
    ASSUME CoreInv, NEW m \in Mac, pc = "select", UNCHANGED <<now, pc, request>>,
           NEW p \in [nip : Nat, until : Nat, acked : BOOLEAN],
           promise' = [promise EXCEPT ![m] = p],
           p.until > now => IsStatic(m) /\ p.nip = StaticNip[m],
           quarantine' \in [AskedIp -> Nat],
           leases' \in [Slots -> Lease], TableInv',
           \A s \in Slots : leases[s].mac \in Mac \ {m} => leases'[s] = leases[s]
    PROVE  CoreInv' /\ BackingKept
<1>1. promise \in [Mac -> [nip : Nat, until : Nat, acked : BOOLEAN]]
  BY DEF CoreInv, StateOK
<1>2. /\ promise' \in [Mac -> [nip : Nat, until : Nat, acked : BOOLEAN]]
      /\ promise'[m] = p /\ \A n \in Mac : n # m => promise'[n] = promise[n]
  BY <1>1
<1>3. StateOK' /\ Clock'
  BY <1>2 DEF CoreInv, StateOK, Clock, request
<1>4. BackingKept
  <2> SUFFICES ASSUME NEW n \in Mac, Live(n)', ~IsStatic(n),
                      promise'[n] = promise[n] => Backed(n)
               PROVE  Backed(n)'
    BY DEF BackingKept
  <2>1. n # m /\ promise'[n] = promise[n]
    BY <1>2 DEF Live
  <2> QED
    BY <2>1 DEF Backed
<1>5. StaticPromise'
  BY <1>2 DEF CoreInv, StaticPromise, Live, IsStatic
<1>6. SearchInv' /\ AckInv'
  BY DEF SearchInv, AckInv
<1> QED
  BY <1>3, <1>4, <1>5, <1>6 DEF CoreInv

LEMMA NoPromiseType ==
    NoPromise \in [nip : Nat, until : Nat, acked : BOOLEAN] /\ NoPromise.until = 0
  BY DEF NoPromise

LEMMA DiscoverStaticStep ==
    ASSUME CoreInv, NEW m \in Mac, DiscoverStatic(m)
    PROVE  CoreInv' /\ BackingKept
<1> DEFINE p == [nip |-> StaticNip[m], until |-> now + OfferTime, acked |-> FALSE]
<1>1. now \in Nat /\ OfferTime \in Nat /\ StaticNip[m] \in Nat
  BY AddressAssumption, TimeAssumption DEF CoreInv, StateOK
<1>2. p \in [nip : Nat, until : Nat, acked : BOOLEAN]
  BY <1>1
<1>3. promise' = [promise EXCEPT ![m] = p] /\ IsStatic(m) /\ p.nip = StaticNip[m]
  BY DEF DiscoverStatic, Promise
<1>4. UNCHANGED <<now, leases, pc, request, quarantine>> /\ pc = "select"
  BY DEF DiscoverStatic
<1>5. /\ quarantine' \in [AskedIp -> Nat] /\ leases' \in [Slots -> Lease]
  BY <1>4 DEF CoreInv, StateOK
<1>6. TableInv'
  BY <1>4 DEF CoreInv, TableInv, Distinct, Placed, IsStatic
<1> HIDE DEF p
<1> QED
  BY <1>2, <1>3, <1>4, <1>5, <1>6, OwnSlotStep

LEMMA DiscoverSearchStep ==
    ASSUME CoreInv, NEW m \in Mac, NEW req, DiscoverSearch(m, req)
    PROVE  CoreInv' /\ BackingKept
<1>1. /\ pc = "select" /\ pc' = "scan" /\ addr' = StartIp /\ oldest' = 0
      /\ client' = [mac |-> m, option |-> 0] /\ ~IsStatic(m)
      /\ UNCHANGED <<now, leases, answered, quarantine>>
      /\ promise' = [promise EXCEPT ![m] = NoPromise]
  BY DEF DiscoverSearch, Withdraw
<1>2. StartIp \in Nat /\ EndIp \in Nat /\ StartIp <= EndIp
  BY AddressAssumption
<1>3. /\ promise' \in [Mac -> [nip : Nat, until : Nat, acked : BOOLEAN]]
      /\ promise'[m].until = 0 /\ \A n \in Mac : n # m => promise'[n] = promise[n]
  BY <1>1, NoPromiseType DEF CoreInv, StateOK
<1>4. StateOK' /\ Clock'
  BY <1>1, <1>2, <1>3 DEF CoreInv, StateOK, Clock
<1>5. \A n \in Mac : Live(n)' => n # m /\ Live(n)
  BY <1>1, <1>3 DEF Live, CoreInv, Clock
<1>6. BackingKept /\ StaticPromise'
  <2>1. BackingKept
    BY <1>1, <1>3, <1>5 DEF BackingKept, Backed
  <2>2. StaticPromise'
    BY <1>1, <1>3, <1>5 DEF CoreInv, StaticPromise, IsStatic
  <2> QED BY <2>1, <2>2
<1>7. TableInv' /\ SearchInv' /\ AckInv'
  BY <1>1, <1>2 DEF CoreInv, TableInv, Distinct, Placed, IsStatic, SearchInv, AckInv
<1> QED
  BY <1>4, <1>6, <1>7 DEF CoreInv

\* DECLINE and RELEASE of a dynamic client rewrite its slot.
LEMMA RewriteStep ==
    ASSUME CoreInv, NEW m \in Mac, ~IsStatic(m), WithMac(m) # {},
           pc = "select", UNCHANGED <<now, pc, request>>,
           promise' = [promise EXCEPT ![m] = NoPromise],
           quarantine' \in [AskedIp -> Nat],
           NEW l \in Lease, l.mac \in {m, ZeroMac}, l.nip = leases[First(WithMac(m))].nip,
           leases' = [leases EXCEPT ![First(WithMac(m))] = l]
    PROVE  CoreInv' /\ BackingKept
<1> DEFINE s == First(WithMac(m))
<1>1. s \in Slots /\ leases[s].mac = m /\ leases[s].nip \in Pool
  BY SlotOfClient
<1>2. leases \in [Slots -> Lease]
  BY DEF CoreInv, StateOK
<1> HIDE DEF s
<1>3. /\ leases' \in [Slots -> Lease] /\ leases'[s] = l
      /\ \A r \in Slots : r # s => leases'[r] = leases[r]
  BY <1>1, <1>2 DEF s
<1>4. l.nip = leases[s].nip
  BY DEF s
<1>5. Distinct(leases')
  <2> SUFFICES ASSUME NEW q \in Slots, NEW r \in Slots, q # r
               PROVE  /\ leases'[q].mac # ZeroMac => leases'[q].mac # leases'[r].mac
                      /\ leases'[q].nip # 0 => leases'[q].nip # leases'[r].nip
    BY DEF Distinct
  <2>1. /\ leases[q].mac # ZeroMac => leases[q].mac # leases[r].mac
        /\ leases[q].nip # 0 => leases[q].nip # leases[r].nip
        /\ leases[r].mac # ZeroMac => leases[r].mac # leases[q].mac
        /\ leases[r].nip # 0 => leases[r].nip # leases[q].nip
    BY DEF CoreInv, TableInv, Distinct
  <2>2. m # ZeroMac
    BY AddressAssumption
  <2> QED
    BY <1>1, <1>3, <1>4, <2>1, <2>2
<1>6. \A r \in Slots : Placed(leases'[r])
  <2>1. Placed(l)
    BY <1>1, <1>4 DEF Placed
  <2> QED
    BY <1>3, <2>1 DEF CoreInv, TableInv
<1>7. TableInv'
  BY <1>5, <1>6 DEF TableInv
<1>8. \A r \in Slots : leases[r].mac \in Mac \ {m} => leases'[r] = leases[r]
  BY <1>1, <1>3
<1>9. ~(NoPromise.until > now)
  BY NoPromiseType DEF CoreInv, Clock
<1> QED
  BY <1>3, <1>7, <1>8, <1>9, NoPromiseType, OwnSlotStep

LEMMA WithdrawStep ==
    ASSUME CoreInv, NEW m \in Mac, pc = "select", UNCHANGED <<now, pc, request, leases>>,
           promise' = [promise EXCEPT ![m] = NoPromise],
           quarantine' \in [AskedIp -> Nat]
    PROVE  CoreInv' /\ BackingKept
<1>1. ~(NoPromise.until > now)
  BY NoPromiseType DEF CoreInv, Clock
<1>2. leases' \in [Slots -> Lease]
  BY DEF CoreInv, StateOK
<1>3. TableInv'
  BY DEF CoreInv, TableInv, Distinct, Placed, IsStatic
<1> QED
  BY <1>1, <1>2, <1>3, NoPromiseType, OwnSlotStep

LEMMA DeclineStep ==
    ASSUME CoreInv, NoWrap, NEW m \in Mac, NEW req \in AskedIp, Decline(m, req)
    PROVE  CoreInv' /\ BackingKept
<1>1. /\ pc = "select" /\ UNCHANGED <<now, pc, request>>
      /\ promise' = [promise EXCEPT ![m] = NoPromise]
  BY DEF Decline, Withdraw
<1>2. /\ DeclineTime \in Nat /\ now + DeclineTime \in Nat
      /\ Deadline(DeclineTime) = now + DeclineTime
  BY TimesFit, TimeAssumption DEF CoreInv, StateOK, Deadline
<1>3. quarantine' \in [AskedIp -> Nat]
  BY <1>2 DEF Decline, CoreInv, StateOK
<1>4. CASE IsStatic(m)
  BY <1>1, <1>3, <1>4, WithdrawStep DEF Decline
<1>5. CASE ~IsStatic(m)
  <2> DEFINE s == First(WithMac(m))
             l == [mac |-> ZeroMac, nip |-> leases[s].nip, expires |-> Deadline(DeclineTime)]
  <2>1. WithMac(m) # {}
    BY <1>5 DEF Decline, BoundIp
  <2>2. leases' = [leases EXCEPT ![s] = l]
    BY <1>5 DEF Decline
  <2>3. s \in Slots /\ leases[s] \in Lease
    BY <1>5, <2>1, SlotOfClient DEF CoreInv, StateOK
  <2>4. l \in Lease /\ l.mac = ZeroMac /\ l.nip = leases[s].nip
    BY <1>2, <2>3 DEF Lease
  <2> HIDE DEF l
  <2> QED
    BY <1>1, <1>3, <1>5, <2>1, <2>2, <2>4, RewriteStep
<1> QED
  BY <1>4, <1>5

LEMMA ReleaseStep ==
    ASSUME CoreInv, NEW m \in Mac, NEW ciaddr, Release(m, ciaddr)
    PROVE  CoreInv' /\ BackingKept
<1>1. /\ pc = "select" /\ UNCHANGED <<now, pc, request, quarantine>>
      /\ promise' = [promise EXCEPT ![m] = NoPromise]
  BY DEF Release, Withdraw
<1>2. quarantine' \in [AskedIp -> Nat]
  BY <1>1 DEF CoreInv, StateOK
<1>3. CASE IsStatic(m)
  BY <1>1, <1>2, <1>3, WithdrawStep DEF Release
<1>4. CASE ~IsStatic(m)
  <2> DEFINE s == First(WithMac(m))
             l == [leases[s] EXCEPT !.expires = Deadline(0)]
  <2>1. WithMac(m) # {}
    BY <1>4 DEF Release, BoundIp
  <2>2. s \in Slots /\ leases[s] \in Lease /\ leases[s].mac = m
    BY <1>4, <2>1, SlotOfClient DEF CoreInv, StateOK
  <2>3. leases' = [leases EXCEPT ![s] = l]
    BY <1>4, <2>2 DEF Release, CoreInv, StateOK
  <2>4. Deadline(0) \in Nat
    BY TimeAssumption DEF CoreInv, StateOK, Deadline
  <2>5. l \in Lease /\ l.mac = m /\ l.nip = leases[s].nip
    BY <2>2, <2>4 DEF Lease
  <2> HIDE DEF l
  <2> QED
    BY <1>1, <1>2, <1>4, <2>1, <2>3, <2>5, RewriteStep
<1> QED
  BY <1>3, <1>4

\* send_ACK(): the reply, ...
LEMMA RequestAckStep ==
    ASSUME CoreInv, NoWrap, NEW m \in Mac, NEW req \in AskedIp, NEW ciaddr \in AskedIp,
           NEW opt \in LeaseOption, RequestAck(m, req, ciaddr, opt)
    PROVE  CoreInv' /\ BackingKept
<1> DEFINE a == BoundIp(m)
<1>1. /\ pc = "select" /\ pc' = "ack" /\ addr' = a /\ a # 0
      /\ client' = [mac |-> m, option |-> opt]
      /\ UNCHANGED <<now, leases, oldest, answered, quarantine>>
      /\ promise' = [promise EXCEPT ![m] =
                       [nip |-> a, until |-> now + LeaseTime(opt), acked |-> TRUE]]
  BY DEF RequestAck, Promise
<1>2. /\ a \in Nat
      /\ IsStatic(m) => a = StaticNip[m]
      /\ ~IsStatic(m) => \E s \in Slots : leases[s].mac = m /\ leases[s].nip = a
  <2>1. CASE IsStatic(m)
    BY <2>1, AddressAssumption DEF BoundIp
  <2>2. CASE ~IsStatic(m)
    <3>1. WithMac(m) # {}
      BY <1>1, <2>2 DEF BoundIp
    <3> QED
      BY <2>2, <3>1, SlotOfClient, PoolNat DEF BoundIp
  <2> QED
    BY <2>1, <2>2
<1>3. now \in Nat /\ LeaseTime(opt) \in Nat
  BY LeaseTimeFits DEF CoreInv, StateOK
<1> HIDE DEF a
<1>4. [nip |-> a, until |-> now + LeaseTime(opt), acked |-> TRUE]
         \in [nip : Nat, until : Nat, acked : BOOLEAN]
  BY <1>2, <1>3
<1>5. /\ promise' \in [Mac -> [nip : Nat, until : Nat, acked : BOOLEAN]]
      /\ promise'[m] = [nip |-> a, until |-> now + LeaseTime(opt), acked |-> TRUE]
      /\ \A n \in Mac : n # m => promise'[n] = promise[n]
  BY <1>1, <1>4 DEF CoreInv, StateOK
<1>6. StateOK' /\ Clock'
  BY <1>1, <1>2, <1>5 DEF CoreInv, StateOK, Clock
<1>7. \A n \in Mac : n # m /\ Live(n)' => Live(n)
  BY <1>1, <1>5 DEF Live
<1>8. StaticPromise'
  BY <1>1, <1>2, <1>5, <1>7 DEF CoreInv, StaticPromise, IsStatic
<1>9. BackingKept
  <2> SUFFICES ASSUME NEW n \in Mac, Live(n)', ~IsStatic(n),
                      promise'[n] = promise[n] => Backed(n)
               PROVE  Backed(n)'
    BY DEF BackingKept
  <2>1. CASE n = m
    <3>1. pc' = "ack" /\ client'.mac = n
      BY <1>1, <2>1
    <3> QED BY <1>1, <1>2, <1>5, <2>1, <3>1 DEF Backed
  <2>2. CASE n # m
    BY <1>1, <1>5, <2>2 DEF Backed
  <2> QED
    BY <2>1, <2>2
<1>10. TableInv' /\ SearchInv'
  BY <1>1 DEF CoreInv, TableInv, Distinct, Placed, IsStatic, SearchInv
<1>11. AckInv'
  BY <1>1, <1>2, <1>3, <1>5 DEF AckInv, IsStatic
<1> QED
  BY <1>6, <1>8, <1>9, <1>10, <1>11 DEF CoreInv

\* The address being acknowledged is its client's and may be.
LEMMA AckedFree ==
    ASSUME CoreInv, StaticsOutside, pc = "ack", NEW t \in Nat
    PROVE  /\ addr \in Nat \ {0} /\ Placed(Entry(client.mac, addr, t))
           /\ FreeFor(client.mac, addr)
<1> DEFINE m == client.mac
<1>1. /\ m \in Mac
      /\ IF IsStatic(m) THEN addr = StaticNip[m]
         ELSE \E s \in Slots : leases[s].mac = m /\ leases[s].nip = addr
  BY DEF CoreInv, AckInv
<1>2. m # NoMac /\ m # ZeroMac
  BY <1>1, AddressAssumption
<1> HIDE DEF m
<1>3. Entry(m, addr, t).mac = m /\ Entry(m, addr, t).nip = addr
  BY <1>2 DEF Entry
<1>4. CASE IsStatic(m)
  <2>1. addr = StaticNip[m] /\ addr \in Nat \ {0} /\ addr \notin Pool
    BY <1>1, <1>4, AddressAssumption DEF IsStatic, StaticsOutside
  <2>2. ASSUME NEW s \in Slots, leases[s].nip = addr PROVE leases[s].mac = m
    <3>1. Placed(leases[s]) /\ leases[s].mac \in Mac \cup {ZeroMac}
      BY DEF CoreInv, TableInv, StateOK, Lease
    <3>2. leases[s].mac \in Mac /\ IsStatic(leases[s].mac)
      BY <2>1, <2>2, <3>1 DEF Placed
    <3> QED
      BY <1>1, <1>4, <2>1, <2>2, <3>1, <3>2 DEF Placed, StaticsOutside
  <2> QED
    BY <1>2, <1>3, <1>4, <2>1, <2>2 DEF Placed, FreeFor, m
<1>5. CASE ~IsStatic(m)
  <2>1. PICK s \in Slots : leases[s].mac = m /\ leases[s].nip = addr
    BY <1>1, <1>5
  <2>2. addr \in Pool /\ addr \in Nat \ {0}
    BY <1>2, <1>5, <2>1, PoolNat DEF CoreInv, TableInv, Placed
  <2>3. FreeFor(m, addr)
    BY <2>1, <2>2 DEF FreeFor, CoreInv, TableInv, Distinct
  <2> QED
    BY <1>2, <1>3, <1>5, <2>2, <2>3 DEF Placed, m
<1> QED
  BY <1>4, <1>5

\* ... then the lease.
LEMMA EnterLeaseStep ==
    ASSUME CoreInv, NoWrap, StaticsOutside, EnterLease
    PROVE  CoreInv' /\ BackingKept
<1> DEFINE m == client.mac
           t == LeaseTime(client.option)
<1>1. /\ m \in Mac /\ pc = "ack"
      /\ Live(m) => promise[m].nip = addr /\ promise[m].until <= now + t
      /\ IF IsStatic(m) THEN addr = StaticNip[m]
         ELSE \E s \in Slots : leases[s].mac = m /\ leases[s].nip = addr
  BY DEF EnterLease, CoreInv, AckInv
<1>2. t \in Nat /\ now + t < TimeWrap
  BY LeaseTimeFits DEF CoreInv, StateOK
<1>3. m # NoMac /\ m # ZeroMac
  BY <1>1, AddressAssumption
<1>4. leases' = AddLease(m, addr, t) /\ UNCHANGED <<now, promise, quarantine>>
  BY DEF EnterLease, ghosts
<1>5. pc' \in {"write", "select"}
  BY DEF EnterLease, Return
<1>6. /\ client' \in {client, NoClient} /\ addr' \in {addr, 0} /\ oldest' \in {oldest, 0}
      /\ answered' \in {answered, {}}
  BY DEF EnterLease, Return, request
<1> HIDE DEF m, t
<1>7. addr \in Nat \ {0} /\ Placed(Entry(m, addr, t)) /\ FreeFor(m, addr)
  BY <1>1, <1>2, AckedFree DEF m
<1>8. leases' \in [Slots -> Lease] /\ TableInv'
  BY <1>1, <1>2, <1>4, <1>7, TableStep
<1>9. StateOK' /\ Clock'
  BY <1>4, <1>5, <1>6, <1>8 DEF CoreInv, StateOK, Clock, NoClient
<1>10. BackingKept
  <2> SUFFICES ASSUME NEW n \in Mac, Live(n)', ~IsStatic(n), Backed(n)
               PROVE  Backed(n)'
    BY <1>4 DEF BackingKept
  <2>3. Live(n)
    BY <1>4 DEF Live
  <2>1. CASE n = m
    <3>1. HasRoom(Cleared(m, addr))
      <4>1. PICK s \in Slots : leases[s].mac = m
        BY <1>1, <2>1
      <4>2. Cleared(m, addr)[s] = Empty
        BY <1>3, <4>1 DEF Cleared
      <4>3. IsExpired(Empty)
        BY DEF IsExpired, Empty, CoreInv, Clock
      <4> QED
        BY <4>2, <4>3 DEF HasRoom
    <3>2. PICK s \in Slots : leases'[s] = Entry(m, addr, t)
      BY <1>1, <1>2, <1>4, <1>7, <3>1, AddLeaseSlots DEF CoreInv
    <3>3. /\ leases'[s].mac = m /\ leases'[s].nip = addr
          /\ leases'[s].expires = now + t
      BY <1>3, <3>2 DEF Entry
    <3>4. promise[m].until \in Nat /\ now + t \in Nat
      BY <1>1, <1>2 DEF CoreInv, StateOK
    <3> QED
      BY ONLY <1>1, <1>4, <2>1, <2>3, <3>3, <3>4 DEF Backed
  <2>2. CASE n # m
    <3>1. client.mac # n
      BY <2>2 DEF m
    <3> QED
      BY <1>1, <1>2, <1>4, <1>7, <2>2, <3>1, OthersKeep
  <2> QED
    BY <2>1, <2>2
<1>11. StaticPromise'
  BY <1>4 DEF CoreInv, StaticPromise, Live, IsStatic
<1>12. SearchInv' /\ AckInv'
  BY <1>5 DEF SearchInv, AckInv
<1> QED
  BY <1>8, <1>9, <1>10, <1>11, <1>12 DEF CoreInv

LEMMA LeasesWrittenStep ==
    ASSUME CoreInv, LeasesWritten
    PROVE  CoreInv' /\ BackingKept
<1>1. /\ UNCHANGED <<now, leases, promise, quarantine>> /\ pc # "ack"
      /\ pc' = "select" /\ client' = NoClient /\ addr' = 0 /\ oldest' = 0 /\ answered' = {}
  BY DEF LeasesWritten, Return, ghosts
<1>2. StateOK' /\ Clock'
  BY <1>1 DEF CoreInv, StateOK, Clock, NoClient
<1>3. TableInv' /\ StaticPromise' /\ SearchInv' /\ AckInv'
  BY <1>1 DEF CoreInv, TableInv, Distinct, Placed, IsStatic, StaticPromise, Live,
              SearchInv, AckInv
<1>4. BackingKept
  BY <1>1 DEF BackingKept, Backed
<1> QED
  BY <1>2, <1>3, <1>4 DEF CoreInv

LEMMA TickStep ==
    ASSUME CoreInv, Tick
    PROVE  CoreInv' /\ BackingKept
<1>1. /\ now' = now + 1 /\ now < MaxTime /\ now \in Nat
      /\ UNCHANGED <<leases, pc, client, addr, oldest, answered>>
  BY DEF Tick, request, CoreInv, StateOK
<1>2. /\ promise' \in [Mac -> [nip : Nat, until : Nat, acked : BOOLEAN]]
      /\ \A m \in Mac : promise'[m] = promise[m] \/ promise'[m] = NoPromise
  BY NoPromiseType DEF Tick, CoreInv, StateOK
<1>3. quarantine' \in [AskedIp -> Nat]
  BY DEF Tick, CoreInv, StateOK
<1>4. StateOK' /\ Clock'
  BY <1>1, <1>2, <1>3, TimeAssumption DEF CoreInv, StateOK, Clock
<1>5. ASSUME NEW m \in Mac, Live(m)' PROVE Live(m) /\ promise'[m] = promise[m]
  <2>1. promise'[m] = promise[m]
    BY <1>1, <1>2, <1>5, NoPromiseType DEF Live
  <2>2. promise[m].until \in Nat
    BY DEF CoreInv, StateOK
  <2> QED
    BY <1>1, <1>5, <2>1, <2>2 DEF Live
<1>6. BackingKept /\ StaticPromise' /\ TableInv'
  <2>1. BackingKept
    BY <1>1, <1>5 DEF BackingKept, Backed
  <2>2. StaticPromise' /\ TableInv'
    BY <1>1, <1>5 DEF CoreInv, StaticPromise, IsStatic, TableInv, Distinct, Placed
  <2> QED BY <2>1, <2>2
<1>7. SearchInv'
  <2>1. \A s \in Slots : IsExpired(leases[s]) => IsExpired(leases[s])'
    BY <1>1 DEF IsExpired, CoreInv, StateOK, Lease
  <2> QED
    BY <1>1, <2>1 DEF CoreInv, SearchInv, IsStatic
<1>8. AckInv'
  <2> SUFFICES ASSUME pc = "ack" PROVE AckInv'
    BY <1>1 DEF AckInv
  <2>1. client.mac \in Mac /\ LeaseTime(client.option) \in Nat
    BY TimeAssumption DEF CoreInv, AckInv, LeaseTime, StateOK
  <2>2. Live(client.mac)' => promise'[client.mac].until <= now + 1 + LeaseTime(client.option)
    BY <1>1, <1>5, <2>1 DEF CoreInv, AckInv, StateOK
  <2> QED
    BY <1>1, <1>5, <2>1, <2>2 DEF CoreInv, AckInv, IsStatic, LeaseTime
<1> QED
  BY <1>4, <1>6, <1>7, <1>8 DEF CoreInv

-----------------------------------------------------------------------------
LEMMA InitIInv == Init => IInv
<1> SUFFICES ASSUME Init PROVE IInv
  OBVIOUS
<1>1. StartIp \in Nat /\ EndIp \in Nat /\ MaxTime \in Nat \ {0}
  BY AddressAssumption, TimeAssumption
<1>2. /\ now = 1 /\ pc = "select" /\ oldest = 0
      /\ leases = [s \in Slots |-> Empty] /\ promise = [m \in Mac |-> NoPromise]
  BY DEF Init
<1>3. \A s \in Slots : leases[s] = Empty
  BY <1>2
<1>4. Empty \in Lease /\ Empty.mac = ZeroMac /\ Empty.nip = 0
  BY DEF Empty, Lease
<1>5. TypeOK /\ StateOK
  BY <1>4, NoPromiseType DEF Init, TypeOK, StateOK, NoClient
<1>6. Clock
  BY <1>1, <1>2 DEF Clock
<1>7. TableInv
  BY <1>3, <1>4 DEF TableInv, Distinct, Placed
<1>8. ASSUME NEW m \in Mac PROVE ~Live(m)
  <2>1. promise[m].until = 0
    BY <1>2, NoPromiseType
  <2> QED
    BY <1>2, <2>1 DEF Live
<1>9. PromiseBacked /\ StaticPromise
  BY <1>8 DEF PromiseBacked, StaticPromise
<1>10. SearchInv /\ AckInv
  BY <1>2 DEF SearchInv, AckInv
<1> QED
  BY <1>5, <1>6, <1>7, <1>9, <1>10 DEF IInv, CoreInv

LEMMA StutterStep ==
    ASSUME CoreInv, UNCHANGED vars
    PROVE  CoreInv' /\ BackingKept
<1>1. UNCHANGED <<now, leases, pc, client, addr, oldest, answered, promise, quarantine>>
  BY DEF vars, request, ghosts
<1>2. StateOK' /\ Clock' /\ TableInv' /\ StaticPromise'
  BY <1>1 DEF CoreInv, StateOK, Clock, TableInv, Distinct, Placed, IsStatic,
              StaticPromise, Live
<1>3. SearchInv' /\ AckInv'
  BY <1>1 DEF CoreInv, SearchInv, AckInv, IsStatic, IsExpired, Live
<1>4. BackingKept
  BY <1>1 DEF BackingKept, Backed
<1> QED
  BY <1>2, <1>3, <1>4 DEF CoreInv

\* One lemma for each action.
LEMMA CoreStep ==
    ASSUME NoWrap, StaticsOutside, CoreInv, [Next]_vars
    PROVE  CoreInv' /\ BackingKept
<1> DEFINE Goal == CoreInv' /\ BackingKept
<1>1. CASE Receive
  <2>1. ASSUME NEW m \in Mac, DiscoverStatic(m) \/ DiscoverKnown(m) PROVE Goal
    BY <2>1, DiscoverStaticStep, DiscoverKnownStep
  <2>2. ASSUME NEW m \in Mac, NEW a \in AskedIp,
               DiscoverRequested(m, a) \/ DiscoverSearch(m, a)
        PROVE  Goal
    BY <2>2, DiscoverRequestedStep, DiscoverSearchStep
  <2>3. ASSUME NEW m \in Mac, NEW a \in AskedIp, Decline(m, a) \/ Release(m, a)
        PROVE  Goal
    BY <2>3, DeclineStep, ReleaseStep
  <2>4. ASSUME NEW m \in Mac, NEW a \in AskedIp, NEW b \in AskedIp,
               NEW opt \in LeaseOption, RequestAck(m, a, b, opt)
        PROVE  Goal
    BY <2>4, RequestAckStep
  <2> QED
    BY <1>1, <2>1, <2>2, <2>3, <2>4 DEF Receive
<1>2. CASE Serve
  BY <1>2, ScanStep, NobodyAnswersStep, SomebodyAnswersStep, EnterLeaseStep,
     LeasesWrittenStep DEF Serve, Search
<1>3. CASE Tick
  BY <1>3, TickStep
<1>4. CASE UNCHANGED vars
  BY <1>4, StutterStep
<1> QED
  BY <1>1, <1>2, <1>3, <1>4 DEF Next

\* The clock never goes back: a promise that is alive has been so.
LEMMA LiveBefore ==
    ASSUME CoreInv, now' \in {now, now + 1}, NEW n \in Mac,
           promise'[n] = promise[n], Live(n)'
    PROVE  Live(n)
<1>1. now \in Nat /\ promise[n].until \in Nat
  BY DEF CoreInv, StateOK
<1>2. promise[n].until > now'
  BY DEF Live
<1> QED
  BY ONLY <1>1, <1>2, now' \in {now, now + 1} DEF Live

LEMMA ClockStep == [Next]_vars => now' \in {now, now + 1}
<1>1. Receive => now' = now
  BY DEF Receive, DiscoverStatic, DiscoverKnown, DiscoverRequested, DiscoverSearch,
         Decline, Release, RequestAck
<1>2. Serve => now' = now
  BY DEF Serve, Search, Skip, RememberOldest, Probe, ProbeOldest, Abandon, NobodyAnswers,
         SomebodyAnswers, EnterLease, LeasesWritten
<1>3. Tick => now' = now + 1
  BY DEF Tick
<1> QED BY <1>1, <1>2, <1>3 DEF Next, vars

LEMMA PcStep ==
    ASSUME TypeOK, [Next]_vars
    PROVE  pc' \in {"select", "scan", "probe", "probeOldest", "ack", "write"}
<1> DEFINE Known(v) == v \in {"select", "scan", "probe", "probeOldest", "ack", "write"}
<1>1. ASSUME Receive PROVE Known(pc')
  BY <1>1 DEF Receive, DiscoverStatic, DiscoverKnown, DiscoverRequested, DiscoverSearch,
              Decline, Release, RequestAck, Reserve, Return
<1>2. ASSUME Search PROVE Known(pc')
  BY <1>2 DEF Search, Skip, RememberOldest, Probe, ProbeOldest, Abandon, NobodyAnswers,
              SomebodyAnswers, Reserve, Return
<1>3. ASSUME EnterLease \/ LeasesWritten PROVE Known(pc')
  BY <1>3 DEF EnterLease, LeasesWritten, Return
<1>4. ASSUME Tick \/ UNCHANGED vars PROVE Known(pc')
  BY <1>4 DEF Tick, vars, TypeOK
<1> QED BY <1>1, <1>2, <1>3, <1>4 DEF Next, Serve

LEMMA BackedStep ==
    ASSUME CoreInv, PromiseBacked, BackingKept, [Next]_vars
    PROVE  PromiseBacked'
<1> SUFFICES ASSUME NEW n \in Mac, Live(n)', ~IsStatic(n) PROVE Backed(n)'
  BY DEF PromiseBacked, Backed, IsStatic
<1> SUFFICES ASSUME promise'[n] = promise[n] PROVE Backed(n)
  BY DEF BackingKept
<1>1. Live(n)
  BY ClockStep, LiveBefore
<1> QED BY <1>1 DEF PromiseBacked, Backed

LEMMA NextIInv ==
    ASSUME NoWrap, StaticsOutside, IInv, [Next]_vars
    PROVE  IInv'
<1>1. CoreInv' /\ BackingKept
  BY CoreStep DEF IInv
<1>2. TypeOK'
  <2>1. StateOK' BY <1>1 DEF CoreInv
  <2>2. TypeOK BY DEF IInv
  <2> QED BY <2>1, <2>2, PcStep DEF TypeOK, StateOK
<1>3. PromiseBacked'
  BY <1>1, BackedStep DEF IInv
<1> QED
  BY <1>1, <1>2, <1>3 DEF IInv

\* The invariant of the server, from which the theorems below follow.
THEOREM Invariance ==
    ASSUME NoWrap, StaticsOutside
    PROVE  Spec => []IInv
<1>1. Init => IInv
  BY InitIInv
<1>2. IInv /\ [Next]_vars => IInv'
  BY NextIInv
<1> QED
  BY <1>1, <1>2, PTL DEF Spec

\* The variables keep their types in every behaviour of udhcpd.
THEOREM TypeCorrect ==
    ASSUME NoWrap, StaticsOutside
    PROVE  Spec => []TypeOK
<1>1. IInv => TypeOK
  BY DEF IInv
<1> QED
  BY <1>1, Invariance, PTL

\* add_lease() never leaves two slots to a client or to an address.
THEOREM TableStaysConsistent ==
    ASSUME NoWrap, StaticsOutside
    PROVE  Spec => []LeaseTableConsistent
<1>1. IInv => LeaseTableConsistent
  BY DEF IInv, CoreInv, TableInv, Distinct, LeaseTableConsistent
<1> QED
  BY <1>1, Invariance, PTL

\* A promise by OFFER or ACK has its slot in the table until its deadline.
THEOREM PromisesAreBacked ==
    ASSUME NoWrap, StaticsOutside
    PROVE  Spec => []PromiseBacked
<1>1. IInv => PromiseBacked
  BY DEF IInv
<1> QED
  BY <1>1, Invariance, PTL

\* udhcpd promises no address to two clients at once.
THEOREM PromisesAreExclusive ==
    ASSUME NoWrap, StaticsOutside
    PROVE  Spec => []ExclusivePromises
<1>1. ASSUME IInv PROVE ExclusivePromises
  <2> SUFFICES ASSUME NEW m \in Mac, NEW n \in Mac, m # n, Live(m), Live(n),
                      promise[m].nip = promise[n].nip
               PROVE  FALSE
    BY DEF ExclusivePromises
  <2>1. \A k \in Mac : Live(k) /\ IsStatic(k) => promise[k].nip = StaticNip[k]
    BY <1>1 DEF IInv, CoreInv, StaticPromise
  <2>2. \A k \in Mac : Live(k) /\ ~IsStatic(k) =>
           \E s \in Slots : leases[s].mac = k /\ leases[s].nip = promise[k].nip
    BY <1>1 DEF IInv, CoreInv, PromiseBacked
  <2>3. \A k \in Mac : Live(k) /\ ~IsStatic(k) => promise[k].nip \in Pool
    BY <1>1, <2>2, AddressAssumption DEF IInv, CoreInv, TableInv, Placed
  <2>4. CASE IsStatic(m) \/ IsStatic(n)
    BY <2>1, <2>3, <2>4 DEF StaticsOutside
  <2>5. CASE ~IsStatic(m) /\ ~IsStatic(n)
    <3>1. PICK s \in Slots : leases[s].mac = m /\ leases[s].nip = promise[m].nip
      BY <2>2, <2>5
    <3>2. PICK r \in Slots : leases[r].mac = n /\ leases[r].nip = promise[n].nip
      BY <2>2, <2>5
    <3>3. promise[m].nip # 0
      BY <2>3, <2>5, PoolNat
    <3> QED
      BY <1>1, <3>1, <3>2, <3>3 DEF IInv, CoreInv, TableInv, Distinct
  <2> QED
    BY <2>4, <2>5
<1> QED
  BY <1>1, Invariance, PTL

\* A client that asks in time for what it was promised gets an ACK.
THEOREM PromisesAreKept ==
    ASSUME NoWrap, StaticsOutside
    PROVE  Spec => []PromiseKept
<1>1. ASSUME IInv PROVE PromiseKept
  <2> SUFFICES ASSUME NEW m \in Mac, Live(m)
               PROVE  BoundIp(m) = promise[m].nip
    BY DEF PromiseKept
  <2>1. CASE IsStatic(m)
    BY <1>1, <2>1 DEF IInv, CoreInv, StaticPromise, BoundIp
  <2>2. CASE ~IsStatic(m)
    <3>1. PICK s \in Slots : leases[s].mac = m /\ leases[s].nip = promise[m].nip
      BY <1>1, <2>2 DEF IInv, CoreInv, PromiseBacked
    <3>2. First(WithMac(m)) = s /\ WithMac(m) # {}
      BY <1>1, <3>1, OnlySlot, AddressAssumption DEF WithMac, IInv
    <3> QED
      BY <2>2, <3>1, <3>2 DEF BoundIp
  <2> QED
    BY <2>1, <2>2
<1> QED
  BY <1>1, Invariance, PTL
-----------------------------------------------------------------------------
(* The quarantine of addresses that are in use elsewhere.  With a slot for *)
(* each address of the pool there is always room for the lease that blocks *)
(* an address.  A static lease is handed out whatever is known of it.      *)

NoStatics == \A m \in Mac : ~IsStatic(m)

SlotForEach == EndIp - StartIp + 1 <= MaxLeases

\* A slot without an address has never been used.
UnusedEmpty == \A s \in Slots : leases[s].nip = 0 => leases[s] = Empty

\* A lease of nobody blocks the address for as long as its quarantine.
Blocked(a) ==
    \E s \in Slots : /\ leases[s].nip = a /\ leases[s].mac = ZeroMac
                     /\ leases[s].expires >= quarantine[a]

QuarantineInv ==
    /\ CoreInv /\ PromiseBacked /\ UnusedEmpty
    /\ \A a \in AskedIp : quarantine[a] > now => Blocked(a)

\* Every slot of a table without the address "a" cannot be taken.
LEMMA RoomForEach ==
    ASSUME CoreInv, UnusedEmpty, NoStatics, SlotForEach, NEW a \in Pool,
           \A s \in Slots : leases[s].nip # a
    PROVE  HasRoom(leases)
<1>1. StartIp \in Nat /\ EndIp \in Nat /\ MaxLeases \in Nat /\ StartIp <= EndIp
  BY AddressAssumption, TimeAssumption
<1> DEFINE n == EndIp - StartIp + 1
<1>2. Slots = 1 .. n /\ n \in Nat \ {0}
  BY <1>1 DEF Slots, SlotForEach
<1>3. IsFiniteSet(Slots) /\ Cardinality(Slots) = n
  BY ONLY <1>2, FS_Interval
<1>4. IsFiniteSet(Pool) /\ Cardinality(Pool) = n
  BY ONLY <1>1, FS_Interval DEF Pool
<1>5. IsFiniteSet(Pool \ {a}) /\ Cardinality(Pool \ {a}) < Cardinality(Slots)
  <2>1. /\ IsFiniteSet(Pool \ {a})
        /\ Cardinality(Pool \ {a}) = Cardinality(Pool) - 1
    BY ONLY <1>4, FS_RemoveElement, a \in Pool
  <2> QED BY ONLY <1>2, <1>3, <1>4, <2>1
<1>6. \E s \in Slots : leases[s].nip \notin Pool
  <2> SUFFICES ASSUME \A s \in Slots : leases[s].nip \in Pool PROVE FALSE
    OBVIOUS
  <2> DEFINE f == [s \in Slots |-> leases[s].nip]
  <2>1. f \in [Slots -> Pool \ {a}]
    OBVIOUS
  <2> HIDE DEF f
  <2>2. \E s, r \in Slots : s # r /\ f[s] = f[r]
    BY ONLY <1>3, <1>5, <2>1, FS_PigeonHole
  <2>3. PICK s \in Slots, r \in Slots : s # r /\ f[s] = f[r]
    BY <2>2
  <2>4. leases[s].nip = leases[r].nip /\ leases[s].nip # 0
    BY <2>3, PoolNat DEF f
  <2> QED
    BY <2>3, <2>4 DEF CoreInv, TableInv, Distinct
<1>7. PICK s \in Slots : leases[s].nip \notin Pool
  BY <1>6
<1>8. leases[s].nip = 0
  <2>1. Placed(leases[s]) /\ leases[s].mac \in Mac \cup {ZeroMac}
    BY DEF CoreInv, TableInv, StateOK, Lease
  <2> QED
    BY <1>7, <2>1 DEF Placed, NoStatics
<1> QED
  BY <1>8 DEF UnusedEmpty, HasRoom, IsExpired, Empty, CoreInv, Clock
\* add_lease() for a client leaves the quarantined addresses blocked.
LEMMA AddLeaseBlocks ==
    ASSUME QuarantineInv, NEW m \in Mac, NEW a \in Nat \ {0}, NEW t \in Nat,
           now + t < TimeWrap, FreeFor(m, a), leases' = AddLease(m, a, t),
           UNCHANGED <<now, quarantine>>
    PROVE  UnusedEmpty' /\ \A q \in AskedIp : quarantine'[q] > now' => Blocked(q)'
<1>1. CoreInv /\ UnusedEmpty /\ m # ZeroMac /\ m \in Mac \cup {NoMac}
  BY AddressAssumption DEF QuarantineInv
<1>2. UnusedEmpty'
  <2>1. \A s \in Slots : leases'[s] \in {leases[s], Empty, Entry(m, a, t)}
    BY <1>1, AddLeaseSlots DEF CoreInv
  <2>2. Entry(m, a, t).nip # 0
    BY DEF Entry
  <2> QED
    BY ONLY <1>1, <2>1, <2>2 DEF UnusedEmpty
<1>3. ASSUME NEW q \in AskedIp, quarantine[q] > now PROVE Blocked(q)'
  <2>1. PICK s \in Slots : /\ leases[s].nip = q /\ leases[s].mac = ZeroMac
                           /\ leases[s].expires >= quarantine[q]
    BY <1>3 DEF QuarantineInv, Blocked
  <2>2. /\ quarantine[q] \in Nat /\ now \in Nat /\ leases[s].expires \in Nat
    BY <1>1 DEF CoreInv, StateOK, Lease
  <2>3. ~IsExpired(leases[s])
    BY ONLY <1>3, <2>1, <2>2 DEF IsExpired
  <2>4. leases[s].mac # m /\ leases[s].nip # a
    BY <1>1, <2>1, <2>3 DEF FreeFor
  <2>5. leases'[s] = leases[s]
    BY <1>1, <2>3, <2>4, AddLeaseKeeps DEF CoreInv
  <2> QED
    BY <2>1, <2>5 DEF Blocked
<1> QED
  BY <1>2, <1>3

LEMMA ReserveBlocks ==
    ASSUME QuarantineInv, NoWrap, NEW m \in Mac, NEW a \in Pool, FreeFor(m, a),
           Reserve(m, a), UNCHANGED <<now, quarantine>>
    PROVE  UnusedEmpty' /\ \A q \in AskedIp : quarantine'[q] > now' => Blocked(q)'
<1>1. OfferTime \in Nat /\ now + OfferTime < TimeWrap /\ a \in Nat \ {0}
  BY TimesFit, PoolNat DEF QuarantineInv
<1>2. leases' = AddLease(m, a, OfferTime)
  BY DEF Reserve
<1> QED
  BY <1>1, <1>2, AddLeaseBlocks

LEMMA EnterLeaseBlocks ==
    ASSUME QuarantineInv, NoWrap, StaticsOutside, EnterLease
    PROVE  UnusedEmpty' /\ \A q \in AskedIp : quarantine'[q] > now' => Blocked(q)'
<1> DEFINE t == LeaseTime(client.option)
<1>1. client.mac \in Mac /\ pc = "ack"
  BY DEF EnterLease, QuarantineInv, CoreInv, AckInv
<1>2. t \in Nat /\ now + t < TimeWrap
  BY LeaseTimeFits DEF QuarantineInv, CoreInv, StateOK
<1>3. addr \in Nat \ {0} /\ FreeFor(client.mac, addr)
  BY <1>1, <1>2, AckedFree DEF QuarantineInv
<1>4. leases' = AddLease(client.mac, addr, t) /\ UNCHANGED <<now, quarantine>>
  BY DEF EnterLease, ghosts
<1> HIDE DEF t
<1> QED
  BY <1>1, <1>2, <1>3, <1>4, AddLeaseBlocks

\* The lease that add_lease(NULL) enters for an address that is taken.
LEMMA SomebodyAnswersBlocks ==
    ASSUME QuarantineInv, NoWrap, NoStatics, SlotForEach, SomebodyAnswers
    PROVE  UnusedEmpty' /\ \A q \in AskedIp : quarantine'[q] > now' => Blocked(q)'
<1> DEFINE e == Entry(NoMac, addr, ConflictTime)
<1>1. CoreInv /\ UnusedEmpty /\ addr \in Pool /\ addr \in Nat \ {0}
  BY PoolNat DEF QuarantineInv, SomebodyAnswers, CoreInv, SearchInv
<1>2. ConflictTime \in Nat /\ now + ConflictTime < TimeWrap
  BY <1>1, TimesFit
<1>3. /\ leases' = AddLease(NoMac, addr, ConflictTime) /\ now' = now
      /\ quarantine' = [quarantine EXCEPT ![addr] = now + ConflictTime]
  BY DEF SomebodyAnswers
<1>4. e.mac = ZeroMac /\ e.nip = addr /\ e.expires = now + ConflictTime
  BY DEF Entry
<1>5. HasRoom(Cleared(NoMac, addr))
  <2>1. CASE \A s \in Slots : leases[s].nip # addr
    <3>1. Cleared(NoMac, addr) = leases
      BY <1>1, <2>1 DEF Cleared, CoreInv, StateOK
    <3> QED
      BY <1>1, <2>1, <3>1, RoomForEach
  <2>2. CASE \E s \in Slots : leases[s].nip = addr
    <3>1. PICK s \in Slots : leases[s].nip = addr
      BY <2>2
    <3>2. Cleared(NoMac, addr)[s] = Empty
      BY <1>1, <3>1 DEF Cleared
    <3>3. IsExpired(Empty)
      BY <1>1 DEF IsExpired, Empty, CoreInv, Clock
    <3> QED
      BY <3>2, <3>3 DEF HasRoom
  <2> QED
    BY <2>1, <2>2
<1>6. /\ \A s \in Slots : leases'[s] \in {leases[s], Empty, e}
      /\ \E s \in Slots : leases'[s] = e
  BY <1>1, <1>2, <1>3, <1>5, AddLeaseSlots DEF CoreInv
<1>7. now + ConflictTime \in Nat /\ quarantine \in [AskedIp -> Nat]
  BY <1>1, <1>2 DEF CoreInv, StateOK
<1> HIDE DEF e
<1>8. UnusedEmpty'
  BY ONLY <1>1, <1>4, <1>6 DEF UnusedEmpty
<1>9. ASSUME NEW q \in AskedIp, quarantine'[q] > now' PROVE Blocked(q)'
  <2>1. CASE q = addr
    <3>1. quarantine'[q] = now + ConflictTime
      BY <1>3, <1>7, <2>1
    <3>2. PICK s \in Slots : leases'[s] = e
      BY <1>6
    <3> QED
      BY ONLY <1>4, <1>7, <2>1, <3>1, <3>2 DEF Blocked
  <2>2. CASE q # addr
    <3>1. quarantine'[q] = quarantine[q] /\ quarantine[q] > now
      BY <1>3, <1>7, <1>9, <2>2
    <3>2. PICK s \in Slots : /\ leases[s].nip = q /\ leases[s].mac = ZeroMac
                             /\ leases[s].expires >= quarantine[q]
      BY <3>1 DEF QuarantineInv, Blocked
    <3>3. /\ quarantine[q] \in Nat /\ now \in Nat /\ leases[s].expires \in Nat
      BY <1>1, <1>7 DEF CoreInv, StateOK, Lease
    <3>4. ~IsExpired(leases[s])
      BY ONLY <3>1, <3>2, <3>3 DEF IsExpired
    <3>5. leases[s].mac # NoMac /\ leases[s].nip # addr
      BY <2>2, <3>2, AddressAssumption
    <3>6. leases'[s] = leases[s]
      BY <1>1, <1>2, <1>3, <3>4, <3>5, AddLeaseKeeps DEF CoreInv
    <3> QED
      BY <3>1, <3>2, <3>6 DEF Blocked
  <2> QED
    BY <2>1, <2>2
<1> QED
  BY <1>8, <1>9

\* DECLINE: the client's own slot is the one that blocks the address.
LEMMA DeclineBlocks ==
    ASSUME QuarantineInv, NoWrap, NoStatics, NEW m \in Mac, NEW req \in AskedIp,
           Decline(m, req)
    PROVE  UnusedEmpty' /\ \A q \in AskedIp : quarantine'[q] > now' => Blocked(q)'
<1> DEFINE s == First(WithMac(m))
           l == [mac |-> ZeroMac, nip |-> leases[s].nip, expires |-> Deadline(DeclineTime)]
<1>1. CoreInv /\ UnusedEmpty /\ ~IsStatic(m)
  BY DEF QuarantineInv, NoStatics
<1>2. WithMac(m) # {} /\ leases[s].nip = req /\ req # 0
  BY <1>1 DEF Decline, BoundIp
<1>3. s \in Slots /\ leases[s].mac = m /\ leases \in [Slots -> Lease]
  BY <1>1, <1>2, SlotOfClient DEF CoreInv, StateOK
<1>4. /\ leases' = [leases EXCEPT ![s] = l] /\ now' = now
      /\ quarantine' = [quarantine EXCEPT ![req] = now + DeclineTime]
  BY <1>1 DEF Decline
<1>5. l.mac = ZeroMac /\ l.nip = req /\ l.expires = now + DeclineTime
  BY <1>1, <1>2, TimesFit, TimeAssumption DEF CoreInv, StateOK, Deadline
<1>6. now + DeclineTime \in Nat /\ quarantine \in [AskedIp -> Nat]
  BY <1>1, TimesFit DEF CoreInv, StateOK
<1> HIDE DEF s, l
<1>7. leases'[s] = l /\ \A r \in Slots : r # s => leases'[r] = leases[r]
  BY ONLY <1>3, <1>4
<1>8. UnusedEmpty'
  BY ONLY <1>1, <1>2, <1>5, <1>7 DEF UnusedEmpty
<1>9. ASSUME NEW q \in AskedIp, quarantine'[q] > now' PROVE Blocked(q)'
  <2>1. CASE q = req
    <3>1. quarantine'[q] = now + DeclineTime
      BY <1>4, <1>6, <2>1
    <3> QED
      BY ONLY <1>3, <1>5, <1>6, <1>7, <2>1, <3>1 DEF Blocked
  <2>2. CASE q # req
    <3>1. quarantine'[q] = quarantine[q] /\ quarantine[q] > now
      BY <1>4, <1>6, <1>9, <2>2
    <3>2. PICK r \in Slots : /\ leases[r].nip = q /\ leases[r].mac = ZeroMac
                             /\ leases[r].expires >= quarantine[q]
      BY <3>1 DEF QuarantineInv, Blocked
    <3>3. r # s
      BY <1>2, <2>2, <3>2
    <3> QED
      BY <1>7, <3>1, <3>2, <3>3 DEF Blocked
  <2> QED
    BY <2>1, <2>2
<1> QED
  BY <1>8, <1>9

\* RELEASE changes the deadline of the client's slot only.
LEMMA ReleaseBlocks ==
    ASSUME QuarantineInv, NoStatics, NEW m \in Mac, NEW ciaddr, Release(m, ciaddr)
    PROVE  UnusedEmpty' /\ \A q \in AskedIp : quarantine'[q] > now' => Blocked(q)'
<1> DEFINE s == First(WithMac(m))
           l == [leases[s] EXCEPT !.expires = Deadline(0)]
<1>1. CoreInv /\ UnusedEmpty /\ ~IsStatic(m) /\ m # ZeroMac
  BY AddressAssumption DEF QuarantineInv, NoStatics
<1>2. WithMac(m) # {} /\ leases[s].nip # 0
  BY <1>1 DEF Release, BoundIp
<1>3. s \in Slots /\ leases[s].mac = m /\ leases \in [Slots -> Lease]
  BY <1>1, <1>2, SlotOfClient DEF CoreInv, StateOK
<1>4. leases' = [leases EXCEPT ![s] = l] /\ UNCHANGED <<now, quarantine>>
  BY <1>1, <1>3 DEF Release
<1>5. l.nip = leases[s].nip
  BY <1>3 DEF Lease
<1> HIDE DEF s, l
<1>6. leases'[s] = l /\ \A r \in Slots : r # s => leases'[r] = leases[r]
  BY ONLY <1>3, <1>4
<1>7. UnusedEmpty'
  BY ONLY <1>1, <1>2, <1>5, <1>6 DEF UnusedEmpty
<1>8. ASSUME NEW q \in AskedIp, quarantine'[q] > now' PROVE Blocked(q)'
  <2>1. PICK r \in Slots : /\ leases[r].nip = q /\ leases[r].mac = ZeroMac
                           /\ leases[r].expires >= quarantine[q]
    BY <1>4, <1>8 DEF QuarantineInv, Blocked
  <2> QED
    BY <1>1, <1>3, <1>4, <1>6, <2>1 DEF Blocked
<1> QED
  BY <1>7, <1>8

LEMMA QuarantineKept ==
    ASSUME QuarantineInv, UNCHANGED <<now, leases, quarantine>>
    PROVE  UnusedEmpty' /\ \A q \in AskedIp : quarantine'[q] > now' => Blocked(q)'
BY DEF QuarantineInv, UnusedEmpty, Blocked

LEMMA TickBlocks ==
    ASSUME QuarantineInv, Tick
    PROVE  UnusedEmpty' /\ \A q \in AskedIp : quarantine'[q] > now' => Blocked(q)'
<1>1. /\ now' = now + 1 /\ leases' = leases /\ now \in Nat
      /\ quarantine' = [q \in AskedIp |-> IF quarantine[q] > now' THEN quarantine[q] ELSE 0]
      /\ quarantine \in [AskedIp -> Nat]
  BY DEF Tick, QuarantineInv, CoreInv, StateOK
<1>2. UnusedEmpty'
  BY <1>1 DEF QuarantineInv, UnusedEmpty
<1>3. ASSUME NEW q \in AskedIp, quarantine'[q] > now' PROVE Blocked(q)'
  <2>1. quarantine'[q] = quarantine[q] /\ quarantine[q] > now
    BY ONLY <1>1, <1>3
  <2> QED
    BY <1>1, <2>1 DEF QuarantineInv, Blocked
<1> QED
  BY <1>2, <1>3

LEMMA QuarantineStep ==
    ASSUME NoWrap, NoStatics, SlotForEach, QuarantineInv, [Next]_vars
    PROVE  QuarantineInv'
<1> DEFINE Goal == UnusedEmpty' /\ \A q \in AskedIp : quarantine'[q] > now' => Blocked(q)'
<1>1. CoreInv /\ StaticsOutside
  BY DEF QuarantineInv, NoStatics, StaticsOutside
<1>2. CoreInv' /\ PromiseBacked'
  BY <1>1, CoreStep, BackedStep DEF QuarantineInv
<1>3. Goal
  <2>1. CASE Receive
    <3>1. ASSUME NEW m \in Mac, DiscoverStatic(m) PROVE Goal
      BY <3>1, QuarantineKept DEF DiscoverStatic
    <3>2. ASSUME NEW m \in Mac, DiscoverKnown(m) PROVE Goal
      BY <1>1, <3>2, SlotOfClient, ReserveBlocks DEF DiscoverKnown
    <3>3. ASSUME NEW m \in Mac, NEW a \in AskedIp, DiscoverRequested(m, a) PROVE Goal
      BY <1>1, <3>3, RequestedFree, ReserveBlocks DEF DiscoverRequested
    <3>4. ASSUME NEW m \in Mac, NEW a \in AskedIp, DiscoverSearch(m, a) PROVE Goal
      BY <3>4, QuarantineKept DEF DiscoverSearch
    <3>5. ASSUME NEW m \in Mac, NEW a \in AskedIp, Decline(m, a) PROVE Goal
      BY <3>5, DeclineBlocks
    <3>6. ASSUME NEW m \in Mac, NEW a \in AskedIp, Release(m, a) PROVE Goal
      BY <3>6, ReleaseBlocks
    <3>7. ASSUME NEW m \in Mac, NEW a \in AskedIp, NEW b \in AskedIp,
                 NEW opt \in LeaseOption, RequestAck(m, a, b, opt)
          PROVE  Goal
      BY <3>7, QuarantineKept DEF RequestAck
    <3> QED
      BY <2>1, <3>1, <3>2, <3>3, <3>4, <3>5, <3>6, <3>7 DEF Receive
  <2>2. CASE Skip \/ RememberOldest \/ Probe \/ ProbeOldest \/ Abandon \/ LeasesWritten
    <3>1. UNCHANGED <<now, leases, quarantine>>
      BY <2>2 DEF Skip, RememberOldest, Probe, ProbeOldest, Abandon, LeasesWritten, ghosts
    <3> QED
      BY <3>1, QuarantineKept
  <2>3. CASE NobodyAnswers
    <3>1. /\ client.mac \in Mac /\ addr \in Pool /\ FreeFor(client.mac, addr)
      BY <1>1, <2>3, ProbedFree DEF NobodyAnswers, CoreInv, SearchInv
    <3> QED
      BY <2>3, <3>1, ReserveBlocks DEF NobodyAnswers
  <2>4. CASE SomebodyAnswers
    BY <2>4, SomebodyAnswersBlocks
  <2>5. CASE EnterLease
    BY <1>1, <2>5, EnterLeaseBlocks
  <2>6. CASE Tick
    BY <2>6, TickBlocks
  <2>7. CASE UNCHANGED vars
    BY <2>7, QuarantineKept DEF vars, ghosts
  <2> QED
    BY <2>1, <2>2, <2>3, <2>4, <2>5, <2>6, <2>7 DEF Next, Serve, Search
<1> QED
  BY <1>2, <1>3 DEF QuarantineInv

\* With a slot for each address of the pool and no static lease, an address
\* that was declined, or that answered a probe, is promised to nobody before
\* decline_time or conflict_time is over.
THEOREM QuarantineIsHonoured ==
    ASSUME NoWrap, NoStatics, SlotForEach
    PROVE  Spec => []QuarantineHonoured
<1>1. Init => QuarantineInv
  <2> SUFFICES ASSUME Init PROVE QuarantineInv
    OBVIOUS
  <2>1. CoreInv /\ PromiseBacked BY InitIInv DEF IInv
  <2>2. UnusedEmpty BY DEF Init, UnusedEmpty
  <2>3. \A q \in AskedIp : ~(quarantine[q] > now) BY DEF Init
  <2> QED BY <2>1, <2>2, <2>3 DEF QuarantineInv
<1>2. QuarantineInv /\ [Next]_vars => QuarantineInv'
  BY QuarantineStep
<1>3. ASSUME QuarantineInv PROVE QuarantineHonoured
  <2> SUFFICES ASSUME NEW m \in Mac, Live(m)
               PROVE  quarantine[promise[m].nip] <= now
    BY DEF QuarantineHonoured
  <2>1. PICK s \in Slots : leases[s].mac = m /\ leases[s].nip = promise[m].nip
    BY <1>3 DEF QuarantineInv, PromiseBacked, NoStatics
  <2>2. m # ZeroMac /\ promise[m].nip \in Pool
    BY <1>3, <2>1, AddressAssumption DEF QuarantineInv, CoreInv, TableInv, Placed, NoStatics
  <2>3. promise[m].nip \in AskedIp /\ promise[m].nip # 0
    BY <2>2, PoolNat DEF AskedIp
  <2>4. ~(quarantine[promise[m].nip] > now)
    <3> SUFFICES ASSUME Blocked(promise[m].nip) PROVE FALSE
      BY <1>3, <2>3 DEF QuarantineInv
    <3>1. PICK r \in Slots : leases[r].nip = promise[m].nip /\ leases[r].mac = ZeroMac
      BY DEF Blocked
    <3> QED
      BY <1>3, <2>1, <2>2, <2>3, <3>1 DEF QuarantineInv, CoreInv, TableInv, Distinct
  <2>5. quarantine[promise[m].nip] \in Nat /\ now \in Nat
    BY <1>3, <2>3 DEF QuarantineInv, CoreInv, StateOK
  <2> QED
    BY ONLY <2>4, <2>5
<1> QED
  BY <1>1, <1>2, <1>3, PTL DEF Spec
-----------------------------------------------------------------------------
(* The search.                                                             *)

\* What the search has passed over, as long as no probe was answered, is in
\* the table; and what it remembers is the oldest lease of those.
PassedOver ==
    pc = "scan" /\ answered = {} =>
        \A a \in StartIp .. addr - 1 : Usable(a) =>
            /\ oldest # 0
            /\ \E s \in Slots : /\ leases[s].nip = a
                                /\ leases[oldest].expires <= leases[s].expires

LEMMA PassedOverStep ==
    ASSUME CoreInv, PassedOver, [Next]_vars
    PROVE  PassedOver'
<1> SUFFICES ASSUME pc' = "scan", answered' = {}, NEW a \in StartIp .. addr' - 1,
                    Usable(a)
             PROVE  /\ oldest' # 0
                    /\ \E s \in Slots : /\ leases'[s].nip = a
                                        /\ leases'[oldest'].expires <= leases'[s].expires
  BY DEF PassedOver, Usable, IsReserved
<1>1. StartIp \in Nat /\ EndIp \in Nat
  BY AddressAssumption
<1>2. /\ leases \in [Slots -> Lease] /\ oldest \in Slots \cup {0} /\ addr \in Nat
      /\ answered \subseteq Nat
  BY DEF CoreInv, StateOK
<1>3. CASE Skip
  <2>1. addr' = addr + 1 /\ UNCHANGED <<leases, pc, oldest, answered>> /\ ~Usable(addr)
    BY <1>3 DEF Skip
  <2>2. a \in StartIp .. addr - 1
    <3>1. a # addr BY <2>1
    <3> QED BY ONLY <1>1, <1>2, <2>1, <3>1, a \in StartIp .. addr' - 1
  <2> QED BY <2>1, <2>2 DEF PassedOver
<1>4. CASE RememberOldest
  <2> DEFINE s == First(WithNip(addr))
  <2>1. s \in Slots /\ leases[s].nip = addr
    BY <1>4, FirstIn DEF RememberOldest, WithNip
  <2>2. /\ addr' = addr + 1 /\ UNCHANGED <<leases, pc, answered>>
        /\ oldest' = IF oldest = 0 \/ leases[s].expires < leases[oldest].expires
                       THEN s ELSE oldest
    BY <1>4 DEF RememberOldest
  <2> HIDE DEF s
  <2>3. \A r \in Slots : leases[r].expires \in Nat
    BY <1>2 DEF Lease
  <2>4. s # 0
    BY <2>1, <1>1, TimeAssumption DEF Slots
  <2>5. /\ oldest' # 0 /\ leases[oldest'].expires <= leases[s].expires
        /\ oldest # 0 => leases[oldest'].expires <= leases[oldest].expires
        /\ oldest' \in Slots
    BY ONLY <1>2, <2>1, <2>2, <2>3, <2>4
  <2>6. CASE a = addr
    BY ONLY <2>1, <2>2, <2>5, <2>6
  <2>7. CASE a # addr
    <3>1. a \in StartIp .. addr - 1
      BY ONLY <1>1, <1>2, <2>2, <2>7, a \in StartIp .. addr' - 1
    <3>2. oldest # 0
      BY <2>2, <3>1 DEF PassedOver
    <3>3. PICK r \in Slots : /\ leases[r].nip = a
                             /\ leases[oldest].expires <= leases[r].expires
      BY <2>2, <3>1 DEF PassedOver
    <3>4. leases[oldest'].expires <= leases[r].expires
      BY ONLY <1>2, <2>3, <2>5, <3>2, <3>3
    <3> QED BY ONLY <2>2, <2>5, <3>3, <3>4
  <2> QED BY <2>6, <2>7
<1>5. CASE \E m \in Mac, req \in AskedIp : DiscoverSearch(m, req)
  <2>1. addr' = StartIp BY <1>5 DEF DiscoverSearch
  <2> QED BY ONLY <1>1, <2>1, a \in StartIp .. addr' - 1
<1>6. CASE SomebodyAnswers
  <2>1. answered' = answered \cup {addr}
    BY <1>6 DEF SomebodyAnswers, Return
  <2> QED BY <2>1
<1>7. CASE UNCHANGED <<leases, pc, request>>
  BY <1>7 DEF PassedOver, request
<1>8. \/ Skip \/ RememberOldest \/ SomebodyAnswers
      \/ \E m \in Mac, req \in AskedIp : DiscoverSearch(m, req)
      \/ UNCHANGED <<leases, pc, request>>
  <2>1. CASE Receive
    BY <2>1 DEF Receive, DiscoverStatic, DiscoverKnown, DiscoverRequested, Reserve,
                Return, Decline, Release, RequestAck
  <2>2. CASE Serve
    BY <2>2 DEF Serve, Search, Probe, ProbeOldest, Abandon, NobodyAnswers, Reserve,
                Return, EnterLease, LeasesWritten
  <2>3. CASE Tick \/ UNCHANGED vars
    BY <2>3 DEF Tick, vars
  <2> QED BY <2>1, <2>2, <2>3 DEF Next
<1> QED BY <1>3, <1>4, <1>5, <1>6, <1>7, <1>8
\* A search that no probe stopped gives up only if there is nothing to give.
LEMMA QuietSearch ==
    ASSUME CoreInv, NoWrap, PassedOver, Next, AbandonsSearch, Answered = {}
    PROVE  NoFreeAddress({})
<1>1. pc \in {"scan", "probe"} /\ answered = {}
  BY DEF AbandonsSearch, Answered
<1>2. pc' = "select" /\ promise'[client.mac] = NoPromise
  BY DEF AbandonsSearch
<1>3. /\ leases \in [Slots -> Lease] /\ now \in Nat /\ oldest \in Slots \cup {0}
      /\ StartIp \in Nat /\ EndIp \in Nat
  BY AddressAssumption DEF CoreInv, StateOK
<1>4. CASE Abandon
  <2>1. addr = EndIp + 1 /\ pc = "scan" /\ (oldest # 0 => ~IsExpired(leases[oldest]))
    BY <1>4 DEF Abandon
  <2> SUFFICES ASSUME NEW a \in Pool, Usable(a)
               PROVE  \E s \in Slots : leases[s].nip = a /\ ~IsExpired(leases[s])
    BY DEF NoFreeAddress
  <2>2. a \in StartIp .. addr - 1
    BY ONLY <1>3, <2>1, a \in Pool DEF Pool
  <2>3. oldest # 0 /\ ~IsExpired(leases[oldest])
    BY <1>1, <2>1, <2>2 DEF PassedOver
  <2>4. PICK s \in Slots : /\ leases[s].nip = a
                           /\ leases[oldest].expires <= leases[s].expires
    BY <1>1, <2>1, <2>2 DEF PassedOver
  <2>5. leases[oldest].expires \in Nat /\ leases[s].expires \in Nat
    BY <1>3, <2>3 DEF Lease
  <2> QED BY ONLY <1>3, <2>3, <2>4, <2>5 DEF IsExpired
<1>5. CASE NobodyAnswers
  <2> DEFINE m == client.mac
             C == Cleared(m, addr)
  <2>1. m \in Mac /\ addr \in Pool /\ addr # 0
    BY <1>5, ProbedFree DEF NobodyAnswers, CoreInv, SearchInv
  <2>2. ~HasRoom(C)
    <3> SUFFICES ASSUME HasRoom(C) PROVE FALSE OBVIOUS
    <3>1. promise' = [promise EXCEPT ![m] =
                        [nip |-> addr, until |-> now + OfferTime, acked |-> FALSE]]
      BY <1>5 DEF NobodyAnswers, Reserve, Promise
    <3>2. promise'[m].nip = addr
      BY <2>1, <3>1 DEF CoreInv, StateOK
    <3> QED BY <1>2, <2>1, <3>2 DEF NoPromise
  <2>3. \A s \in Slots : C[s] # Empty
    BY <2>2 DEF HasRoom, IsExpired, Empty, CoreInv, Clock
  <2>4. \A s \in Slots : C[s] = leases[s]
    BY <2>3 DEF Cleared
  <2>5. ~HasRoom(leases)
    BY ONLY <2>2, <2>4 DEF HasRoom, IsExpired
  <2> QED BY <2>5 DEF NoFreeAddress
<1>6. Abandon \/ NobodyAnswers
  <2>1. ~Receive
    BY <1>1 DEF Receive, DiscoverStatic, DiscoverKnown, DiscoverRequested,
                DiscoverSearch, Decline, Release, RequestAck
  <2>2. ~SomebodyAnswers
    BY <1>1, <1>2 DEF SomebodyAnswers
  <2>3. ~Skip /\ ~RememberOldest /\ ~Probe /\ ~ProbeOldest /\ ~EnterLease /\ ~LeasesWritten
    BY <1>1, <1>2 DEF Skip, RememberOldest, Probe, ProbeOldest, EnterLease, LeasesWritten
  <2>4. ~Tick
    BY <1>1, <1>2 DEF Tick
  <2> QED BY <2>1, <2>2, <2>3, <2>4 DEF Next, Serve, Search
<1> QED BY <1>4, <1>5, <1>6

\* "no free IP addresses": a search in which no probe was answered gives up
\* only when every slot is taken or every usable address is leased.
THEOREM QuietSearchesFind ==
    ASSUME NoWrap, StaticsOutside
    PROVE  Spec => QuietSearchFinds
<1>1. Init => CoreInv /\ PassedOver
  <2>1. Init => PassedOver BY DEF Init, PassedOver
  <2> QED BY <2>1, InitIInv DEF IInv
<1>2. CoreInv /\ PassedOver /\ [Next]_vars => CoreInv' /\ PassedOver'
  BY CoreStep, PassedOverStep
<1>3. CoreInv /\ PassedOver /\ [Next]_vars =>
        [AbandonsSearch /\ Answered = {} => NoFreeAddress({})]_vars
  BY QuietSearch
<1> QED
  BY <1>1, <1>2, <1>3, PTL DEF Spec, QuietSearchFinds

-----------------------------------------------------------------------------
(* Udhcpd implements AddressBook: whatever slots, searches and probes a    *)
(* step of the server involves, the book of addresses that its table is    *)
(* changes as AddressBook allows, or not at all.                           *)

\* The entries of a table, as Book has them.
Entries(table) == {table[s] : s \in {r \in Slots : table[r].nip # 0}}

\* What AddressBook's Enter, GiveBack, Refuse and PassTime mean for the table.
Supersedes(e, f) == f.nip = e.nip \/ (e.mac # ZeroMac /\ f.mac = e.mac)

LEMMA EnterMeans ==
    ASSUME NEW e, e \in Entries(leases'), now' = now, e.expires >= now,
           \A f \in Entries(leases) : f.nip = e.nip /\ ~IsExpired(f) => f.mac = e.mac,
           \A f \in Entries(leases') : f = e \/ (f \in Entries(leases) /\ ~Supersedes(e, f)),
           \A f \in Entries(leases) :
               Supersedes(e, f) \/ IsExpired(f) \/ f \in Entries(leases')
    PROVE  Book!Enter(e)
BY DEF Book!Enter, Book!Expired, Entries, Supersedes, IsExpired

\* add_lease() enters one address, or finds no room and changes nothing.
LEMMA AddLeaseImplements ==
    ASSUME CoreInv, NEW m \in Mac \cup {NoMac}, NEW a \in Nat \ {0},
           NEW t \in Nat, now + t < TimeWrap,
           FreeFor(IF m = NoMac THEN ZeroMac ELSE m, a),
           leases' = AddLease(m, a, t), now' = now
    PROVE  Book!Next \/ leases' = leases
<1> DEFINE C == Cleared(m, a)
<1>0. PICK e : e = Entry(m, a, t) OBVIOUS
<1>1. /\ leases \in [Slots -> Lease] /\ now \in Nat
      /\ C \in [Slots -> Lease]
  BY AddLeaseShape DEF CoreInv, StateOK
<1>2. CASE ~HasRoom(C)
  BY <1>2, AddLeaseShape DEF CoreInv
<1>3. CASE HasRoom(C)
  <2>1. PICK v \in Slots : /\ IsExpired(C[v])
                           /\ leases' = [C EXCEPT ![v] = e]
    BY <1>0, <1>3, AddLeaseShape DEF CoreInv
  <2>2. /\ e.nip = a /\ e.expires = now + t /\ e.expires >= now
        /\ e.mac = IF m = NoMac THEN ZeroMac ELSE m
        /\ e.mac \in Mac \cup {ZeroMac}
    BY <1>0, <1>1, AddressAssumption DEF Entry
  <2>3. \A s \in Slots : \/ C[s] = Empty /\ Supersedes(e, leases[s])
                         \/ C[s] = leases[s] /\ ~Supersedes(e, leases[s])
    BY <2>2, AddressAssumption DEF Cleared, Supersedes
  <2>4. /\ leases'[v] = e
        /\ \A s \in Slots \ {v} : leases'[s] = C[s]
    BY <1>1, <2>1
  <2> HIDE DEF C
  <2>5. e \in Entries(leases')
    BY <2>2, <2>4 DEF Entries
  <2>6. ASSUME NEW f \in Entries(leases'), f # e
        PROVE  f \in Entries(leases) /\ ~Supersedes(e, f)
    <3>1. PICK s \in Slots : f = leases'[s] /\ leases'[s].nip # 0 BY DEF Entries
    <3>2. f = C[s] /\ f.nip # 0 BY <2>4, <2>6, <3>1
    <3>3. f # Empty BY <3>2 DEF Empty
    <3> QED BY <2>3, <3>2, <3>3 DEF Entries
  <2>7. ASSUME NEW f \in Entries(leases), ~Supersedes(e, f), ~IsExpired(f)
        PROVE  f \in Entries(leases')
    <3>1. PICK s \in Slots : f = leases[s] /\ leases[s].nip # 0 BY DEF Entries
    <3>2. C[s] = f BY <2>3, <2>7, <3>1
    <3>3. s # v BY <2>1, <2>7, <3>2
    <3> QED BY <2>4, <3>1, <3>2, <3>3 DEF Entries
  <2>8. ASSUME NEW f \in Entries(leases), f.nip = e.nip, ~IsExpired(f)
        PROVE  f.mac = e.mac
    <3>1. PICK s \in Slots : f = leases[s] BY DEF Entries
    <3>2. FreeFor(e.mac, a) BY <2>2
    <3> QED BY <2>2, <2>8, <3>1, <3>2 DEF FreeFor
  <2>9. Book!Enter(e)
    <3>1. \A f \in Entries(leases') : f = e \/ (f \in Entries(leases) /\ ~Supersedes(e, f))
      BY <2>6
    <3>2. \A f \in Entries(leases) :
            Supersedes(e, f) \/ IsExpired(f) \/ f \in Entries(leases')
      BY <2>7
    <3>3. \A f \in Entries(leases) : f.nip = e.nip /\ ~IsExpired(f) => f.mac = e.mac
      BY <2>8
    <3> QED BY ONLY <2>2, <2>5, <3>1, <3>2, <3>3, now' = now, EnterMeans
  <2> QED
    BY ONLY <2>2, <2>5, <2>9 DEF Book!Next, Entries
<1> QED BY <1>2, <1>3

\* A dynamic client's slot is the only one with its entry.
LEMMA RewriteMeans ==
    ASSUME CoreInv, NEW m \in Mac, ~IsStatic(m), WithMac(m) # {},
           NEW l \in Lease, l.nip = leases[First(WithMac(m))].nip,
           leases' = [leases EXCEPT ![First(WithMac(m))] = l]
    PROVE  LET e == leases[First(WithMac(m))]
           IN  /\ e \in Entries(leases) /\ e.mac = m
               /\ Entries(leases') = (Entries(leases) \ {e}) \cup {l}
<1> DEFINE s == First(WithMac(m))
           e == leases[s]
<1>1. s \in Slots /\ e.mac = m /\ e.nip # 0
  BY SlotOfClient, PoolNat
<1>2. leases'[s] = l /\ \A r \in Slots \ {s} : leases'[r] = leases[r]
  BY <1>1 DEF CoreInv, StateOK
<1>3. \A r \in Slots \ {s} : leases[r] # e
  BY <1>1 DEF CoreInv, TableInv, Distinct
<1>4. l.nip # 0
  BY <1>1
<1> HIDE DEF s, e
<1>5. e = leases[s] BY DEF e
<1>6. Entries(leases') \subseteq (Entries(leases) \ {e}) \cup {l}
  BY <1>1, <1>2, <1>3, <1>5 DEF Entries
<1>7. l \in Entries(leases') /\ Entries(leases) \ {e} \subseteq Entries(leases')
  BY <1>1, <1>2, <1>4, <1>5 DEF Entries
<1>8. e \in Entries(leases) BY <1>1, <1>5 DEF Entries
<1> QED BY <1>1, <1>6, <1>7, <1>8 DEF e, s

\* A step is one of the book's, or leaves the book alone.
Implemented == Book!Next \/ UNCHANGED <<now, leases>>

LEMMA ReserveImplements ==
    ASSUME CoreInv, NoWrap, NEW m \in Mac, NEW a \in Pool, FreeFor(m, a),
           Reserve(m, a), UNCHANGED now
    PROVE  Implemented
<1>1. /\ OfferTime \in Nat /\ now + OfferTime < TimeWrap
      /\ a \in Nat \ {0} /\ m # NoMac
  BY TimesFit, PoolNat, AddressAssumption
<1>2. leases' = AddLease(m, a, OfferTime) BY DEF Reserve
<1>3. FreeFor(IF m = NoMac THEN ZeroMac ELSE m, a) BY <1>1
<1> QED BY <1>1, <1>2, <1>3, AddLeaseImplements DEF Implemented

LEMMA SomebodyImplements ==
    ASSUME CoreInv, NoWrap, SomebodyAnswers
    PROVE  Implemented
<1>1. /\ ConflictTime \in Nat /\ now + ConflictTime < TimeWrap
      /\ addr \in Nat \ {0} /\ FreeFor(ZeroMac, addr)
  BY TimesFit, PoolNat, ProbedFree DEF SomebodyAnswers
<1>2. leases' = AddLease(NoMac, addr, ConflictTime) /\ now' = now
  BY DEF SomebodyAnswers
<1> QED BY <1>1, <1>2, AddLeaseImplements DEF Implemented

LEMMA EnterLeaseImplements ==
    ASSUME CoreInv, NoWrap, StaticsOutside, EnterLease
    PROVE  Implemented
<1> DEFINE t == LeaseTime(client.option)
<1>1. client.mac \in Mac /\ client.mac # NoMac
  BY AddressAssumption DEF EnterLease, CoreInv, AckInv
<1>2. t \in Nat /\ now + t < TimeWrap
  BY LeaseTimeFits DEF CoreInv, StateOK
<1>3. addr \in Nat \ {0} /\ FreeFor(client.mac, addr)
  BY <1>2, AckedFree DEF EnterLease
<1>4. leases' = AddLease(client.mac, addr, t) /\ now' = now
  BY DEF EnterLease
<1> HIDE DEF t
<1> QED BY <1>1, <1>2, <1>3, <1>4, AddLeaseImplements DEF Implemented

LEMMA DeclineImplements ==
    ASSUME CoreInv, NoWrap, NEW m \in Mac, NEW req \in AskedIp, Decline(m, req)
    PROVE  Implemented
<1>1. CASE IsStatic(m)
  BY <1>1 DEF Decline, Implemented
<1>2. CASE ~IsStatic(m)
  <2> DEFINE s == First(WithMac(m))
  <2>1. WithMac(m) # {}
    BY <1>2 DEF Decline, BoundIp
  <2>2. s \in Slots /\ leases[s] \in Lease /\ leases[s].mac = m
    BY <1>2, <2>1, SlotOfClient DEF CoreInv, StateOK
  <2>3. DeclineTime \in Nat /\ Deadline(DeclineTime) = now + DeclineTime
    BY TimesFit, TimeAssumption DEF CoreInv, StateOK, Deadline
  <2>4. PICK e : e = leases[s] OBVIOUS
  <2>5. PICK l : l = [mac |-> ZeroMac, nip |-> e.nip, expires |-> now + DeclineTime]
    OBVIOUS
  <2>6. leases' = [leases EXCEPT ![s] = l] /\ now' = now
    BY <1>2, <2>2, <2>3, <2>4, <2>5 DEF Decline, CoreInv, StateOK
  <2>7. l \in Lease /\ l.mac = ZeroMac /\ l.nip = e.nip /\ l.expires >= now
    BY <2>2, <2>3, <2>4, <2>5 DEF Lease, CoreInv, StateOK
  <2>8. /\ e \in Entries(leases) /\ e.mac = m
        /\ Entries(leases') = (Entries(leases) \ {e}) \cup {l}
    BY <1>2, <2>1, <2>4, <2>6, <2>7, RewriteMeans
  <2>9. m # ZeroMac BY AddressAssumption
  <2> HIDE DEF s
  <2>10. Book!Refuse(e)
    BY <2>6, <2>7, <2>8, <2>9 DEF Book!Refuse, Entries
  <2> QED BY <2>8, <2>10 DEF Implemented, Book!Next, Entries
<1> QED BY <1>1, <1>2

LEMMA ReleaseImplements ==
    ASSUME CoreInv, NEW m \in Mac, NEW ciaddr \in AskedIp, Release(m, ciaddr), NoWrap
    PROVE  Implemented
<1>1. CASE IsStatic(m)
  BY <1>1 DEF Release, Implemented
<1>2. CASE ~IsStatic(m)
  <2> DEFINE s == First(WithMac(m))
  <2>1. WithMac(m) # {}
    BY <1>2 DEF Release, BoundIp
  <2>2. s \in Slots /\ leases[s] \in Lease /\ leases[s].mac = m
    BY <1>2, <2>1, SlotOfClient DEF CoreInv, StateOK
  <2>3. Deadline(0) = now /\ now \in Nat
    BY TimesFit, TimeAssumption DEF CoreInv, StateOK, Deadline
  <2>4. PICK e : e = leases[s] OBVIOUS
  <2>5. PICK l : l = [e EXCEPT !.expires = now] OBVIOUS
  <2>6. leases' = [leases EXCEPT ![s] = l] /\ now' = now
    BY <1>2, <2>2, <2>3, <2>4, <2>5 DEF Release, CoreInv, StateOK
  <2>7. l \in Lease /\ l.nip = e.nip
    BY <2>2, <2>3, <2>4, <2>5 DEF Lease
  <2>8. /\ e \in Entries(leases) /\ e.mac = m
        /\ Entries(leases') = (Entries(leases) \ {e}) \cup {l}
    BY <1>2, <2>1, <2>4, <2>6, <2>7, RewriteMeans
  <2>9. m # ZeroMac BY AddressAssumption
  <2> HIDE DEF s
  <2>10. Book!GiveBack(e)
    BY <2>5, <2>6, <2>8, <2>9 DEF Book!GiveBack, Entries
  <2> QED BY <2>8, <2>10 DEF Implemented, Book!Next, Entries
<1> QED BY <1>1, <1>2

LEMMA NextImplements ==
    ASSUME NoWrap, StaticsOutside, CoreInv, [Next]_vars
    PROVE  Implemented
<1>1. ASSUME NEW m \in Mac, DiscoverStatic(m) PROVE Implemented
  BY <1>1 DEF DiscoverStatic, Implemented
<1>2. ASSUME NEW m \in Mac, DiscoverKnown(m) PROVE Implemented
  BY <1>2, SlotOfClient, ReserveImplements DEF DiscoverKnown
<1>3. ASSUME NEW m \in Mac, NEW a \in AskedIp, DiscoverRequested(m, a) PROVE Implemented
  BY <1>3, RequestedFree, ReserveImplements DEF DiscoverRequested
<1>4. ASSUME NEW m \in Mac, NEW a \in AskedIp, DiscoverSearch(m, a) PROVE Implemented
  BY <1>4 DEF DiscoverSearch, Implemented
<1>5. ASSUME NEW m \in Mac, NEW a \in AskedIp, Decline(m, a) \/ Release(m, a)
      PROVE  Implemented
  BY <1>5, DeclineImplements, ReleaseImplements
<1>6. ASSUME NEW m \in Mac, NEW a \in AskedIp, NEW b \in AskedIp, NEW opt \in LeaseOption,
             RequestAck(m, a, b, opt)
      PROVE  Implemented
  BY <1>6 DEF RequestAck, Implemented
<1>7. CASE Skip \/ RememberOldest \/ Probe \/ ProbeOldest \/ Abandon \/ LeasesWritten
  BY <1>7 DEF Skip, RememberOldest, Probe, ProbeOldest, Abandon, LeasesWritten, Implemented
<1>8. CASE NobodyAnswers
  <2>1. client.mac \in Mac BY <1>8 DEF NobodyAnswers, CoreInv, SearchInv
  <2> QED BY <1>8, <2>1, ProbedFree, ReserveImplements DEF NobodyAnswers
<1>9. CASE SomebodyAnswers BY <1>9, SomebodyImplements
<1>10. CASE EnterLease BY <1>10, EnterLeaseImplements
<1>11. CASE Tick
  BY <1>11 DEF Tick, Implemented, Book!Next, Book!PassTime
<1>12. CASE UNCHANGED vars
  BY <1>12 DEF vars, Implemented
<1> QED BY <1>1, <1>2, <1>3, <1>4, <1>5, <1>6, <1>7, <1>8, <1>9, <1>10, <1>11, <1>12
        DEF Next, Receive, Serve, Search

\* udhcpd implements the book of addresses: an unexpired entry changes only for
\* its own client, whatever add_lease(), find_free_or_expired_nip() and the
\* handlers of dhcpd.c do with the slots.
THEOREM TableIsAddressBook ==
    ASSUME NoWrap, StaticsOutside
    PROVE  Spec => ImplementsAddressBook
<1>1. Init => Book!Init
  <2>1. Init => Entries(leases) = {} BY DEF Init, Entries, Empty
  <2> QED BY <2>1 DEF Init, Book!Init, Entries
<1>2. CoreInv /\ [Next]_vars => [Book!Next]_(Book!bookVars)
  BY NextImplements DEF Implemented, Book!bookVars
<1>3. IInv => CoreInv
  BY DEF IInv
<1> QED BY <1>1, <1>2, <1>3, Invariance, PTL DEF Spec, ImplementsAddressBook, Book!Spec
-----------------------------------------------------------------------------
(* One client among the others, for the system of DhcpSystem.              *)

\* A step leaves the unexpired leases of a client, and gives it no address.
Undisturbed(n) ==
    \A s \in Slots :
        /\ leases[s].mac = n /\ ~IsExpired(leases[s]) => leases'[s] = leases[s]
        /\ leases'[s].mac = n => leases[s].mac = n /\ leases'[s].nip = leases[s].nip

LEMMA AddLeaseUndisturbed ==
    ASSUME CoreInv, NEW m \in Mac \cup {NoMac}, NEW a \in Nat \ {0},
           NEW t \in Nat, now + t < TimeWrap, FreeFor(m, a),
           leases' = AddLease(m, a, t), NEW n \in Mac, n # m
    PROVE  Undisturbed(n)
<1> SUFFICES ASSUME NEW s \in Slots
             PROVE  /\ leases[s].mac = n /\ ~IsExpired(leases[s]) => leases'[s] = leases[s]
                    /\ leases'[s].mac = n =>
                           leases[s].mac = n /\ leases'[s].nip = leases[s].nip
  BY DEF Undisturbed
<1>1. ASSUME leases[s].mac = n, ~IsExpired(leases[s]) PROVE leases'[s] = leases[s]
  <2>1. leases[s].nip # a
    BY <1>1 DEF FreeFor
  <2> QED
    BY <1>1, <2>1, AddLeaseKeeps DEF CoreInv
<1>2. leases'[s] \in {leases[s], Empty, Entry(m, a, t)}
  BY AddLeaseSlots DEF CoreInv
<1>3. Empty.mac # n /\ Entry(m, a, t).mac # n
  BY AddressAssumption DEF Empty, Entry
<1> QED
  BY <1>1, <1>2, <1>3

LEMMA SameLeasesUndisturbed ==
    ASSUME UNCHANGED leases, NEW n
    PROVE  Undisturbed(n)
BY DEF Undisturbed

LEMMA ReserveUndisturbed ==
    ASSUME CoreInv, NoWrap, NEW m \in Mac, NEW a \in Pool, FreeFor(m, a),
           Reserve(m, a), NEW n \in Mac, n # m
    PROVE  Undisturbed(n)
<1>1. OfferTime \in Nat /\ now + OfferTime < TimeWrap /\ a \in Nat \ {0}
  BY TimesFit, PoolNat
<1> QED
  BY <1>1, AddLeaseUndisturbed DEF Reserve

\* The packets of one client leave the leases of the others.
LEMMA ReceiveUndisturbed ==
    ASSUME CoreInv, NoWrap, NEW n \in Mac, NEW m \in Mac, m # n, NEW a,
           \/ DiscoverKnown(m) \/ DiscoverRequested(m, a)
           \/ Decline(m, a) \/ Release(m, a)
    PROVE  Undisturbed(n)
<1>1. CASE DiscoverKnown(m)
  BY <1>1, SlotOfClient, ReserveUndisturbed DEF DiscoverKnown
<1>2. CASE DiscoverRequested(m, a)
  BY <1>2, RequestedFree, ReserveUndisturbed DEF DiscoverRequested
<1>3. CASE Decline(m, a) \/ Release(m, a)
  <2>1. CASE IsStatic(m)
    BY <1>3, <2>1, SameLeasesUndisturbed DEF Decline, Release
  <2>2. CASE ~IsStatic(m)
    <3> DEFINE s == First(WithMac(m))
    <3>1. WithMac(m) # {}
      BY <1>3, <2>2 DEF Decline, Release, BoundIp
    <3>2. s \in Slots /\ leases[s].mac = m /\ leases \in [Slots -> Lease]
      BY <2>2, <3>1, SlotOfClient DEF CoreInv, StateOK
    <3>3. /\ \A r \in Slots : r # s => leases'[r] = leases[r]
          /\ leases'[s].mac \in {ZeroMac, m}
      BY <1>3, <2>2, <3>2 DEF Decline, Release, Lease
    <3> QED
      BY <3>2, <3>3, AddressAssumption DEF Undisturbed
  <2> QED
    BY <2>1, <2>2
<1> QED
  BY <1>1, <1>2, <1>3

\* So do the probes of a search, and the end of what is done for another.
LEMMA ProbesUndisturbed ==
    ASSUME CoreInv, NoWrap, NEW n \in Mac,
           SomebodyAnswers \/ (NobodyAnswers /\ client.mac # n)
    PROVE  Undisturbed(n)
<1>1. addr \in Pool /\ addr # 0 /\ \A m : FreeFor(m, addr)
  BY ProbedFree DEF SomebodyAnswers, NobodyAnswers
<1>2. CASE SomebodyAnswers
  <2>1. addr \in Nat \ {0} /\ ConflictTime \in Nat /\ now + ConflictTime < TimeWrap
    BY <1>1, TimesFit, PoolNat
  <2>2. n # NoMac
    BY AddressAssumption
  <2> QED
    BY <1>1, <1>2, <2>1, <2>2, AddLeaseUndisturbed DEF SomebodyAnswers
<1>3. CASE NobodyAnswers /\ client.mac # n
  <2>1. client.mac \in Mac
    BY <1>3 DEF NobodyAnswers, CoreInv, SearchInv
  <2> QED
    BY <1>1, <1>3, <2>1, ReserveUndisturbed DEF NobodyAnswers
<1> QED
  BY <1>2, <1>3

LEMMA EnterLeaseUndisturbed ==
    ASSUME CoreInv, NoWrap, StaticsOutside, EnterLease, NEW n \in Mac, client.mac # n
    PROVE  Undisturbed(n)
<1>1. client.mac \in Mac /\ pc = "ack"
  BY DEF EnterLease, CoreInv, AckInv
<1>2. LeaseTime(client.option) \in Nat /\ now + LeaseTime(client.option) < TimeWrap
  BY LeaseTimeFits DEF CoreInv, StateOK
<1>3. addr \in Nat \ {0} /\ FreeFor(client.mac, addr)
  BY <1>1, AckedFree DEF CoreInv, StateOK
<1> QED
  BY <1>1, <1>2, <1>3, AddLeaseUndisturbed DEF EnterLease

\* After an ACK the client has one slot, with the address and the time in it.
LEMMA EnterLeaseEnters ==
    ASSUME CoreInv, NoWrap, StaticsOutside, EnterLease, ~IsStatic(client.mac)
    PROVE  /\ \E s \in Slots :
                 leases'[s] = [mac |-> client.mac, nip |-> addr,
                               expires |-> now + LeaseTime(client.option)]
           /\ \A s \in Slots : leases'[s].mac = client.mac => leases'[s].nip = addr
<1> DEFINE m == client.mac
           t == LeaseTime(client.option)
<1>1. /\ m \in Mac /\ pc = "ack"
      /\ \E s \in Slots : leases[s].mac = m /\ leases[s].nip = addr
  BY DEF EnterLease, CoreInv, AckInv
<1>2. t \in Nat /\ now + t < TimeWrap
  BY LeaseTimeFits DEF CoreInv, StateOK
<1>3. m # NoMac /\ m # ZeroMac
  BY <1>1, AddressAssumption
<1>4. leases' = AddLease(m, addr, t)
  BY DEF EnterLease
<1>5. TableInv'
  BY EnterLeaseStep DEF CoreInv
<1> HIDE DEF m, t
<1>6. addr \in Nat \ {0}
  BY <1>1, AckedFree DEF CoreInv, StateOK
<1>7. HasRoom(Cleared(m, addr))
  <2>1. PICK s \in Slots : leases[s].mac = m
    BY <1>1
  <2>2. Cleared(m, addr)[s] = Empty
    BY <1>3, <2>1 DEF Cleared
  <2>3. IsExpired(Empty)
    BY DEF IsExpired, Empty, CoreInv, Clock
  <2> QED
    BY <2>2, <2>3 DEF HasRoom
<1>8. PICK s \in Slots : leases'[s] = Entry(m, addr, t)
  BY <1>1, <1>2, <1>4, <1>6, <1>7, AddLeaseSlots DEF CoreInv
<1>9. Entry(m, addr, t) = [mac |-> m, nip |-> addr, expires |-> now + t]
  BY <1>3 DEF Entry
<1>10. ASSUME NEW r \in Slots, leases'[r].mac = m PROVE leases'[r].nip = addr
  <2>1. leases'[s].mac = m /\ leases'[s].nip = addr
    BY <1>8, <1>9
  <2>2. r = s
    BY <1>3, <1>5, <1>10, <2>1 DEF TableInv, Distinct
  <2> QED
    BY <2>1, <2>2
<1> QED
  BY <1>8, <1>9, <1>10 DEF m, t

\* What a client without static lease is offered is an address of the pool.
LEMMA OfferedInPool ==
    ASSUME CoreInv, NEW m \in Mac, NEW a,
           \/ DiscoverKnown(m) \/ DiscoverRequested(m, a) \/ DiscoverSearch(m, a)
           \/ NobodyAnswers /\ m = client.mac
    PROVE  promise'[m].nip \in Pool \cup {0}
<1>1. ASSUME NEW b \in Pool, Reserve(m, b) PROVE promise'[m].nip \in {0, b}
  <2>1. promise \in [Mac -> [nip : Nat, until : Nat, acked : BOOLEAN]]
    BY DEF CoreInv, StateOK
  <2> QED
    BY <1>1, <2>1 DEF Reserve, Promise, Withdraw, NoPromise
<1>2. CASE DiscoverKnown(m)
  BY <1>1, <1>2, SlotOfClient DEF DiscoverKnown
<1>3. CASE DiscoverRequested(m, a)
  BY <1>1, <1>3, RequestedFree DEF DiscoverRequested
<1>4. CASE DiscoverSearch(m, a)
  BY <1>4 DEF DiscoverSearch, Withdraw, NoPromise, CoreInv, StateOK
<1>5. CASE NobodyAnswers /\ m = client.mac
  BY <1>1, <1>5, ProbedFree DEF NobodyAnswers
<1> QED
  BY <1>2, <1>3, <1>4, <1>5

LEMMA BoundInPool ==
    ASSUME CoreInv, NEW m \in Mac, ~IsStatic(m), BoundIp(m) # 0
    PROVE  /\ BoundIp(m) \in Pool
           /\ \A s \in Slots : leases[s].mac = m => leases[s].nip = BoundIp(m)
           /\ \E s \in Slots : leases[s].mac = m /\ leases[s].nip = BoundIp(m)
<1>1. WithMac(m) # {}
  BY DEF BoundIp
<1>2. BoundIp(m) = leases[First(WithMac(m))].nip
  BY <1>1 DEF BoundIp
<1>3. \A s \in Slots : leases[s].mac = m => First(WithMac(m)) = s
  BY OnlySlot, AddressAssumption
<1> QED
  BY <1>1, <1>2, <1>3, SlotOfClient

-----------------------------------------------------------------------------
(* The lease file: what a stop, a crash and a new start of the server at   *)
(* any step leave of the table, and of the leases that were acknowledged.  *)
(*                                                                         *)
(* The argument.  A client whose ACK counts has its lease in the file from *)
(* the end of the ACK on (OnFile), unless the save failed (unsaved); while *)
(* the server runs it has it in the table in any case (Backed, kept by the *)
(* steps of Udhcpd: BackingKept), so that the next save makes good for the *)
(* one that failed.  Whoever is not on file when the server goes off is    *)
(* forgotten, and nobody else.  What has been read of the file is in the   *)
(* table (LoadInv): a slot that was never used is older than any lease, so *)
(* that add_lease() takes that one, and there is one as long as there are  *)
(* records.                                                                *)

Times == {OfferTime, ConflictTime, DeclineTime, MinLease, MaxLease}

\* No deadline reaches 2^31: the file has differences of times as signed numbers.
HalfWrap == \A t \in Times : 2 * (MaxTime + t) < TimeWrap

\* No lease has more time left than the longest that is given.
Remaining == \A s \in Slots : \E t \in Times : leases[s].expires <= now + t

FileInv ==
    /\ file \in [at : Nat, records : [Slots -> Lease]]
    /\ file.at <= now
    /\ Distinct(file.records)
    /\ \A s \in Slots : /\ Placed(file.records[s])
                        /\ \E t \in Times : file.records[s].expires <= t

\* What has been read is in the table, and nothing else; reading it cannot have
\* shortened a lease.
LoadInv ==
    /\ next - 1 \in Slots \cup {0}
    /\ file.at # 0 /\ file.at + passed <= now
    /\ \A s \in Slots :
          \/ leases[s] = Empty
          \/ /\ leases[s].nip # 0 /\ leases[s].expires > 0
             /\ \E r \in Slots : r < next /\ file.records[r].nip = leases[s].nip
    /\ \A r \in Slots :
          r < next /\ Wanted(file.records[r]) /\ file.records[r].mac # ZeroMac =>
             \E s \in Slots : /\ leases[s].mac = file.records[r].mac
                              /\ leases[s].nip = file.records[r].nip
                              /\ leases[s].expires >= file.at + file.records[r].expires
                              /\ leases[s].expires <= now + file.records[r].expires - passed

PhaseInv ==
    /\ pc \in {"select", "scan", "probe", "probeOldest", "ack", "write", "off", "load"}
    /\ next \in Nat /\ passed \in Nat
    /\ pc = "off" => \A s \in Slots : leases[s] = Empty
    /\ pc = "load" => LoadInv
    /\ pc \in {"off", "load"} => unsaved = {}

OnFile(m) == Holds(file, m)

Saving(m) == pc \in {"ack", "write"} /\ client.mac = m

AcksBacked ==
    \A m \in Mac : Live(m) /\ promise[m].acked /\ ~IsStatic(m) /\ m \notin forgotten =>
        /\ pc \notin {"off", "load"} => Backed(m)
        /\ Saving(m) \/ OnFile(m) \/ m \in unsaved

RestartInv ==
    /\ CoreInv /\ Remaining /\ FileInv /\ PhaseInv
    /\ EarlyWrite => AcksBacked

-----------------------------------------------------------------------------
(* Times.                                                                  *)

LEMMA TimesNat == Times \subseteq Nat
BY TimeAssumption DEF Times

LEMMA HalfNoWrap == ASSUME HalfWrap PROVE NoWrap
<1> SUFFICES ASSUME NEW t \in Times PROVE MaxTime + t < TimeWrap
  BY DEF NoWrap, Times
<1>1. t \in Nat /\ MaxTime \in Nat /\ TimeWrap \in Nat
  BY TimesNat, TimeAssumption
<1>2. 2 * (MaxTime + t) < TimeWrap
  BY DEF HalfWrap
<1> QED BY ONLY <1>1, <1>2

LEMMA SmallModulo ==
    ASSUME NEW M \in Nat \ {0}, NEW a \in Nat, a < M
    PROVE  a % M = a
BY SMT

LEMMA NegativeModulo ==
    ASSUME NEW M \in Nat \ {0}, NEW d \in Nat \ {0}, d < M
    PROVE  (0 - d) % M = M - d
BY SMT

\* What is written is the time a lease has left, 0 if it has expired.
LEMMA TimeLeftIs ==
    ASSUME now \in Nat, NEW e \in Nat, 2 * now < TimeWrap, e < now \/ 2 * (e - now) < TimeWrap
    PROVE  TimeLeft(e) = IF e > now THEN e - now ELSE 0
<1>1. TimeWrap \in Nat \ {0}
  BY TimeAssumption
<1>2. CASE e >= now
  <2>1. e - now \in Nat /\ e - now < TimeWrap
    BY ONLY <1>1, <1>2, now \in Nat, e \in Nat, e < now \/ 2 * (e - now) < TimeWrap
  <2>2. (e - now) % TimeWrap = e - now
    BY ONLY <1>1, <2>1, SmallModulo
  <2>3. ~(2 * (e - now) >= TimeWrap)
    BY ONLY <1>1, <1>2, <2>1, now \in Nat, e < now \/ 2 * (e - now) < TimeWrap
  <2>4. TimeLeft(e) = e - now
    BY ONLY <2>2, <2>3 DEF TimeLeft
  <2> QED BY ONLY <1>2, <2>4, now \in Nat, e \in Nat
<1>3. CASE e < now
  <2> DEFINE d == now - e
  <2>1. d \in Nat \ {0} /\ d < TimeWrap /\ e - now = 0 - d /\ 2 * (TimeWrap - d) >= TimeWrap
    BY ONLY <1>1, <1>3, now \in Nat, e \in Nat, 2 * now < TimeWrap
  <2> HIDE DEF d
  <2>2. (e - now) % TimeWrap = TimeWrap - d
    BY ONLY <1>1, <2>1, NegativeModulo
  <2>3. TimeLeft(e) = 0
    BY ONLY <2>1, <2>2 DEF TimeLeft
  <2> QED BY ONLY <1>3, <2>3, now \in Nat, e \in Nat
<1> QED BY <1>2, <1>3

\* The time a lease of the table has left.
LEMMA LeftOfSlot ==
    ASSUME CoreInv, Remaining, HalfWrap, NEW s \in Slots
    PROVE  LET e == leases[s].expires
           IN  /\ TimeLeft(e) \in Nat
               /\ TimeLeft(e) = IF e > now THEN e - now ELSE 0
               /\ \E t \in Times : TimeLeft(e) <= t
<1> DEFINE e == leases[s].expires
<1>1. e \in Nat /\ now \in Nat /\ now <= MaxTime /\ MaxTime \in Nat /\ TimeWrap \in Nat
  BY TimeAssumption DEF CoreInv, StateOK, Lease, Clock
<1>2. PICK t \in Times : e <= now + t
  BY DEF Remaining
<1>3. t \in Nat /\ 2 * (MaxTime + t) < TimeWrap
  BY TimesNat DEF HalfWrap
<1> HIDE DEF e
<1>4. 2 * now < TimeWrap /\ (e < now \/ 2 * (e - now) < TimeWrap)
  BY ONLY <1>1, <1>2, <1>3
<1>5. TimeLeft(e) = IF e > now THEN e - now ELSE 0
  BY <1>1, <1>4, TimeLeftIs
<1>6. TimeLeft(e) \in Nat /\ TimeLeft(e) <= t
  BY ONLY <1>1, <1>2, <1>3, <1>5
<1> QED BY <1>5, <1>6 DEF e

-----------------------------------------------------------------------------
(* What the steps of the server do to the time that is left.               *)

LEMMA AddLeaseRemaining ==
    ASSUME CoreInv, Remaining, NEW m \in Mac \cup {NoMac, ZeroMac}, NEW a \in Nat \ {0},
           NEW t \in Nat, now + t < TimeWrap, NEW u \in Times, t <= u,
           leases' = AddLease(m, a, t), now' = now
    PROVE  Remaining'
<1> SUFFICES ASSUME NEW s \in Slots PROVE \E x \in Times : leases'[s].expires <= now + x
  BY DEF Remaining, Times
<1>1. leases'[s] \in {leases[s], Empty, Entry(m, a, t)}
  BY AddLeaseSlots DEF CoreInv
<1>2. Entry(m, a, t).expires = now + t /\ Empty.expires = 0
  BY DEF Entry, Empty
<1>3. now \in Nat /\ u \in Nat
  BY TimesNat DEF CoreInv, StateOK
<1>4. CASE leases'[s] = leases[s]
  BY ONLY <1>4, Remaining, s \in Slots DEF Remaining
<1>5. CASE leases'[s] = Empty
  <2>1. leases'[s].expires <= now + u BY ONLY <1>2, <1>3, <1>5
  <2> QED BY <2>1
<1>6. CASE leases'[s] = Entry(m, a, t)
  <2>1. leases'[s].expires <= now + u BY ONLY <1>2, <1>3, <1>6, t \in Nat, t <= u
  <2> QED BY <2>1
<1> QED BY <1>1, <1>4, <1>5, <1>6

LEMMA LeaseTimeShort ==
    ASSUME NEW opt \in LeaseOption \cup {0}
    PROVE  LeaseTime(opt) <= MaxLease \/ LeaseTime(opt) <= MinLease
<1>1. MinLease \in Nat /\ MaxLease \in Nat /\ opt \in Nat
  BY TimeAssumption
<1> QED BY ONLY <1>1 DEF LeaseTime

LEMMA ReserveRemaining ==
    ASSUME CoreInv, Remaining, NoWrap, NEW m \in Mac, NEW a \in Pool,
           Reserve(m, a), now' = now
    PROVE  Remaining'
<1>1. OfferTime \in Nat /\ now + OfferTime < TimeWrap /\ a \in Nat \ {0}
  BY TimesFit, PoolNat
<1>2. leases' = AddLease(m, a, OfferTime) /\ OfferTime <= OfferTime /\ OfferTime \in Times
  BY <1>1 DEF Reserve, Times
<1> QED BY <1>1, <1>2, AddLeaseRemaining

LEMMA RewriteRemaining ==
    ASSUME CoreInv, Remaining, NEW s \in Slots, NEW l, NEW t \in Times,
           l.expires <= now + t, leases' = [leases EXCEPT ![s] = l], now' = now
    PROVE  Remaining'
<1>1. \A r \in Slots : leases'[r] = IF r = s THEN l ELSE leases[r]
  BY DEF CoreInv, StateOK
<1>2. \A r \in Slots : \E x \in Times : leases'[r].expires <= now + x
  BY ONLY <1>1, Remaining, t \in Times, l.expires <= now + t DEF Remaining
<1> QED BY <1>2 DEF Remaining, Times

LEMMA RemainingStep ==
    ASSUME CoreInv, Remaining, NoWrap, StaticsOutside, [Next]_vars
    PROVE  Remaining'
<1>1. ASSUME NEW m \in Mac, DiscoverKnown(m) PROVE Remaining'
  BY <1>1, SlotOfClient, ReserveRemaining DEF DiscoverKnown
<1>2. ASSUME NEW m \in Mac, NEW a \in AskedIp, DiscoverRequested(m, a) PROVE Remaining'
  BY <1>2, RequestedFree, ReserveRemaining DEF DiscoverRequested
<1>3. CASE NobodyAnswers
  <2>1. client.mac \in Mac /\ addr \in Pool
    BY <1>3, ProbedFree DEF NobodyAnswers, CoreInv, SearchInv
  <2> QED BY <1>3, <2>1, ReserveRemaining DEF NobodyAnswers
<1>4. CASE SomebodyAnswers
  <2>1. /\ ConflictTime \in Nat /\ now + ConflictTime < TimeWrap
        /\ ConflictTime <= ConflictTime /\ ConflictTime \in Times
    BY TimesFit DEF Times
  <2>2. addr \in Nat \ {0}
    BY <1>4, ProbedFree, PoolNat DEF SomebodyAnswers
  <2>3. leases' = AddLease(NoMac, addr, ConflictTime) /\ now' = now
    BY <1>4 DEF SomebodyAnswers
  <2> QED BY <2>1, <2>2, <2>3, AddLeaseRemaining
<1>5. CASE EnterLease
  <2> DEFINE t == LeaseTime(client.option)
  <2>1. client.mac \in Mac /\ pc = "ack"
    BY <1>5 DEF EnterLease, CoreInv, AckInv
  <2>2. t \in Nat /\ now + t < TimeWrap
    BY LeaseTimeFits DEF CoreInv, StateOK
  <2>3. addr \in Nat \ {0}
    BY <2>1, <2>2, AckedFree
  <2>4. leases' = AddLease(client.mac, addr, t) /\ now' = now
    BY <1>5 DEF EnterLease
  <2>5. t <= MaxLease \/ t <= MinLease
    <3>1. client.option \in LeaseOption \cup {0}
      BY DEF CoreInv, StateOK
    <3> QED BY ONLY <3>1, LeaseTimeShort
  <2>6. MaxLease \in Times /\ MinLease \in Times
    BY DEF Times
  <2> HIDE DEF t
  <2> QED BY <2>1, <2>2, <2>3, <2>4, <2>5, <2>6, AddLeaseRemaining
<1>6. ASSUME NEW m \in Mac, NEW a \in AskedIp, Decline(m, a) PROVE Remaining'
  <2>1. CASE IsStatic(m)
    BY <1>6, <2>1 DEF Decline, Remaining, Times
  <2>2. CASE ~IsStatic(m)
    <3> DEFINE s == First(WithMac(m))
               l == [mac |-> ZeroMac, nip |-> leases[s].nip, expires |-> Deadline(DeclineTime)]
    <3>1. s \in Slots
      BY <1>6, <2>2, SlotOfClient DEF Decline, BoundIp
    <3>2. leases' = [leases EXCEPT ![s] = l] /\ now' = now
      BY <1>6, <2>2 DEF Decline
    <3>3. l.expires <= now + DeclineTime /\ DeclineTime \in Times
      <4>1. now \in Nat /\ TimeWrap \in Nat \ {0}
        BY TimeAssumption DEF CoreInv, StateOK
      <4>2. DeclineTime \in Nat /\ now + DeclineTime < TimeWrap
        BY TimesFit
      <4>3. Deadline(DeclineTime) = now + DeclineTime
        BY ONLY <4>1, <4>2, SmallModulo DEF Deadline
      <4> QED BY ONLY <4>1, <4>2, <4>3 DEF Times
    <3> HIDE DEF s, l
    <3> QED BY <3>1, <3>2, <3>3, RewriteRemaining
  <2> QED BY <2>1, <2>2
<1>7. ASSUME NEW m \in Mac, NEW a \in AskedIp, Release(m, a) PROVE Remaining'
  <2>1. CASE IsStatic(m)
    BY <1>7, <2>1 DEF Release, Remaining, Times
  <2>2. CASE ~IsStatic(m)
    <3> DEFINE s == First(WithMac(m))
               l == [leases[s] EXCEPT !.expires = Deadline(0)]
    <3>1. s \in Slots /\ leases[s] \in Lease
      BY <1>7, <2>2, SlotOfClient DEF Release, BoundIp, CoreInv, StateOK
    <3>2. leases' = [leases EXCEPT ![s] = l] /\ now' = now
      BY <1>7, <2>2, <3>1 DEF Release, CoreInv, StateOK
    <3>3. Deadline(0) <= now + OfferTime /\ OfferTime \in Times
      <4>1. now \in Nat /\ TimeWrap \in Nat \ {0}
        BY TimeAssumption DEF CoreInv, StateOK
      <4>2. OfferTime \in Nat /\ now + OfferTime < TimeWrap
        BY TimesFit
      <4>3. Deadline(0) = now
        BY ONLY <4>1, <4>2, SmallModulo DEF Deadline
      <4> QED BY ONLY <4>1, <4>2, <4>3 DEF Times
    <3>4. l.expires = Deadline(0)
      BY <3>1 DEF Lease
    <3> HIDE DEF s, l
    <3> QED BY <3>1, <3>2, <3>3, <3>4, RewriteRemaining
  <2> QED BY <2>1, <2>2
<1>8. CASE leases' = leases /\ now' \in {now, now + 1}
  <2> SUFFICES ASSUME NEW s \in Slots PROVE \E x \in Times : leases[s].expires <= now' + x
    BY <1>8 DEF Remaining, Times
  <2>1. PICK x \in Times : leases[s].expires <= now + x
    BY DEF Remaining
  <2>2. x \in Nat /\ now \in Nat /\ leases[s].expires \in Nat
    BY TimesNat DEF CoreInv, StateOK, Lease
  <2>3. leases[s].expires <= now' + x
    BY ONLY <1>8, <2>1, <2>2
  <2> QED BY <2>3
<1>9. CASE Receive
  <2>1. ASSUME NEW m \in Mac, DiscoverStatic(m) PROVE Remaining'
    BY <1>8, <2>1 DEF DiscoverStatic
  <2>2. ASSUME NEW m \in Mac, NEW a \in AskedIp, DiscoverSearch(m, a) PROVE Remaining'
    BY <1>8, <2>2 DEF DiscoverSearch
  <2>3. ASSUME NEW m \in Mac, NEW a \in AskedIp, NEW b \in AskedIp, NEW opt \in LeaseOption,
               RequestAck(m, a, b, opt)
        PROVE  Remaining'
    BY <1>8, <2>3 DEF RequestAck
  <2> QED BY <1>1, <1>2, <1>6, <1>7, <1>9, <2>1, <2>2, <2>3 DEF Receive
<1>10. CASE Skip \/ RememberOldest \/ Probe \/ ProbeOldest \/ Abandon \/ LeasesWritten
  <2>1. leases' = leases /\ now' = now
    BY <1>10 DEF Skip, RememberOldest, Probe, ProbeOldest, Abandon, LeasesWritten
  <2> QED BY <1>8, <2>1
<1>11. CASE Tick \/ UNCHANGED vars
  <2>1. leases' = leases /\ now' \in {now, now + 1}
    BY <1>11 DEF Tick, vars
  <2> QED BY <1>8, <2>1
<1> QED
  BY <1>3, <1>4, <1>5, <1>9, <1>10, <1>11 DEF Next, Serve, Search

-----------------------------------------------------------------------------
(* write_leases().                                                         *)

LEMMA SlotsInterval == \E n \in Nat \ {0} : Slots = 1 .. n
<1> DEFINE n == IF MaxLeases > EndIp - StartIp + 1 THEN EndIp - StartIp + 1 ELSE MaxLeases
<1>1. MaxLeases \in Nat \ {0} /\ StartIp \in Nat /\ EndIp \in Nat /\ StartIp <= EndIp
  BY AddressAssumption, TimeAssumption
<1>2. n \in Nat \ {0}
  BY ONLY <1>1
<1>3. Slots = 1 .. n
  BY DEF Slots
<1> QED BY <1>2, <1>3

LEMMA AllSlotsIs == AllSlots \in Slots /\ \A s \in Slots : s <= AllSlots
<1>1. PICK n \in Nat \ {0} : Slots = 1 .. n
  BY SlotsInterval
<1>2. n \in Slots /\ \A s \in Slots : s <= n
  BY ONLY <1>1
<1> QED BY <1>2 DEF AllSlots

LEMMA RecordIs ==
    ASSUME CoreInv, Remaining, HalfWrap, NEW s \in Slots
    PROVE  /\ Record(s) \in Lease
           /\ Record(s).mac = leases[s].mac /\ Record(s).nip = leases[s].nip
           /\ Record(s).expires = TimeLeft(leases[s].expires)
<1>1. leases[s] \in Lease /\ TimeLeft(leases[s].expires) \in Nat
  BY LeftOfSlot DEF CoreInv, StateOK
<1> QED BY ONLY <1>1 DEF Record, Lease

\* Whatever the server wrote, up to any record, is a file it can be started with.
LEMMA ImageOK ==
    ASSUME CoreInv, Remaining, HalfWrap, NEW kept,
           file' = FileImage(kept), now' = now
    PROVE  FileInv'
<1> DEFINE R == [s \in Slots |-> IF s \in kept THEN Record(s) ELSE Empty]
<1>1. file' = [at |-> now, records |-> R]
  BY DEF FileImage
<1> HIDE DEF R
<1>2. /\ Empty \in Lease /\ Empty.mac = ZeroMac /\ Empty.nip = 0 /\ Empty.expires = 0
      /\ Placed(Empty)
  BY DEF Empty, Lease, Placed
<1>3. \A s \in Slots : \/ R[s] = Empty
                       \/ /\ R[s] \in Lease
                          /\ R[s].mac = leases[s].mac /\ R[s].nip = leases[s].nip
                          /\ \E t \in Times : R[s].expires <= t
  <2> SUFFICES ASSUME NEW s \in Slots, R[s] # Empty
               PROVE  /\ R[s] \in Lease
                      /\ R[s].mac = leases[s].mac /\ R[s].nip = leases[s].nip
                      /\ \E t \in Times : R[s].expires <= t
    OBVIOUS
  <2>1. R[s] = Record(s)
    BY DEF R
  <2> QED BY <2>1, RecordIs, LeftOfSlot
<1>4. R \in [Slots -> Lease]
  <2>1. \A s \in Slots : R[s] \in Lease
    BY ONLY <1>2, <1>3
  <2> QED BY <2>1 DEF R
<1>5. Distinct(R)
  <2> SUFFICES ASSUME NEW s \in Slots, NEW r \in Slots, s # r
               PROVE  /\ R[s].mac # ZeroMac => R[s].mac # R[r].mac
                      /\ R[s].nip # 0 => R[s].nip # R[r].nip
    BY DEF Distinct
  <2>1. /\ leases[s].mac # ZeroMac => leases[s].mac # leases[r].mac
        /\ leases[s].nip # 0 => leases[s].nip # leases[r].nip
    BY DEF CoreInv, TableInv, Distinct
  <2> QED BY ONLY <1>2, <1>3, <2>1
<1>6. \A s \in Slots : Placed(R[s])
  <2> SUFFICES ASSUME NEW s \in Slots, R[s] # Empty PROVE Placed(R[s])
    BY <1>2
  <2>1. Placed(leases[s])
    BY DEF CoreInv, TableInv
  <2>2. R[s].mac = leases[s].mac /\ R[s].nip = leases[s].nip
    BY <1>3
  <2> QED BY ONLY <2>1, <2>2 DEF Placed
<1>7. \A s \in Slots : \E t \in Times : R[s].expires <= t
  <2> SUFFICES ASSUME NEW s \in Slots, R[s] = Empty PROVE \E t \in Times : R[s].expires <= t
    BY <1>3
  <2>1. OfferTime \in Times /\ OfferTime \in Nat
    BY TimesNat DEF Times
  <2> QED BY <1>2, <2>1
<1>8. now \in Nat
  BY DEF CoreInv, StateOK
<1>9. file' \in [at : Nat, records : [Slots -> Lease]]
  BY ONLY <1>1, <1>4, <1>8
<1>10. file'.at <= now' /\ file'.records = R
  BY ONLY <1>1, <1>8, now' = now
<1>11. (file.at <= now)' /\ (file \in [at : Nat, records : [Slots -> Lease]])'
  BY <1>9, <1>10
<1>12. Distinct(file.records)'
  BY ONLY <1>5, <1>10 DEF Distinct
<1>13. (\A s \in Slots : Placed(file.records[s]))'
  BY ONLY <1>6, <1>10 DEF Placed, IsStatic
<1>14. (\A s \in Slots : \E t \in Times : file.records[s].expires <= t)'
  BY ONLY <1>7, <1>10 DEF Times
<1> QED BY ONLY <1>11, <1>12, <1>13, <1>14 DEF FileInv

\* The lease of a client that is backed is in the whole file.
LEMMA ImageHasBacked ==
    ASSUME CoreInv, Remaining, HalfWrap, file' = FileImage(Slots), now' = now,
           promise' = promise, NEW m \in Mac, Live(m), Backed(m), pc # "ack"
    PROVE  OnFile(m)'
<1>1. PICK s \in Slots : /\ leases[s].mac = m /\ leases[s].nip = promise[m].nip
                         /\ leases[s].expires >= promise[m].until
  BY DEF Backed
<1>2. /\ now \in Nat \ {0} /\ leases[s].expires \in Nat /\ promise[m].until \in Nat
      /\ promise[m].until > now
  BY DEF CoreInv, StateOK, Clock, Lease, Live
<1>3. TimeLeft(leases[s].expires) = leases[s].expires - now
  <2>1. leases[s].expires > now
    BY ONLY <1>1, <1>2
  <2> QED BY <2>1, LeftOfSlot
<1>4. file'.at = now /\ file'.records[s] = Record(s)
  BY DEF FileImage
<1>5. /\ file'.records[s].mac = m /\ file'.records[s].nip = promise'[m].nip
      /\ file'.records[s].expires = leases[s].expires - now
  BY <1>1, <1>3, <1>4, RecordIs
<1>6. file'.at + file'.records[s].expires >= promise'[m].until
  BY ONLY <1>1, <1>2, <1>4, <1>5, promise' = promise
<1> QED BY <1>2, <1>4, <1>5, <1>6 DEF OnFile, Holds

-----------------------------------------------------------------------------
(* The steps of the running server.                                        *)

\* A live ACK is an old one, or the server is about to enter it.
LEMMA AckedBefore ==
    ASSUME CoreInv, Receive \/ Search \/ EnterLease \/ Tick,
           NEW m \in Mac, Live(m)', promise'[m].acked
    PROVE  promise'[m] = promise[m] \/ (pc' = "ack" /\ client'.mac = m)
<1> SUFFICES ASSUME promise'[m] # promise[m] PROVE pc' = "ack" /\ client'.mac = m
  OBVIOUS
<1>1. promise \in [Mac -> [nip : Nat, until : Nat, acked : BOOLEAN]]
  BY DEF CoreInv, StateOK
<1>2. NoPromise.acked = FALSE
  BY DEF NoPromise
<1>3. ASSUME NEW n \in Mac, Withdraw(n) PROVE FALSE
  BY <1>1, <1>2, <1>3 DEF Withdraw
<1>4. ASSUME NEW n \in Mac, NEW a, NEW t, Promise(n, a, t, FALSE) PROVE FALSE
  BY <1>1, <1>4 DEF Promise
<1>5. ASSUME NEW n \in Mac, NEW a, Reserve(n, a) PROVE FALSE
  BY <1>3, <1>4, <1>5 DEF Reserve
<1>6. ASSUME NEW n \in Mac, DiscoverStatic(n) \/ DiscoverKnown(n) PROVE FALSE
  BY <1>4, <1>5, <1>6 DEF DiscoverStatic, DiscoverKnown
<1>7. ASSUME NEW n \in Mac, NEW a, DiscoverRequested(n, a) \/ DiscoverSearch(n, a)
                                     \/ Decline(n, a) \/ Release(n, a)
      PROVE  FALSE
  BY <1>3, <1>5, <1>7 DEF DiscoverRequested, DiscoverSearch, Decline, Release
<1>8. ASSUME NEW n \in Mac, NEW a, NEW b, NEW opt, RequestAck(n, a, b, opt)
      PROVE  pc' = "ack" /\ client'.mac = m
  <2>1. promise' = [promise EXCEPT ![n] =
                      [nip |-> BoundIp(n), until |-> now + LeaseTime(opt), acked |-> TRUE]]
    BY <1>8 DEF RequestAck, Promise
  <2>2. m = n
    BY ONLY <1>1, <2>1, m \in Mac, n \in Mac, promise'[m] # promise[m]
  <2> QED BY <1>8, <2>2 DEF RequestAck
<1>9. ASSUME NobodyAnswers PROVE FALSE
  <2>1. client.mac \in Mac
    BY <1>9 DEF NobodyAnswers, CoreInv, SearchInv
  <2> QED BY <1>5, <1>9, <2>1 DEF NobodyAnswers
<1>10. ASSUME Skip \/ RememberOldest \/ Probe \/ ProbeOldest \/ Abandon
                \/ SomebodyAnswers \/ EnterLease
       PROVE  FALSE
  BY <1>10 DEF Skip, RememberOldest, Probe, ProbeOldest, Abandon, SomebodyAnswers,
               EnterLease, ghosts
<1>11. ASSUME Tick PROVE FALSE
  BY <1>1, <1>2, <1>11 DEF Tick
<1> QED
  BY <1>6, <1>7, <1>8, <1>9, <1>10, <1>11 DEF Receive, Search

\* Nothing but the save ends the acknowledging of a lease.
LEMMA SavingKept ==
    ASSUME EarlyWrite, Receive \/ Search \/ EnterLease \/ Tick, NEW m \in Mac, Saving(m)
    PROVE  Saving(m)'
<1>1. pc \in {"ack", "write"} /\ client.mac = m
  BY DEF Saving
<1>2. ~Receive
  BY <1>1 DEF Receive, DiscoverStatic, DiscoverKnown, DiscoverRequested, DiscoverSearch,
              Decline, Release, RequestAck
<1>3. ~Search
  BY <1>1 DEF Search, Skip, RememberOldest, Probe, ProbeOldest, Abandon, NobodyAnswers,
              SomebodyAnswers
<1>4. CASE EnterLease
  BY <1>1, <1>4 DEF EnterLease, Saving, request
<1>5. CASE Tick
  BY <1>1, <1>5 DEF Tick, Saving, request
<1> QED BY <1>2, <1>3, <1>4, <1>5

\* A server that is off or loads only sees the time pass.
LEMMA IdleStep ==
    ASSUME pc \in {"off", "load"}, Receive \/ Search \/ EnterLease \/ Tick
    PROVE  Tick
BY DEF Receive, DiscoverStatic, DiscoverKnown, DiscoverRequested, DiscoverSearch,
       Decline, Release, RequestAck, Search, Skip, RememberOldest, Probe, ProbeOldest,
       Abandon, NobodyAnswers, SomebodyAnswers, EnterLease

LEMMA FileKept ==
    ASSUME CoreInv, FileInv, file' = file, now' \in {now, now + 1}
    PROVE  FileInv'
<1>1. now \in Nat /\ file.at \in Nat /\ file.at <= now
  BY DEF FileInv, CoreInv, StateOK
<1>2. file.at <= now'
  BY ONLY <1>1, now' \in {now, now + 1}
<1> QED BY <1>2 DEF FileInv, Distinct, Placed, IsStatic, Times

LEMMA LaterStill ==
    ASSUME NEW n \in Nat, NEW m \in Nat, NEW p \in Nat, NEW e \in Nat, NEW x \in Nat,
           n <= m, e <= n + x - p
    PROVE  e <= m + x - p
OBVIOUS

LEMMA RunningStep ==
    ASSUME HalfWrap, StaticsOutside, RestartInv, Running
    PROVE  CoreInv' /\ Remaining' /\ FileInv' /\ PhaseInv'
<1>1. NoWrap /\ [Next]_vars /\ CoreInv /\ Remaining /\ FileInv /\ PhaseInv
  BY HalfNoWrap DEF Running, Next, Serve, RestartInv
<1>2. CoreInv' /\ Remaining'
  BY <1>1, CoreStep, RemainingStep
<1>3. /\ UNCHANGED <<file, next, passed>> /\ now' \in {now, now + 1}
      /\ unsaved = {} => unsaved' = {}
  BY <1>1, ClockStep DEF Running, StillTold
<1>4. FileInv'
  BY <1>1, <1>3, FileKept
<1>5. CASE pc \in {"off", "load"}
  <2>1. pc' = pc /\ leases' = leases
    BY <1>5, IdleStep DEF Running, Tick
  <2>2. file.at \in Nat /\ passed \in Nat /\ now \in Nat
    BY <1>1 DEF FileInv, PhaseInv, CoreInv, StateOK
  <2>3. /\ now' \in Nat /\ now <= now'
        /\ file.at + passed <= now => file.at + passed <= now'
    <3>1. now' = now \/ now' = now + 1
      BY <1>3
    <3> QED BY ONLY <2>2, <3>1
  <2>4. \A e, x \in Nat : e <= now + x - passed => e <= now' + x - passed
    BY <2>2, <2>3, LaterStill
  <2>5. \A s \in Slots : leases[s].expires \in Nat /\ file.records[s].expires \in Nat
    BY <1>1 DEF FileInv, CoreInv, StateOK, Lease
  <2>6. LoadInv => LoadInv'
    BY <1>3, <2>1, <2>3, <2>4, <2>5 DEF LoadInv, Wanted
  <2> QED BY <1>1, <1>2, <1>3, <1>4, <2>1, <2>6 DEF PhaseInv
<1>6. CASE pc \notin {"off", "load"}
  <2>1. TypeOK
    BY <1>1, <1>6 DEF TypeOK, CoreInv, StateOK, PhaseInv
  <2>2. pc' \in {"select", "scan", "probe", "probeOldest", "ack", "write"}
    BY <1>1, <2>1, PcStep
  <2> QED BY <1>1, <1>2, <1>3, <1>4, <2>2 DEF PhaseInv
<1> QED BY <1>5, <1>6

LEMMA RunningAcks ==
    ASSUME HalfWrap, StaticsOutside, EarlyWrite, CoreInv, PhaseInv, AcksBacked, Running
    PROVE  AcksBacked'
<1> SUFFICES ASSUME NEW m \in Mac, Live(m)', promise'[m].acked, ~IsStatic(m),
                    m \notin forgotten'
             PROVE  /\ pc' \notin {"off", "load"} => Backed(m)'
                    /\ Saving(m)' \/ OnFile(m)' \/ m \in unsaved'
  BY DEF AcksBacked, IsStatic
<1>1. NoWrap /\ [Next]_vars
  BY HalfNoWrap DEF Running, Next, Serve
<1>2. BackingKept /\ now' \in {now, now + 1}
  BY <1>1, CoreStep, ClockStep
<1>3. promise'[m] = promise[m] =>
          /\ Live(m) /\ (pc \notin {"off", "load"} => Backed(m))
          /\ Saving(m) \/ OnFile(m) \/ m \in unsaved
  BY <1>2, LiveBefore DEF AcksBacked, Running, StillTold
<1>4. pc \in {"off", "load"} => pc' = pc
  BY IdleStep DEF Running, Tick
<1>5. pc' \notin {"off", "load"} => Backed(m)'
  BY <1>2, <1>3, <1>4 DEF BackingKept
<1>6. CASE promise'[m] = promise[m]
  <2>1. Saving(m) => Saving(m)'
    BY SavingKept DEF Running
  <2>2. OnFile(m) => OnFile(m)'
    BY <1>6 DEF OnFile, Holds, Running
  <2>3. m \in unsaved => m \in unsaved'
    BY <1>6 DEF Running, StillTold
  <2> QED BY <1>3, <1>5, <1>6, <2>1, <2>2, <2>3
<1>7. CASE promise'[m] # promise[m]
  <2>1. pc' = "ack" /\ client'.mac = m
    BY <1>7, AckedBefore DEF Running
  <2> QED BY <1>5, <2>1 DEF Saving
<1> QED BY <1>6, <1>7

-----------------------------------------------------------------------------
(* A save, a stop, a crash and a new start.                                *)

LEMMA NoFileOK ==
    ASSUME file' = NoFile, now' \in Nat
    PROVE  FileInv'
<1>1. Empty \in Lease /\ Empty.mac = ZeroMac /\ Empty.nip = 0 /\ Empty.expires = 0
  BY DEF Empty, Lease
<1>2. /\ (file \in [at : Nat, records : [Slots -> Lease]])' /\ (file.at <= now)'
      /\ \A s \in Slots : file'.records[s] = Empty
  BY <1>1 DEF NoFile
<1>3. OfferTime \in Times /\ OfferTime \in Nat
  BY TimesNat DEF Times
<1>4. \A s \in Slots : file'.records[s].expires <= OfferTime
  BY <1>1, <1>2, <1>3
<1> QED BY <1>1, <1>2, <1>3, <1>4 DEF FileInv, Distinct, Placed, Times

LEMMA SaveStep ==
    ASSUME HalfWrap, StaticsOutside, RestartInv, WriteAfterAck \/ WriteOnSignal
    PROVE  RestartInv'
<1>1. NoWrap /\ [Next]_vars /\ CoreInv /\ Remaining /\ FileInv /\ PhaseInv
  BY HalfNoWrap DEF WriteAfterAck, WriteOnSignal, Next, Serve, RestartInv
<1>2. CoreInv' /\ BackingKept /\ Remaining'
  BY <1>1, CoreStep, RemainingStep
<1>3. /\ SaveSucceeds \/ SaveFails
      /\ pc \in {"write", "select"} /\ pc' = "select"
      /\ UNCHANGED <<now, leases, promise, next, passed, forgotten>>
  BY DEF WriteAfterAck, WriteOnSignal, LeasesWritten, Return, vars, ghosts
<1>4. FileInv'
  <2>1. ASSUME NEW kept, file' = FileImage(kept) PROVE FileInv'
    BY <1>1, <1>3, <2>1, ImageOK
  <2>2. CASE file' = file
    BY <1>1, <1>3, <2>2, FileKept
  <2>3. CASE file' = NoFile
    BY <1>1, <1>3, <2>3, NoFileOK DEF CoreInv, StateOK
  <2> QED BY <1>3, <2>1, <2>2, <2>3 DEF SaveSucceeds, SaveFails
<1>5. PhaseInv'
  BY <1>1, <1>3 DEF PhaseInv
<1>6. ASSUME AcksBacked, NEW m \in Mac, Live(m)', promise'[m].acked, ~IsStatic(m),
             m \notin forgotten'
      PROVE  Backed(m)' /\ (OnFile(m)' \/ m \in unsaved')
  <2>1. Live(m) /\ promise[m].acked /\ m \notin forgotten
    BY <1>3, <1>6 DEF Live
  <2>2. Backed(m)
    BY <1>3, <1>6, <2>1 DEF AcksBacked
  <2>3. Backed(m)'
    BY <1>2, <1>6, <2>2 DEF BackingKept
  <2>4. CASE SaveSucceeds
    BY <1>1, <1>3, <2>1, <2>2, <2>3, <2>4, ImageHasBacked DEF SaveSucceeds
  <2>5. CASE SaveFails
    <3>1. Holds(file', m) \/ m \in unsaved'
      BY <1>6, <2>1, <2>5 DEF SaveFails, Lacking, Acknowledged
    <3> QED BY <1>3, <2>3, <3>1 DEF OnFile, Holds
  <2> QED BY <1>3, <2>4, <2>5
<1>7. AcksBacked => AcksBacked'
  BY <1>6 DEF AcksBacked, IsStatic
<1> QED BY <1>2, <1>4, <1>5, <1>7 DEF RestartInv

\* Everything but the lease file is lost.
LEMMA HaltStep ==
    ASSUME CoreInv, PhaseInv, Halt
    PROVE  CoreInv' /\ Remaining' /\ PhaseInv'
<1>1. /\ pc' = "off" /\ now' = now /\ promise' = promise /\ quarantine' = quarantine
      /\ leases' = [s \in Slots |-> Empty] /\ client' = NoClient /\ addr' = 0
      /\ oldest' = 0 /\ answered' = {} /\ next' = 0 /\ passed' = 0 /\ unsaved' = {}
  BY DEF Halt, ghosts
<1>2. Empty \in Lease /\ Empty.mac = ZeroMac /\ Empty.nip = 0 /\ Empty.expires = 0
  BY DEF Empty, Lease
<1>3. \A s \in Slots : leases'[s] = Empty
  BY <1>1
<1>4. StateOK'
  BY <1>1, <1>2 DEF CoreInv, StateOK, NoClient
<1>5. TableInv' /\ Clock' /\ StaticPromise'
  BY <1>1, <1>2, <1>3 DEF CoreInv, TableInv, Distinct, Placed, IsStatic, Clock,
                          StaticPromise, Live
<1>6. SearchInv' /\ AckInv' /\ PhaseInv'
  BY <1>1, <1>3 DEF SearchInv, AckInv, PhaseInv
<1>7. Remaining'
  <2>1. OfferTime \in Times /\ OfferTime \in Nat /\ now \in Nat
    BY TimesNat DEF Times, CoreInv, StateOK
  <2>2. \A s \in Slots : leases'[s].expires <= now' + OfferTime
    BY ONLY <1>1, <1>2, <1>3, <2>1
  <2> QED BY <2>1, <2>2 DEF Remaining, Times
<1> QED BY <1>4, <1>5, <1>6, <1>7 DEF CoreInv

LEMMA StopStep ==
    ASSUME HalfWrap, RestartInv, Stop
    PROVE  RestartInv'
<1>1. CoreInv /\ FileInv /\ PhaseInv /\ now \in Nat
  BY DEF RestartInv, CoreInv, StateOK
<1>2. /\ pc \notin {"off", "ack", "write"} /\ pc' = "off"
      /\ forgotten' = forgotten \cup unsaved
      /\ UNCHANGED <<file, now, promise>>
  BY DEF Stop, Halt, ghosts
<1>3. CoreInv' /\ Remaining' /\ PhaseInv' /\ FileInv'
  BY <1>1, <1>2, HaltStep, FileKept DEF Stop
<1>4. ASSUME AcksBacked, NEW m \in Mac, Live(m)', promise'[m].acked, ~IsStatic(m),
             m \notin forgotten'
      PROVE  OnFile(m)'
  <2>1. Live(m) /\ promise[m].acked /\ m \notin forgotten \cup unsaved
    BY <1>2, <1>4 DEF Live
  <2>2. OnFile(m)
    BY <1>2, <1>4, <2>1 DEF AcksBacked, Saving
  <2> QED BY <1>2, <2>2 DEF OnFile, Holds
<1>5. AcksBacked => AcksBacked'
  BY <1>2, <1>4 DEF AcksBacked, IsStatic
<1> QED BY <1>2, <1>3, <1>5 DEF RestartInv

LEMMA CrashStep ==
    ASSUME HalfWrap, RestartInv, Crash
    PROVE  RestartInv'
<1>1. CoreInv /\ Remaining /\ FileInv /\ PhaseInv /\ now \in Nat
  BY DEF RestartInv, CoreInv, StateOK
<1>2. CoreInv' /\ Remaining' /\ PhaseInv' /\ UNCHANGED <<now, promise>> /\ pc' = "off"
  BY <1>1, HaltStep DEF Crash, Halt, ghosts
<1>3. FileInv'
  <2>1. CASE file' = file
    BY <1>1, <1>2, <2>1, FileKept
  <2>2. CASE file' = NoFile
    BY <1>1, <1>2, <2>2, NoFileOK
  <2>3. ASSUME NEW count, file' = FileImage(1 .. count) PROVE FileInv'
    BY <1>1, <1>2, <2>3, ImageOK DEF RestartInv
  <2> QED BY <2>1, <2>2, <2>3 DEF Crash
<1>4. ASSUME AcksBacked, NEW m \in Mac, Live(m)', promise'[m].acked, ~IsStatic(m),
             m \notin forgotten'
      PROVE  OnFile(m)'
  <2>1. Live(m) /\ promise[m].acked
    BY <1>2, <1>4 DEF Live
  <2>2. CASE file' = file /\ forgotten' = forgotten \cup unsaved \cup {client.mac}
    <3>1. m \notin forgotten /\ m \notin unsaved /\ m # client.mac
      BY <1>4, <2>2
    <3>2. OnFile(m)
      BY <1>4, <2>1, <3>1 DEF AcksBacked, Saving
    <3> QED BY <1>2, <2>2, <3>2 DEF OnFile, Holds
  <2>3. CASE forgotten' = forgotten \cup Lacking(file')
    <3>1. Holds(file', m)
      BY <1>4, <2>1, <2>3 DEF Lacking, Acknowledged
    <3> QED BY <1>2, <3>1 DEF OnFile, Holds
  <2> QED BY <2>2, <2>3 DEF Crash
<1>5. AcksBacked => AcksBacked'
  BY <1>2, <1>4 DEF AcksBacked, IsStatic
<1> QED BY <1>2, <1>3, <1>5 DEF RestartInv

LEMMA StartStep ==
    ASSUME RestartInv, Start
    PROVE  RestartInv'
<1>1. CoreInv /\ Remaining /\ FileInv /\ PhaseInv /\ pc = "off"
  BY DEF RestartInv, Start
<1>2. /\ UNCHANGED <<now, leases, client, addr, oldest, answered, promise, quarantine, file>>
      /\ pc' \in {"select", "load"} /\ unsaved' = unsaved
  BY DEF Start, request, ghosts
<1>3. CoreInv'
  <2>1. StateOK' /\ Clock' /\ TableInv' /\ StaticPromise'
    BY <1>1, <1>2 DEF CoreInv, StateOK, Clock, TableInv, Distinct, Placed, IsStatic,
                      StaticPromise, Live
  <2> QED BY <1>2, <2>1 DEF CoreInv, SearchInv, AckInv
<1>4. Remaining' /\ FileInv'
  BY <1>1, <1>2 DEF Remaining, FileInv, Distinct, Placed, IsStatic, Times
<1>5. PhaseInv'
  <2>1. now \in Nat /\ file.at \in Nat /\ file.at <= now
    BY <1>1 DEF CoreInv, StateOK, FileInv
  <2>2. CASE pc' = "load"
    <3>1. next' = 1 /\ passed' = now - file.at /\ file.at # 0
      BY <2>2 DEF Start
    <3>2. passed' \in Nat /\ next' \in Nat /\ next' - 1 = 0 /\ file.at + passed' <= now
      BY ONLY <2>1, <3>1
    <3>3. \A r \in Slots : ~(r < next')
      <4>1. PICK n \in Nat \ {0} : Slots = 1 .. n
        BY SlotsInterval
      <4> QED BY ONLY <3>1, <4>1
    <3>4. \A s \in Slots : leases'[s] = Empty
      BY <1>1, <1>2 DEF PhaseInv
    <3>5. LoadInv'
      BY <1>2, <3>1, <3>2, <3>3, <3>4 DEF LoadInv
    <3> QED BY <1>1, <1>2, <2>2, <3>2, <3>5 DEF PhaseInv
  <2>3. CASE pc' = "select"
    <3>1. UNCHANGED <<next, passed>>
      BY <2>3 DEF Start
    <3> QED BY <1>1, <2>3, <3>1 DEF PhaseInv
  <2> QED BY <1>2, <2>2, <2>3
<1>6. ASSUME EarlyWrite PROVE AcksBacked'
  <2> SUFFICES ASSUME NEW m \in Mac, Live(m)', promise'[m].acked, ~IsStatic(m),
                      m \notin forgotten'
               PROVE  pc' = "load" /\ OnFile(m)'
    BY DEF AcksBacked, IsStatic
  <2>1. Live(m) /\ promise[m].acked /\ unsaved = {}
    BY <1>1, <1>2 DEF PhaseInv, Live
  <2>2. m \notin forgotten /\ (file.at = 0 \/ pc' = "load")
    BY <1>2, <2>1 DEF Start, Acknowledged
  <2>3. OnFile(m)
    BY <1>1, <1>6, <2>1, <2>2 DEF RestartInv, AcksBacked, Saving
  <2>4. pc' = "load"
    BY <2>2, <2>3 DEF OnFile, Holds
  <2> QED BY <1>2, <2>3, <2>4 DEF OnFile, Holds
<1> QED BY <1>3, <1>4, <1>5, <1>6 DEF RestartInv

-----------------------------------------------------------------------------
(* read_leases().                                                          *)

\* The table has room for every record that is left.
LEMMA UnusedSlot ==
    ASSUME CoreInv, LoadInv, next \in Slots
    PROVE  \E s \in Slots : leases[s] = Empty
<1> SUFFICES ASSUME \A s \in Slots : leases[s] # Empty PROVE FALSE
  OBVIOUS
<1> DEFINE from(s) == CHOOSE r \in Slots : r < next /\ file.records[r].nip = leases[s].nip
           f == [s \in Slots |-> from(s)]
<1>1. \A s \in Slots : /\ leases[s].nip # 0
                       /\ f[s] \in Slots /\ f[s] < next
                       /\ file.records[f[s]].nip = leases[s].nip
  BY DEF LoadInv
<1>2. PICK n \in Nat \ {0} : Slots = 1 .. n
  BY SlotsInterval
<1>3. IsFiniteSet(Slots) /\ Cardinality(Slots) = n
  BY ONLY <1>2, FS_Interval
<1>4. PICK k \in Nat : next = k + 1 /\ k < n
  <2>1. next \in Nat /\ 1 <= next /\ next <= n
    BY ONLY <1>2, next \in Slots
  <2>2. next - 1 \in Nat /\ next = (next - 1) + 1 /\ next - 1 < n
    BY ONLY <1>2, <2>1
  <2> QED BY <2>2
<1>5. f \in [Slots -> Slots]
  <2>1. \A s \in Slots : from(s) \in Slots
    BY <1>1
  <2> QED BY <2>1
<1> HIDE DEF f
<1>6. f \in [Slots -> 1 .. k]
  <2> SUFFICES ASSUME NEW s \in Slots PROVE f[s] \in 1 .. k
    BY <1>5
  <2>1. f[s] \in Nat /\ 1 <= f[s]
    BY ONLY <1>1, <1>2, s \in Slots
  <2>2. f[s] < next
    BY <1>1
  <2> QED BY ONLY <1>4, <2>1, <2>2
<1>7. \E s, r \in Slots : s # r /\ f[s] = f[r]
  <2>1. IsFiniteSet(1 .. k) /\ Cardinality(1 .. k) = k
    BY ONLY <1>4, FS_Interval
  <2>2. Cardinality(1 .. k) < Cardinality(Slots)
    BY ONLY <1>3, <1>4, <2>1
  <2> QED BY ONLY <1>3, <1>6, <2>1, <2>2, FS_PigeonHole
<1>8. PICK s \in Slots, r \in Slots : s # r /\ f[s] = f[r]
  BY <1>7
<1>9. leases[s].nip = leases[r].nip /\ leases[s].nip # 0
  BY <1>1, <1>8
<1> QED BY <1>8, <1>9 DEF CoreInv, TableInv, Distinct

\* add_lease() takes a slot that was never used while there is one.
LEMMA TakesUnused ==
    ASSUME CoreInv, NEW m \in Mac \cup {ZeroMac}, NEW a \in Nat \ {0},
           NEW t \in Nat, now + t < TimeWrap,
           \E s \in Slots : leases[s] = Empty,
           \A s \in Slots : leases[s] = Empty \/ leases[s].expires > 0
    PROVE  LET C == Cleared(m, a)
           IN  \E v \in Slots : /\ C[v] = Empty
                                /\ AddLease(m, a, t) = [C EXCEPT ![v] = Entry(m, a, t)]
<1> DEFINE C == Cleared(m, a)
           v == CHOOSE s \in Slots : IsOldest(C, s)
<1>1. C \in [Slots -> Lease] /\ now \in Nat /\ now > 0
  <2>1. StateOK /\ Clock
    BY DEF CoreInv
  <2>2. now \in Nat /\ now > 0
    BY <2>1 DEF StateOK, Clock
  <2> QED BY <2>1, <2>2, AddLeaseShape
<1>2. Empty.expires = 0
  BY DEF Empty
<1>3. \A s \in Slots : C[s] \in {leases[s], Empty}
  BY DEF Cleared
<1>4. PICK u \in Slots : leases[u] = Empty
  OBVIOUS
<1>5. C[u] = Empty
  BY <1>3, <1>4
<1>6. HasRoom(C)
  BY <1>1, <1>2, <1>5 DEF HasRoom, IsExpired
<1>7. v \in Slots /\ IsOldest(C, v)
  BY <1>1, <1>6, OldestExists
<1> HIDE DEF v
<1>8. C[v].expires = 0
  <2>1. C[v].expires \in Nat /\ C[v].expires <= C[u].expires
    BY <1>1, <1>7 DEF IsOldest, Lease
  <2> QED BY ONLY <1>2, <1>5, <2>1
<1>9. C[v] = Empty
  BY <1>3, <1>7, <1>8
<1>10. (now + t) % TimeWrap = now + t
  BY <1>1, SmallModulo, TimeAssumption
<1>11. AddLease(m, a, t) = [C EXCEPT ![v] = Entry(m, a, t)]
  BY <1>6, <1>10 DEF v, AddLease, Entry, Deadline
<1> QED BY <1>7, <1>9, <1>11

\* The time a record that is wanted still has.
LEMMA WantedRecord ==
    ASSUME CoreInv, FileInv, PhaseInv, HalfWrap, NEW r \in Slots, Wanted(file.records[r])
    PROVE  LET record == file.records[r]
               t == record.expires - passed
           IN  /\ record.mac \in Mac \cup {ZeroMac} /\ record.nip \in Nat \ {0}
               /\ record.nip \in Pool
               /\ t \in Nat \ {0} /\ now + t < TimeWrap
               /\ \E u \in Times : t <= u
               /\ Placed(Entry(record.mac, record.nip, t))
<1> DEFINE record == file.records[r]
<1>1. record \in Lease /\ Placed(record)
  BY DEF FileInv
<1>2. PICK u \in Times : record.expires <= u
  BY DEF FileInv
<1>3. /\ record.expires \in Nat /\ passed \in Nat /\ u \in Nat /\ record.expires > passed
      /\ 2 * (MaxTime + u) < TimeWrap /\ MaxTime \in Nat /\ now \in Nat /\ now <= MaxTime
      /\ TimeWrap \in Nat
  <2>1. record.expires \in Nat /\ passed \in Nat
    BY <1>1 DEF Lease, PhaseInv
  <2>2. record.expires - passed > 0
    BY DEF Wanted
  <2>3. record.expires > passed
    BY ONLY <2>1, <2>2
  <2> QED
    BY <1>2, <2>1, <2>3, TimesNat, TimeAssumption DEF HalfWrap, Clock, CoreInv, StateOK
<1>4. /\ record.expires - passed \in Nat \ {0} /\ record.expires - passed <= u
      /\ now + (record.expires - passed) < TimeWrap
  BY ONLY <1>2, <1>3
<1>5. record.mac \in Mac \cup {ZeroMac} /\ record.nip \in Pool /\ record.nip \in Nat \ {0}
  BY <1>1, PoolNat DEF Lease, Wanted
<1>6. /\ Entry(record.mac, record.nip, record.expires - passed).mac = record.mac
      /\ Entry(record.mac, record.nip, record.expires - passed).nip = record.nip
  BY <1>5, AddressAssumption DEF Entry
<1>7. Placed(Entry(record.mac, record.nip, record.expires - passed))
  BY ONLY <1>1, <1>6 DEF Placed
<1> QED BY <1>4, <1>5, <1>7

LEMMA NextRecord ==
    ASSUME next \in Slots, next' = next + 1
    PROVE  /\ next' \in Nat /\ next' - 1 \in Slots \cup {0}
           /\ \A r \in Slots : r < next' <=> r < next \/ r = next
<1>1. PICK n \in Nat \ {0} : Slots = 1 .. n
  BY SlotsInterval
<1>2. next' \in Nat /\ next' - 1 = next
  BY ONLY <1>1, next \in Slots, next' = next + 1
<1>3. \A r \in Slots : r < next' <=> r < next \/ r = next
  BY ONLY <1>1, next \in Slots, next' = next + 1
<1> QED BY ONLY <1>2, <1>3, next \in Slots

\* A record that enters the table leaves there what has been read before.
LEMMA LoadWanted ==
    ASSUME CoreInv, Remaining, FileInv, PhaseInv, HalfWrap,
           LoadRecord, Wanted(file.records[next])
    PROVE  (leases \in [Slots -> Lease])' /\ TableInv' /\ Remaining' /\ LoadInv'
<1> DEFINE record == file.records[next]
           m == record.mac
           a == record.nip
           t == record.expires - passed
           C == Cleared(m, a)
<1>1. /\ pc = "load" /\ next \in Slots /\ next' = next + 1
      /\ UNCHANGED <<now, file, passed>> /\ leases' = AddLease(m, a, t) /\ LoadInv
  BY DEF LoadRecord, PhaseInv
<1>2. /\ m \in Mac \cup {ZeroMac} /\ a \in Nat \ {0} /\ a \in Pool
      /\ t \in Nat \ {0} /\ now + t < TimeWrap
      /\ \E u \in Times : t <= u
      /\ Placed(Entry(m, a, t))
  BY <1>1, WantedRecord
<1>3. /\ record.expires \in Nat /\ passed \in Nat /\ now \in Nat \ {0} /\ file.at \in Nat
      /\ file.at + passed <= now
  BY <1>1 DEF FileInv, PhaseInv, LoadInv, Lease, CoreInv, StateOK, Clock
<1>4. file.at + record.expires <= now + t /\ now + t > 0
  BY ONLY <1>2, <1>3
<1>5. /\ Entry(m, a, t).mac = m /\ Entry(m, a, t).nip = a
      /\ Entry(m, a, t).expires = now + t
  BY <1>2, AddressAssumption DEF Entry
<1>6. leases' \in [Slots -> Lease] /\ TableInv'
  BY <1>1, <1>2, TableStep
<1>7. Remaining'
  BY <1>1, <1>2, AddLeaseRemaining
<1>8. PICK v \in Slots : C[v] = Empty /\ leases' = [C EXCEPT ![v] = Entry(m, a, t)]
  <2>1. \A s \in Slots : leases[s] = Empty \/ leases[s].expires > 0
    BY <1>1 DEF LoadInv
  <2>2. \E s \in Slots : leases[s] = Empty
    BY <1>1, UnusedSlot
  <2>3. t \in Nat
    BY <1>2
  <2> HIDE DEF m, a, t
  <2> QED BY <1>1, <1>2, <2>1, <2>2, <2>3, TakesUnused
<1>9. C \in [Slots -> Lease]
  BY <1>2, AddLeaseShape DEF CoreInv
<1>10. \A s \in Slots : C[s] = Empty \/ C[s] = leases[s]
  BY DEF Cleared
<1>11. \A s \in Slots : leases'[s] = IF s = v THEN Entry(m, a, t) ELSE C[s]
  BY <1>8, <1>9
<1> HIDE DEF C, t
<1>12. \A r \in Slots : r < next' <=> r < next \/ r = next
  BY <1>1, NextRecord
<1>13. \A s \in Slots :
          \/ leases'[s] = Empty
          \/ /\ leases'[s].nip # 0 /\ leases'[s].expires > 0
             /\ \E r \in Slots : r < next' /\ file.records[r].nip = leases'[s].nip
  <2> SUFFICES ASSUME NEW s \in Slots, leases'[s] # Empty
               PROVE  /\ leases'[s].nip # 0 /\ leases'[s].expires > 0
                      /\ \E r \in Slots : r < next' /\ file.records[r].nip = leases'[s].nip
    OBVIOUS
  <2>1. CASE s = v
    BY <1>1, <1>2, <1>4, <1>5, <1>11, <1>12, <2>1
  <2>2. CASE s # v
    <3>1. leases'[s] = leases[s]
      BY <1>10, <1>11, <2>2
    <3> QED BY <1>1, <1>12, <3>1 DEF LoadInv
  <2> QED BY <2>1, <2>2
<1>14. \A r \in Slots :
          r < next' /\ Wanted(file.records[r]) /\ file.records[r].mac # ZeroMac =>
             \E s \in Slots : /\ leases'[s].mac = file.records[r].mac
                              /\ leases'[s].nip = file.records[r].nip
                              /\ leases'[s].expires >= file.at + file.records[r].expires
                              /\ leases'[s].expires <= now + file.records[r].expires - passed
  <2> SUFFICES ASSUME NEW r \in Slots, r < next', Wanted(file.records[r]),
                      file.records[r].mac # ZeroMac
               PROVE  \E s \in Slots :
                         /\ leases'[s].mac = file.records[r].mac
                         /\ leases'[s].nip = file.records[r].nip
                         /\ leases'[s].expires >= file.at + file.records[r].expires
                         /\ leases'[s].expires <= now + file.records[r].expires - passed
    OBVIOUS
  <2>1. CASE r = next
    <3>1. leases'[v].mac = m /\ leases'[v].nip = a /\ leases'[v].expires = now + t
      BY <1>5, <1>11
    <3>2. /\ leases'[v].expires >= file.at + record.expires
          /\ leases'[v].expires <= now + record.expires - passed
      BY ONLY <1>3, <1>4, <3>1 DEF t
    <3> QED BY <2>1, <3>1, <3>2
  <2>2. CASE r # next
    <3>1. r < next
      BY <1>12, <2>2
    <3>2. PICK s \in Slots : /\ leases[s].mac = file.records[r].mac
                             /\ leases[s].nip = file.records[r].nip
                             /\ leases[s].expires >= file.at + file.records[r].expires
                             /\ leases[s].expires <= now + file.records[r].expires - passed
      BY <1>1, <3>1 DEF LoadInv
    <3>3. leases[s].mac # m /\ leases[s].nip # a
      BY <1>1, <1>2, <2>2, <3>2 DEF FileInv, Distinct
    <3>4. C[s] = leases[s]
      BY <3>3 DEF C, Cleared
    <3>5. s # v
      BY <1>8, <3>2, <3>4 DEF Empty
    <3>6. leases'[s] = leases[s]
      BY <1>11, <3>4, <3>5
    <3> QED BY <3>2, <3>6
  <2> QED BY <2>1, <2>2
<1>15. LoadInv'
  <2>1. (next - 1 \in Slots \cup {0})'
    BY <1>1, NextRecord
  <2>2. (file.at # 0 /\ file.at + passed <= now)'
    BY <1>1 DEF LoadInv
  <2> QED BY <1>1, <1>13, <1>14, <2>1, <2>2 DEF LoadInv, Wanted
<1> QED BY <1>6, <1>7, <1>15

LEMMA LoadRecordStep ==
    ASSUME HalfWrap, RestartInv, LoadRecord
    PROVE  RestartInv'
<1>1. CoreInv /\ Remaining /\ FileInv /\ PhaseInv /\ LoadInv /\ now \in Nat
  BY DEF RestartInv, CoreInv, StateOK, PhaseInv, LoadRecord
<1>2. /\ pc = "load" /\ pc' = "load" /\ next \in Slots /\ next' = next + 1
      /\ UNCHANGED <<now, client, addr, oldest, answered, promise, quarantine, file,
                     passed, unsaved, forgotten>>
  BY DEF LoadRecord, request, ghosts
<1>3. (leases \in [Slots -> Lease])' /\ TableInv' /\ Remaining' /\ LoadInv'
  <2>1. CASE Wanted(file.records[next])
    BY <1>1, <2>1, LoadWanted
  <2>2. CASE ~Wanted(file.records[next])
    <3>1. leases' = leases
      BY <2>2 DEF LoadRecord
    <3>2. TableInv' /\ Remaining' /\ (leases \in [Slots -> Lease])'
      BY <1>1, <1>2, <3>1 DEF CoreInv, StateOK, TableInv, Distinct, Placed, IsStatic,
                              Remaining, Times
    <3>3. next' - 1 \in Slots \cup {0} /\ \A r \in Slots : r < next' <=> r < next \/ r = next
      BY <1>2, NextRecord
    <3>4. LoadInv'
      BY <1>1, <1>2, <2>2, <3>1, <3>3 DEF LoadInv, Wanted
    <3> QED BY <3>2, <3>4
  <2> QED BY <2>1, <2>2
<1>4. CoreInv'
  <2>1. StateOK' /\ Clock' /\ StaticPromise'
    BY <1>1, <1>2, <1>3 DEF CoreInv, StateOK, Clock, StaticPromise, Live, IsStatic
  <2> QED BY <1>2, <1>3, <2>1 DEF CoreInv, SearchInv, AckInv
<1>5. PhaseInv' /\ FileInv'
  <2>1. next' \in Nat
    BY <1>2, NextRecord
  <2> QED BY <1>1, <1>2, <1>3, <2>1, FileKept DEF PhaseInv
<1>6. AcksBacked => AcksBacked'
  BY <1>2 DEF AcksBacked, Saving, OnFile, Holds, Live, IsStatic
<1> QED BY <1>2, <1>3, <1>4, <1>5, <1>6 DEF RestartInv

\* What a client has on file is wanted as long as its ACK counts.
LEMMA LoadedBacked ==
    ASSUME CoreInv, FileInv, PhaseInv, pc = "load", next \notin Slots,
           NEW m \in Mac, Live(m), ~IsStatic(m), OnFile(m)
    PROVE  \E s \in Slots : /\ leases[s].mac = m /\ leases[s].nip = promise[m].nip
                            /\ leases[s].expires >= promise[m].until
<1>1. LoadInv /\ m # ZeroMac
  BY AddressAssumption DEF PhaseInv
<1>2. PICK r \in Slots : /\ file.records[r].mac = m
                         /\ file.records[r].nip = promise[m].nip
                         /\ file.at + file.records[r].expires >= promise[m].until
  BY DEF OnFile, Holds
<1>3. r < next
  <2>1. PICK n \in Nat \ {0} : Slots = 1 .. n
    BY SlotsInterval
  <2>2. next - 1 \in Slots \cup {0} /\ next \in Nat
    BY <1>1 DEF LoadInv, PhaseInv
  <2> QED BY ONLY <2>1, <2>2, next \notin Slots, r \in Slots
<1>4. Wanted(file.records[r])
  <2>1. file.records[r].nip \in Pool
    BY <1>1, <1>2 DEF FileInv, Placed
  <2>2. /\ file.records[r].expires \in Nat /\ passed \in Nat /\ file.at \in Nat
        /\ now \in Nat /\ promise[m].until \in Nat /\ promise[m].until > now
        /\ file.at + passed <= now
    BY <1>1 DEF FileInv, Lease, PhaseInv, LoadInv, CoreInv, StateOK, Live
  <2>3. file.records[r].expires - passed > 0
    BY ONLY <1>2, <2>2
  <2> QED BY <2>1, <2>3 DEF Wanted
<1>5. PICK s \in Slots : /\ leases[s].mac = m /\ leases[s].nip = promise[m].nip
                         /\ leases[s].expires >= file.at + file.records[r].expires
  BY <1>1, <1>2, <1>3, <1>4 DEF LoadInv
<1>6. /\ leases[s].expires \in Nat /\ file.at + file.records[r].expires \in Nat
      /\ promise[m].until \in Nat
  BY DEF CoreInv, StateOK, Lease, FileInv
<1>7. leases[s].expires >= promise[m].until
  BY ONLY <1>2, <1>5, <1>6
<1> QED BY <1>5, <1>7

LEMMA LoadEndsStep ==
    ASSUME RestartInv, LoadEnds
    PROVE  RestartInv'
<1>1. CoreInv /\ Remaining /\ FileInv /\ PhaseInv /\ now \in Nat
  BY DEF RestartInv, CoreInv, StateOK
<1>2. /\ pc = "load" /\ pc' = "select" /\ next \notin Slots /\ next' = 0 /\ passed' = 0
      /\ UNCHANGED <<now, leases, client, addr, oldest, answered, promise, quarantine,
                     file, unsaved, forgotten>>
  BY DEF LoadEnds, request, ghosts
<1>3. CoreInv'
  <2>1. StateOK' /\ Clock' /\ TableInv' /\ StaticPromise'
    BY <1>1, <1>2 DEF CoreInv, StateOK, Clock, TableInv, Distinct, Placed, IsStatic,
                      StaticPromise, Live
  <2> QED BY <1>2, <2>1 DEF CoreInv, SearchInv, AckInv
<1>4. Remaining' /\ FileInv' /\ PhaseInv'
  BY <1>1, <1>2, FileKept DEF Remaining, Times, PhaseInv
<1>5. ASSUME AcksBacked, NEW m \in Mac, Live(m)', promise'[m].acked, ~IsStatic(m),
             m \notin forgotten'
      PROVE  Backed(m)' /\ OnFile(m)'
  <2>1. Live(m) /\ promise[m].acked /\ m \notin forgotten /\ unsaved = {}
    BY <1>1, <1>2, <1>5 DEF Live, PhaseInv
  <2>2. OnFile(m)
    BY <1>2, <1>5, <2>1 DEF AcksBacked, Saving
  <2>3. \E s \in Slots : /\ leases[s].mac = m /\ leases[s].nip = promise[m].nip
                         /\ leases[s].expires >= promise[m].until
    BY <1>1, <1>2, <1>5, <2>1, <2>2, LoadedBacked
  <2> QED BY <1>2, <2>2, <2>3 DEF Backed, OnFile, Holds
<1>6. AcksBacked => AcksBacked'
  BY <1>5 DEF AcksBacked, IsStatic
<1> QED BY <1>2, <1>3, <1>4, <1>6 DEF RestartInv

-----------------------------------------------------------------------------
LEMMA RestartInitInv == RestartInit => RestartInv
<1> SUFFICES ASSUME RestartInit PROVE RestartInv
  OBVIOUS
<1>1. /\ CoreInv /\ now = 1 /\ pc = "select" /\ next = 0 /\ passed = 0
      /\ leases = [s \in Slots |-> Empty] /\ promise = [m \in Mac |-> NoPromise]
      /\ file = [at |-> 0, records |-> [s \in Slots |-> Empty]]
  BY InitIInv DEF RestartInit, NoFile, Init, IInv
<1>2. Empty \in Lease /\ Empty.mac = ZeroMac /\ Empty.nip = 0 /\ Empty.expires = 0
  BY DEF Empty, Lease
<1>3. OfferTime \in Times /\ OfferTime \in Nat
  BY TimesNat DEF Times
<1>4. Remaining
  <2>1. \A s \in Slots : leases[s].expires <= now + OfferTime
    BY <1>1, <1>2, <1>3
  <2> QED BY <1>3, <2>1 DEF Remaining
<1>5. FileInv
  <2>1. file.at = 0 /\ \A s \in Slots : file.records[s] = Empty
    BY <1>1
  <2>2. /\ file \in [at : Nat, records : [Slots -> Lease]] /\ file.at <= now
        /\ \A s \in Slots : file.records[s].expires <= OfferTime
    BY <1>1, <1>2, <1>3
  <2> QED BY <1>2, <1>3, <2>1, <2>2 DEF FileInv, Distinct, Placed
<1>6. PhaseInv
  BY <1>1 DEF PhaseInv
<1>7. AcksBacked
  <2>1. \A m \in Mac : promise[m].until = 0
    BY <1>1, NoPromiseType
  <2>2. now = 1
    BY <1>1
  <2>3. ASSUME NEW m \in Mac PROVE ~Live(m)
    <3>1. promise[m].until = 0
      BY <2>1
    <3> QED BY ONLY <2>2, <3>1 DEF Live
  <2> QED BY <2>3 DEF AcksBacked
<1> QED BY <1>1, <1>4, <1>5, <1>6, <1>7 DEF RestartInv

LEMMA RestartNextInv ==
    ASSUME HalfWrap, StaticsOutside, RestartInv, [RestartNext]_allVars
    PROVE  RestartInv'
<1>1. CASE Running
  <2>1. EarlyWrite /\ AcksBacked => AcksBacked'
    BY <1>1, RunningAcks DEF RestartInv
  <2> QED BY <1>1, <2>1, RunningStep DEF RestartInv
<1>2. CASE WriteAfterAck \/ WriteOnSignal
  BY <1>2, SaveStep
<1>3. CASE Stop
  BY <1>3, StopStep
<1>4. CASE Crash
  BY <1>4, CrashStep
<1>5. CASE Start
  BY <1>5, StartStep
<1>6. CASE LoadRecord
  BY <1>6, LoadRecordStep
<1>7. CASE LoadEnds
  BY <1>7, LoadEndsStep
<1>8. CASE UNCHANGED allVars
  <2>1. UNCHANGED vars /\ UNCHANGED <<file, next, passed, runs, unsaved, forgotten>>
    BY <1>8 DEF allVars, fileVars
  <2>2. UNCHANGED <<now, leases, pc, client, promise>> /\ now \in Nat
    BY <2>1 DEF vars, request, ghosts, RestartInv, CoreInv, StateOK
  <2>3. CoreInv' /\ Remaining' /\ FileInv'
    BY <2>1, <2>2, StutterStep, RemainingStep, FileKept, HalfNoWrap DEF RestartInv
  <2>4. PhaseInv => PhaseInv'
    BY <2>1, <2>2 DEF PhaseInv, LoadInv, Wanted
  <2>5. AcksBacked => AcksBacked'
    BY <2>1, <2>2 DEF AcksBacked, Saving, OnFile, Holds, Backed, Live, IsStatic
  <2> QED BY <2>1, <2>3, <2>4, <2>5 DEF RestartInv
<1> QED
  BY <1>1, <1>2, <1>3, <1>4, <1>5, <1>6, <1>7, <1>8 DEF RestartNext

\* What the table and the file have in common holds whenever the server is
\* stopped, killed and started.
THEOREM RestartInvariance ==
    ASSUME HalfWrap, StaticsOutside
    PROVE  RestartSpec => []RestartInv
<1>1. RestartInit => RestartInv
  BY RestartInitInv
<1>2. RestartInv /\ [RestartNext]_allVars => RestartInv'
  BY RestartNextInv
<1> QED
  BY <1>1, <1>2, PTL DEF RestartSpec

\* read_leases() leaves no two slots to a client or to an address either, also
\* from a file that write_leases() did not finish.
THEOREM TableConsistentAfterRestart ==
    ASSUME HalfWrap, StaticsOutside
    PROVE  RestartSpec => []LeaseTableConsistent
<1>1. RestartInv => LeaseTableConsistent
  BY DEF RestartInv, CoreInv, TableInv, Distinct, LeaseTableConsistent
<1> QED
  BY <1>1, RestartInvariance, PTL

\* read_leases() loses no client's lease that is in the pool and has time left,
\* and no part of that time: no record takes the slot of another.
THEOREM ClientsAreLoaded ==
    ASSUME HalfWrap, StaticsOutside
    PROVE  RestartSpec => []ClientsLoaded
<1>1. ASSUME RestartInv PROVE ClientsLoaded
  <2> SUFFICES ASSUME pc = "load", NEW r \in Slots, r < next, Wanted(file.records[r]),
                      file.records[r].mac # ZeroMac
               PROVE  Loaded(file.records[r])
    BY DEF ClientsLoaded
  <2>1. PICK s \in Slots : /\ leases[s].mac = file.records[r].mac
                           /\ leases[s].nip = file.records[r].nip
                           /\ leases[s].expires >= file.at + file.records[r].expires
                           /\ leases[s].expires <= now + file.records[r].expires - passed
    BY <1>1 DEF RestartInv, PhaseInv, LoadInv
  <2>2. /\ leases[s].expires \in Nat /\ file.records[r].expires \in Nat /\ file.at \in Nat
        /\ now \in Nat /\ passed \in Nat
    BY <1>1 DEF RestartInv, CoreInv, StateOK, Lease, FileInv, PhaseInv
  <2>3. leases[s].expires \in
            file.at + file.records[r].expires .. now + file.records[r].expires - passed
    BY ONLY <2>1, <2>2
  <2> QED BY <2>1, <2>3 DEF Loaded
<1> QED
  BY <1>1, RestartInvariance, PTL

\* A client whose lease was acknowledged finds it in the table after any number
\* of stops and starts, for as long as it was told; also if saves have failed or
\* were cut, unless it is a client the file lacked when the server went off, or
\* the file was not read.
THEOREM AcksOutliveRestart ==
    ASSUME HalfWrap, StaticsOutside, EarlyWrite
    PROVE  RestartSpec => []AckOutlivesRestart
<1>1. ASSUME RestartInv PROVE AckOutlivesRestart
  <2> SUFFICES ASSUME pc = "select", NEW m \in Mac, m \notin forgotten,
                      Live(m), promise[m].acked
               PROVE  BoundIp(m) = promise[m].nip
    BY DEF AckOutlivesRestart, Acknowledged
  <2>1. CASE IsStatic(m)
    BY <1>1, <2>1 DEF RestartInv, CoreInv, StaticPromise, BoundIp
  <2>2. CASE ~IsStatic(m)
    <3>1. Backed(m)
      BY <1>1, <2>2 DEF RestartInv, AcksBacked
    <3>2. PICK s \in Slots : leases[s].mac = m /\ leases[s].nip = promise[m].nip
      BY <3>1 DEF Backed
    <3>3. First(WithMac(m)) = s /\ WithMac(m) # {}
      BY <1>1, <3>2, OnlySlot, AddressAssumption DEF WithMac, RestartInv
    <3> QED BY <2>2, <3>2, <3>3 DEF BoundIp
  <2> QED BY <2>1, <2>2
<1> QED
  BY <1>1, RestartInvariance, PTL

\* No address is acknowledged to two clients whose leases both run, whenever
\* the server is stopped and started: the lease file and the table agree, but
\* for the clients of which the file knew nothing.
THEOREM AcksExclusiveAfterRestart ==
    ASSUME HalfWrap, StaticsOutside, EarlyWrite
    PROVE  RestartSpec => []ExclusiveAfterRestart
<1>1. ASSUME RestartInv PROVE ExclusiveAfterRestart
  <2> SUFFICES ASSUME NEW m \in Mac, NEW n \in Mac, m # n, Live(m), Live(n),
                      m \notin forgotten, n \notin forgotten, promise[m].acked, promise[n].acked, promise[m].nip = promise[n].nip
               PROVE  FALSE
    BY DEF ExclusiveAfterRestart, Acknowledged
  <2> DEFINE idle == pc \in {"off", "load"}
             table == IF idle THEN file.records ELSE leases
  <2>1. AcksBacked /\ CoreInv /\ FileInv /\ (idle => unsaved = {})
    BY <1>1 DEF RestartInv, PhaseInv
  <2>2. Distinct(table) /\ \A s \in Slots : Placed(table[s])
    BY <2>1 DEF FileInv, CoreInv, TableInv
  <2>3. \A k \in Mac : k \notin forgotten /\ Live(k) /\ promise[k].acked /\ ~IsStatic(k) =>
           \E s \in Slots : table[s].mac = k /\ table[s].nip = promise[k].nip
    <3> SUFFICES ASSUME NEW k \in Mac, k \notin forgotten, Live(k), promise[k].acked,
                        ~IsStatic(k)
                 PROVE  \E s \in Slots : table[s].mac = k /\ table[s].nip = promise[k].nip
      OBVIOUS
    <3>1. CASE idle
      <4>1. OnFile(k)
        BY <2>1, <3>1 DEF AcksBacked, Saving
      <4> QED BY <3>1, <4>1 DEF OnFile, Holds
    <3>2. CASE ~idle
      <4>1. Backed(k)
        BY <2>1, <3>2 DEF AcksBacked
      <4> QED BY <3>2, <4>1 DEF Backed
    <3> QED BY <3>1, <3>2
  <2> HIDE DEF table
  <2>4. \A k \in Mac : k \notin forgotten /\ Live(k) /\ promise[k].acked /\ ~IsStatic(k) =>
           promise[k].nip \in Pool
    BY <2>2, <2>3, AddressAssumption DEF Placed
  <2>5. \A k \in Mac : Live(k) /\ IsStatic(k) => promise[k].nip = StaticNip[k]
    BY <2>1 DEF CoreInv, StaticPromise
  <2>6. CASE IsStatic(m) \/ IsStatic(n)
    BY <2>4, <2>5, <2>6 DEF StaticsOutside
  <2>7. CASE ~IsStatic(m) /\ ~IsStatic(n)
    <3>1. PICK s \in Slots : table[s].mac = m /\ table[s].nip = promise[m].nip
      BY <2>3, <2>7
    <3>2. PICK r \in Slots : table[r].mac = n /\ table[r].nip = promise[n].nip
      BY <2>3, <2>7
    <3>3. promise[m].nip # 0
      BY <2>4, <2>7, PoolNat
    <3> QED BY <2>2, <3>1, <3>2, <3>3 DEF Distinct
  <2> QED BY <2>6, <2>7
<1> QED
  BY <1>1, RestartInvariance, PTL
=============================================================================

---------------------------- MODULE MCDhcpSystem ----------------------------
(* An instance of DhcpSystem for TLC.                                      *)
EXTENDS DhcpSystem

\* Only whether a transaction is the present one matters, as xid never returns
\* to an old value.
Current(p) == [p EXCEPT !.xid = (@ = xid)]

\* The state, without what no other variable and no invariant depends on: what
\* the server learnt about strangers, how a wait was divided by packets, the
\* transactions that are over, and the one of a packet that has been answered.
Seen == <<now, leases, pc, client, addr, oldest,
          [m \in Mac |-> <<promise[m].nip, promise[m].until>>],
          cpc, state, listen_mode, timeout, already_waited + slept, packet_num,
          requested_ip, opt, offer, probed, iface, left,
          xid, pc \notin {"select", "ack"} /\ servedXid = xid, declined = xid,
          [i \in 1 .. Len(toServer) |-> Current(toServer[i])],
          {p \in toClient : p.xid = xid}>>
=============================================================================

----------------------------- MODULE AddressBook -----------------------------
(***************************************************************************)
(* What a table of address leases promises, whatever its layout: a book of *)
(* entries, each an address, the client it belongs to and a deadline.  An  *)
(* entry that has not expired changes only on behalf of its own client.    *)
(* Udhcpd implements it with a fixed number of slots, a search and probes. *)
(***************************************************************************)
EXTENDS Integers

CONSTANTS Client,   \* those who may own an entry
          Nobody    \* owner of the entries that only block an address

VARIABLES now, book

bookVars == <<now, book>>

Expired(e) == e.expires < now

Init == now = 1 /\ book = {}

\* Enter e.  Nobody else may hold the address; what the client held before is
\* dropped, and any expired entries may be forgotten to make room.
Enter(e) ==
    LET superseded == {f \in book : f.nip = e.nip \/ (e.mac # Nobody /\ f.mac = e.mac)}
        kept == book \ superseded
    IN  /\ \A f \in book : f.nip = e.nip /\ ~Expired(f) => f.mac = e.mac
        /\ e.expires >= now
        /\ book' \subseteq kept \cup {e}
        /\ e \in book'
        /\ \A f \in kept : Expired(f) \/ f \in book'
        /\ now' = now

\* The client gives its address back: others may have it as soon as the
\* clock has moved on.
GiveBack(e) ==
    /\ e.mac # Nobody
    /\ book' = (book \ {e}) \cup {[e EXCEPT !.expires = now]}
    /\ now' = now

\* The client says that its address is in use by somebody else.
Refuse(e) ==
    /\ e.mac # Nobody
    /\ \E f \in book' : /\ f.nip = e.nip /\ f.mac = Nobody /\ f.expires >= now
                        /\ book' = (book \ {e}) \cup {f}
    /\ now' = now

PassTime == now' = now + 1 /\ book' = book

Next ==
    \/ \E e \in book' : e.mac \in Client \cup {Nobody} /\ Enter(e)
    \/ \E e \in book : GiveBack(e) \/ Refuse(e)
    \/ PassTime

Spec == Init /\ [][Next]_bookVars
=============================================================================

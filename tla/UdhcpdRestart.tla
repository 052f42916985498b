---------------------------- MODULE UdhcpdRestart ----------------------------
(***************************************************************************)
(* udhcpd with its lease file (write_leases() and read_leases() of         *)
(* files.c), stopped by SIGTERM or killed at any step, and started again.  *)
(***************************************************************************)
EXTENDS Udhcpd

CONSTANTS
    FileMaxAge,     \* 12 hours: an older lease file is ignored
    MaxRuns         \* bound of the model: how often the server is started

ASSUME RestartAssumption ==
    FileMaxAge \in Nat /\ MaxRuns \in Nat

VARIABLES
    file,       \* the lease file: when it was written, and its records
    next,       \* the record read_leases() is about to read
    passed,     \* time_passed of read_leases()
    runs,       \* starts of the server so far
    unsaved,    \* not in the program: the clients whose acknowledged lease is
                \* not in the file, as the last save failed
    forgotten   \* not in the program: the clients whose acknowledged lease was
                \* not in a file that was read when the server was last started

fileVars == <<file, next, passed, runs, unsaved, forgotten>>
allVars == <<vars, fileVars>>

\* The time a lease has left is a difference of 32-bit numbers, read as signed.
TimeLeft(expires) ==
    LET left == (expires - now) % TimeWrap
    IN  IF 2 * left >= TimeWrap THEN 0 ELSE left

Record(s) == [leases[s] EXCEPT !.expires = TimeLeft(leases[s].expires)]

\* The records stay in the order of the slots.  The slots without an address
\* are not written: as the reader skips them, Empty stands for them, and for
\* the records that did not get into the file.
FileImage(kept) ==
    [at |-> now, records |-> [s \in Slots |-> IF s \in kept THEN Record(s) ELSE Empty]]

\* No file, or one without the time at its beginning: what is read instead is
\* too strange a time for the records to count.
NoFile == [at |-> 0, records |-> [s \in Slots |-> Empty]]

AllSlots == CHOOSE n \in Slots : \A s \in Slots : s <= n

\* An acknowledged lease is in the file, and to its end.
Holds(image, m) ==
    /\ image.at # 0
    /\ \E s \in Slots : /\ image.records[s].mac = m
                        /\ image.records[s].nip = promise[m].nip
                        /\ image.at + image.records[s].expires >= promise[m].until

Acknowledged == {m \in Mac : promise[m].acked}
Lacking(image) == {m \in Acknowledged : ~IsStatic(m) /\ ~Holds(image, m)}

\* write_leases() does not tell its caller whether the file could be opened, and
\* does not look at the result of a write: "if the file gets truncated, we lose
\* some leases on restart".  The server goes on in any case.
SaveSucceeds ==
    /\ file' = FileImage(Slots)
    /\ unsaved' = {}
SaveFails ==
    /\ \/ UNCHANGED file
       \/ file' = NoFile
       \/ \E kept \in SUBSET Slots : file' = FileImage(kept)
    /\ unsaved' = Lacking(file')

\* Fault: the old file is kept after an ACK.
WriteAfterAckSkipped ==
    /\ LeasesWritten
    /\ UNCHANGED fileVars

\* After an ACK.
WriteAfterAck ==
    /\ LeasesWritten
    /\ SaveSucceeds \/ SaveFails
    /\ UNCHANGED <<next, passed, runs, forgotten>>

\* On SIGUSR1, and every auto_time seconds.
WriteOnSignal ==
    /\ pc = "select"
    /\ SaveSucceeds \/ SaveFails
    /\ UNCHANGED <<vars, next, passed, runs, forgotten>>

-----------------------------------------------------------------------------
Halt ==
    /\ pc' = "off" /\ client' = NoClient
    /\ addr' = 0 /\ oldest' = 0 /\ answered' = {}
    /\ leases' = [s \in Slots |-> Empty]
    /\ next' = 0 /\ passed' = 0
    /\ unsaved' = {}
    /\ UNCHANGED <<now, ghosts, runs>>

\* SIGTERM, which the main loop notices and which does not save the table, or
\* kill -9 while no lease is being acknowledged or saved.
Stop ==
    /\ pc \notin {"off", "ack", "write"}
    /\ Halt
    /\ forgotten' = forgotten \cup unsaved
    /\ UNCHANGED file

\* The process or the machine dies between an ACK and its save, or during a
\* save: the file is truncated first, then gets the time and the records one
\* by one, and may end after any of them.
Crash ==
    /\ pc \in {"ack", "write", "select"}
    /\ Halt
    /\ \/ /\ pc # "select"
          /\ forgotten' = forgotten \cup unsaved \cup {client.mac}
          /\ UNCHANGED file
       \/ /\ pc # "ack"
          /\ \/ file' = NoFile
             \/ \E count \in 0 .. AllSlots : file' = FileImage(1 .. count)
          /\ forgotten' = forgotten \cup Lacking(file')

TooOld == file.at # 0 /\ now - file.at > FileMaxAge

\* read_leases() as far as its loop.  A file that is too old is ignored, and so
\* is one that cannot be opened.
Start ==
    /\ pc = "off" /\ runs < MaxRuns
    /\ runs' = runs + 1
    /\ \/ /\ file.at # 0 /\ ~TooOld
          /\ pc' = "load" /\ next' = 1 /\ passed' = now - file.at
          /\ UNCHANGED forgotten
       \/ /\ file.at = 0
          /\ pc' = "select" /\ UNCHANGED <<next, passed, forgotten>>
       \/ /\ file.at # 0
          /\ pc' = "select" /\ UNCHANGED <<next, passed>>
          /\ forgotten' = forgotten \cup Acknowledged
    /\ UNCHANGED <<now, leases, request, ghosts, file, unsaved>>

\* Fault: a record of an address below the end of the pool is not read.
WantedBelowEnd(record) ==
    record.nip \in StartIp .. EndIp - 1 /\ record.expires - passed > 0

\* A record enters the table if it is in the pool and has time left; its MAC
\* goes to add_lease() as it is, also when it is all zero.
Wanted(record) == record.nip \in Pool /\ record.expires - passed > 0

\* Fault: the time that has passed is not taken off.
LoadRecordForgetsAge ==
    /\ pc = "load" /\ next \in Slots
    /\ next' = next + 1
    /\ LET record == file.records[next]
       IN  leases' = IF Wanted(record) THEN AddLease(record.mac, record.nip, record.expires)
                                       ELSE leases
    /\ UNCHANGED <<now, pc, request, ghosts, file, passed, runs, unsaved, forgotten>>

LoadRecord ==
    /\ pc = "load" /\ next \in Slots
    /\ next' = next + 1
    /\ LET record == file.records[next]
       IN  leases' = IF Wanted(record)
                       THEN AddLease(record.mac, record.nip, record.expires - passed)
                       ELSE leases
    /\ UNCHANGED <<now, pc, request, ghosts, file, passed, runs, unsaved, forgotten>>

\* "too many leases while loading" also ends the loop, but never happens: the
\* table has as many slots as the file can have records.
LoadEnds ==
    /\ pc = "load" /\ next \notin Slots
    /\ pc' = "select" /\ next' = 0 /\ passed' = 0
    /\ UNCHANGED <<now, leases, request, ghosts, file, runs, unsaved, forgotten>>

-----------------------------------------------------------------------------
RestartInit ==
    /\ Init
    /\ file = NoFile
    /\ next = 0 /\ passed = 0 /\ runs = 1 /\ unsaved = {} /\ forgotten = {}

\* A client that is told something else is a case of its own again.
StillTold(clients) == {m \in clients : promise'[m] = promise[m]}

Running ==
    /\ Receive \/ Search \/ EnterLease \/ Tick
    /\ unsaved' = StillTold(unsaved) /\ forgotten' = StillTold(forgotten)
    /\ UNCHANGED <<file, next, passed, runs>>

RestartNext ==
    \/ Running
    \/ WriteAfterAck \/ WriteOnSignal
    \/ Stop \/ Crash \/ Start \/ LoadRecord \/ LoadEnds

RestartSpec == RestartInit /\ [][RestartNext]_allVars

-----------------------------------------------------------------------------
\* A lease that was acknowledged outlives a stop and a new start of the server:
\* the client that renews it in time is acknowledged again.  Excepted are the
\* clients the file lacked when the server went off, because it died while it
\* acknowledged or saved or because its last save had failed (a save that
\* succeeds makes good for all that failed before), and the leases of a file
\* that could not be opened or was too old.  All the others keep theirs.
AckOutlivesRestart ==
    pc = "select" => \A m \in Acknowledged \ forgotten :
        Live(m) => BoundIp(m) = promise[m].nip

\* Nor is the address acknowledged to anybody else after the new start.
ExclusiveAfterRestart ==
    \A m, n \in Acknowledged \ forgotten :
        m # n /\ Live(m) /\ Live(n) => promise[m].nip # promise[n].nip

\* The deadline is the one on file, or later by the time the reading takes.
Loaded(record) ==
    \E s \in Slots : /\ leases[s].nip = record.nip
                     /\ leases[s].mac = record.mac
                     /\ leases[s].expires \in
                            file.at + record.expires .. now + record.expires - passed

\* read_leases() loses no client's lease and none of the time it had left,
\* whatever file a crash or an error in write_leases() has left.
ClientsLoaded ==
    pc = "load" => \A s \in Slots :
        s < next /\ Wanted(file.records[s]) /\ file.records[s].mac # ZeroMac
            => Loaded(file.records[s])
=============================================================================

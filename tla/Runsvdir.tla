------------------------------ MODULE Runsvdir ------------------------------
(***************************************************************************)
(* runsvdir (runsvdir.c): it keeps one runsv for each service that has an  *)
(* entry in a directory, the one to which the path svdir leads at present. *)
(* Meanwhile entries are made, removed and renamed, svdir is switched from *)
(* one directory to another, runsv processes end, and signals arrive.      *)
(*                                                                         *)
(* A service is identified by its inode; entries that are symbolic links   *)
(* may lead to it from several directories.  The kernel does not reuse the *)
(* inode while a runsv works in it.                                        *)
(*                                                                         *)
(* Of times only that matters: whether a directory was modified after the  *)
(* second that stat() told, and whether that second is still running.      *)
(***************************************************************************)
EXTENDS Naturals, FiniteSets

CONSTANTS
    Service,     \* services, by inode
    Dir, NoDir,  \* directories to which svdir may lead; svdir leads nowhere
    NoService,
    Contents,    \* what the directories may hold when runsvdir starts
    Pid,
    Options,     \* sets of "init", if runsvdir is process 1, and "s", for -s SCRIPT
    MaxUpsets    \* bound: changes of directories, signals and failures

ASSUME RunsvdirAssumption ==
    /\ NoDir \notin Dir /\ NoService \notin Service
    /\ Contents \subseteq [Dir -> SUBSET Service]
    /\ Pid \subseteq Nat \ {0}
    /\ Options \subseteq SUBSET {"init", "s"}
    /\ MaxUpsets \in Nat

VARIABLES
    pc,          \* where runsvdir is
    opt,         \* the options it was given
    listed, pid, \* sv: the services in the array, and .pid of each
    gone,        \* those with .isgone
    needRescan, due,   \* need_rescan; whether stampcheck has come
    s, last,     \* what stat() says, and last_ino, last_mtime
    cwd, todo,   \* the directory that is scanned, and what is still to be read
    sig,         \* bb_got_signal
    children,    \* the processes runsvdir has not waited for
    svdir, entries, fresh, \* where svdir leads; each directory's entries, and
                           \* whether it was modified in this second
    \* Not in the code:
    missed,      \* services that were not started, or whose runsv was waited
                 \* for by the wait for SCRIPT
    unseen,      \* services whose entry stat() failed for in the last scan
    strayed,     \* the directory last scanned is not the one that stat() saw
    moved,       \* made, removed or renamed since the scan began
    upsets       \* counts changes, signals and failures

table == <<listed, pid, gone>>
scan == <<cwd, todo, moved>>
timing == <<needRescan, due, s, last>>
files == <<svdir, entries, fresh>>
ghosts == <<missed, unseen, strayed>>
vars == <<pc, opt, table, timing, scan, sig, children, files, ghosts, upsets>>

NoStat == [dir |-> NoDir, same |-> FALSE, fresh |-> FALSE]
NoChild == [svc |-> NoService, stage |-> "none", termed |-> FALSE]
DeadChild == [NoChild EXCEPT !.stage = "dead"]

Alive(p) == children[p].stage \in {"starting", "running"}
Unused == {p \in Pid : children[p] = NoChild}
Dead == {p \in Pid : children[p].stage = "dead"}

Init ==
    /\ pc = "collect" /\ opt \in Options
    /\ listed = {} /\ pid = [x \in Service |-> 0] /\ gone = {}
    /\ needRescan = TRUE /\ due = TRUE /\ s = NoStat /\ last = NoStat
    /\ cwd = NoDir /\ todo = {} /\ moved = {}
    /\ sig = "none"
    /\ children = [p \in Pid |-> NoChild]
    /\ svdir \in Dir /\ entries \in Contents /\ fresh \in [Dir -> BOOLEAN]
    /\ missed = {} /\ unseen = {} /\ strayed = FALSE
    /\ upsets = 0

Upset == upsets < MaxUpsets /\ upsets' = upsets + 1

-----------------------------------------------------------------------------
(* The loop.                                                               *)

\* Fault: a death is noted in the array only.
CollectQuietly ==
    /\ pc = "collect"
    /\ \E p \in Dead :
        /\ children' = [children EXCEPT ![p] = NoChild]
        /\ pid' = [x \in Service |-> IF pid[x] = p THEN 0 ELSE pid[x]]
    /\ UNCHANGED <<pc, opt, listed, gone, timing, scan, sig, files, ghosts, upsets>>

\* wait_any_nohang() returns a child, whose services are marked.
Collect ==
    /\ pc = "collect"
    /\ \E p \in Dead :
        /\ children' = [children EXCEPT ![p] = NoChild]
        /\ pid' = [x \in Service |-> IF pid[x] = p THEN 0 ELSE pid[x]]
        /\ needRescan' = (needRescan \/ \E x \in listed : pid[x] = p)
    /\ UNCHANGED <<pc, opt, listed, gone, due, s, last, scan, sig, files, ghosts, upsets>>

\* The directory is looked at once a second.  stat() fails if it is not there.
Modified == needRescan \/ last.dir # svdir \/ ~last.same

Check ==
    /\ pc = "collect" /\ Dead = {}
    /\ due' = FALSE
    /\ IF due /\ svdir # NoDir /\ Modified
         THEN pc' = "enter" /\ s' = [dir |-> svdir, same |-> TRUE, fresh |-> fresh[svdir]]
         ELSE pc' = "sleep" /\ UNCHANGED s
    /\ UNCHANGED <<opt, table, needRescan, last, scan, sig, children, files, ghosts, upsets>>

\* chdir(), which may follow another link than stat() did.
Enter ==
    /\ pc = "enter"
    /\ s' = NoStat
    /\ IF svdir = NoDir
         THEN pc' = "sleep" /\ UNCHANGED <<last, cwd, strayed>>
         ELSE pc' = "settle" /\ last' = s /\ cwd' = svdir /\ strayed' = (svdir # s.dir)
    /\ UNCHANGED <<opt, table, needRescan, due, todo, moved, sig, children, files, missed,
                   unseen, upsets>>

\* Fault: the scan begins at once.
OpenDirAtOnce ==
    /\ pc = "settle"
    /\ pc' = "scan" /\ todo' = entries[cwd] /\ gone' = listed /\ unseen' = {}
    /\ UNCHANGED <<opt, listed, pid, timing, cwd, moved, sig, children, files, missed, strayed,
                   upsets>>

\* do_rescan() begins when the second of the modification is over.
OpenDir ==
    /\ pc = "settle" /\ ~last.fresh
    /\ pc' = "scan" /\ todo' = entries[cwd] /\ gone' = listed /\ unseen' = {}
    /\ UNCHANGED <<opt, listed, pid, timing, cwd, moved, sig, children, files, missed, strayed,
                   upsets>>

ScanEnds == pc' = "sleep" /\ cwd' = NoDir /\ todo' = {} /\ moved' = {}

\* opendir() or readdir() fails: "need to rescan again soon".
ScanFails ==
    /\ pc \in {"settle", "scan"} /\ ~last.fresh /\ Upset
    /\ ScanEnds /\ needRescan' = TRUE
    /\ UNCHANGED <<opt, table, due, s, last, sig, children, files, ghosts>>

\* runsv(): a new process, or none if there is a signal or vfork() fails.
Start(x) ==
    /\ sig = "none"
    /\ \E p \in Unused :
        /\ children' = [children EXCEPT ![p] = [svc |-> x, stage |-> "starting", termed |-> FALSE]]
        /\ pid' = [pid EXCEPT ![x] = p]
    /\ missed' = missed \ {x}
    /\ UNCHANGED upsets

DoNotStart(x) ==
    /\ \/ (sig # "none" \/ Unused = {}) /\ UNCHANGED upsets
       \/ Upset
    /\ pid' = [pid EXCEPT ![x] = 0]
    /\ missed' = missed \cup {x}
    /\ UNCHANGED children

\* Fault: a service that is started again keeps .isgone.
SeeStaysGone(x) ==
    /\ pc = "scan" /\ x \in todo
    /\ todo' = todo \ {x}
    /\ listed' = listed \cup {x}
    /\ IF pid[x] # 0 THEN gone' = gone \ {x} /\ UNCHANGED <<children, pid, missed, upsets>>
       ELSE (Start(x) \/ DoNotStart(x)) /\ UNCHANGED gone
    /\ UNCHANGED <<pc, opt, timing, cwd, moved, sig, files, unseen, strayed>>

\* An entry is read, and looked up by its inode.
See(x) ==
    /\ pc = "scan" /\ x \in todo
    /\ todo' = todo \ {x}
    /\ listed' = listed \cup {x} /\ gone' = gone \ {x}
    /\ IF pid[x] # 0 THEN UNCHANGED <<children, pid, missed, upsets>>
       ELSE Start(x) \/ DoNotStart(x)
    /\ UNCHANGED <<pc, opt, timing, cwd, moved, sig, files, unseen, strayed>>

\* stat() fails for an entry that is there, as when a link leads nowhere for a
\* moment: it is passed over, so that its service is taken for gone.
StatFails(x) ==
    /\ pc = "scan" /\ x \in todo /\ Upset
    /\ todo' = todo \ {x}
    /\ unseen' = unseen \cup {x}
    /\ UNCHANGED <<pc, opt, table, timing, cwd, moved, sig, children, files, missed, strayed>>

\* SIGTERM to the processes ps; one that has died does not notice.
Terminated(ps) ==
    [p \in Pid |-> IF p \in ps /\ Alive(p) THEN [children[p] EXCEPT !.termed = TRUE]
                   ELSE children[p]]

\* Fault: a service that has gone is dropped, and its runsv goes on.
SweepSilently ==
    /\ pc = "scan" /\ todo = {}
    /\ listed' = listed \ gone /\ missed' = missed \ gone
    /\ pid' = [x \in Service |-> IF x \in gone THEN 0 ELSE pid[x]]
    /\ gone' = {}
    /\ needRescan' = FALSE /\ ScanEnds
    /\ UNCHANGED <<children, opt, due, s, last, sig, files, unseen, strayed, upsets>>

\* The services that were not seen are dropped and their runsv terminated.
Sweep ==
    /\ pc = "scan" /\ todo = {}
    /\ children' = Terminated({pid[x] : x \in gone})
    /\ listed' = listed \ gone /\ missed' = missed \ gone
    /\ pid' = [x \in Service |-> IF x \in gone THEN 0 ELSE pid[x]]
    /\ gone' = {}
    /\ needRescan' = FALSE /\ ScanEnds
    /\ UNCHANGED <<opt, due, s, last, sig, files, unseen, strayed, upsets>>

\* sleep(), or poll(), lasts for a second at least unless a signal ends it.
Wake ==
    /\ pc = "sleep"
    /\ IF sig = "none"
         THEN pc' = "collect" /\ due' = TRUE
         ELSE pc' = (IF "s" \in opt THEN "script" ELSE "hangup") /\ due' \in BOOLEAN
    /\ UNCHANGED <<opt, table, needRescan, s, last, scan, sig, children, files, ghosts, upsets>>

\* "while (wait(NULL) != pid)": other children are waited for, and forgotten.
WaitForScript ==
    /\ pc = "script"
    /\ \E p \in Dead :
        /\ children' = [children EXCEPT ![p] = NoChild]
        /\ missed' = missed \cup {x \in listed : pid[x] = p}
    /\ UNCHANGED <<pc, opt, table, timing, scan, sig, files, unseen, strayed, upsets>>

ScriptEnds ==
    /\ pc = "script"
    /\ pc' = "hangup"
    /\ UNCHANGED <<opt, table, timing, scan, sig, children, files, ghosts, upsets>>

\* Fault: those that were not seen when a scan failed are left out.
HangupSeen ==
    /\ pc = "hangup"
    /\ pc' = "leave"
    /\ children' = IF sig = "HUP" THEN Terminated({pid[x] : x \in listed \ gone}) ELSE children
    /\ UNCHANGED <<opt, table, timing, scan, sig, files, ghosts, upsets>>

\* SIGHUP is passed on to every runsv.
Hangup ==
    /\ pc = "hangup"
    /\ pc' = "leave"
    /\ children' = IF sig = "HUP" THEN Terminated({pid[x] : x \in listed}) ELSE children
    /\ UNCHANGED <<opt, table, timing, scan, sig, files, ghosts, upsets>>

\* "Exit unless we are init".
Leave ==
    /\ pc = "leave"
    /\ IF "init" \in opt THEN pc' = "collect" /\ sig' = "none"
       ELSE pc' = "exited" /\ UNCHANGED sig
    /\ UNCHANGED <<opt, table, timing, scan, children, files, ghosts, upsets>>

-----------------------------------------------------------------------------
(* Time, signals, and those who change the directories.                    *)

\* time() moves on.
Second ==
    /\ last.fresh \/ \E d \in Dir : fresh[d]
    /\ fresh' = [d \in Dir |-> FALSE]
    /\ s' = [s EXCEPT !.fresh = FALSE] /\ last' = [last EXCEPT !.fresh = FALSE]
    /\ UNCHANGED <<pc, opt, table, needRescan, due, scan, sig, children, svdir, entries,
                   ghosts, upsets>>

\* record_signo(): the last one counts.
GetSignal(g) ==
    /\ pc # "exited" /\ Upset
    /\ sig' = g
    /\ UNCHANGED <<pc, opt, table, timing, scan, children, files, ghosts>>

\* st_mtime of d becomes the present second.
Stale(stat, d) == [stat EXCEPT !.same = @ /\ (stat.dir # d \/ stat.fresh)]
Touch(d) ==
    /\ pc # "exited" /\ Upset
    /\ fresh' = [fresh EXCEPT ![d] = TRUE]
    /\ s' = Stale(s, d) /\ last' = Stale(last, d)

Scanning(d) == pc = "scan" /\ cwd = d
Moves(d, x) == moved' = IF Scanning(d) THEN moved \cup {x} ELSE moved

\* A readdir() that is under way may return a new entry, or not.
Make(d, x) ==
    /\ x \notin entries[d] /\ Touch(d)
    /\ entries' = [entries EXCEPT ![d] = @ \cup {x}]
    /\ \E t \in {todo, IF Scanning(d) THEN todo \cup {x} ELSE todo} : todo' = t
    /\ Moves(d, x)
    /\ UNCHANGED <<pc, opt, table, needRescan, due, cwd, sig, children, svdir, ghosts>>

\* If it returns an entry that was removed, stat() fails.
Remove(d, x) ==
    /\ x \in entries[d] /\ Touch(d)
    /\ entries' = [entries EXCEPT ![d] = @ \ {x}]
    /\ todo' = IF Scanning(d) THEN todo \ {x} ELSE todo
    /\ Moves(d, x)
    /\ UNCHANGED <<pc, opt, table, needRescan, due, cwd, sig, children, svdir, ghosts>>

\* It may return both names, or neither.
Rename(d, x) ==
    /\ x \in entries[d] /\ Touch(d)
    /\ \E t \in IF Scanning(d) THEN {todo \ {x}, todo \cup {x}} ELSE {todo} : todo' = t
    /\ Moves(d, x)
    /\ UNCHANGED <<pc, opt, table, needRescan, due, cwd, sig, children, svdir, entries,
                   ghosts>>

Switch ==
    /\ pc # "exited" /\ Upset
    /\ svdir' \in (Dir \cup {NoDir}) \ {svdir}
    /\ UNCHANGED <<pc, opt, table, timing, scan, sig, children, entries, fresh, ghosts>>

-----------------------------------------------------------------------------
(* runsv.                                                                  *)

Runsv(p, child) ==
    /\ children' = [children EXCEPT ![p] = child]
    /\ UNCHANGED <<pc, opt, table, timing, scan, sig, files, ghosts, upsets>>

Locked(x) == \E q \in Pid : children[q].stage = "running" /\ children[q].svc = x

\* supervise/lock is taken, or it is held by another runsv: then this one ends.
Lock(p) ==
    /\ children[p].stage = "starting"
    /\ Runsv(p, IF Locked(children[p].svc) THEN DeadChild
                ELSE [children[p] EXCEPT !.stage = "running"])

\* It may be killed, and told to exit it does.
Die(p) == children[p].stage = "running" /\ Runsv(p, DeadChild)
Exit(p) == Alive(p) /\ children[p].termed /\ Runsv(p, DeadChild)

-----------------------------------------------------------------------------
Loop == \/ Collect \/ Check \/ Enter \/ OpenDir \/ ScanFails
        \/ \E x \in Service : See(x) \/ StatFails(x)
        \/ Sweep \/ Wake \/ WaitForScript \/ ScriptEnds \/ Hangup \/ Leave

Change == \/ \E d \in Dir, x \in Service : Make(d, x) \/ Remove(d, x) \/ Rename(d, x)
          \/ Switch

Next == \/ Loop \/ Change
        \/ Second \/ \E g \in {"TERM", "HUP"} : GetSignal(g)
        \/ \E p \in Pid : Lock(p) \/ Die(p) \/ Exit(p)

\* runsvdir runs, time passes, and runsv starts and exits when it is told to.
Fairness ==
    /\ WF_vars(Loop) /\ WF_vars(Second)
    /\ \A p \in Pid : WF_vars(Lock(p)) /\ WF_vars(Exit(p))

Spec == Init /\ [][Next]_vars
FairSpec == Spec /\ Fairness

-----------------------------------------------------------------------------
Stat == [dir : Dir \cup {NoDir}, same : BOOLEAN, fresh : BOOLEAN]
Child == [svc : Service \cup {NoService}, stage : {"none", "starting", "running", "dead"},
          termed : BOOLEAN]

RunsvdirTypeOK ==
    /\ pc \in {"collect", "enter", "settle", "scan", "sleep", "script", "hangup", "leave",
               "exited"}
    /\ opt \in Options
    /\ listed \subseteq Service /\ gone \subseteq listed
    /\ pid \in [Service -> Pid \cup {0}]
    /\ \A x \in Service : x \notin listed => pid[x] = 0
    /\ needRescan \in BOOLEAN /\ due \in BOOLEAN
    /\ s \in Stat /\ last \in Stat
    /\ cwd \in Dir \cup {NoDir} /\ todo \subseteq Service /\ moved \subseteq Service
    /\ pc \in {"settle", "scan"} <=> cwd # NoDir
    /\ sig \in {"none", "TERM", "HUP"}
    /\ children \in [Pid -> Child]
    /\ \A p \in Pid : Alive(p) => children[p].svc \in Service
    /\ svdir \in Dir \cup {NoDir}
    /\ entries \in [Dir -> SUBSET Service] /\ fresh \in [Dir -> BOOLEAN]
    /\ missed \subseteq listed /\ unseen \subseteq Service /\ strayed \in BOOLEAN
    /\ upsets \in 0 .. MaxUpsets

\* runsvdir loses sight of no runsv: one that it has not told to stop is the one
\* in the array for its service.  So a service has at most one of them, whatever
\* is renamed, waited for elsewhere, or started while an earlier one still ends.
EachIsKnown ==
    \A p \in Pid : Alive(p) /\ ~children[p].termed =>
        children[p].svc \in listed /\ pid[children[p].svc] = p

\* When SIGHUP has been handled every runsv has been told to stop: no start, scan
\* or death of before may have left one out.
HangupStopsAll ==
    [][pc = "hangup" /\ pc' = "leave" /\ sig = "HUP" =>
           \A p \in Pid : Alive(p) => children'[p].termed]_vars

\* A scan stops no runsv whose entry was in the directory all the time; unless
\* stat() failed for that entry, or the process id was that of a runsv that only
\* the wait for SCRIPT saw end.
SparesWhatStays ==
    [][\A p \in Pid :
           pc = "scan" /\ Alive(p) /\ ~children[p].termed /\ children'[p].termed =>
               \/ children[p].svc \notin entries[cwd] \/ children[p].svc \in moved \cup unseen
               \/ \E x \in missed : pid[x] = p]_vars

\* stat() and chdir() saw different directories, and then svdir was switched back.
Deceived == strayed /\ last.dir = svdir

Quiet == sig = "none" /\ pc # "exited"
HasEntry(x) == svdir # NoDir /\ x \in entries[svdir]

\* "Start a runsv process for each subdirectory. If it exits, restart it": unless
\* starting it failed, stat() failed for its entry in the last scan (and until
\* there is another, nothing is done about it), its death was seen by the wait
\* for SCRIPT, or svdir was switched to and fro.
KeptSupervised ==
    \A x \in Service :
        HasEntry(x) ~>
            \/ \E p \in Pid : /\ children[p].stage = "running" /\ children[p].svc = x
                              /\ ~children[p].termed
            \/ ~HasEntry(x) \/ x \in missed \cup unseen \/ Deceived \/ ~Quiet

\* A service whose directory "must have been removed" is told to stop.
RemovedAreStopped ==
    \A x \in Service :
        svdir # NoDir /\ ~HasEntry(x) ~>
            \/ ~\E p \in Pid : Alive(p) /\ children[p].svc = x /\ ~children[p].termed
            \/ HasEntry(x) \/ svdir = NoDir \/ Deceived \/ ~Quiet
=============================================================================

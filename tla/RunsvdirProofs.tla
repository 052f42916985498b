--------------------------- MODULE RunsvdirProofs ---------------------------
(***************************************************************************)
(* Proofs about Runsvdir, for any number of services, directories and      *)
(* processes, with and without -s SCRIPT, as process 1 or not: runsvdir    *)
(* knows each runsv it has not told to stop, and stops the right ones.     *)
(*                                                                         *)
(* The invariant says of the array what each process id in it is worth     *)
(* (Owned), and of a scan which services may still be taken for gone that  *)
(* are there (Seen).                                                       *)
(***************************************************************************)
EXTENDS Runsvdir, TLAPS

\* A process id in the array is that of a child, and no other service's; but for
\* services whose runsv was waited for by the wait for SCRIPT.
Owned ==
    \A x \in Service : pid[x] # 0 /\ x \notin missed =>
        /\ children[pid[x]] # NoChild
        /\ Alive(pid[x]) => children[pid[x]].svc = x

\* An entry that a scan has not come to is still to be read, or was moved, or
\* stat() failed for it.
Seen == pc = "scan" => \A x \in gone : x \in entries[cwd] => x \in todo \/ x \in moved \cup unseen

IInv == RunsvdirTypeOK /\ EachIsKnown /\ Owned /\ Seen

ArraysType ==
    /\ listed \subseteq Service /\ gone \subseteq listed
    /\ pid \in [Service -> Pid \cup {0}]
    /\ \A x \in Service : x \notin listed => pid[x] = 0
    /\ missed \subseteq listed
ChildrenType ==
    /\ children \in [Pid -> Child]
    /\ \A p \in Pid : Alive(p) => children[p].svc \in Service
LoopType ==
    /\ pc \in {"collect", "enter", "settle", "scan", "sleep", "script", "hangup", "leave",
               "exited"}
    /\ opt \in Options
    /\ needRescan \in BOOLEAN /\ due \in BOOLEAN
    /\ cwd \in Dir \cup {NoDir} /\ todo \subseteq Service /\ moved \subseteq Service
    /\ pc \in {"settle", "scan"} <=> cwd # NoDir
    /\ sig \in {"none", "TERM", "HUP"}
FilesType ==
    /\ s \in Stat /\ last \in Stat
    /\ svdir \in Dir \cup {NoDir}
    /\ entries \in [Dir -> SUBSET Service] /\ fresh \in [Dir -> BOOLEAN]
    /\ unseen \subseteq Service /\ strayed \in BOOLEAN
    /\ upsets \in 0 .. MaxUpsets

LEMMA TypeParts ==
    RunsvdirTypeOK <=> ArraysType /\ ChildrenType /\ LoopType /\ FilesType
BY DEF RunsvdirTypeOK, ArraysType, ChildrenType, LoopType, FilesType

LEMMA TypePartsNext ==
    ArraysType' /\ ChildrenType' /\ LoopType' /\ FilesType' => RunsvdirTypeOK'
BY DEF RunsvdirTypeOK, ArraysType, ChildrenType, LoopType, FilesType

LEMMA NoChildType ==
    /\ NoChild \in Child /\ DeadChild \in Child /\ DeadChild # NoChild
    /\ NoChild.stage = "none" /\ DeadChild.stage = "dead"
BY DEF NoChild, DeadChild, Child

-----------------------------------------------------------------------------
(* Types.                                                                  *)

LEMMA InitTypes == Init => IInv
<1> SUFFICES ASSUME Init PROVE IInv
  OBVIOUS
<1>1. ArraysType BY DEF Init, ArraysType
<1>2. \A p \in Pid : ~Alive(p)
  BY NoChildType DEF Init, Alive
<1>3. ChildrenType BY <1>2, NoChildType DEF Init, ChildrenType
<1>4. LoopType BY DEF Init, LoopType
<1>5. NoStat \in Stat BY DEF NoStat, Stat
<1>6. FilesType
  <2>1. /\ s \in Stat /\ last \in Stat /\ strayed \in BOOLEAN /\ fresh \in [Dir -> BOOLEAN]
        /\ unseen \subseteq Service
    BY <1>5 DEF Init
  <2>2. svdir \in Dir \cup {NoDir} /\ entries \in [Dir -> SUBSET Service]
    BY RunsvdirAssumption DEF Init
  <2>3. upsets \in 0 .. MaxUpsets
    BY RunsvdirAssumption DEF Init
  <2> QED BY <2>1, <2>2, <2>3 DEF FilesType
<1>7. EachIsKnown BY <1>2 DEF EachIsKnown
<1>8. Owned BY DEF Init, Owned
<1>9. Seen BY DEF Init, Seen
<1> QED BY <1>1, <1>3, <1>4, <1>6, <1>7, <1>8, <1>9, TypeParts DEF IInv

LEMMA StaleType ==
    ASSUME NEW t \in Stat, NEW d \in Dir
    PROVE  Stale(t, d) \in Stat
BY DEF Stale, Stat

LEMMA TouchTypes ==
    ASSUME FilesType, NEW d \in Dir, Touch(d)
    PROVE  /\ s' \in Stat /\ last' \in Stat /\ fresh' \in [Dir -> BOOLEAN]
           /\ upsets' \in 0 .. MaxUpsets
<1>1. s' \in Stat /\ last' \in Stat
  BY StaleType DEF FilesType, Touch
<1>2. fresh' \in [Dir -> BOOLEAN]
  BY DEF FilesType, Touch
<1>3. upsets' \in 0 .. MaxUpsets
  BY RunsvdirAssumption DEF FilesType, Touch, Upset
<1> QED BY <1>1, <1>2, <1>3

\* runsv() for a service that has none.
LEMMA StartTypes ==
    ASSUME RunsvdirTypeOK, NEW x \in Service, Start(x) \/ DoNotStart(x),
           listed' = listed \cup {x}, gone' = gone \ {x}
    PROVE  ArraysType' /\ ChildrenType' /\ upsets' \in 0 .. MaxUpsets
<1> USE TypeParts
<1>1. CASE Start(x)
  <2>1. PICK p \in Unused :
          /\ children' = [children EXCEPT ![p] =
                            [svc |-> x, stage |-> "starting", termed |-> FALSE]]
          /\ pid' = [pid EXCEPT ![x] = p]
    BY <1>1 DEF Start
  <2>2. p \in Pid BY DEF Unused
  <2>3. ArraysType' BY <1>1, <2>1, <2>2 DEF Start, ArraysType
  <2>4. [svc |-> x, stage |-> "starting", termed |-> FALSE] \in Child
    BY DEF Child
  <2>5. ChildrenType' BY <2>1, <2>2, <2>4 DEF ChildrenType, Alive
  <2>6. upsets' \in 0 .. MaxUpsets BY <1>1 DEF Start, FilesType
  <2> QED BY <2>3, <2>5, <2>6
<1>2. CASE DoNotStart(x)
  <2>1. ArraysType' BY <1>2 DEF DoNotStart, ArraysType
  <2>2. ChildrenType' BY <1>2 DEF DoNotStart, ChildrenType, Alive
  <2>3. upsets' \in 0 .. MaxUpsets
    BY <1>2, RunsvdirAssumption DEF DoNotStart, Upset, FilesType
  <2> QED BY <2>1, <2>2, <2>3
<1> QED BY <1>1, <1>2

\* Signals change neither which children live nor what they are.
LEMMA TerminatedKeeps ==
    ASSUME ChildrenType, NEW ps, children' = Terminated(ps)
    PROVE  /\ ChildrenType'
           /\ \A p \in Pid :
                  /\ Alive(p)' <=> Alive(p)
                  /\ children'[p].svc = children[p].svc
                  /\ children'[p].termed <=> children[p].termed \/ (p \in ps /\ Alive(p))
                  /\ children[p] # NoChild => children'[p] # NoChild
<1>1. ASSUME NEW p \in Pid
      PROVE  /\ children'[p] \in Child
             /\ children'[p].stage = children[p].stage
             /\ children'[p].svc = children[p].svc
             /\ children'[p].termed <=> children[p].termed \/ (p \in ps /\ Alive(p))
  <2>1. children[p] \in Child BY DEF ChildrenType
  <2>2. CASE p \in ps /\ Alive(p)
    BY <2>1, <2>2 DEF Terminated, Child
  <2>3. CASE ~(p \in ps /\ Alive(p))
    BY <2>1, <2>3 DEF Terminated, Child
  <2> QED BY <2>2, <2>3
<1>2. children' \in [Pid -> Child] BY <1>1 DEF Terminated
<1>3. \A p \in Pid : Alive(p)' <=> Alive(p) BY <1>1 DEF Alive
<1>4. ChildrenType' BY <1>1, <1>2, <1>3 DEF ChildrenType
<1>5. ASSUME NEW p \in Pid, children[p] # NoChild PROVE children'[p] # NoChild
  <2>1. CASE Alive(p)
    BY <1>3, <2>1, NoChildType DEF Alive
  <2>2. CASE ~Alive(p)
    BY <1>5, <2>2 DEF Terminated
  <2> QED BY <2>1, <2>2
<1> QED BY <1>1, <1>3, <1>4, <1>5

-----------------------------------------------------------------------------
(* The steps.                                                              *)

\* Steps that leave the array and the children alone.
LEMMA SameTable ==
    ASSUME IInv, UNCHANGED <<listed, pid, missed, children>>
    PROVE  /\ EachIsKnown' /\ Owned' /\ ChildrenType'
           /\ gone' \subseteq listed => ArraysType'
<1> USE TypeParts
<1>1. EachIsKnown' BY DEF IInv, EachIsKnown, Alive
<1>2. Owned' BY DEF IInv, Owned, Alive
<1>3. ChildrenType' BY DEF IInv, ChildrenType, Alive
<1>4. gone' \subseteq listed => ArraysType' BY DEF IInv, ArraysType
<1> QED BY <1>1, <1>2, <1>3, <1>4

LEMMA CollectKeeps == IInv /\ Collect => IInv'
<1> SUFFICES ASSUME IInv, Collect PROVE IInv'
  OBVIOUS
<1> USE TypeParts, TypePartsNext DEF IInv
<1>1. PICK p \in Dead :
        /\ children' = [children EXCEPT ![p] = NoChild]
        /\ pid' = [x \in Service |-> IF pid[x] = p THEN 0 ELSE pid[x]]
        /\ needRescan' = (needRescan \/ \E x \in listed : pid[x] = p)
  BY DEF Collect
<1>2. p \in Pid /\ children[p].stage = "dead" /\ ~Alive(p) BY DEF Dead, Alive
<1>3. UNCHANGED <<listed, gone, missed, unseen, pc, cwd, todo, moved, entries>>
  BY DEF Collect, ghosts, scan, files
<1>4. \A q \in Pid : IF q = p THEN children'[q] = NoChild ELSE children'[q] = children[q]
  BY <1>1, <1>2 DEF ChildrenType
<1>5. \A q \in Pid : Alive(q)' => q # p /\ Alive(q)
  BY <1>4, NoChildType DEF Alive
<1>6. ArraysType' BY <1>1, <1>3 DEF ArraysType
<1>7. ChildrenType'
  BY <1>1, <1>2, <1>4, <1>5, NoChildType DEF ChildrenType
<1>8. LoopType' BY <1>1 DEF Collect, LoopType, scan
<1>9. FilesType' BY DEF Collect, FilesType, files, ghosts
<1>10. EachIsKnown' BY <1>1, <1>3, <1>4, <1>5, <1>7 DEF EachIsKnown, ChildrenType
<1>11. Owned'
  <2> SUFFICES ASSUME NEW x \in Service, pid'[x] # 0, x \notin missed
               PROVE  children'[pid'[x]] # NoChild
                      /\ (Alive(pid[x])' => children'[pid[x]].svc = x)
                      /\ pid'[x] = pid[x]
    BY <1>3 DEF Owned, Alive
  <2>1. pid'[x] = pid[x] /\ pid[x] # p BY <1>1
  <2>2. pid[x] \in Pid BY <2>1 DEF ArraysType
  <2>3. children'[pid[x]] = children[pid[x]] BY <1>4, <2>1, <2>2
  <2> QED BY <2>1, <2>2, <2>3, <1>5 DEF Owned, Alive
<1>12. Seen' BY <1>3 DEF Seen
<1> QED BY <1>6, <1>7, <1>8, <1>9, <1>10, <1>11, <1>12

LEMMA SeeKeeps == ASSUME IInv, NEW x \in Service, See(x) PROVE IInv'
<1> USE TypeParts, TypePartsNext DEF IInv
<1>1. /\ listed' = listed \cup {x} /\ gone' = gone \ {x} /\ todo' = todo \ {x}
      /\ UNCHANGED <<pc, opt, needRescan, due, s, last, cwd, moved, sig, svdir, entries,
                     fresh, unseen, strayed>>
  BY DEF See, timing, files
<1>2. LoopType' BY <1>1 DEF LoopType
<1>3. Seen' BY <1>1 DEF Seen
<1>4. CASE pid[x] # 0
  <2>1. UNCHANGED <<children, pid, missed, upsets>> BY <1>4 DEF See
  <2>2. x \in listed BY <1>4 DEF ArraysType
  <2>3. UNCHANGED listed BY <1>1, <2>2
  <2>4. gone' \subseteq listed BY <1>1 DEF ArraysType
  <2>5. FilesType' BY <1>1, <2>1 DEF FilesType
  <2> QED BY <1>2, <1>3, <2>1, <2>3, <2>4, <2>5, SameTable
<1>5. CASE pid[x] = 0
  <2>1. Start(x) \/ DoNotStart(x) BY <1>5 DEF See
  <2>2. ArraysType' /\ ChildrenType' /\ upsets' \in 0 .. MaxUpsets
    BY <1>1, <2>1, StartTypes
  <2>3. FilesType' BY <1>1, <2>2 DEF FilesType
  <2>4. \A p \in Pid : Alive(p) /\ ~children[p].termed => children[p].svc # x
    BY <1>5, RunsvdirAssumption DEF EachIsKnown
  <2>5. CASE Start(x)
    <3>1. PICK p \in Unused :
            /\ children' = [children EXCEPT ![p] =
                              [svc |-> x, stage |-> "starting", termed |-> FALSE]]
            /\ pid' = [pid EXCEPT ![x] = p]
      BY <2>5 DEF Start
    <3>2. p \in Pid /\ children[p] = NoChild /\ ~Alive(p)
      BY NoChildType DEF Unused, Alive
    <3>3. missed' = missed \ {x} BY <2>5 DEF Start
    <3>4. children'[p] = [svc |-> x, stage |-> "starting", termed |-> FALSE]
      BY <3>1, <3>2 DEF ChildrenType
    <3>5. \A q \in Pid \ {p} : children'[q] = children[q]
      BY <3>1, <3>2 DEF ChildrenType
    <3>6. pid'[x] = p /\ \A y \in Service \ {x} : pid'[y] = pid[y]
      BY <3>1 DEF ArraysType
    <3>7. EachIsKnown'
      <4> SUFFICES ASSUME NEW q \in Pid, Alive(q)', ~children'[q].termed
                   PROVE  children'[q].svc \in listed' /\ pid'[children'[q].svc] = q
        BY DEF EachIsKnown
      <4>1. CASE q = p BY <4>1, <3>4, <3>6, <1>1
      <4>2. CASE q # p
        <5>1. children'[q] = children[q] /\ Alive(q) BY <4>2, <3>5 DEF Alive
        <5>2. children[q].svc \in Service \ {x} BY <2>4, <5>1 DEF ChildrenType
        <5> QED BY <5>1, <5>2, <3>6, <1>1 DEF EachIsKnown
      <4> QED BY <4>1, <4>2
    <3>8. Owned'
      <4> SUFFICES ASSUME NEW y \in Service, pid'[y] # 0, y \notin missed'
                   PROVE  children'[pid'[y]] # NoChild
                          /\ (children'[pid'[y]].stage \in {"starting", "running"}
                                => children'[pid'[y]].svc = y)
        BY DEF Owned, Alive
      <4>1. CASE y = x
        <5>1. children'[pid'[y]] = [svc |-> x, stage |-> "starting", termed |-> FALSE]
          BY <4>1, <3>4, <3>6
        <5>2. [svc |-> x, stage |-> "starting", termed |-> FALSE] # NoChild
          BY DEF NoChild
        <5> QED BY <4>1, <5>1, <5>2
      <4>2. CASE y # x
        <5>1. pid'[y] = pid[y] /\ y \notin missed BY <4>2, <3>3, <3>6
        <5>2. pid[y] \in Pid BY <5>1 DEF ArraysType
        <5>3. pid[y] # p BY <5>1, <3>2 DEF Owned
        <5>4. children'[pid'[y]] = children[pid[y]] BY <5>1, <5>2, <5>3, <3>5
        <5> QED BY <5>1, <5>4 DEF Owned, Alive
      <4> QED BY <4>1, <4>2
    <3> QED BY <1>2, <1>3, <2>2, <2>3, <3>7, <3>8
  <2>6. CASE DoNotStart(x)
    <3>1. children' = children /\ missed' = missed \cup {x} /\ pid' = [pid EXCEPT ![x] = 0]
      BY <2>6 DEF DoNotStart
    <3>2. pid' = pid BY <1>5, <3>1 DEF ArraysType
    <3>3. EachIsKnown' BY <3>1, <3>2, <1>1 DEF EachIsKnown, Alive
    <3>4. Owned' BY <3>1, <3>2 DEF Owned, Alive
    <3> QED BY <1>2, <1>3, <2>2, <2>3, <3>3, <3>4
  <2> QED BY <2>1, <2>5, <2>6
<1> QED BY <1>4, <1>5

LEMMA StatFailsKeeps == ASSUME IInv, NEW x \in Service, StatFails(x) PROVE IInv'
<1> USE TypeParts, TypePartsNext DEF IInv
<1>1. /\ todo' = todo \ {x} /\ unseen' = unseen \cup {x}
      /\ UNCHANGED <<pc, opt, listed, pid, gone, missed, children, needRescan, due, s, last, cwd,
                     moved, sig, svdir, entries, fresh, strayed>>
  BY DEF StatFails, table, timing, files
<1>2. EachIsKnown' /\ Owned' /\ ChildrenType' /\ ArraysType'
  BY <1>1, SameTable DEF ArraysType
<1>3. FilesType'
  BY <1>1, RunsvdirAssumption DEF StatFails, FilesType, Upset
<1>4. LoopType' /\ Seen'
  BY <1>1 DEF LoopType, Seen
<1> QED BY <1>2, <1>3, <1>4

\* A signal to some children, the array aside.
LEMMA TerminatedOwned ==
    ASSUME IInv, NEW ps, children' = Terminated(ps),
           \A x \in Service : pid'[x] # 0 => pid'[x] = pid[x] /\ (x \notin missed' => x \notin missed)
    PROVE  Owned'
<1> SUFFICES ASSUME NEW x \in Service, pid'[x] # 0, x \notin missed'
             PROVE  children'[pid'[x]] # NoChild
                    /\ (children'[pid'[x]].stage \in {"starting", "running"}
                          => children'[pid'[x]].svc = x)
  BY DEF Owned, Alive
<1>1. pid'[x] = pid[x] /\ pid[x] # 0 /\ x \notin missed
  OBVIOUS
<1>2. pid[x] \in Pid BY <1>1, TypeParts DEF IInv, ArraysType
<1>3. ChildrenType BY TypeParts DEF IInv
<1>4. /\ Alive(pid[x])' <=> Alive(pid[x])
      /\ children'[pid[x]].svc = children[pid[x]].svc
      /\ children[pid[x]] # NoChild => children'[pid[x]] # NoChild
  BY <1>2, <1>3, TerminatedKeeps DEF Alive
<1>5. children[pid[x]] # NoChild /\ (Alive(pid[x]) => children[pid[x]].svc = x)
  BY <1>1 DEF IInv, Owned
<1> QED BY <1>1, <1>4, <1>5 DEF Alive

LEMMA SweepKeeps == ASSUME IInv, Sweep PROVE IInv'
<1> USE TypeParts, TypePartsNext DEF IInv
<1> DEFINE ps == {pid[x] : x \in gone}
<1>1. /\ children' = Terminated(ps)
      /\ listed' = listed \ gone /\ missed' = missed \ gone /\ gone' = {}
      /\ pid' = [x \in Service |-> IF x \in gone THEN 0 ELSE pid[x]]
      /\ pc' = "sleep" /\ cwd' = NoDir /\ todo' = {} /\ moved' = {} /\ needRescan' = FALSE
      /\ UNCHANGED <<opt, due, s, last, sig, svdir, entries, fresh, unseen, strayed, upsets>>
  BY DEF Sweep, ScanEnds, files
<1>2. ArraysType' BY <1>1 DEF ArraysType
<1>3. /\ ChildrenType'
      /\ \A p \in Pid :
             /\ Alive(p)' <=> Alive(p)
             /\ children'[p].svc = children[p].svc
             /\ children'[p].termed <=> children[p].termed \/ (p \in ps /\ Alive(p))
             /\ children[p] # NoChild => children'[p] # NoChild
  <2> HIDE DEF ps
  <2> QED BY <1>1, TerminatedKeeps
<1>4. LoopType' BY <1>1 DEF LoopType
<1>5. FilesType' BY <1>1 DEF FilesType
<1>6. EachIsKnown'
  <2> SUFFICES ASSUME NEW p \in Pid, Alive(p)', ~children'[p].termed
               PROVE  children'[p].svc \in listed' /\ pid'[children'[p].svc] = p
    BY DEF EachIsKnown
  <2>1. Alive(p) /\ ~children[p].termed /\ p \notin ps /\ children'[p].svc = children[p].svc
    BY <1>3
  <2>2. children[p].svc \in listed /\ pid[children[p].svc] = p
    BY <2>1 DEF EachIsKnown
  <2>3. children[p].svc \notin gone BY <2>1, <2>2
  <2> QED BY <1>1, <2>1, <2>2, <2>3 DEF ArraysType
<1>7. Owned'
  <2>1. \A x \in Service :
            pid'[x] # 0 => pid'[x] = pid[x] /\ (x \notin missed' => x \notin missed)
    BY <1>1
  <2> HIDE DEF ps
  <2> QED BY <1>1, <2>1, TerminatedOwned
<1>8. Seen' BY <1>1 DEF Seen
<1> QED BY <1>2, <1>3, <1>4, <1>5, <1>6, <1>7, <1>8

LEMMA WaitForScriptKeeps == ASSUME IInv, WaitForScript PROVE IInv'
<1> USE TypeParts, TypePartsNext DEF IInv
<1>1. PICK p \in Dead :
        /\ children' = [children EXCEPT ![p] = NoChild]
        /\ missed' = missed \cup {x \in listed : pid[x] = p}
  BY DEF WaitForScript
<1>2. p \in Pid /\ ~Alive(p) BY DEF Dead, Alive
<1>3. UNCHANGED <<pc, opt, listed, pid, gone, needRescan, due, s, last, cwd, todo, moved, sig,
                  svdir, entries, fresh, unseen, strayed, upsets>>
  BY DEF WaitForScript, table, timing, scan, files
<1>4. children'[p] = NoChild /\ \A q \in Pid \ {p} : children'[q] = children[q]
  BY <1>1, <1>2 DEF ChildrenType
<1>5. \A q \in Pid : Alive(q)' => q # p /\ Alive(q)
  BY <1>4, NoChildType DEF Alive
<1>6. ArraysType' BY <1>1, <1>3 DEF ArraysType
<1>7. ChildrenType' BY <1>1, <1>2, <1>4, <1>5, NoChildType DEF ChildrenType
<1>8. LoopType' /\ FilesType' BY <1>3 DEF LoopType, FilesType
<1>9. EachIsKnown' BY <1>3, <1>4, <1>5 DEF EachIsKnown
<1>10. Owned'
  <2> SUFFICES ASSUME NEW x \in Service, pid[x] # 0, x \notin missed',
                      NEW q \in Pid, q = pid[x]
               PROVE  children'[q] # NoChild /\ (Alive(q)' => children'[q].svc = x)
    BY <1>3 DEF Owned, Alive, ArraysType
  <2>1. x \in listed BY DEF ArraysType
  <2>2. x \notin missed /\ q # p BY <1>1, <2>1
  <2>3. children'[q] = children[q] BY <1>4, <2>2
  <2> QED BY <2>2, <2>3, <1>5 DEF Owned
<1>11. Seen' BY <1>3 DEF Seen
<1> QED BY <1>6, <1>7, <1>8, <1>9, <1>10, <1>11

LEMMA HangupKeeps == ASSUME IInv, Hangup PROVE IInv'
<1> USE TypeParts, TypePartsNext DEF IInv
<1>1. /\ pc = "hangup" /\ pc' = "leave"
      /\ UNCHANGED <<opt, listed, pid, gone, missed, needRescan, due, s, last, cwd, todo, moved,
                     sig, svdir, entries, fresh, unseen, strayed, upsets>>
  BY DEF Hangup, table, timing, scan, files, ghosts
<1>2. ArraysType' /\ FilesType' /\ Seen' BY <1>1 DEF ArraysType, FilesType, Seen
<1>3. LoopType' BY <1>1 DEF LoopType
<1>4. CASE sig # "HUP"
  <2>1. UNCHANGED children BY <1>4 DEF Hangup
  <2> QED BY <1>1, <1>2, <1>3, <2>1, SameTable
<1>5. CASE sig = "HUP"
  <2> DEFINE ps == {pid[x] : x \in listed}
  <2>1. children' = Terminated(ps) BY <1>5 DEF Hangup
  <2> HIDE DEF ps
  <2>2. Owned' BY <1>1, <2>1, TerminatedOwned
  <2>3. ChildrenType' BY <2>1, TerminatedKeeps
  <2>4. ASSUME NEW p \in Pid, Alive(p)', ~children'[p].termed
        PROVE  children'[p].svc \in listed' /\ pid'[children'[p].svc] = p
    <3>1. Alive(p) /\ ~children[p].termed /\ children'[p].svc = children[p].svc
      BY <2>1, <2>4, TerminatedKeeps
    <3> QED BY <1>1, <3>1 DEF EachIsKnown
  <2>5. EachIsKnown' BY <2>4 DEF EachIsKnown
  <2> QED BY <1>2, <1>3, <2>2, <2>3, <2>5
<1> QED BY <1>4, <1>5

\* The steps of the loop that concern neither array nor children.
LEMMA LoopKeeps ==
    ASSUME IInv, Check \/ Enter \/ OpenDir \/ ScanFails \/ Wake \/ ScriptEnds \/ Leave
    PROVE  IInv'
<1> USE TypeParts, TypePartsNext DEF IInv
<1>1. UNCHANGED <<listed, pid, missed, children, svdir, entries, fresh>>
  BY DEF Check, Enter, OpenDir, ScanFails, Wake, ScriptEnds, Leave, table, ghosts, files
<1>2. gone' \subseteq listed
  BY DEF Check, Enter, OpenDir, ScanFails, Wake, ScriptEnds, Leave, table, ArraysType
<1>3. EachIsKnown' /\ Owned' /\ ChildrenType' /\ ArraysType'
  BY <1>1, <1>2, SameTable
<1>4. CASE Check
  <2>1. FilesType'
    <3>1. s' \in Stat
      <4>1. CASE UNCHANGED s BY <4>1 DEF FilesType
      <4>2. CASE svdir # NoDir /\ s' = [dir |-> svdir, same |-> TRUE, fresh |-> fresh[svdir]]
        BY <4>2 DEF FilesType, Stat
      <4> QED BY <1>4, <4>1, <4>2 DEF Check
    <3> QED BY <1>4, <3>1 DEF Check, FilesType, files, ghosts
  <2>2. LoopType' BY <1>4 DEF Check, LoopType, scan
  <2>3. Seen' BY <1>4 DEF Check, Seen
  <2> QED BY <1>3, <2>1, <2>2, <2>3
<1>5. CASE Enter
  <2>1. NoStat \in Stat BY DEF NoStat, Stat
  <2>2. FilesType' BY <1>5, <2>1 DEF Enter, FilesType, files
  <2>3. LoopType'
    <3>1. CASE svdir = NoDir BY <1>5, <3>1 DEF Enter, LoopType
    <3>2. CASE svdir # NoDir BY <1>5, <3>2 DEF Enter, LoopType, FilesType
    <3> QED BY <3>1, <3>2
  <2>4. Seen' BY <1>5 DEF Enter, Seen
  <2> QED BY <1>3, <2>2, <2>3, <2>4
<1>6. CASE OpenDir
  <2>1. FilesType' BY <1>6 DEF OpenDir, FilesType, timing, files, ghosts
  <2>2. cwd \in Dir BY <1>6 DEF OpenDir, LoopType
  <2>3. todo' = entries[cwd] /\ todo' \subseteq Service
    BY <1>6, <2>2 DEF OpenDir, FilesType
  <2>4. LoopType' BY <1>6, <2>3 DEF OpenDir, LoopType, timing
  <2>5. Seen' BY <1>1, <1>6, <2>3 DEF OpenDir, Seen
  <2> QED BY <1>3, <2>1, <2>4, <2>5
<1>7. CASE ScanFails
  <2>1. FilesType'
    BY <1>7, RunsvdirAssumption DEF ScanFails, FilesType, Upset, files, ghosts
  <2>2. LoopType' BY <1>7 DEF ScanFails, ScanEnds, LoopType
  <2>3. Seen' BY <1>7 DEF ScanFails, ScanEnds, Seen
  <2> QED BY <1>3, <2>1, <2>2, <2>3
<1>8. CASE Wake
  <2>1. FilesType' BY <1>8 DEF Wake, FilesType, files, ghosts
  <2>2. LoopType' BY <1>8 DEF Wake, LoopType, scan
  <2>3. Seen' BY <1>8 DEF Wake, Seen
  <2> QED BY <1>3, <2>1, <2>2, <2>3
<1>9. CASE ScriptEnds
  <2>1. FilesType' BY <1>9 DEF ScriptEnds, FilesType, timing, files, ghosts
  <2>2. LoopType' BY <1>9 DEF ScriptEnds, LoopType, timing, scan
  <2>3. Seen' BY <1>9 DEF ScriptEnds, Seen
  <2> QED BY <1>3, <2>1, <2>2, <2>3
<1>10. CASE Leave
  <2>1. FilesType' BY <1>10 DEF Leave, FilesType, timing, files, ghosts
  <2>2. LoopType' BY <1>10 DEF Leave, LoopType, timing, scan
  <2>3. Seen' BY <1>10 DEF Leave, Seen
  <2> QED BY <1>3, <2>1, <2>2, <2>3
<1> QED BY <1>4, <1>5, <1>6, <1>7, <1>8, <1>9, <1>10

\* Time and signals.
LEMMA TimeKeeps ==
    ASSUME IInv, Second \/ \E g \in {"TERM", "HUP"} : GetSignal(g)
    PROVE  IInv'
<1> USE TypeParts, TypePartsNext DEF IInv
<1>1. UNCHANGED <<listed, pid, gone, missed, unseen, children, pc, cwd, todo, moved, entries>>
  BY DEF Second, GetSignal, table, scan, ghosts, files
<1>2. EachIsKnown' /\ Owned' /\ ChildrenType' /\ ArraysType'
  BY <1>1, SameTable DEF ArraysType
<1>3. Seen' BY <1>1 DEF Seen
<1>4. CASE Second
  <2>1. s' \in Stat /\ last' \in Stat BY <1>4 DEF Second, FilesType, Stat
  <2>2. FilesType' BY <1>1, <1>4, <2>1 DEF Second, FilesType, ghosts
  <2>3. LoopType' BY <1>1, <1>4 DEF Second, LoopType
  <2> QED BY <1>2, <1>3, <2>2, <2>3
<1>5. ASSUME NEW g \in {"TERM", "HUP"}, GetSignal(g) PROVE IInv'
  <2>1. FilesType'
    BY <1>5, RunsvdirAssumption DEF GetSignal, FilesType, Upset, timing, files, ghosts
  <2>2. LoopType' BY <1>1, <1>5 DEF GetSignal, LoopType, timing
  <2> QED BY <1>2, <1>3, <2>1, <2>2
<1> QED BY <1>4, <1>5

\* Changes of the directories.
LEMMA ChangeKeeps == ASSUME IInv, Change PROVE IInv'
<1> USE TypeParts, TypePartsNext DEF IInv
<1>1. UNCHANGED <<listed, pid, gone, missed, unseen, children, pc, opt, needRescan, due, cwd, sig,
                  strayed>>
  BY DEF Change, Make, Remove, Rename, Switch, table, timing, scan, ghosts
<1>2. EachIsKnown' /\ Owned' /\ ChildrenType' /\ ArraysType'
  BY <1>1, SameTable DEF ArraysType
<1>3. CASE Switch
  <2>1. FilesType'
    BY <1>3, RunsvdirAssumption DEF Switch, Upset, FilesType, timing, ghosts
  <2>2. LoopType' BY <1>1, <1>3 DEF Switch, LoopType, scan
  <2>3. Seen' BY <1>1, <1>3 DEF Switch, Seen, scan
  <2> QED BY <1>2, <2>1, <2>2, <2>3
<1>4. ASSUME NEW d \in Dir, NEW x \in Service, Make(d, x) \/ Remove(d, x) \/ Rename(d, x)
      PROVE  IInv'
  <2>1. Touch(d) BY <1>4 DEF Make, Remove, Rename
  <2>2. entries' \in [Dir -> SUBSET Service] /\ svdir' = svdir
    BY <1>4 DEF Make, Remove, Rename, FilesType
  <2>3. FilesType' BY <1>1, <2>1, <2>2, TouchTypes DEF FilesType
  <2>4. todo' \subseteq Service BY <1>4 DEF Make, Remove, Rename, LoopType
  <2>5. moved' = IF Scanning(d) THEN moved \cup {x} ELSE moved
    BY <1>4 DEF Make, Remove, Rename, Moves
  <2>6. LoopType' BY <1>1, <2>4, <2>5 DEF LoopType
  <2>7. Seen'
    <3> SUFFICES ASSUME pc = "scan", NEW y \in gone, y \in entries'[cwd],
                        y \notin todo', y \notin moved', y \notin unseen
                 PROVE  FALSE
      BY <1>1 DEF Seen
    <3>1. cwd \in Dir BY DEF LoopType
    <3>2. CASE d # cwd
      <4>1. entries'[cwd] = entries[cwd] /\ todo' = todo /\ moved' = moved
        BY <1>4, <2>5, <3>1, <3>2 DEF Make, Remove, Rename, Scanning, FilesType
      <4> QED BY <4>1 DEF Seen
    <3>3. CASE d = cwd
      <4>1. y # x /\ y \notin moved BY <2>5, <3>3 DEF Scanning
      <4>2. y \in entries[cwd]
        BY <1>4, <3>1, <3>3, <4>1 DEF Make, Remove, Rename, FilesType
      <4>3. y \in todo BY <4>1, <4>2 DEF Seen
      <4> QED BY <1>4, <3>3, <4>1, <4>3 DEF Make, Remove, Rename, Scanning
    <3> QED BY <3>2, <3>3
  <2> QED BY <1>2, <2>3, <2>6, <2>7
<1> QED BY <1>3, <1>4 DEF Change

\* A runsv that starts or ends.
LEMMA RunsvKeeps ==
    ASSUME IInv, NEW p \in Pid, Lock(p) \/ Die(p) \/ Exit(p)
    PROVE  IInv'
<1> USE TypeParts, TypePartsNext DEF IInv
<1>1. PICK child \in {DeadChild, [children[p] EXCEPT !.stage = "running"]} : Runsv(p, child)
  BY DEF Lock, Die, Exit
<1>2. Alive(p) /\ children[p] \in Child BY DEF Lock, Die, Exit, Alive, ChildrenType
<1>3. UNCHANGED <<pc, opt, listed, pid, gone, needRescan, due, s, last, cwd, todo, moved, sig,
                  svdir, entries, fresh, missed, unseen, strayed, upsets>>
  BY <1>1 DEF Runsv, table, timing, scan, files, ghosts
<1>4. children'[p] = child /\ \A q \in Pid \ {p} : children'[q] = children[q]
  BY <1>1 DEF Runsv, ChildrenType
<1>5. /\ child \in Child /\ child # NoChild
      /\ child.stage \in {"starting", "running"} =>
            child.svc = children[p].svc /\ child.termed = children[p].termed
  <2>1. CASE child = DeadChild BY <2>1, NoChildType
  <2>2. CASE child = [children[p] EXCEPT !.stage = "running"]
    <3>1. child.stage = "running" /\ child.svc = children[p].svc
          /\ child.termed = children[p].termed /\ child \in Child
      BY <1>2, <2>2 DEF Child
    <3> QED BY <3>1, NoChildType
  <2> QED BY <2>1, <2>2
<1>6. \A q \in Pid : Alive(q)' => Alive(q) /\ children'[q].svc = children[q].svc
                                  /\ children'[q].termed = children[q].termed
  BY <1>2, <1>4, <1>5 DEF Alive
<1>7. children' \in [Pid -> Child] BY <1>1, <1>5 DEF Runsv, ChildrenType
<1>8. ChildrenType' BY <1>6, <1>7 DEF ChildrenType
<1>9. ArraysType' /\ LoopType' /\ FilesType' /\ Seen'
  BY <1>3 DEF ArraysType, LoopType, FilesType, Seen
<1>10. EachIsKnown' BY <1>3, <1>6 DEF EachIsKnown
<1>11. Owned'
  <2> SUFFICES ASSUME NEW x \in Service, pid[x] # 0, x \notin missed,
                      NEW q \in Pid, q = pid[x]
               PROVE  children'[q] # NoChild /\ (Alive(q)' => children'[q].svc = x)
    BY <1>3 DEF Owned, Alive, ArraysType
  <2>1. children'[q] # NoChild BY <1>4, <1>5 DEF Owned
  <2> QED BY <1>6, <2>1 DEF Owned
<1> QED BY <1>8, <1>9, <1>10, <1>11

LEMMA NextKeeps == IInv /\ [Next]_vars => IInv'
<1> SUFFICES ASSUME IInv, [Next]_vars PROVE IInv'
  OBVIOUS
<1>1. CASE UNCHANGED vars
  <2> USE TypeParts, TypePartsNext DEF IInv
  <2>1. UNCHANGED <<pc, opt, listed, pid, gone, needRescan, due, s, last, cwd, todo, moved, sig,
                    children, svdir, entries, fresh, missed, unseen, strayed, upsets>>
    BY <1>1 DEF vars, table, timing, scan, files, ghosts
  <2>2. EachIsKnown' /\ Owned' /\ ChildrenType' /\ ArraysType'
    BY <2>1, SameTable DEF ArraysType
  <2>3. LoopType' /\ FilesType' /\ Seen' BY <2>1 DEF LoopType, FilesType, Seen
  <2> QED BY <2>2, <2>3
<1>2. CASE Loop
  BY <1>2, CollectKeeps, LoopKeeps, SeeKeeps, StatFailsKeeps, SweepKeeps, WaitForScriptKeeps,
     HangupKeeps DEF Loop
<1>3. CASE Change BY <1>3, ChangeKeeps
<1>4. CASE Second \/ \E g \in {"TERM", "HUP"} : GetSignal(g) BY <1>4, TimeKeeps
<1>5. CASE \E p \in Pid : Lock(p) \/ Die(p) \/ Exit(p) BY <1>5, RunsvKeeps
<1> QED BY <1>1, <1>2, <1>3, <1>4, <1>5 DEF Next

LEMMA Invariance == Spec => []IInv
<1>1. Init => IInv BY InitTypes
<1>2. IInv /\ [Next]_vars => IInv' BY NextKeeps
<1> QED BY <1>1, <1>2, PTL DEF Spec

-----------------------------------------------------------------------------
\* The variables keep their types; the array has a process id for services in it
\* only.
THEOREM RunsvdirTypes == Spec => []RunsvdirTypeOK
<1>1. IInv => RunsvdirTypeOK BY DEF IInv
<1> QED BY <1>1, Invariance, PTL

\* runsvdir knows every runsv that it has not told to stop, so that no service
\* has two of them (do_rescan() and the loop that collects children).
THEOREM NoRunsvUnknown == Spec => []EachIsKnown
<1>1. IInv => EachIsKnown BY DEF IInv
<1> QED BY <1>1, Invariance, PTL

\* SIGHUP reaches every runsv, as all that are not in the array have been told
\* to stop before.
THEOREM HangupReachesAll == Spec => HangupStopsAll
<1> DEFINE Step == pc = "hangup" /\ pc' = "leave" /\ sig = "HUP" =>
                     \A p \in Pid : Alive(p) => children'[p].termed
<1>1. IInv /\ [Next]_vars => Step
  <2> SUFFICES ASSUME IInv, Next, pc = "hangup", pc' = "leave", sig = "HUP",
                      NEW p \in Pid, Alive(p)
               PROVE  children'[p].termed
    BY DEF vars
  <2>1. Hangup
    BY DEF Next, Loop, Change, Collect, Check, Enter, OpenDir, ScanFails, ScanEnds, See,
           StatFails, Sweep,
           Wake, WaitForScript, ScriptEnds, Leave, Make, Remove, Rename, Switch, Second,
           GetSignal, Lock, Die, Exit, Runsv
  <2> DEFINE ps == {pid[x] : x \in listed}
  <2>2. children' = Terminated(ps) BY <2>1 DEF Hangup
  <2>3. ~children[p].termed => p \in ps BY DEF IInv, EachIsKnown
  <2>4. ChildrenType BY TypeParts DEF IInv
  <2> HIDE DEF ps
  <2> QED BY <2>2, <2>3, <2>4, TerminatedKeeps
<1>2. Spec => [][Step]_vars BY <1>1, Invariance, PTL DEF Spec
<1> QED BY <1>2 DEF HangupStopsAll

\* A scan never stops the runsv of a service whose entry was there all the time
\* and for which stat() did not fail (do_rescan() passes over such an entry and
\* takes the service for gone), but by a process id that the wait for SCRIPT has made stale.
THEOREM ScanSparesWhatStays == Spec => SparesWhatStays
<1> DEFINE Step == \A p \in Pid :
           pc = "scan" /\ Alive(p) /\ ~children[p].termed /\ children'[p].termed =>
               \/ children[p].svc \notin entries[cwd] \/ children[p].svc \in moved \cup unseen
               \/ \E x \in missed : pid[x] = p
<1>1. IInv /\ [Next]_vars => Step
  <2> SUFFICES ASSUME IInv, Next, NEW p \in Pid,
                      pc = "scan", Alive(p), ~children[p].termed, children'[p].termed,
                      children[p].svc \in entries[cwd], children[p].svc \notin moved \cup unseen
               PROVE  \E x \in missed : pid[x] = p
    BY DEF vars
  <2>1. ChildrenType /\ ArraysType BY TypeParts DEF IInv
  <2>2. Sweep
    <3>1. CASE UNCHANGED children BY <3>1
    <3>2. ASSUME NEW x \in Service, See(x) PROVE FALSE
      <4>1. PICK q \in Unused : children' = [children EXCEPT ![q] =
                                 [svc |-> x, stage |-> "starting", termed |-> FALSE]]
        BY <3>2, <3>1 DEF See, Start, DoNotStart
      <4>2. q \in Pid BY DEF Unused
      <4> QED BY <2>1, <4>1, <4>2 DEF ChildrenType
    <3>3. ASSUME NEW q \in Pid, Lock(q) \/ Die(q) \/ Exit(q) PROVE FALSE
      <4>1. PICK child \in {DeadChild, [children[q] EXCEPT !.stage = "running"]} :
              children' = [children EXCEPT ![q] = child]
        BY <3>3 DEF Lock, Die, Exit, Runsv
      <4>2. children[q] \in Child BY <2>1 DEF ChildrenType
      <4>3. child.termed = FALSE \/ child.termed = children[q].termed
        BY <4>2 DEF DeadChild, NoChild, Child
      <4> QED BY <2>1, <4>1, <4>3 DEF ChildrenType
    <3>4. CASE Loop
      <4>1. OpenDir \/ ScanFails \/ Sweep \/ \E x \in Service : See(x) \/ StatFails(x)
        BY <3>4 DEF Loop, Collect, Check, Enter, Wake, WaitForScript, ScriptEnds, Hangup, Leave
      <4>2. OpenDir \/ ScanFails \/ (\E x \in Service : StatFails(x)) => UNCHANGED children
        BY DEF OpenDir, ScanFails, StatFails
      <4> QED BY <3>1, <3>2, <4>1, <4>2
    <3>5. Change => UNCHANGED children BY DEF Change, Make, Remove, Rename, Switch
    <3>6. Second \/ (\E g \in {"TERM", "HUP"} : GetSignal(g)) => UNCHANGED children
      BY DEF Second, GetSignal
    <3> QED BY <3>1, <3>3, <3>4, <3>5, <3>6 DEF Next
  <2> DEFINE ps == {pid[x] : x \in gone}
  <2>3. todo = {} /\ children' = Terminated(ps) BY <2>2 DEF Sweep
  <2>4. p \in ps
    <3> HIDE DEF ps
    <3> QED BY <2>1, <2>3, TerminatedKeeps
  <2>5. PICK x \in gone : pid[x] = p BY <2>4
  <2>6. children[p].svc # x BY <2>3 DEF IInv, Seen
  <2>7. p # 0 BY RunsvdirAssumption
  <2>8. x \in Service BY <2>1 DEF ArraysType
  <2> QED BY <2>5, <2>6, <2>7, <2>8 DEF IInv, Owned
<1>2. Spec => [][Step]_vars BY <1>1, Invariance, PTL DEF Spec
<1> QED BY <1>2 DEF SparesWhatStays
=============================================================================

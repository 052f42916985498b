----------------------------- MODULE RunsvProofs -----------------------------
(***************************************************************************)
(* Proofs about Runsv: whatever commands, signals and deaths come, there   *)
(* is never a second copy of a service, and no death is slept over; and    *)
(* without "k" the status file tells the state, and ./finish gets the      *)
(* status of ./run.                                                        *)
(*                                                                         *)
(* The steps of runsv change its children in three ways: one is started    *)
(* (Started), some get signals (Signalled, by SignalKeeps), or one that    *)
(* has died is waited for.                                                 *)
(***************************************************************************)
EXTENDS Runsv, TLAPS

Where == {"startLog", "start", "poll", "reap", "control", "controlLog",
          "term", "check", "exited"}
States == {"DOWN", "RUN", "FINISH"}
Wants == {"UP", "DOWN", "EXIT"}
Programs == {"none", "run", "finish", "log"}
Svd == [pid : Pid \cup {0}, state : States, want : Wants, wstat : Programs]
Status == [pid : Pid \cup {0}, state : States, want : Wants]
Child == [prog : Programs, arg : Programs, alive : BOOLEAN, termed : BOOLEAN,
          killed : BOOLEAN, stopped : BOOLEAN]
Fifo == [Svc -> Seq(Command \cup LogCommand)]

\* A process id without program is free.
Coherent == \A p \in Pid : children[p].prog = "none" => children[p] = NoChild

\* A death is noticed, about to be noticed, or being dealt with.
Noticed == Dead # {} => "CHLD" \in pending \/ selfpipe \/ pc = "reap"

\* The service that runs prog; Owner(p) is the one of children[p].prog.
Runs(prog) == IF prog = "log" THEN "log" ELSE "main"

RunsvInv == RunsvTypeOK /\ Coherent /\ SupervisesItsChildren /\ Noticed

-----------------------------------------------------------------------------
(* Signals.                                                                *)

\* The processes in procs are those in children, alive or not.
Keeps(procs) ==
    /\ procs \in [Pid -> Child]
    /\ \A p \in Pid : /\ procs[p].prog = children[p].prog
                      /\ procs[p].arg = children[p].arg
                      /\ procs[p].alive = children[p].alive
                      /\ children[p] = NoChild => procs[p] = NoChild

LEMMA NoChildType == NoChild \in Child /\ NoChild.prog = "none" /\ ~NoChild.alive
BY DEF NoChild, Child, Programs

LEMMA TypeParts ==
    ASSUME RunsvTypeOK
    PROVE  /\ svd \in [Svc -> Svd] /\ children \in [Pid -> Child]
           /\ status \in [Svc -> Status] /\ fifo \in Fifo
           /\ pc \in Where
           /\ svd["main"] \in Svd /\ svd["log"] \in Svd
BY DEF RunsvTypeOK, Svd, Child, Status, Fifo, Where, States, Wants, Programs, Svc

\* One signal to a process that lives.
LEMMA MarkKeeps ==
    ASSUME NEW procs, Keeps(procs), NEW q \in Pid, procs[q].alive,
           NEW new \in Child, new.prog = procs[q].prog, new.alive = procs[q].alive,
           new.arg = procs[q].arg
    PROVE  Keeps([procs EXCEPT ![q] = new])
<1> DEFINE marked == [procs EXCEPT ![q] = new]
<1>1. marked \in [Pid -> Child]
  BY DEF Keeps
<1>2. ASSUME NEW p \in Pid
      PROVE  /\ marked[p].prog = children[p].prog
             /\ marked[p].arg = children[p].arg
             /\ marked[p].alive = children[p].alive
             /\ children[p] = NoChild => marked[p] = NoChild
  <2>1. CASE p = q
    <3>1. marked[p] = new BY <2>1 DEF Keeps
    <3>2. /\ children[p].alive = procs[p].alive /\ children[p].prog = procs[p].prog
          /\ children[p].arg = procs[p].arg
      BY DEF Keeps
    <3>3. children[p] # NoChild
      BY <2>1, <3>2, NoChildType
    <3> QED BY <2>1, <3>1, <3>2, <3>3
  <2>2. CASE p # q
    <3>1. marked[p] = procs[p] BY <2>2 DEF Keeps
    <3> QED BY <3>1 DEF Keeps
  <2> QED BY <2>1, <2>2
<1> HIDE DEF marked
<1>3. Keeps(marked) BY <1>1, <1>2 DEF Keeps
<1> QED BY <1>3 DEF marked

\* One of four, by the name of the signal.
LEMMA SignalIs ==
    ASSUME NEW sig, NEW a, NEW b, NEW c, NEW d
    PROVE  LET v == CASE sig = "TERM" -> a [] sig = "KILL" -> b
                      [] sig = "STOP" -> c [] sig = "CONT" -> d
           IN  /\ sig = "TERM" => v = a
               /\ sig = "KILL" => v = b
               /\ sig = "STOP" => v = c
               /\ sig = "CONT" => v = d
OBVIOUS

LEMMA SignalKeeps ==
    ASSUME NEW procs, Keeps(procs), NEW q \in Pid,
           NEW sig \in {"TERM", "KILL", "STOP", "CONT"}
    PROVE  Keeps(Signal(procs, q, sig))
<1>1. CASE ~procs[q].alive
  BY <1>1 DEF Signal
<1>2. CASE procs[q].alive
  <2>1. procs[q] \in Child BY DEF Keeps
  <2>2. /\ sig = "TERM" => Signal(procs, q, sig)
                           = [procs EXCEPT ![q] = [procs[q] EXCEPT !.termed = TRUE]]
        /\ sig = "KILL" => Signal(procs, q, sig)
                           = [procs EXCEPT ![q] = [procs[q] EXCEPT !.killed = TRUE]]
        /\ sig = "STOP" => Signal(procs, q, sig)
                           = [procs EXCEPT ![q] = [procs[q] EXCEPT !.stopped = TRUE]]
        /\ sig = "CONT" => Signal(procs, q, sig)
                           = [procs EXCEPT ![q] = [procs[q] EXCEPT !.stopped = FALSE]]
    <3> DEFINE a == [procs EXCEPT ![q] = [procs[q] EXCEPT !.termed = TRUE]]
               b == [procs EXCEPT ![q] = [procs[q] EXCEPT !.killed = TRUE]]
               c == [procs EXCEPT ![q] = [procs[q] EXCEPT !.stopped = TRUE]]
               d == [procs EXCEPT ![q] = [procs[q] EXCEPT !.stopped = FALSE]]
               v == CASE sig = "TERM" -> a [] sig = "KILL" -> b
                      [] sig = "STOP" -> c [] sig = "CONT" -> d
    <3>1. Signal(procs, q, sig) = IF ~procs[q].alive THEN procs ELSE v
      BY ONLY DEF Signal
    <3> HIDE DEF v
    <3>2. Signal(procs, q, sig) = v BY ONLY <1>2, <3>1
    <3> HIDE DEF a, b, c, d
    <3>3. /\ sig = "TERM" => v = a
          /\ sig = "KILL" => v = b
          /\ sig = "STOP" => v = c
          /\ sig = "CONT" => v = d
      BY ONLY SignalIs DEF v
    <3> QED BY ONLY <3>2, <3>3 DEF a, b, c, d
  <2>3. CASE sig = "TERM"
    <3> DEFINE new == [procs[q] EXCEPT !.termed = TRUE]
    <3>1. /\ new \in Child /\ new.prog = procs[q].prog /\ new.alive = procs[q].alive
          /\ new.arg = procs[q].arg
      BY <2>1 DEF Child
    <3>2. Signal(procs, q, sig) = [procs EXCEPT ![q] = new]
      BY <2>3, <2>2
    <3> HIDE DEF new
    <3>3. Keeps([procs EXCEPT ![q] = new])
      BY ONLY <1>2, <3>1, MarkKeeps, Keeps(procs), q \in Pid
    <3> QED BY ONLY <3>2, <3>3
  <2>4. CASE sig = "KILL"
    <3> DEFINE new == [procs[q] EXCEPT !.killed = TRUE]
    <3>1. /\ new \in Child /\ new.prog = procs[q].prog /\ new.alive = procs[q].alive
          /\ new.arg = procs[q].arg
      BY <2>1 DEF Child
    <3>2. Signal(procs, q, sig) = [procs EXCEPT ![q] = new]
      BY <2>4, <2>2
    <3> HIDE DEF new
    <3>3. Keeps([procs EXCEPT ![q] = new])
      BY ONLY <1>2, <3>1, MarkKeeps, Keeps(procs), q \in Pid
    <3> QED BY ONLY <3>2, <3>3
  <2>5. CASE sig = "STOP"
    <3> DEFINE new == [procs[q] EXCEPT !.stopped = TRUE]
    <3>1. /\ new \in Child /\ new.prog = procs[q].prog /\ new.alive = procs[q].alive
          /\ new.arg = procs[q].arg
      BY <2>1 DEF Child
    <3>2. Signal(procs, q, sig) = [procs EXCEPT ![q] = new]
      BY <2>5, <2>2
    <3> HIDE DEF new
    <3>3. Keeps([procs EXCEPT ![q] = new])
      BY ONLY <1>2, <3>1, MarkKeeps, Keeps(procs), q \in Pid
    <3> QED BY ONLY <3>2, <3>3
  <2>6. CASE sig = "CONT"
    <3> DEFINE new == [procs[q] EXCEPT !.stopped = FALSE]
    <3>1. /\ new \in Child /\ new.prog = procs[q].prog /\ new.alive = procs[q].alive
          /\ new.arg = procs[q].arg
      BY <2>1 DEF Child
    <3>2. Signal(procs, q, sig) = [procs EXCEPT ![q] = new]
      BY <2>6, <2>2
    <3> HIDE DEF new
    <3>3. Keeps([procs EXCEPT ![q] = new])
      BY ONLY <1>2, <3>1, MarkKeeps, Keeps(procs), q \in Pid
    <3> QED BY ONLY <3>2, <3>3
  <2> QED BY <2>3, <2>4, <2>5, <2>6
<1> QED BY <1>1, <1>2

LEMMA KeepsChildren == ASSUME RunsvTypeOK PROVE Keeps(children)
BY TypeParts DEF Keeps

LEMMA StoppedKeeps ==
    ASSUME RunsvTypeOK, NEW i \in Svc, svd[i].pid # 0,
           NEW want, NEW handled \in BOOLEAN
    PROVE  Keeps(Stopped(i, want, handled))
<1>1. svd[i].pid \in Pid BY TypeParts DEF Svd
<1>2. Keeps(children) BY KeepsChildren
<1>3. Keeps(Signal(children, svd[i].pid, "TERM")) BY <1>1, <1>2, SignalKeeps
<1> DEFINE termed == IF handled THEN children ELSE Signal(children, svd[i].pid, "TERM")
<1>4. Keeps(termed) BY <1>2, <1>3
<1> HIDE DEF termed
<1>5. Keeps(Signal(termed, svd[i].pid, "CONT")) BY <1>1, <1>4, SignalKeeps
<1>6. Stopped(i, want, handled) =
        IF want \in {"DOWN", "EXIT"} THEN Signal(termed, svd[i].pid, "CONT") ELSE termed
  BY DEF Stopped, termed
<1> QED BY <1>4, <1>5, <1>6

LEMMA CustomBoolean == ASSUME NEW i, NEW c PROVE Custom(i, c) \subseteq BOOLEAN
BY DEF Custom

LEMMA StopIfRunningKeeps ==
    ASSUME RunsvTypeOK, NEW i \in Svc, NEW want, StopIfRunning(i, want)
    PROVE  Keeps(children')
<1>1. CASE MayStop(i)
  <2>1. PICK handled \in Custom(i, "t") : children' = Stopped(i, want, handled)
    BY <1>1 DEF StopIfRunning
  <2>2. svd[i].pid # 0 BY <1>1 DEF MayStop
  <2>3. handled \in BOOLEAN BY CustomBoolean
  <2>4. Keeps(Stopped(i, want, handled)) BY <2>2, <2>3, StoppedKeeps
  <2> QED BY <2>1, <2>4
<1>2. CASE ~MayStop(i)
  <2>1. children' = children BY <1>2 DEF StopIfRunning
  <2>2. Keeps(children) BY KeepsChildren
  <2> QED BY <2>1, <2>2
<1> QED BY <1>1, <1>2

LEMMA SendSignalKeeps ==
    ASSUME RunsvTypeOK, NEW i \in Svc, NEW c, NEW sig \in {"TERM", "KILL", "STOP", "CONT"},
           SendSignal(i, c, sig)
    PROVE  Keeps(children')
<1>1. PICK handled \in Custom(i, c) :
        children' = IF svd[i].pid = 0 \/ handled THEN children
                    ELSE Signal(children, svd[i].pid, sig)
  BY DEF SendSignal
<1>2. handled \in BOOLEAN BY CustomBoolean
<1>3. Keeps(children) BY KeepsChildren
<1>4. CASE svd[i].pid = 0 \/ handled
  BY <1>1, <1>3, <1>4
<1>5. CASE ~(svd[i].pid = 0 \/ handled)
  <2>1. svd[i].pid \in Pid BY <1>5, TypeParts DEF Svd
  <2>2. Keeps(Signal(children, svd[i].pid, sig)) BY <1>3, <2>1, SignalKeeps
  <2> QED BY <1>1, <1>5, <2>2
<1> QED BY <1>4, <1>5

-----------------------------------------------------------------------------
(* What a step does to the children.                                       *)

\* The rest of the state has its types.
OthersOK ==
    /\ svd' \in [Svc -> Svd] /\ status' \in [Svc -> Status] /\ fifo' \in Fifo
    /\ pc' \in Where
    /\ pending' \subseteq {"CHLD", "TERM"} /\ selfpipe' \in BOOLEAN
    /\ sigterm' \in BOOLEAN /\ logpipe' \in BOOLEAN

LEMMA TypesFromParts ==
    ASSUME OthersOK, children' \in [Pid -> Child]
    PROVE  RunsvTypeOK'
BY DEF OthersOK, RunsvTypeOK, Svd, Child, Status, Fifo, Where, States, Wants, Programs

LEMMA FreeIfNone ==
    ASSUME Coherent, NEW p \in Pid
    PROVE  children[p].prog = "none" <=> children[p] = NoChild
BY NoChildType DEF Coherent

\* SupervisesItsChildren in the state after a step.
LEMMA SupervisesNext ==
    ASSUME \A p \in Pid : children'[p] # NoChild => svd'[Runs(children'[p].prog)].pid = p,
           \A i \in Svc : svd'[i].pid # 0 =>
               /\ children'[svd'[i].pid] # NoChild
               /\ Runs(children'[svd'[i].pid].prog) = i
    PROVE  SupervisesItsChildren'
BY DEF SupervisesItsChildren, Owner, Runs

LEMMA SupervisesNow ==
    ASSUME SupervisesItsChildren
    PROVE  /\ \A p \in Pid : children[p] # NoChild => svd[Runs(children[p].prog)].pid = p
           /\ \A i \in Svc : svd[i].pid # 0 =>
               /\ children[svd[i].pid] # NoChild
               /\ Runs(children[svd[i].pid].prog) = i
BY DEF SupervisesItsChildren, Owner, Runs

\* A step in which no child comes or goes; one may die.
LEMMA SameProcesses ==
    ASSUME RunsvInv, OthersOK, Noticed', children' \in [Pid -> Child],
           \A p \in Pid : /\ children'[p].prog = children[p].prog
                          /\ children[p] = NoChild => children'[p] = NoChild,
           \A i \in Svc : svd'[i].pid = svd[i].pid
    PROVE  RunsvInv'
<1>1. RunsvTypeOK'
  BY TypesFromParts
<1>2. ASSUME NEW p \in Pid
      PROVE  children'[p] = NoChild <=> children[p] = NoChild
  BY NoChildType, FreeIfNone DEF RunsvInv
<1>3. Coherent'
  <2>1. ASSUME NEW p \in Pid, children'[p].prog = "none"
        PROVE  children'[p] = NoChild
    BY <1>2, <2>1, FreeIfNone DEF RunsvInv
  <2> QED BY <2>1 DEF Coherent
<1>5. SupervisesItsChildren'
  <2>1. ASSUME NEW p \in Pid, children'[p] # NoChild
        PROVE  svd'[Runs(children'[p].prog)].pid = p
    <3>1. svd[Runs(children[p].prog)].pid = p
      BY <1>2, <2>1, SupervisesNow DEF RunsvInv
    <3>2. Runs(children[p].prog) \in Svc BY DEF Runs, Svc
    <3> QED BY <3>1, <3>2
  <2>2. ASSUME NEW i \in Svc, svd'[i].pid # 0
        PROVE  /\ children'[svd'[i].pid] # NoChild
               /\ Runs(children'[svd'[i].pid].prog) = i
    <3>1. svd[i].pid # 0 /\ svd'[i].pid = svd[i].pid BY <2>2
    <3>2. children[svd[i].pid] # NoChild /\ Runs(children[svd[i].pid].prog) = i
      BY <3>1, SupervisesNow DEF RunsvInv
    <3>3. svd[i].pid \in Pid BY <3>1, TypeParts DEF RunsvInv, Svd
    <3> QED BY <1>2, <3>1, <3>2, <3>3
  <2> QED BY <2>1, <2>2, SupervisesNext
<1> QED BY <1>1, <1>3, <1>5 DEF RunsvInv

\* A step that sends signals at most.
LEMMA Signalled ==
    ASSUME RunsvInv, Keeps(children'), OthersOK,
           \A i \in Svc : svd'[i].pid = svd[i].pid,
           "CHLD" \in pending \/ selfpipe \/ pc = "reap"
               => "CHLD" \in pending' \/ selfpipe' \/ pc' = "reap" \/ Dead = {}
    PROVE  RunsvInv'
<1>1. ASSUME NEW p \in Pid
      PROVE  children'[p] = NoChild <=> children[p] = NoChild
  BY NoChildType, FreeIfNone DEF RunsvInv, Keeps
<1>2. Dead' = Dead
  BY <1>1 DEF Dead, Keeps
<1>3. Noticed'
  BY <1>2 DEF RunsvInv, Noticed
<1> QED BY <1>3, SameProcesses DEF Keeps

\* ... and does so outside of the reaping, as every command does.
LEMMA Commanded ==
    ASSUME RunsvInv, Keeps(children'), svd' \in [Svc -> Svd], status' \in [Svc -> Status],
           \A i \in Svc : svd'[i].pid = svd[i].pid,
           UNCHANGED signals, pc # "reap",
           pc' \in Where, fifo' \in Fifo, logpipe' \in BOOLEAN
    PROVE  RunsvInv'
<1>1. pending' = pending /\ selfpipe' = selfpipe /\ sigterm' = sigterm
  BY DEF signals
<1>2. OthersOK
  BY <1>1 DEF OthersOK, RunsvInv, RunsvTypeOK
<1> QED BY <1>1, <1>2, Signalled

\* A service without process is started.
LEMMA Started ==
    ASSUME RunsvInv, NEW i \in Svc, NEW want \in Wants, svd[i].pid = 0,
           StartService(i, want), pc # "reap",
           pc' \in Where, fifo' \in Fifo, logpipe' = logpipe
    PROVE  RunsvInv'
<1>1. PICK p \in Unused :
        LET new == [svd[i] EXCEPT !.want = want, !.pid = p,
                      !.state = IF @ = "FINISH" THEN @ ELSE "RUN"]
        IN  /\ svd' = [svd EXCEPT ![i] = new]
            /\ status' = [status EXCEPT ![i] = StatusOf(new)]
            /\ children' = [children EXCEPT ![p] =
                 [NoChild EXCEPT !.prog = Program(i), !.alive = logpipe \/ ~HasLog,
                    !.arg = IF Program(i) = "finish" THEN svd.main.wstat ELSE "none"]]
            /\ pending' = IF logpipe \/ ~HasLog THEN pending ELSE pending \cup {"CHLD"}
            /\ UNCHANGED <<selfpipe, sigterm>>
  BY DEF StartService
<1> DEFINE new == [svd[i] EXCEPT !.want = want, !.pid = p,
                     !.state = IF @ = "FINISH" THEN @ ELSE "RUN"]
           lives == logpipe \/ ~HasLog
           child == [NoChild EXCEPT !.prog = Program(i), !.alive = lives,
                       !.arg = IF Program(i) = "finish" THEN svd.main.wstat ELSE "none"]
<1>2. p \in Pid /\ children[p] = NoChild BY DEF Unused
<1>3. new \in Svd /\ new.pid = p /\ StatusOf(new) \in Status
  BY <1>2, TypeParts DEF RunsvInv, Svd, Status, StatusOf, States
<1>4. /\ Program(i) \in Programs \ {"none"}
      /\ (IF Program(i) = "log" THEN "log" ELSE "main") = i
  BY DEF Program, Programs, Svc
<1>5. svd.main.wstat \in Programs BY TypeParts DEF RunsvInv, Svd
<1>6. lives \in BOOLEAN BY DEF RunsvInv, RunsvTypeOK
<1>7. child \in Child /\ child.prog = Program(i) /\ child.alive = lives
  BY <1>4, <1>5, <1>6 DEF NoChild, Child, Programs
<1>8. /\ svd' = [svd EXCEPT ![i] = new]
      /\ status' = [status EXCEPT ![i] = StatusOf(new)]
      /\ children' = [children EXCEPT ![p] = child]
      /\ pending' = IF lives THEN pending ELSE pending \cup {"CHLD"}
      /\ selfpipe' = selfpipe /\ sigterm' = sigterm
  BY <1>1
<1> HIDE DEF new, lives, child
<1>9. children' \in [Pid -> Child] /\ svd' \in [Svc -> Svd] /\ status' \in [Svc -> Status]
  BY <1>2, <1>3, <1>7, <1>8, TypeParts DEF RunsvInv
<1>10. pending' \subseteq {"CHLD", "TERM"}
  BY <1>8 DEF RunsvInv, RunsvTypeOK
<1>11. OthersOK
  BY <1>8, <1>9, <1>10 DEF OthersOK, RunsvInv, RunsvTypeOK
<1>12. RunsvTypeOK'
  BY <1>9, <1>11, TypesFromParts
<1>13. /\ children'[p] = child /\ child # NoChild
       /\ \A q \in Pid \ {p} : children'[q] = children[q]
  <2>1. child # NoChild BY <1>4, <1>7, NoChildType
  <2> QED BY <1>2, <1>8, <2>1, TypeParts DEF RunsvInv
<1>14. /\ svd'[i].pid = p
       /\ \A j \in Svc \ {i} : svd'[j].pid = svd[j].pid
  BY <1>3, <1>8, TypeParts DEF RunsvInv
<1>15. Coherent'
  BY <1>4, <1>7, <1>13 DEF Coherent, RunsvInv
<1>16. SupervisesItsChildren'
  <2>1. ASSUME NEW q \in Pid, children'[q] # NoChild
        PROVE  svd'[Runs(children'[q].prog)].pid = q
    <3>1. CASE q = p
      <4>1. Runs(children'[q].prog) = i BY <1>4, <1>7, <1>13, <3>1 DEF Runs
      <4> QED BY <1>14, <3>1, <4>1
    <3>2. CASE q # p
      <4>1. children'[q] = children[q] BY <1>13, <3>2
      <4>2. svd[Runs(children[q].prog)].pid = q
        BY <2>1, <4>1, SupervisesNow DEF RunsvInv
      <4>3. q # 0 BY RunsvAssumption
      <4>4. Runs(children[q].prog) # i BY <4>2, <4>3
      <4>5. Runs(children[q].prog) \in Svc BY DEF Runs, Svc
      <4> QED BY <1>14, <4>1, <4>2, <4>4, <4>5
    <3> QED BY <3>1, <3>2
  <2>2. ASSUME NEW j \in Svc, svd'[j].pid # 0
        PROVE  /\ children'[svd'[j].pid] # NoChild
               /\ Runs(children'[svd'[j].pid].prog) = j
    <3>1. CASE j = i
      <4>1. svd'[j].pid = p BY <1>14, <3>1
      <4>2. Runs(children'[p].prog) = j
        BY <1>4, <1>7, <1>13, <3>1 DEF Runs
      <4> QED BY <1>13, <4>1, <4>2
    <3>2. CASE j # i
      <4>1. svd'[j].pid = svd[j].pid BY <1>14, <3>2
      <4>2. children[svd[j].pid] # NoChild /\ Runs(children[svd[j].pid].prog) = j
        BY <2>2, <4>1, SupervisesNow DEF RunsvInv
      <4>3. svd[j].pid \in Pid BY <2>2, <4>1, TypeParts DEF RunsvInv, Svd
      <4>4. svd[j].pid # p BY <1>2, <4>2
      <4>5. children'[svd[j].pid] = children[svd[j].pid] BY <1>13, <4>3, <4>4
      <4> QED BY <4>1, <4>2, <4>5
    <3> QED BY <3>1, <3>2
  <2> QED BY <2>1, <2>2, SupervisesNext
<1>17. Noticed'
  <2>1. CASE lives
    <3>1. \A q \in Dead' : q \in Dead
      BY <1>2, <1>7, <1>13, <2>1, NoChildType DEF Dead
    <3>2. pending' = pending /\ selfpipe' = selfpipe BY <1>8, <2>1
    <3> QED BY <3>1, <3>2 DEF RunsvInv, Noticed
  <2>2. CASE ~lives
    <3>1. "CHLD" \in pending' BY <1>8, <2>2
    <3> QED BY <3>1 DEF Noticed
  <2> QED BY <2>1, <2>2
<1> QED BY <1>12, <1>15, <1>16, <1>17 DEF RunsvInv

\* A child that has died is waited for.
LEMMA Waited ==
    ASSUME RunsvInv, Reap
    PROVE  RunsvInv'
<1>1. PICK p \in Dead :
        /\ children' = [children EXCEPT ![p] = NoChild]
        /\ svd' = Reaped(p)
        /\ status' = [i \in Svc |-> IF svd[i].pid = p THEN StatusOf(svd'[i]) ELSE status[i]]
  BY DEF Reap
<1>2. p \in Pid /\ children[p] # NoChild BY DEF Dead
<1> DEFINE i == Runs(children[p].prog)
<1>3. i \in Svc /\ svd[i].pid = p
  BY <1>2, SupervisesNow DEF RunsvInv, Runs, Svc
<1>4. \A j \in Svc \ {i} : svd[j].pid # p
  BY <1>2, SupervisesNow, RunsvAssumption DEF RunsvInv
<1>5. /\ children' \in [Pid -> Child] /\ children'[p] = NoChild
      /\ \A q \in Pid \ {p} : children'[q] = children[q]
  BY <1>1, <1>2, NoChildType, TypeParts DEF RunsvInv
<1>6. /\ svd' \in [Svc -> Svd] /\ svd'[i].pid = 0
      /\ \A j \in Svc \ {i} : svd'[j].pid = svd[j].pid
  <2>1. children[p].prog \in Programs BY <1>2, TypeParts DEF RunsvInv, Child
  <2>2. CASE i = "main"
    <3> DEFINE state == IF svd["main"].state # "FINISH" /\ HasFinish THEN "FINISH" ELSE "DOWN"
               new == [svd["main"] EXCEPT !.wstat = children[p].prog, !.pid = 0,
                                          !.state = state]
    <3>1. state \in States BY DEF States
    <3> HIDE DEF state
    <3>2. new \in Svd /\ new.pid = 0 BY <2>1, <3>1, TypeParts DEF RunsvInv, Svd
    <3>3. svd' = [svd EXCEPT !["main"] = new] BY <1>1, <1>3, <2>2 DEF Reaped, state
    <3> HIDE DEF new
    <3> QED BY <1>3, <2>2, <3>2, <3>3, TypeParts DEF RunsvInv
  <2>3. CASE i = "log"
    <3>1. svd["main"].pid # p BY <1>4, <2>3 DEF Svc
    <3>2. svd' = [svd EXCEPT !.main.wstat = children[p].prog,
                             !.log = [@ EXCEPT !.pid = 0, !.state = "DOWN"]]
      BY <1>1, <1>3, <2>3, <3>1 DEF Reaped
    <3> DEFINE main == [svd["main"] EXCEPT !.wstat = children[p].prog]
               log == [svd["log"] EXCEPT !.pid = 0, !.state = "DOWN"]
    <3>3. main \in Svd /\ main.pid = svd["main"].pid BY <2>1, TypeParts DEF RunsvInv, Svd
    <3>4. log \in Svd /\ log.pid = 0 BY TypeParts DEF RunsvInv, Svd, States
    <3>5. svd' = [svd EXCEPT !["main"] = main, !["log"] = log] BY <3>2
    <3> HIDE DEF main, log
    <3> QED BY <1>3, <2>3, <3>3, <3>4, <3>5, TypeParts DEF RunsvInv, Svc
  <2> QED BY <1>3, <2>2, <2>3 DEF Svc
<1>7. status' \in [Svc -> Status]
  <2>1. \A j \in Svc : StatusOf(svd'[j]) \in Status
    BY <1>6 DEF Svd, Status, StatusOf
  <2>2. \A j \in Svc : status[j] \in Status BY TypeParts DEF RunsvInv
  <2> QED BY <1>1, <2>1, <2>2
<1>8. RunsvTypeOK'
  <2>1. OthersOK
    BY <1>6, <1>7, TypeParts DEF Reap, OthersOK, signals, RunsvInv, RunsvTypeOK
  <2> QED BY <1>5, <2>1, TypesFromParts
<1>9. Coherent'
  BY <1>5 DEF Coherent, RunsvInv
<1> HIDE DEF i
<1>10. SupervisesItsChildren'
  <2>1. ASSUME NEW q \in Pid, children'[q] # NoChild
        PROVE  svd'[Runs(children'[q].prog)].pid = q
    <3>1. q # p /\ children'[q] = children[q] BY <1>5, <2>1
    <3>2. svd[Runs(children[q].prog)].pid = q
      BY <2>1, <3>1, SupervisesNow DEF RunsvInv
    <3>3. Runs(children[q].prog) \in Svc \ {i} BY <1>3, <3>1, <3>2 DEF Runs, Svc
    <3> QED BY <1>6, <3>1, <3>2, <3>3
  <2>2. ASSUME NEW j \in Svc, svd'[j].pid # 0
        PROVE  /\ children'[svd'[j].pid] # NoChild
               /\ Runs(children'[svd'[j].pid].prog) = j
    <3>1. j # i /\ svd'[j].pid = svd[j].pid BY <1>6, <2>2
    <3>2. children[svd[j].pid] # NoChild /\ Runs(children[svd[j].pid].prog) = j
      BY <2>2, <3>1, SupervisesNow DEF RunsvInv
    <3>3. svd[j].pid \in Pid \ {p} BY <1>4, <2>2, <3>1, TypeParts DEF RunsvInv, Svd
    <3> QED BY <1>5, <3>1, <3>2, <3>3
  <2> QED BY <2>1, <2>2, SupervisesNext
<1>11. Noticed'
  BY DEF Reap, Noticed
<1> QED BY <1>8, <1>9, <1>10, <1>11 DEF RunsvInv

-----------------------------------------------------------------------------
(* The commands.                                                           *)

\* A process that is signalled stays; only a start brings a new one.
LEMMA WantKeeps ==
    ASSUME RunsvTypeOK, NEW i \in Svc, NEW want \in Wants, Want(i, want)
    PROVE  /\ svd' \in [Svc -> Svd] /\ status' \in [Svc -> Status]
           /\ \A j \in Svc : svd'[j].pid = svd[j].pid
<1> DEFINE new == [svd[i] EXCEPT !.want = want]
<1>1. new \in Svd /\ new.pid = svd[i].pid /\ StatusOf(new) \in Status
  BY TypeParts DEF Svd, Status, StatusOf
<1>2. svd' = [svd EXCEPT ![i] = new] /\ status' = [status EXCEPT ![i] = StatusOf(new)]
  BY DEF Want
<1> HIDE DEF new
<1> QED BY <1>1, <1>2, TypeParts

LEMMA StatusKeeps ==
    ASSUME RunsvTypeOK, NEW i \in Svc
    PROVE  [status EXCEPT ![i] = StatusOf(svd[i])] \in [Svc -> Status]
<1>1. StatusOf(svd[i]) \in Status BY TypeParts DEF Svd, Status, StatusOf
<1> QED BY <1>1, TypeParts

\* A command starts a service without process, or is one of Commanded's steps.
Quiet ==
    /\ Keeps(children') /\ svd' \in [Svc -> Svd] /\ status' \in [Svc -> Status]
    /\ \A i \in Svc : svd'[i].pid = svd[i].pid
    /\ UNCHANGED signals

LEMMA UnchangedQuiet ==
    ASSUME RunsvTypeOK, UNCHANGED <<svd, status, children, signals>>
    PROVE  Quiet
BY TypeParts, KeepsChildren DEF Quiet, Keeps

LEMMA StopQuiet ==
    ASSUME RunsvTypeOK, NEW i \in Svc, NEW want \in Wants,
           Want(i, want), StopIfRunning(i, want), UNCHANGED signals
    PROVE  Quiet
BY WantKeeps, StopIfRunningKeeps DEF Quiet

LEMMA TermQuiet ==
    ASSUME RunsvTypeOK, NEW i \in Svc, Term(i)
    PROVE  Quiet
<1>1. CASE MayStop(i)
  <2>1. PICK handled \in Custom(i, "t") :
          /\ children' = Stopped(i, svd[i].want, handled)
          /\ status' = IF handled THEN status
                       ELSE [status EXCEPT ![i] = StatusOf(svd[i])]
    BY <1>1 DEF Term
  <2>2. handled \in BOOLEAN BY CustomBoolean
  <2>3. svd[i].pid # 0 BY <1>1 DEF MayStop
  <2>4. Keeps(Stopped(i, svd[i].want, handled)) BY <2>2, <2>3, StoppedKeeps
  <2>5. Keeps(children') BY <2>1, <2>4
  <2>6. status' \in [Svc -> Status] BY <2>1, StatusKeeps, TypeParts
  <2> QED BY <2>5, <2>6, TypeParts DEF Quiet, Term
<1>2. CASE ~MayStop(i)
  BY <1>2, UnchangedQuiet DEF Term
<1> QED BY <1>1, <1>2

LEMMA KillQuiet ==
    ASSUME RunsvTypeOK, NEW i \in Svc, Kill(i)
    PROVE  Quiet
<1>1. Keeps(children') BY SendSignalKeeps DEF Kill
<1> DEFINE new == [svd[i] EXCEPT !.state = "DOWN"]
<1>2. new \in Svd /\ new.pid = svd[i].pid BY TypeParts DEF Svd, States
<1>3. svd' = [svd EXCEPT ![i] = new] BY DEF Kill
<1> HIDE DEF new
<1>4. svd' \in [Svc -> Svd] /\ \A j \in Svc : svd'[j].pid = svd[j].pid
  BY <1>2, <1>3, TypeParts
<1> QED BY <1>1, <1>4, TypeParts DEF Quiet, Kill

LEMMA PauseQuiet ==
    ASSUME RunsvTypeOK, NEW i \in Svc, NEW c, PauseOrContinue(i, c)
    PROVE  Quiet
<1>1. Keeps(children') BY SendSignalKeeps DEF PauseOrContinue
<1>2. status' \in [Svc -> Status] BY StatusKeeps DEF PauseOrContinue
<1> QED BY <1>1, <1>2, TypeParts DEF Quiet, PauseOrContinue

\* ctrl(): what a command may do.
LEMMA Obeyed ==
    ASSUME RunsvTypeOK, NEW i \in Svc, NEW c, Ctrl(i, c)
    PROVE  \/ Quiet
           \/ svd[i].pid = 0 /\ \E want \in Wants : StartService(i, want)
<1> USE DEF Wants
<1>1. CASE c = "d" /\ Down(i)
  BY <1>1, StopQuiet DEF Down
<1>2. ASSUME NEW want \in {"UP", "DOWN"}, StartWanted(i, want)
      PROVE  \/ Quiet
             \/ svd[i].pid = 0 /\ \E w \in Wants : StartService(i, w)
  <2>1. CASE svd[i].pid = 0
    BY <1>2, <2>1 DEF StartWanted
  <2>2. CASE svd[i].pid # 0
    <3>1. Want(i, want) /\ UNCHANGED <<children, signals>>
      BY <1>2, <2>2 DEF StartWanted
    <3>2. Keeps(children') BY <3>1, KeepsChildren DEF Keeps
    <3> QED BY <3>1, <3>2, WantKeeps DEF Quiet
  <2> QED BY <2>1, <2>2
<1>3. CASE c = "x" /\ Exit(i)
  <2>1. CASE i = "log"
    BY <1>3, <2>1, UnchangedQuiet DEF Exit
  <2>2. CASE i # "log"
    BY <1>3, <2>2, StopQuiet DEF Exit
  <2> QED BY <2>1, <2>2
<1>4. CASE c = "t" /\ Term(i)
  BY <1>4, TermQuiet
<1>5. CASE c = "k" /\ Kill(i)
  BY <1>5, KillQuiet
<1>6. CASE c \in {"p", "c"} /\ PauseOrContinue(i, c)
  BY <1>6, PauseQuiet
<1> QED BY <1>1, <1>2, <1>3, <1>4, <1>5, <1>6 DEF Ctrl

-----------------------------------------------------------------------------
(* The steps.                                                              *)

LEMMA StartLogStep == ASSUME RunsvInv, StartLog PROVE RunsvInv'
<1>1. /\ pc # "reap" /\ pc' \in Where /\ fifo' \in Fifo
      /\ logpipe' = logpipe /\ logpipe' \in BOOLEAN
  BY TypeParts DEF StartLog, Where, RunsvInv, RunsvTypeOK
<1>2. CASE HasLog /\ svd.log.pid = 0 /\ svd.log.want = "UP"
  <2>1. StartService("log", "UP") BY <1>2 DEF StartLog
  <2> QED BY <1>1, <1>2, <2>1, Started DEF Wants, Svc
<1>3. CASE ~(HasLog /\ svd.log.pid = 0 /\ svd.log.want = "UP")
  <2>1. UNCHANGED <<svd, status, children, signals>> BY <1>3 DEF StartLog
  <2> QED BY <1>1, <2>1, UnchangedQuiet, Commanded DEF Quiet, RunsvInv
<1> QED BY <1>2, <1>3

LEMMA StartStep == ASSUME RunsvInv, Start PROVE RunsvInv'
<1>1. /\ pc # "reap" /\ pc' \in Where /\ fifo' \in Fifo
      /\ logpipe' = logpipe /\ logpipe' \in BOOLEAN
  BY TypeParts DEF Start, Where, RunsvInv, RunsvTypeOK
<1>2. CASE svd.main.pid = 0 /\ (svd.main.want = "UP" \/ svd.main.state = "FINISH")
  <2>1. StartService("main", svd.main.want) BY <1>2 DEF Start
  <2>2. svd.main.want \in Wants BY TypeParts DEF RunsvInv, Svd
  <2> QED BY <1>1, <1>2, <2>1, <2>2, Started DEF Svc
<1>3. CASE ~(svd.main.pid = 0 /\ (svd.main.want = "UP" \/ svd.main.state = "FINISH"))
  <2>1. UNCHANGED <<svd, status, children, signals>> BY <1>3 DEF Start
  <2> QED BY <1>1, <2>1, UnchangedQuiet, Commanded DEF Quiet, RunsvInv
<1> QED BY <1>2, <1>3

LEMMA ControlStep ==
    ASSUME RunsvInv, NEW i \in Svc, NEW here \in {"control", "controlLog"},
           NEW next \in Where, Control(i, here, next)
    PROVE  RunsvInv'
<1>1. /\ pc # "reap" /\ pc' \in Where
      /\ logpipe' = logpipe /\ logpipe' \in BOOLEAN
  BY DEF Control, RunsvInv, RunsvTypeOK
<1>2. CASE fifo[i] = <<>>
  <2>1. UNCHANGED <<svd, status, children, signals, fifo>> BY <1>2 DEF Control
  <2> QED BY <1>1, <2>1, TypeParts, UnchangedQuiet, Commanded DEF Quiet, RunsvInv
<1>3. CASE fifo[i] # <<>>
  <2>1. fifo' = [fifo EXCEPT ![i] = Tail(@)] /\ Ctrl(i, Head(fifo[i]))
    BY <1>3 DEF Control
  <2>2. fifo \in Fifo /\ fifo[i] \in Seq(Command \cup LogCommand)
    BY TypeParts DEF RunsvInv, Fifo
  <2>3. Tail(fifo[i]) \in Seq(Command \cup LogCommand) BY <1>3, <2>2
  <2>4. fifo' \in Fifo BY <2>1, <2>2, <2>3 DEF Fifo
  <2>5. CASE Quiet
    BY <1>1, <2>4, <2>5, Commanded DEF Quiet
  <2>6. CASE svd[i].pid = 0 /\ \E want \in Wants : StartService(i, want)
    BY <1>1, <2>4, <2>6, Started
  <2> QED BY <2>1, <2>5, <2>6, Obeyed DEF RunsvInv
<1> QED BY <1>2, <1>3

LEMMA TakeTermStep == ASSUME RunsvInv, TakeTerm PROVE RunsvInv'
<1>1. /\ pc # "reap" /\ pc' \in Where /\ pc' # "reap" /\ fifo' \in Fifo
      /\ logpipe' = logpipe /\ logpipe' \in BOOLEAN
  BY TypeParts DEF TakeTerm, Where, RunsvInv, RunsvTypeOK
<1>2. CASE sigterm
  <2>1. /\ Want("main", "EXIT") /\ StopIfRunning("main", "EXIT")
        /\ sigterm' = FALSE /\ pending' = pending /\ selfpipe' = selfpipe
    BY <1>2 DEF TakeTerm
  <2>2. Keeps(children')
    BY <2>1, StopIfRunningKeeps DEF RunsvInv, Svc
  <2>3. /\ svd' \in [Svc -> Svd] /\ status' \in [Svc -> Status]
        /\ \A j \in Svc : svd'[j].pid = svd[j].pid
    BY <2>1, WantKeeps DEF RunsvInv, Svc, Wants
  <2>4. OthersOK BY <1>1, <2>1, <2>3 DEF OthersOK, RunsvInv, RunsvTypeOK
  <2> QED BY <1>1, <2>1, <2>2, <2>3, <2>4, Signalled
<1>3. CASE ~sigterm
  <2>1. UNCHANGED <<svd, status, children, signals>> BY <1>3 DEF TakeTerm
  <2> QED BY <1>1, <2>1, UnchangedQuiet, Commanded DEF Quiet, RunsvInv
<1> QED BY <1>2, <1>3

LEMMA CloseLogPipeStep == ASSUME RunsvInv, CloseLogPipe PROVE RunsvInv'
<1>1. /\ pc # "reap" /\ pc' \in Where /\ fifo' \in Fifo
      /\ children' = children /\ UNCHANGED signals
  BY TypeParts DEF CloseLogPipe, Where, RunsvInv
<1>2. CASE svd.log.want # "EXIT"
  <2>1. Want("log", "EXIT") /\ logpipe' = FALSE BY <1>2 DEF CloseLogPipe
  <2>2. Keeps(children') BY <1>1, KeepsChildren DEF RunsvInv, Keeps
  <2> QED BY <1>1, <2>1, <2>2, WantKeeps, Commanded DEF RunsvInv, Svc, Wants
<1>3. CASE svd.log.want = "EXIT"
  <2>1. UNCHANGED <<svd, status, children, signals>> /\ logpipe' = logpipe
    BY <1>1, <1>3 DEF CloseLogPipe
  <2>2. logpipe' \in BOOLEAN BY <2>1 DEF RunsvInv, RunsvTypeOK
  <2> QED BY <1>1, <2>1, <2>2, UnchangedQuiet, Commanded DEF Quiet, RunsvInv
<1> QED BY <1>2, <1>3

\* Steps that leave the children and their services alone.
LEMMA ElsewhereStep ==
    ASSUME RunsvInv, UNCHANGED <<svd, children, status, logpipe>>,
           pc' \in Where, fifo' \in Fifo,
           pending' \subseteq {"CHLD", "TERM"}, selfpipe' \in BOOLEAN, sigterm' \in BOOLEAN,
           "CHLD" \in pending \/ selfpipe \/ pc = "reap"
               => "CHLD" \in pending' \/ selfpipe' \/ pc' = "reap" \/ Dead = {}
    PROVE  RunsvInv'
<1>1. Keeps(children') BY KeepsChildren DEF RunsvInv, Keeps
<1>2. OthersOK BY TypeParts DEF OthersOK, RunsvInv, RunsvTypeOK
<1> QED BY <1>1, <1>2, Signalled

LEMMA DieStep == ASSUME RunsvInv, NEW p \in Pid, Die(p) PROVE RunsvInv'
<1> DEFINE new == [NoChild EXCEPT !.prog = children[p].prog, !.arg = children[p].arg]
<1>1. children[p] \in Child BY TypeParts DEF RunsvInv
<1>2. new \in Child /\ new.prog = children[p].prog
  BY <1>1 DEF NoChild, Child
<1>3. children[p] # NoChild BY NoChildType DEF Die
<1>4. children' = [children EXCEPT ![p] = new] BY DEF Die
<1> HIDE DEF new
<1>5. children' \in [Pid -> Child]
  BY <1>2, <1>4, TypeParts DEF RunsvInv
<1>6. \A q \in Pid : /\ children'[q].prog = children[q].prog
                     /\ children[q] = NoChild => children'[q] = NoChild
  BY <1>2, <1>3, <1>4, TypeParts DEF RunsvInv
<1>7. OthersOK BY TypeParts DEF Die, OthersOK, RunsvInv, RunsvTypeOK
<1>8. Noticed' BY DEF Die, Noticed
<1>9. \A i \in Svc : svd'[i].pid = svd[i].pid BY DEF Die
<1> QED BY ONLY RunsvInv, <1>5, <1>6, <1>7, <1>8, <1>9, SameProcesses

LEMMA SendStep ==
    ASSUME RunsvInv, NEW i \in Svc, NEW c \in Command \cup LogCommand, Send(i, c)
    PROVE  RunsvInv'
<1>1. fifo \in Fifo BY TypeParts DEF RunsvInv
<1>2. Append(fifo[i], c) \in Seq(Command \cup LogCommand) BY <1>1 DEF Fifo
<1>3. fifo' \in Fifo BY <1>1, <1>2 DEF Fifo, Send
<1> QED BY <1>3, TypeParts, ElsewhereStep DEF Send, signals, RunsvInv, RunsvTypeOK

LEMMA InitInv == ASSUME Init PROVE RunsvInv
<1>1. PICK want \in {"UP", "DOWN"}, logWant \in {"UP", "DOWN"} :
        svd = [main |-> FirstSvd(want), log |-> FirstSvd(logWant)]
  BY DEF Init
<1>2. FirstSvd(want) \in Svd /\ FirstSvd(logWant) \in Svd
  BY DEF FirstSvd, Svd, States, Wants, Programs
<1>3. /\ svd \in [Svc -> Svd]
      /\ \A i \in Svc : svd[i].pid = 0
  BY <1>1, <1>2 DEF Svc, FirstSvd
<1>4. status \in [Svc -> Status]
  <2>1. \A i \in Svc : StatusOf(svd[i]) \in Status
    BY <1>3 DEF Svd, Status, StatusOf
  <2> QED BY <2>1 DEF Init
<1>5. children \in [Pid -> Child] /\ \A p \in Pid : children[p] = NoChild
  BY NoChildType DEF Init
<1>6. RunsvTypeOK
  <2>1. fifo \in Fifo BY DEF Init, Fifo
  <2>2. HasLog \in BOOLEAN BY RunsvAssumption
  <2> QED BY <1>3, <1>4, <1>5, <2>1, <2>2
          DEF Init, RunsvTypeOK, Svd, Child, Status, Fifo, States, Wants, Programs
<1>7. Coherent BY <1>5 DEF Coherent
<1>8. SupervisesItsChildren BY <1>3, <1>5 DEF SupervisesItsChildren
<1>9. Noticed BY <1>5 DEF Noticed, Dead
<1> QED BY <1>6, <1>7, <1>8, <1>9 DEF RunsvInv

LEMMA NextInv == ASSUME RunsvInv, [Next]_vars PROVE RunsvInv'
<1> USE DEF Where
<1>1. CASE StartLog BY <1>1, StartLogStep
<1>2. CASE Start BY <1>2, StartStep
<1>3. CASE Wake
  BY <1>3, TypeParts, ElsewhereStep DEF Wake, RunsvInv, RunsvTypeOK
<1>4. CASE Reap BY <1>4, Waited
<1>5. CASE NothingToReap
  BY <1>5, TypeParts, ElsewhereStep DEF NothingToReap, signals, RunsvInv, RunsvTypeOK
<1>6. CASE ControlService
  BY <1>6, ControlStep DEF ControlService, Svc
<1>7. CASE ControlLog
  BY <1>7, ControlStep DEF ControlLog, Svc
<1>8. CASE TakeTerm BY <1>8, TakeTermStep
<1>9. CASE GoOn
  BY <1>9, TypeParts, ElsewhereStep DEF GoOn, signals, RunsvInv, RunsvTypeOK
<1>10. CASE Leave
  BY <1>10, TypeParts, ElsewhereStep DEF Leave, signals, RunsvInv, RunsvTypeOK
<1>11. CASE CloseLogPipe BY <1>11, CloseLogPipeStep
<1>12. ASSUME NEW sig \in {"CHLD", "TERM"}, Handle(sig) PROVE RunsvInv'
  <2>1. pending' \subseteq {"CHLD", "TERM"} /\ selfpipe' = TRUE /\ sigterm' \in BOOLEAN
    BY <1>12 DEF Handle, RunsvInv, RunsvTypeOK
  <2> QED BY <1>12, <2>1, TypeParts, ElsewhereStep DEF Handle, RunsvInv
<1>13. ASSUME NEW p \in Pid, EndsByItself(p) \/ IsEnded(p) PROVE RunsvInv'
  BY <1>13, DieStep DEF EndsByItself, IsEnded
<1>14. ASSUME NEW c \in Command, Send("main", c) PROVE RunsvInv'
  BY <1>14, SendStep DEF Svc
<1>15. ASSUME NEW c \in LogCommand, Send("log", c) PROVE RunsvInv'
  BY <1>15, SendStep DEF Svc
<1>16. CASE SendTerm
  BY <1>16, TypeParts, ElsewhereStep DEF SendTerm, RunsvInv, RunsvTypeOK
<1>17. CASE UNCHANGED vars
  BY <1>17, TypeParts, ElsewhereStep DEF vars, signals, RunsvInv, RunsvTypeOK
<1> QED BY <1>1, <1>2, <1>3, <1>4, <1>5, <1>6, <1>7, <1>8, <1>9, <1>10, <1>11, <1>12,
           <1>13, <1>14, <1>15, <1>16, <1>17 DEF Next, Loop, Handler, Environment

\* The invariant holds of every behaviour of runsv.
LEMMA Invariance == Spec => []RunsvInv
<1>1. Init => RunsvInv BY InitInv
<1>2. RunsvInv /\ [Next]_vars => RunsvInv' BY NextInv
<1> QED BY <1>1, <1>2, PTL DEF Spec

-----------------------------------------------------------------------------
(* What follows for runsv.                                                 *)

\* Every process that runsv uses as an index of its tables is a process, and its
\* states are those of runsv.c's enumerations.
THEOREM RunsvTypes == Spec => []RunsvTypeOK
<1>1. RunsvInv => RunsvTypeOK BY DEF RunsvInv
<1> QED BY <1>1, Invariance, PTL

\* Every child that has not been waited for is the one process of its svdir: a
\* service never runs twice (startservice()), and a signal never goes to another
\* process (stopservice(), ctrl()).
THEOREM OneProcessEach == Spec => []SupervisesItsChildren
<1>1. RunsvInv => SupervisesItsChildren BY DEF RunsvInv
<1> QED BY <1>1, Invariance, PTL

\* runsv never sleeps in poll() over a child that has died: s_child() and the
\* self-pipe lose no death, wherever in the loop it comes.
THEOREM NoDeathIsLost == Spec => []NoLostDeath
<1>1. RunsvInv => NoLostDeath BY DEF RunsvInv, Noticed, NoLostDeath
<1> QED BY <1>1, Invariance, PTL

-----------------------------------------------------------------------------
(* What is restarted.                                                      *)

\* No step but a start makes a process run ./run.
LEMMA NoNewRun ==
    ASSUME \A p \in Pid : children'[p].alive /\ children'[p].prog = "run" =>
                          children[p].alive /\ children[p].prog = "run"
    PROVE  Running' => Running
BY DEF Running

LEMMA KeepsRuns == ASSUME Keeps(children') PROVE Running' => Running
BY NoNewRun DEF Keeps

LEMMA NewChild ==
    ASSUME RunsvTypeOK, NEW i \in Svc, NEW want, StartService(i, want), Program(i) # "run"
    PROVE  Running' => Running
<1>1. PICK p \in Unused :
        children' = [children EXCEPT ![p] =
          [NoChild EXCEPT !.prog = Program(i), !.alive = logpipe \/ ~HasLog,
             !.arg = IF Program(i) = "finish" THEN svd.main.wstat ELSE "none"]]
  BY DEF StartService
<1> DEFINE child == [NoChild EXCEPT !.prog = Program(i), !.alive = logpipe \/ ~HasLog,
                       !.arg = IF Program(i) = "finish" THEN svd.main.wstat ELSE "none"]
<1>2. child.prog = Program(i) BY DEF NoChild
<1>3. children' = [children EXCEPT ![p] = child] BY <1>1
<1> HIDE DEF child
<1>4. \A q \in Pid : children'[q].prog = "run" => children'[q] = children[q]
  BY <1>2, <1>3, TypeParts
<1> QED BY <1>4, NoNewRun

LEMMA OnlyIfUp ==
    ASSUME RunsvInv, [Next]_vars, ~Running, Running'
    PROVE  svd.main.want = "UP" \/ pc = "control"
<1>1. ~Keeps(children') BY KeepsRuns
<1>2. children' # children BY <1>1, KeepsChildren DEF RunsvInv, Keeps
<1>3. ASSUME StartLog PROVE FALSE
  <2>1. StartService("log", "UP") BY <1>2, <1>3 DEF StartLog
  <2>2. Program("log") # "run" BY DEF Program
  <2> QED BY <2>1, <2>2, NewChild DEF RunsvInv, Svc
<1>4. ASSUME Start PROVE svd.main.want = "UP"
  <2>1. /\ StartService("main", svd.main.want)
        /\ svd.main.want = "UP" \/ svd.main.state = "FINISH"
    BY <1>2, <1>4 DEF Start
  <2>2. svd.main.state # "FINISH"
    <3>1. SUFFICES ASSUME svd.main.state = "FINISH" PROVE FALSE OBVIOUS
    <3>2. Program("main") # "run" BY <3>1 DEF Program
    <3> QED BY <2>1, <3>2, NewChild DEF RunsvInv, Svc
  <2> QED BY <2>1, <2>2
<1>5. ASSUME Reap PROVE FALSE
  <2>1. PICK p \in Dead : children' = [children EXCEPT ![p] = NoChild]
    BY <1>5 DEF Reap
  <2>2. \A q \in Pid : children'[q].alive => children'[q] = children[q]
    BY <2>1, NoChildType, TypeParts DEF RunsvInv
  <2> QED BY <2>2, NoNewRun
<1>6. ASSUME ControlLog PROVE FALSE
  <2>1. Ctrl("log", Head(fifo["log"])) BY <1>2, <1>6 DEF ControlLog, Control
  <2>2. ~Quiet BY <1>1 DEF Quiet
  <2>3. PICK want \in Wants : StartService("log", want)
    BY <2>1, <2>2, Obeyed DEF RunsvInv, Svc
  <2>4. Program("log") # "run" BY DEF Program
  <2> QED BY <2>3, <2>4, NewChild DEF RunsvInv, Svc
<1>7. ASSUME TakeTerm PROVE FALSE
  <2>1. StopIfRunning("main", "EXIT") BY <1>2, <1>7 DEF TakeTerm
  <2> QED BY <1>1, <2>1, StopIfRunningKeeps DEF RunsvInv, Svc
<1>8. ASSUME NEW p \in Pid, Die(p) PROVE FALSE
  <2>1. children' = [children EXCEPT ![p] =
          [NoChild EXCEPT !.prog = children[p].prog, !.arg = children[p].arg]]
    BY <1>8 DEF Die
  <2> DEFINE new == [NoChild EXCEPT !.prog = children[p].prog, !.arg = children[p].arg]
  <2>2. ~new.alive BY DEF NoChild
  <2>3. children' = [children EXCEPT ![p] = new] BY <2>1
  <2> HIDE DEF new
  <2>4. \A q \in Pid : children'[q].alive => children'[q] = children[q]
    BY <2>2, <2>3, TypeParts DEF RunsvInv
  <2> QED BY <2>4, NoNewRun
<1>9. ControlService => pc = "control" BY DEF ControlService, Control
<1>10. ~(Wake \/ NothingToReap \/ GoOn \/ Leave \/ CloseLogPipe \/ SendTerm \/ UNCHANGED vars)
  BY <1>2 DEF Wake, NothingToReap, GoOn, Leave, CloseLogPipe, SendTerm, vars
<1>11. ~Handler /\ \A i, c : ~Send(i, c)
  BY <1>2 DEF Handler, Handle, Send
<1> QED BY <1>3, <1>4, <1>5, <1>6, <1>7, <1>8, <1>9, <1>10, <1>11
        DEF Next, Loop, Environment, EndsByItself, IsEnded

\* ./run is started again only where sd_want is W_UP; otherwise a command does
\* it (the loop of runsv_main() and startservice()).
THEOREM NotRestartedUnlessUp == Spec => RestartsOnlyIfUp
<1>1. RunsvInv /\ [Next]_vars =>
        [~Running /\ Running' => svd.main.want = "UP" \/ pc = "control"]_vars
  BY OnlyIfUp
<1> QED BY <1>1, Invariance, PTL DEF Spec, RestartsOnlyIfUp

-----------------------------------------------------------------------------
(* The status files and the argument of ./finish, while nobody sends "k":  *)
(* after "k" the state is DOWN although the process is still there.        *)

NoKill == "k" \notin Command \cup LogCommand

\* Only "k" changes svd and not the status file.
Current == \A i \in Svc : status[i] = StatusOf(svd[i])

\* No service changes its state, and no exit status is noted.
SameStates ==
    \A i \in Svc : svd'[i].state = svd[i].state /\ svd'[i].wstat = svd[i].wstat

LEMMA WantCurrent ==
    ASSUME RunsvTypeOK, Current, NEW i \in Svc, NEW want \in Wants, Want(i, want)
    PROVE  Current' /\ SameStates
<1> DEFINE new == [svd[i] EXCEPT !.want = want]
<1>1. /\ svd' = [svd EXCEPT ![i] = new] /\ status' = [status EXCEPT ![i] = StatusOf(new)]
  BY DEF Want
<1>2. new.state = svd[i].state /\ new.wstat = svd[i].wstat
  BY TypeParts DEF Svd
<1> HIDE DEF new
<1> QED BY <1>1, <1>2, TypeParts DEF Current, SameStates

LEMMA StartCurrent ==
    ASSUME RunsvTypeOK, Current, NEW i \in Svc, NEW want, StartService(i, want)
    PROVE  Current'
<1>1. PICK new : svd' = [svd EXCEPT ![i] = new] /\ status' = [status EXCEPT ![i] = StatusOf(new)]
  BY DEF StartService
<1> QED BY <1>1, TypeParts DEF Current

LEMMA ToldCurrent ==
    ASSUME RunsvTypeOK, Current, NEW i \in Svc,
           svd' = svd, status' \in {status, [status EXCEPT ![i] = StatusOf(svd[i])]}
    PROVE  Current' /\ SameStates
BY TypeParts DEF Current, SameStates

LEMMA CtrlCurrent ==
    ASSUME RunsvTypeOK, Current, NEW i \in Svc, NEW c, c # "k", Ctrl(i, c)
    PROVE  /\ Current'
           /\ SameStates \/ (svd[i].pid = 0 /\ \E want \in Wants : StartService(i, want))
<1> USE DEF Wants
<1>1. CASE c = "d" /\ Down(i)
  BY <1>1, WantCurrent DEF Down
<1>2. ASSUME NEW want \in {"UP", "DOWN"}, StartWanted(i, want)
      PROVE  /\ Current'
             /\ SameStates \/ (svd[i].pid = 0 /\ \E w \in Wants : StartService(i, w))
  <2>1. CASE svd[i].pid = 0
    BY <1>2, <2>1, StartCurrent DEF StartWanted
  <2>2. CASE svd[i].pid # 0
    BY <1>2, <2>2, WantCurrent DEF StartWanted
  <2> QED BY <2>1, <2>2
<1>3. CASE c = "x" /\ Exit(i)
  <2>1. CASE i = "log"
    BY <1>3, <2>1, ToldCurrent DEF Exit
  <2>2. CASE i # "log"
    BY <1>3, <2>2, WantCurrent DEF Exit
  <2> QED BY <2>1, <2>2
<1>4. CASE c = "t" /\ Term(i)
  <2>1. svd' = svd /\ status' \in {status, [status EXCEPT ![i] = StatusOf(svd[i])]}
    BY <1>4 DEF Term
  <2> QED BY <2>1, ToldCurrent
<1>5. CASE c \in {"p", "c"} /\ PauseOrContinue(i, c)
  BY <1>5, ToldCurrent DEF PauseOrContinue
<1> QED BY <1>1, <1>2, <1>3, <1>4, <1>5 DEF Ctrl

\* What waits in a FIFO was sent.
LEMMA NotKilled ==
    ASSUME RunsvTypeOK, NoKill, NEW i \in Svc, fifo[i] # <<>>
    PROVE  Head(fifo[i]) # "k"
<1>1. fifo[i] \in Seq(Command \cup LogCommand) BY TypeParts DEF Fifo
<1>2. Head(fifo[i]) \in Command \cup LogCommand BY <1>1
<1> QED BY <1>2 DEF NoKill

LEMMA CurrentStep ==
    ASSUME RunsvInv, NoKill, Current, [Next]_vars
    PROVE  Current'
<1> USE DEF RunsvInv
<1>1. CASE StartLog
  BY <1>1, StartCurrent, ToldCurrent DEF StartLog, Svc
<1>2. CASE Start
  BY <1>2, StartCurrent, ToldCurrent DEF Start, Svc
<1>3. CASE Reap
  <2>1. PICK p \in Dead :
          /\ svd' = Reaped(p)
          /\ status' = [i \in Svc |-> IF svd[i].pid = p THEN StatusOf(svd'[i]) ELSE status[i]]
    BY <1>3 DEF Reap
  <2>2. ASSUME NEW i \in Svc, svd[i].pid # p PROVE StatusOf(svd'[i]) = StatusOf(svd[i])
    <3>1. CASE i = "main"
      <4>1. p # svd.main.pid BY <2>2, <3>1
      <4>2. \/ svd' = svd
            \/ svd' = [svd EXCEPT !.main.wstat = children[p].prog,
                                  !.log = [@ EXCEPT !.pid = 0, !.state = "DOWN"]]
        BY <2>1, <4>1 DEF Reaped
      <4>3. svd'["main"] = svd["main"]
            \/ svd'["main"] = [svd["main"] EXCEPT !.wstat = children[p].prog]
        BY <4>2, TypeParts DEF Svc
      <4> QED BY <3>1, <4>3, TypeParts DEF Svd, StatusOf
    <3>2. CASE i = "log"
      <4>1. p # svd.log.pid BY <2>2, <3>2
      <4>2. svd'["log"] = svd["log"]
        BY <2>1, <4>1, TypeParts DEF Reaped, Svc
      <4> QED BY <3>2, <4>2
    <3> QED BY <3>1, <3>2 DEF Svc
  <2> QED BY <2>1, <2>2 DEF Current
<1>4. ASSUME NEW i \in Svc, NEW here, NEW next, Control(i, here, next) PROVE Current'
  <2>1. CASE fifo[i] = <<>>
    BY <1>4, <2>1, ToldCurrent DEF Control
  <2>2. CASE fifo[i] # <<>>
    BY <1>4, <2>2, NotKilled, CtrlCurrent DEF Control
  <2> QED BY <2>1, <2>2
<1>5. CASE TakeTerm
  BY <1>5, WantCurrent, ToldCurrent DEF TakeTerm, Svc, Wants
<1>6. CASE CloseLogPipe
  BY <1>6, WantCurrent, ToldCurrent DEF CloseLogPipe, Svc, Wants
<1>7. CASE UNCHANGED <<svd, status>>
  BY <1>7 DEF Current
<1>8. Wake \/ NothingToReap \/ GoOn \/ Leave \/ Handler \/ Environment \/ UNCHANGED vars
      => UNCHANGED <<svd, status>>
  BY DEF Wake, NothingToReap, GoOn, Leave, Handler, Handle, Environment, EndsByItself,
         IsEnded, Die, Send, SendTerm, vars
<1> QED BY <1>1, <1>2, <1>3, <1>4, <1>5, <1>6, <1>7, <1>8
        DEF Next, Loop, ControlService, ControlLog, Svc

\* supervise/status says what is true of the service whenever runsv sleeps, and
\* in fact after every step: each change of svd is followed by update_status().
\* "k" is the exception, ctrl() sets the state after a kill and writes nothing.
THEOREM StatusFilesAreCurrent == ASSUME NoKill PROVE Spec => []StatusIsCurrent
<1>1. Init => Current
  BY DEF Init, Current
<1>2. RunsvInv /\ Current /\ [Next]_vars => Current'
  BY CurrentStep
<1>3. Current => StatusIsCurrent
  BY DEF Current, StatusIsCurrent, Service, Svc
<1> QED BY <1>1, <1>2, <1>3, Invariance, PTL DEF Spec

\* Without a log service whose status could come between: where ./finish is to be
\* started the status is that of ./run, and the state says which of them runs.
Finish ==
    /\ pc # "controlLog" /\ svd["log"].pid = 0
    /\ svd["main"].state = "FINISH" /\ svd["main"].pid = 0 => svd["main"].wstat = "run"
    /\ svd["main"].pid # 0 =>
          children[svd["main"].pid].prog = IF svd["main"].state = "FINISH" THEN "finish"
                                                                          ELSE "run"
    /\ FinishGetsRunStatus

\* Steps that bring no process and change no state.
LEMMA FinishKept ==
    ASSUME RunsvTypeOK, Finish, Keeps(children'), SameStates,
           \A i \in Svc : svd'[i].pid = svd[i].pid, pc' # "controlLog"
    PROVE  Finish'
<1>1. /\ svd'["main"].pid = svd["main"].pid /\ svd'["log"].pid = svd["log"].pid
      /\ svd'["main"].state = svd["main"].state /\ svd'["main"].wstat = svd["main"].wstat
  BY DEF SameStates, Svc
<1>2. svd["main"].pid # 0 =>
         children'[svd["main"].pid].prog = children[svd["main"].pid].prog
  BY TypeParts DEF Keeps, Svd
<1>3. FinishGetsRunStatus'
  BY DEF Finish, Keeps, FinishGetsRunStatus
<1> QED BY <1>1, <1>2, <1>3 DEF Finish

\* The service is started, or ./finish.
LEMMA FinishStarted ==
    ASSUME RunsvTypeOK, Finish, svd["main"].pid = 0, NEW want, StartService("main", want),
           pc' # "controlLog"
    PROVE  Finish'
<1> DEFINE state == IF svd["main"].state = "FINISH" THEN "FINISH" ELSE "RUN"
           prog == Program("main")
           arg == IF prog = "finish" THEN svd.main.wstat ELSE "none"
<1>1. PICK p \in Unused :
        /\ svd' = [svd EXCEPT !["main"] = [svd["main"] EXCEPT !.want = want, !.pid = p,
                                             !.state = state]]
        /\ children' = [children EXCEPT ![p] =
             [NoChild EXCEPT !.prog = prog, !.alive = logpipe \/ ~HasLog, !.arg = arg]]
  BY DEF StartService
<1> DEFINE child == [NoChild EXCEPT !.prog = prog, !.alive = logpipe \/ ~HasLog, !.arg = arg]
<1>2. p \in Pid /\ p # 0 BY RunsvAssumption DEF Unused
<1>3. prog = IF state = "FINISH" THEN "finish" ELSE "run" BY DEF Program
<1>4. prog = "finish" => arg = "run" BY <1>3 DEF Finish
<1> HIDE DEF arg, prog
<1>5. child.prog = prog /\ child.arg = arg BY DEF NoChild
<1>6. children' = [children EXCEPT ![p] = child] BY <1>1
<1> HIDE DEF child, state
<1>7. svd'["log"] = svd["log"] /\ svd'["main"].pid = p /\ svd'["main"].state = state
  BY <1>1, TypeParts DEF Svc, Svd
<1>8. children'[p] = child /\ \A q \in Pid \ {p} : children'[q] = children[q]
  BY <1>2, <1>6, TypeParts
<1>9. FinishGetsRunStatus'
  BY <1>4, <1>5, <1>8 DEF Finish, FinishGetsRunStatus
<1> QED BY <1>2, <1>3, <1>5, <1>7, <1>8, <1>9 DEF Finish

LEMMA FinishReaped ==
    ASSUME RunsvInv, Finish, Reap
    PROVE  Finish'
<1> USE DEF RunsvInv
<1>1. PICK p \in Dead : children' = [children EXCEPT ![p] = NoChild] /\ svd' = Reaped(p)
  BY DEF Reap
<1>2. p \in Pid /\ children[p] # NoChild BY DEF Dead
<1>3. p = svd["main"].pid /\ p # 0
  <2>1. svd[Runs(children[p].prog)].pid = p BY <1>2, SupervisesNow
  <2>2. p # 0 BY <1>2, RunsvAssumption
  <2> QED BY <2>1, <2>2 DEF Runs, Finish
<1> DEFINE state == IF svd["main"].state # "FINISH" /\ HasFinish THEN "FINISH" ELSE "DOWN"
<1>4. svd' = [svd EXCEPT !["main"] = [svd["main"] EXCEPT !.wstat = children[p].prog,
                                        !.pid = 0, !.state = state]]
  BY <1>1, <1>3 DEF Reaped
<1>5. state = "FINISH" => children[p].prog = "run"
  BY <1>3 DEF Finish
<1> HIDE DEF state
<1>6. /\ svd'["log"] = svd["log"] /\ svd'["main"].pid = 0 /\ svd'["main"].state = state
      /\ svd'["main"].wstat = children[p].prog
  BY <1>4, TypeParts DEF Svc, Svd
<1>7. \A q \in Pid : children'[q] \in {NoChild, children[q]}
  BY <1>1, <1>2, TypeParts
<1>8. FinishGetsRunStatus'
  BY <1>7, NoChildType DEF Finish, FinishGetsRunStatus
<1>9. pc' # "controlLog" BY DEF Reap
<1> QED BY <1>5, <1>6, <1>8, <1>9 DEF Finish

LEMMA FinishDie ==
    ASSUME RunsvTypeOK, Finish, NEW p \in Pid, Die(p)
    PROVE  Finish'
<1> DEFINE new == [NoChild EXCEPT !.prog = children[p].prog, !.arg = children[p].arg]
<1>1. new.prog = children[p].prog /\ new.arg = children[p].arg BY DEF NoChild
<1>2. children' = [children EXCEPT ![p] = new] /\ svd' = svd /\ pc' = pc BY DEF Die
<1> HIDE DEF new
<1>3. \A q \in Pid : children'[q].prog = children[q].prog /\ children'[q].arg = children[q].arg
  BY <1>1, <1>2, TypeParts
<1>4. svd["main"].pid # 0 => svd["main"].pid \in Pid BY TypeParts DEF Svd
<1>5. FinishGetsRunStatus' BY <1>3 DEF Finish, FinishGetsRunStatus
<1> QED BY <1>2, <1>3, <1>4, <1>5 DEF Finish

LEMMA FinishStep ==
    ASSUME RunsvInv, NoKill, ~HasLog, Current, Finish, [Next]_vars
    PROVE  Finish'
<1> USE DEF RunsvInv
<1>1. ASSUME UNCHANGED <<svd, children>>, pc' # "controlLog" PROVE Finish'
  BY <1>1, KeepsChildren, FinishKept DEF Keeps, SameStates
<1>2. CASE StartLog
  BY <1>1, <1>2 DEF StartLog
<1>3. CASE Start
  BY <1>1, <1>3, FinishStarted DEF Start
<1>4. CASE Reap
  BY <1>4, FinishReaped
<1>5. CASE ControlService
  <2>1. Control("main", "control", "term") /\ pc' # "controlLog"
    BY <1>5 DEF ControlService, Control
  <2>2. CASE fifo["main"] = <<>>
    BY <1>1, <2>1, <2>2 DEF Control
  <2>3. CASE fifo["main"] # <<>>
    <3>1. Ctrl("main", Head(fifo["main"])) BY <2>1, <2>3 DEF Control
    <3>2. Head(fifo["main"]) # "k" BY <2>3, NotKilled DEF Svc
    <3>3. CASE svd["main"].pid = 0 /\ \E want \in Wants : StartService("main", want)
      BY <2>1, <3>3, FinishStarted
    <3>4. CASE ~(svd["main"].pid = 0 /\ \E want \in Wants : StartService("main", want))
      <4>1. Quiet BY <3>1, <3>4, Obeyed DEF Svc
      <4>2. SameStates BY <3>1, <3>2, <3>4, CtrlCurrent DEF Svc
      <4> QED BY <2>1, <4>1, <4>2, FinishKept DEF Quiet
    <3> QED BY <3>3, <3>4
  <2> QED BY <2>2, <2>3
<1>6. CASE TakeTerm
  <2>1. CASE sigterm
    <3>1. Want("main", "EXIT") /\ StopIfRunning("main", "EXIT") /\ pc' # "controlLog"
      BY <1>6, <2>1 DEF TakeTerm
    <3>2. Keeps(children') /\ \A j \in Svc : svd'[j].pid = svd[j].pid
      BY <3>1, StopIfRunningKeeps, WantKeeps DEF Svc, Wants
    <3>3. SameStates BY <3>1, WantCurrent DEF Svc, Wants
    <3> QED BY <3>1, <3>2, <3>3, FinishKept
  <2>2. CASE ~sigterm
    BY <1>1, <1>6, <2>2 DEF TakeTerm
  <2> QED BY <2>1, <2>2
<1>7. ~ControlLog /\ ~CloseLogPipe
  BY DEF ControlLog, Control, CloseLogPipe, Finish
<1>8. CASE Environment
  <2>1. ASSUME NEW p \in Pid, Die(p) PROVE Finish'
    BY <2>1, FinishDie
  <2>2. pc # "controlLog" BY DEF Finish
  <2> QED BY <1>1, <1>8, <2>1, <2>2 DEF Environment, EndsByItself, IsEnded, Send, SendTerm
<1>9. CASE Wake \/ NothingToReap \/ GoOn \/ Leave \/ Handler \/ UNCHANGED vars
  <2>1. pc # "controlLog" BY DEF Finish
  <2> QED BY <1>1, <1>9, <2>1 DEF Wake, NothingToReap, GoOn, Leave, Handler, Handle, vars
<1> QED BY <1>2, <1>3, <1>4, <1>5, <1>6, <1>7, <1>8, <1>9 DEF Next, Loop

\* ./finish gets the status of ./run, of the process that it cleans up after: no
\* other death comes between (reaping, "The first one is ./run exit code").  A log
\* service's status goes to svd[0] as well, and after "k" ./finish may follow
\* itself: these are what the two hypotheses leave out.
THEOREM FinishFollowsRun == ASSUME NoKill, ~HasLog PROVE Spec => []FinishGetsRunStatus
<1> DEFINE Inv == RunsvInv /\ Current /\ Finish
<1>1. Init => Inv
  <2> SUFFICES ASSUME Init PROVE Inv OBVIOUS
  <2>1. PICK want \in {"UP", "DOWN"}, logWant \in {"UP", "DOWN"} :
          svd = [main |-> FirstSvd(want), log |-> FirstSvd(logWant)]
    BY DEF Init
  <2>2. \A p \in Pid : children[p] = NoChild BY DEF Init
  <2>3. Finish BY <2>1, <2>2, NoChildType DEF Finish, FinishGetsRunStatus, FirstSvd, Init
  <2> QED BY <2>3, InitInv DEF Init, Current
<1>2. Inv /\ [Next]_vars => Inv'
  BY NextInv, CurrentStep, FinishStep
<1>3. Inv => FinishGetsRunStatus
  BY DEF Finish
<1> QED BY <1>1, <1>2, <1>3, PTL DEF Spec
=============================================================================

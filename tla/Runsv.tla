------------------------------- MODULE Runsv -------------------------------
(***************************************************************************)
(* The service supervisor runsv (runsv.c): its loop, which starts, reaps   *)
(* and signals a service and, if there is one, the log service that reads  *)
(* the service's output from a pipe.                                       *)
(*                                                                         *)
(* While runsv takes its steps its children die, commands arrive in the    *)
(* two control FIFOs and signals arrive, in any order.  Signals are        *)
(* blocked except during poll(), whose handlers write to the self-pipe.    *)
(* The timeout of poll(), an hour, and the sleep after a service that ran  *)
(* for less than a second are left out: nothing here relies on them.       *)
(*                                                                         *)
(* An exit status is represented by the program that left it.              *)
(***************************************************************************)
EXTENDS Naturals, Sequences, FiniteSets

CONSTANTS
    HasLog,      \* ./log is a directory
    HasFinish,   \* ./finish exists
    Command,     \* commands that are sent to the service
    LogCommand,  \* commands that are sent to the log service
    Handled,     \* commands for which control/? may exit with 0
    Terminable,  \* whether SIGTERM is sent to runsv
    Pid,         \* process ids
    MaxQueue     \* bound of the model: commands that wait in a FIFO

ASSUME RunsvAssumption ==
    /\ {HasLog, HasFinish, Terminable} \subseteq BOOLEAN
    /\ Command \cup LogCommand \subseteq {"u", "d", "o", "x", "t", "k", "p", "c"}
    /\ Handled \subseteq {"t", "k", "p", "c"}
    /\ Pid \subseteq Nat \ {0}
    /\ MaxQueue \in Nat \ {0}

VARIABLES
    pc,        \* where the loop is
    svd,       \* svd[0] is svd.main, svd[1] is svd.log
    children,  \* the processes that runsv has not waited for
    fifo,      \* supervise/control, log/supervise/control
    pending,   \* signals that wait to be handled
    selfpipe,  \* whether there is something in the pipe
    sigterm,
    logpipe,   \* whether the two ends of logpipe are open in runsv
    status     \* what supervise/status and log/supervise/status say

signals == <<pending, selfpipe, sigterm>>
vars == <<pc, svd, children, fifo, signals, logpipe, status>>

Svc == {"main", "log"}
Service == IF HasLog THEN Svc ELSE {"main"}

NoChild == [prog |-> "none", arg |-> "none", alive |-> FALSE,
            termed |-> FALSE, killed |-> FALSE, stopped |-> FALSE]
Unused == {p \in Pid : children[p] = NoChild}
Dead == {p \in Pid : children[p] # NoChild /\ ~children[p].alive}

-----------------------------------------------------------------------------
(* Starting and signalling.                                                *)

StatusOf(s) == [state |-> s.state, want |-> s.want, pid |-> s.pid]

\* Signal sig to process p; one that has died does not notice.
Signal(procs, p, sig) ==
    IF ~procs[p].alive THEN procs
    ELSE CASE sig = "TERM" -> [procs EXCEPT ![p].termed = TRUE]
           [] sig = "KILL" -> [procs EXCEPT ![p].killed = TRUE]
           [] sig = "STOP" -> [procs EXCEPT ![p].stopped = TRUE]
           [] sig = "CONT" -> [procs EXCEPT ![p].stopped = FALSE]

\* custom(): whether control/c has done what was to be done.
Custom(i, c) == IF i = "main" /\ c \in Handled THEN BOOLEAN ELSE {FALSE}

Program(i) == IF i = "log" THEN "log"
              ELSE IF svd.main.state = "FINISH" THEN "finish" ELSE "run"

\* startservice() with "want" already set.  A child that cannot duplicate the
\* log pipe dies before it executes anything.
StartService(i, want) ==
    \E p \in Unused :
        LET new == [svd[i] EXCEPT !.want = want, !.pid = p,
                      !.state = IF @ = "FINISH" THEN @ ELSE "RUN"]
        IN  /\ svd' = [svd EXCEPT ![i] = new]
            /\ status' = [status EXCEPT ![i] = StatusOf(new)]
            /\ children' = [children EXCEPT ![p] =
                 [NoChild EXCEPT !.prog = Program(i), !.alive = logpipe \/ ~HasLog,
                    !.arg = IF Program(i) = "finish" THEN svd.main.wstat ELSE "none"]]
            /\ pending' = IF logpipe \/ ~HasLog THEN pending ELSE pending \cup {"CHLD"}
            /\ UNCHANGED <<selfpipe, sigterm>>

\* Fault: sd_want is set and the status file is not written.
WantSilently(i, want) ==
    /\ svd' = [svd EXCEPT ![i].want = want]
    /\ UNCHANGED status

\* sd_want is set and written to the status file.
Want(i, want) ==
    LET new == [svd[i] EXCEPT !.want = want]
    IN  /\ svd' = [svd EXCEPT ![i] = new]
        /\ status' = [status EXCEPT ![i] = StatusOf(new)]

\* What stopservice() does to the process of svd[i], when sd_want is "want" and
\* control/t has "handled" the command.
Stopped(i, want, handled) ==
    LET termed == IF handled THEN children ELSE Signal(children, svd[i].pid, "TERM")
    IN  IF want \in {"DOWN", "EXIT"} THEN Signal(termed, svd[i].pid, "CONT") ELSE termed

MayStop(i) == svd[i].pid # 0 /\ svd[i].state # "FINISH"

StopIfRunning(i, want) ==
    IF MayStop(i)
      THEN \E handled \in Custom(i, "t") : children' = Stopped(i, want, handled)
      ELSE UNCHANGED children

\* A command that sends sig unless control/c does it.
SendSignal(i, c, sig) ==
    \E handled \in Custom(i, c) :
        children' = IF svd[i].pid = 0 \/ handled THEN children
                    ELSE Signal(children, svd[i].pid, sig)

-----------------------------------------------------------------------------
(* ctrl().                                                                 *)

Down(i) ==
    /\ Want(i, "DOWN")
    /\ StopIfRunning(i, "DOWN")
    /\ UNCHANGED signals

\* Fault: the state is asked and not the process.
StartUnlessRun(i, want) ==
    IF svd[i].state # "RUN" THEN StartService(i, want)
    ELSE Want(i, want) /\ UNCHANGED <<children, signals>>

\* "u" and "o": only a service without process is started.
StartWanted(i, want) ==
    IF svd[i].pid = 0 THEN StartService(i, want)
    ELSE Want(i, want) /\ UNCHANGED <<children, signals>>

Exit(i) ==
    /\ IF i = "log" THEN UNCHANGED <<svd, status, children>>
       ELSE Want(i, "EXIT") /\ StopIfRunning(i, "EXIT")
    /\ UNCHANGED signals

Term(i) ==
    /\ IF MayStop(i)
         THEN \E handled \in Custom(i, "t") :
                /\ children' = Stopped(i, svd[i].want, handled)
                /\ status' = IF handled THEN status
                             ELSE [status EXCEPT ![i] = StatusOf(svd[i])]
         ELSE UNCHANGED <<children, status>>
    /\ UNCHANGED <<svd, signals>>

\* The state is DOWN although the process is still there.
Kill(i) ==
    /\ SendSignal(i, "k", "KILL")
    /\ svd' = [svd EXCEPT ![i].state = "DOWN"]
    /\ UNCHANGED <<status, signals>>

PauseOrContinue(i, c) ==
    /\ SendSignal(i, c, IF c = "p" THEN "STOP" ELSE "CONT")
    /\ status' = [status EXCEPT ![i] = StatusOf(svd[i])]
    /\ UNCHANGED <<svd, signals>>

Ctrl(i, c) ==
    \/ c = "d" /\ Down(i)
    \/ c = "u" /\ StartWanted(i, "UP")
    \/ c = "o" /\ StartWanted(i, "DOWN")
    \/ c = "x" /\ Exit(i)
    \/ c = "t" /\ Term(i)
    \/ c = "k" /\ Kill(i)
    \/ c \in {"p", "c"} /\ PauseOrContinue(i, c)

-----------------------------------------------------------------------------
(* The loop.                                                               *)

StartLog ==
    /\ pc = "startLog"
    /\ pc' = "start"
    /\ IF HasLog /\ svd.log.pid = 0 /\ svd.log.want = "UP"
         THEN StartService("log", "UP")
         ELSE UNCHANGED <<svd, status, children, signals>>
    /\ UNCHANGED <<fifo, logpipe>>

\* Fault: a service that is wanted down is started again.
StartUnlessExit ==
    /\ pc = "start"
    /\ pc' = "poll"
    /\ IF svd.main.pid = 0 /\ svd.main.want # "EXIT"
         THEN StartService("main", svd.main.want)
         ELSE UNCHANGED <<svd, status, children, signals>>
    /\ UNCHANGED <<fifo, logpipe>>

Start ==
    /\ pc = "start"
    /\ pc' = "poll"
    /\ IF svd.main.pid = 0 /\ (svd.main.want = "UP" \/ svd.main.state = "FINISH")
         THEN StartService("main", svd.main.want)
         ELSE UNCHANGED <<svd, status, children, signals>>
    /\ UNCHANGED <<fifo, logpipe>>

\* Fault: the handler of SIGCHLD does not write to the pipe.
HandleQuietly(sig) ==
    /\ pc = "poll" /\ sig \in pending
    /\ pending' = pending \ {sig}
    /\ selfpipe' = (selfpipe \/ sig = "TERM")
    /\ sigterm' = (sigterm \/ sig = "TERM")
    /\ UNCHANGED <<pc, svd, children, fifo, logpipe, status>>

\* s_child() and s_term().
Handle(sig) ==
    /\ pc = "poll" /\ sig \in pending
    /\ pending' = pending \ {sig}
    /\ selfpipe' = TRUE
    /\ sigterm' = (sigterm \/ sig = "TERM")
    /\ UNCHANGED <<pc, svd, children, fifo, logpipe, status>>

\* poll() returns, the signals are blocked and the self-pipe is emptied.
Wake ==
    /\ pc = "poll"
    /\ selfpipe \/ \E i \in Service : fifo[i] # <<>>
    /\ pc' = "reap" /\ selfpipe' = FALSE
    /\ UNCHANGED <<svd, children, fifo, pending, sigterm, logpipe, status>>

\* Fault: the status of ./run is not kept for ./finish.
ReapedForgetting(p) ==
    IF p \notin {svd.main.pid, svd.log.pid} THEN svd
    ELSE LET i == IF p = svd.main.pid THEN "main" ELSE "log"
         IN  [svd EXCEPT ![i] =
                [@ EXCEPT !.pid = 0,
                   !.state = IF i = "main" /\ @ # "FINISH" /\ HasFinish
                             THEN "FINISH" ELSE "DOWN"]]

\* What wait_any_nohang() and the code after it make of the death of p.  The
\* log service's status goes to svd[0].
Reaped(p) ==
    IF p = svd.main.pid
      THEN [svd EXCEPT !.main =
              [@ EXCEPT !.wstat = children[p].prog, !.pid = 0,
                 !.state = IF svd.main.state # "FINISH" /\ HasFinish
                           THEN "FINISH" ELSE "DOWN"]]
    ELSE IF p = svd.log.pid
      THEN [svd EXCEPT !.main.wstat = children[p].prog,
                       !.log = [@ EXCEPT !.pid = 0, !.state = "DOWN"]]
    ELSE svd

Reap ==
    /\ pc = "reap"
    /\ \E p \in Dead :
        /\ children' = [children EXCEPT ![p] = NoChild]
        /\ svd' = Reaped(p)
        /\ status' = [i \in Svc |-> IF svd[i].pid = p THEN StatusOf(svd'[i]) ELSE status[i]]
    /\ UNCHANGED <<pc, fifo, signals, logpipe>>

NothingToReap ==
    /\ pc = "reap" /\ Dead = {}
    /\ pc' = "control"
    /\ UNCHANGED <<svd, children, fifo, signals, logpipe, status>>

\* One byte is read from a FIFO.
Control(i, here, next) ==
    /\ pc = here
    /\ pc' = next
    /\ IF fifo[i] = <<>>
         THEN UNCHANGED <<svd, status, children, signals, fifo>>
         ELSE fifo' = [fifo EXCEPT ![i] = Tail(@)] /\ Ctrl(i, Head(fifo[i]))
    /\ UNCHANGED logpipe

ControlService == Control("main", "control", IF HasLog THEN "controlLog" ELSE "term")
ControlLog == Control("log", "controlLog", "term")

TakeTerm ==
    /\ pc = "term"
    /\ pc' = "check"
    /\ IF sigterm
         THEN /\ Want("main", "EXIT") /\ StopIfRunning("main", "EXIT")
              /\ sigterm' = FALSE /\ UNCHANGED <<pending, selfpipe>>
         ELSE UNCHANGED <<svd, status, children, signals>>
    /\ UNCHANGED <<fifo, logpipe>>

\* The end of the loop.
WantsOut == svd.main.want = "EXIT" /\ svd.main.state = "DOWN"

GoOn ==
    /\ pc = "check" /\ ~WantsOut
    /\ pc' = "startLog"
    /\ UNCHANGED <<svd, children, fifo, signals, logpipe, status>>

Leave ==
    /\ pc = "check" /\ WantsOut
    /\ svd.log.pid = 0
    /\ pc' = "exited"
    /\ UNCHANGED <<svd, children, fifo, signals, logpipe, status>>

\* Fault: runsv keeps its ends of the log pipe.
KeepLogPipe ==
    /\ pc = "check" /\ WantsOut
    /\ svd.log.pid # 0
    /\ pc' = "startLog"
    /\ IF svd.log.want # "EXIT" THEN Want("log", "EXIT") ELSE UNCHANGED <<svd, status>>
    /\ UNCHANGED <<logpipe, children, fifo, signals>>

\* "stopservice(&svd[1])" is commented out: the log service reads to the end.
CloseLogPipe ==
    /\ pc = "check" /\ WantsOut
    /\ svd.log.pid # 0
    /\ pc' = "startLog"
    /\ IF svd.log.want # "EXIT"
         THEN Want("log", "EXIT") /\ logpipe' = FALSE
         ELSE UNCHANGED <<svd, status, logpipe>>
    /\ UNCHANGED <<children, fifo, signals>>

-----------------------------------------------------------------------------
(* The children, and those who send commands and signals.                  *)

Die(p) ==
    /\ children[p].alive
    /\ children' = [children EXCEPT ![p] =
         [NoChild EXCEPT !.prog = children[p].prog, !.arg = children[p].arg]]
    /\ pending' = pending \cup {"CHLD"}
    /\ UNCHANGED <<pc, svd, fifo, selfpipe, sigterm, logpipe, status>>

\* Nobody holds the writing end of the log pipe any more.
EndOfLog == ~logpipe /\ \A p \in Pid : children[p].alive => children[p].prog = "log"

\* A process may end when it likes, unless it is stopped.
EndsByItself(p) == ~children[p].stopped /\ Die(p)

\* It must end when it is killed, or terminated and not stopped; ./finish ends,
\* and so does a log service that has read everything.
MustDie(p) ==
    \/ children[p].killed
    \/ /\ ~children[p].stopped
       /\ \/ children[p].termed \/ children[p].prog = "finish"
          \/ children[p].prog = "log" /\ EndOfLog
IsEnded(p) == MustDie(p) /\ Die(p)

Send(i, c) ==
    /\ pc # "exited"
    /\ Len(fifo[i]) < MaxQueue
    /\ fifo' = [fifo EXCEPT ![i] = Append(@, c)]
    /\ UNCHANGED <<pc, svd, children, signals, logpipe, status>>

SendTerm ==
    /\ pc # "exited" /\ Terminable /\ "TERM" \notin pending
    /\ pending' = pending \cup {"TERM"}
    /\ UNCHANGED <<pc, svd, children, fifo, selfpipe, sigterm, logpipe, status>>

-----------------------------------------------------------------------------
FirstSvd(want) == [pid |-> 0, state |-> "DOWN", want |-> want, wstat |-> "none"]

Init ==
    /\ pc = "startLog"
    /\ \E want, logWant \in {"UP", "DOWN"} :   \* "DOWN" if ./down, log/down exists
           svd = [main |-> FirstSvd(want), log |-> FirstSvd(logWant)]
    /\ children = [p \in Pid |-> NoChild]
    /\ fifo = [i \in Svc |-> <<>>]
    /\ pending = {} /\ selfpipe = FALSE /\ sigterm = FALSE
    /\ logpipe = HasLog
    /\ status = [i \in Svc |-> StatusOf(svd[i])]

Loop ==
    \/ StartLog \/ Start \/ Wake
    \/ Reap \/ NothingToReap \/ ControlService \/ ControlLog \/ TakeTerm
    \/ GoOn \/ Leave \/ CloseLogPipe

Environment ==
    \/ \E p \in Pid : EndsByItself(p) \/ IsEnded(p)
    \/ \E c \in Command : Send("main", c)
    \/ HasLog /\ \E c \in LogCommand : Send("log", c)
    \/ SendTerm

Handler == \E sig \in {"CHLD", "TERM"} : Handle(sig)

Next == Loop \/ Handler \/ Environment

Spec == Init /\ [][Next]_vars

\* The kernel runs runsv and its handlers, and ends what must end.
FairSpec == Spec /\ WF_vars(Loop) /\ WF_vars(Handler)
                 /\ \A p \in Pid : WF_vars(IsEnded(p))

-----------------------------------------------------------------------------
RunsvTypeOK ==
    /\ pc \in {"startLog", "start", "poll", "reap", "control", "controlLog",
               "term", "check", "exited"}
    /\ svd \in [Svc -> [pid : Pid \cup {0}, state : {"DOWN", "RUN", "FINISH"},
                        want : {"UP", "DOWN", "EXIT"},
                        wstat : {"none", "run", "finish", "log"}]]
    /\ children \in [Pid -> [prog : {"none", "run", "finish", "log"},
                             arg : {"none", "run", "finish", "log"},
                             alive : BOOLEAN, termed : BOOLEAN,
                             killed : BOOLEAN, stopped : BOOLEAN]]
    /\ fifo \in [Svc -> Seq(Command \cup LogCommand)]
    /\ pending \subseteq {"CHLD", "TERM"}
    /\ selfpipe \in BOOLEAN /\ sigterm \in BOOLEAN /\ logpipe \in BOOLEAN
    /\ status \in [Svc -> [pid : Pid \cup {0}, state : {"DOWN", "RUN", "FINISH"},
                           want : {"UP", "DOWN", "EXIT"}]]

Owner(p) == IF children[p].prog = "log" THEN "log" ELSE "main"
Running == \E p \in Pid : children[p].alive /\ children[p].prog = "run"

\* There is never a second copy of a service, and a signal is never sent to a
\* process that is not its own: every child that has not been waited for is the
\* one in its svdir ("if (s->pid != 0) ... should never happen").
SupervisesItsChildren ==
    /\ \A p \in Pid : children[p] # NoChild => svd[Owner(p)].pid = p
    /\ \A i \in Svc : svd[i].pid # 0 =>
           children[svd[i].pid] # NoChild /\ Owner(svd[i].pid) = i

\* runsv never sleeps over a death: when it waits in poll(), the death of a
\* child has been noticed or its signal is on the way (s_child(), selfpipe).
NoLostDeath == pc = "poll" /\ ~selfpipe /\ "CHLD" \notin pending => Dead = {}

\* "The first one is ./run exit code": the arguments of ./finish describe how
\* ./run ended.
FinishGetsRunStatus ==
    \A p \in Pid : children[p].prog = "finish" => children[p].arg = "run"

\* A service that is not wanted up is started by a command only; ./run is not
\* restarted after "down", "once" or "exit".
RestartsOnlyIfUp ==
    [][~Running /\ Running' => svd.main.want = "UP" \/ pc = "control"]_vars

\* The status file says what is true whenever runsv sleeps.
StatusIsCurrent == pc = "poll" => \A i \in Service : status[i] = StatusOf(svd[i])

\* A service that is wanted up runs, again and again if it stops.
KeptUp == svd.main.want = "UP" ~> (Running \/ svd.main.want # "UP")

\* A runsv that is told to exit does so once its services have ended.
ExitsWhenAsked == svd.main.want = "EXIT" ~> (pc = "exited" \/ svd.main.want # "EXIT")
=============================================================================

------------------------------- MODULE Syslog -------------------------------
(***************************************************************************)
(* The circular log of syslogd -C (syslogd.c) and its readers, logread and *)
(* logread -f with double buffering (logread.c).  They share a segment     *)
(* with the text and the index tail, and two semaphores: a reader counts   *)
(* itself in the first, which the kernel undoes when it dies; syslogd      *)
(* raises the second, which nobody undoes.                                 *)
(*                                                                         *)
(* A character is represented by the number of its message, NUL by 0.      *)
(* stream is all that was ever written, NULs included: since the segment   *)
(* was cleared, its k-th byte has gone to data[(k - base - 1) % Size].     *)
(***************************************************************************)
EXTENDS Integers, Sequences

CONSTANTS
    Size,         \* shbuf->size: the last byte that is not used has this index
    MessageLen,   \* lengths of messages, counting the NUL
    Reader,       \* processes that run logread
    Follower,     \* those that run logread -f
    MaxMessages,  \* bounds of the model: messages that are logged,
    MaxStarts,    \* and how often syslogd is started
    MaxKills      \* processes that are killed with SIGKILL

ASSUME SyslogAssumption ==
    /\ {Size, MaxMessages, MaxStarts} \subseteq Nat \ {0} /\ MaxKills \in Nat
    /\ MessageLen \subseteq 2 .. Size - 1
    /\ Follower \subseteq Reader

VARIABLES
    shbuf,     \* the segment: size, tail and data
    ipc,       \* the segment and the semaphores exist
    writing,   \* the second semaphore is raised
    counted,   \* the readers that are counted in the first one
    syslogd,   \* the process: where it is, and the message it writes
    logread,   \* the readers
    stream,    \* history: all bytes written to the log
    base,      \* history: how many of them before it was last cleared
    cleared,   \* history: readers that have not looked since it was cleared
    torn,      \* history: those whose turn it spoils, because they held the
               \* segment then, or follow it from a place of before
    bb_got_signal, \* a signal was caught
    used       \* bounds: messages, starts and kills so far

vars == <<shbuf, ipc, writing, counted, syslogd, logread, stream, base, cleared,
          torn, bb_got_signal, used>>
history == <<stream, base, cleared, torn>>

Index == 0 .. Size
Char == 0 .. MaxMessages

Segment == [size: {0, Size}, tail: 0 .. Size - 1, data: [Index -> Char]]

(* left: bytes of the message text that are still to be stored; back:      *)
(* where log_to_shmem() returns to, the loop or the end of do_syslogd().   *)
SyslogdState ==
    [pc: {"off", "init", "read", "semop", "copy", "up", "stop", "cleanup"},
     left: 0 .. Size, text: Char, back: {"loop", "cleanup"}]

(* at, seen: the length of stream when the reader last looked at tail, and *)
(* at its look before; copy: what it prints in this turn, with the NULs.   *)
ReaderState ==
    [pc: {"off", "semop", "fetch", "up", "sleep", "gone", "undefined"},
     cur: 0 .. Size - 1, copy: Seq(Char), seen: Nat, at: Nat]

Cleared == [i \in Index |-> 0]
Text(s) == LET kept[i \in 0 .. Len(s)] ==
                 IF i = 0 THEN << >>
                 ELSE IF s[i] = 0 THEN kept[i - 1] ELSE Append(kept[i - 1], s[i])
           IN  kept[Len(s)]
Written(from, to) == [i \in 1 .. to - from |-> stream[from + i]]

-----------------------------------------------------------------------------
(* syslogd: start, log, stop.                                              *)

At(pc) == syslogd.pc = pc

(* memset() of the segment, which may be in use, and without a lock: a     *)
(* reader that holds one copies while it is cleared, and logread -f keeps  *)
(* a place that has no meaning any more.                                   *)
ipcsyslog_init ==
    /\ At("off") /\ used.starts < MaxStarts /\ used.messages + 2 <= MaxMessages
    /\ used' = [used EXCEPT !.starts = @ + 1]
    /\ shbuf' = [size |-> 0, tail |-> 0, data |-> Cleared]
    /\ base' = Len(stream)
    /\ cleared' = cleared \cup {r \in Reader : logread[r].pc # "off"}
    /\ torn' = torn \cup {r \in Reader : logread[r].pc \in {"fetch", "up"}}
    /\ syslogd' = [syslogd EXCEPT !.pc = "init", !.back = "loop"]
    /\ bb_got_signal' = FALSE
    /\ UNCHANGED <<ipc, writing, counted, logread, stream>>

Ask(len) ==
    /\ syslogd' = [syslogd EXCEPT !.pc = "semop", !.left = len, !.text = used.messages + 1]
    /\ used' = [used EXCEPT !.messages = @ + 1]

(* "syslogd started" *)
SetSize(len) ==
    /\ At("init")
    /\ shbuf' = [shbuf EXCEPT !.size = Size]
    /\ ipc' = TRUE
    /\ Ask(len)
    /\ UNCHANGED <<writing, counted, logread, bb_got_signal, history>>

Read(len) ==
    /\ At("read")
    /\ used.messages + 2 <= MaxMessages
    /\ Ask(len)
    /\ UNCHANGED <<shbuf, ipc, writing, counted, logread, bb_got_signal,
                   history>>

SMwdn ==
    /\ At("semop")
    /\ counted = {} /\ ~writing
    /\ writing' = TRUE
    /\ syslogd' = [syslogd EXCEPT !.pc = "copy"]
    /\ UNCHANGED <<shbuf, ipc, counted, logread, bb_got_signal, used, history>>

(* k of the bytes that are left of the message are copied, the last one is *)
(* a NUL, and tail is set.                                                 *)
Chunk(k) == [i \in 1 .. k |-> IF i = syslogd.left THEN 0 ELSE syslogd.text]

Placed(data, at, bytes) ==
    [i \in Index |-> IF i \in at .. at + Len(bytes) - 1 THEN bytes[i - at + 1]
                                                      ELSE data[i]]

Stored(k, tail) ==
    /\ shbuf' = [shbuf EXCEPT !.data = Placed(@, shbuf.tail, Chunk(k)), !.tail = tail]
    /\ stream' = stream \o Chunk(k)

StoreMessage ==
    /\ At("copy")
    /\ shbuf.tail + syslogd.left < shbuf.size
    /\ Stored(syslogd.left, shbuf.tail + syslogd.left)
    /\ syslogd' = [syslogd EXCEPT !.pc = "up", !.left = 0]
    /\ UNCHANGED <<ipc, writing, counted, logread, base, cleared, torn,
                   bb_got_signal, used>>

(* What fits is copied to the end of the buffer. *)
StoreFirstPart ==
    /\ At("copy")
    /\ shbuf.tail + syslogd.left >= shbuf.size
    /\ Stored(shbuf.size - shbuf.tail, 0)
    /\ syslogd' = [syslogd EXCEPT !.left = @ - (shbuf.size - shbuf.tail)]
    /\ UNCHANGED <<ipc, writing, counted, logread, base, cleared, torn,
                   bb_got_signal, used>>

SMwup ==
    /\ At("up")
    /\ writing' = FALSE
    /\ syslogd' = [syslogd EXCEPT !.pc = IF syslogd.back = "cleanup" THEN "cleanup"
                                        ELSE IF bb_got_signal THEN "stop"
                                        ELSE "read"]
    /\ UNCHANGED <<shbuf, ipc, counted, logread, bb_got_signal, used, history>>

(* SIGTERM or SIGINT.  It interrupts read(), but for the moment between    *)
(* the test of bb_got_signal and read(): then it takes another message to  *)
(* be noticed.                                                             *)
Signal ==
    /\ syslogd.pc \in {"init", "read", "copy", "up"} /\ ~bb_got_signal
    /\ bb_got_signal' = TRUE
    /\ \E pc \in IF At("read") THEN {"read", "stop"} ELSE {syslogd.pc} :
          syslogd' = [syslogd EXCEPT !.pc = pc]
    /\ UNCHANGED <<shbuf, ipc, writing, counted, logread, used, history>>

(* It also interrupts semop(), and then syslogd dies as it is. *)
SignalWhileWaiting ==
    /\ At("semop")
    /\ syslogd' = [syslogd EXCEPT !.pc = "off"]
    /\ UNCHANGED <<shbuf, ipc, writing, counted, logread, bb_got_signal, used,
                   history>>

(* "syslogd exiting" *)
Stop(len) ==
    /\ At("stop")
    /\ syslogd' = [syslogd EXCEPT !.pc = "semop", !.left = len, !.back = "cleanup",
                                  !.text = used.messages + 1]
    /\ used' = [used EXCEPT !.messages = @ + 1]
    /\ UNCHANGED <<shbuf, ipc, writing, counted, logread, bb_got_signal,
                   history>>

(* The segment and the semaphores are removed; who is attached keeps a     *)
(* segment nobody writes to, and his next semop() fails.                   *)
ipcsyslog_cleanup ==
    /\ At("cleanup")
    /\ syslogd' = [syslogd EXCEPT !.pc = "off"]
    /\ ipc' = FALSE /\ counted' = {} /\ writing' = FALSE
    /\ logread' = [r \in Reader |->
          IF logread[r].pc \in {"semop", "fetch", "up", "sleep"}
          THEN [logread[r] EXCEPT !.pc = "gone"] ELSE logread[r]]
    /\ UNCHANGED <<shbuf, bb_got_signal, used, history>>

Killed ==
    /\ ~At("off") /\ used.kills < MaxKills
    /\ used' = [used EXCEPT !.kills = @ + 1]
    /\ syslogd' = [syslogd EXCEPT !.pc = "off"]
    /\ UNCHANGED <<shbuf, ipc, writing, counted, logread, bb_got_signal,
                   history>>

-----------------------------------------------------------------------------
(* logread.                                                                *)

Becomes(r, state) == logread' = [logread EXCEPT ![r] = state]
Goes(r, pc) == Becomes(r, [logread[r] EXCEPT !.pc = pc])
ReaderAt(r, pc) == logread[r].pc = pc

(* "Suppose atomic memory read": cur is taken before the lock. *)
Open(r) ==
    /\ ReaderAt(r, "off")
    /\ ipc
    /\ Becomes(r, [logread[r] EXCEPT !.pc = "semop", !.cur = shbuf.tail,
                                     !.seen = Len(stream), !.at = Len(stream)])
    /\ cleared' = cleared \ {r}
    /\ UNCHANGED <<shbuf, ipc, writing, counted, syslogd, stream, base, torn,
                   bb_got_signal, used>>

(* Fault: the lock of a writer is ignored. *)
SMrdnAnyway(r) ==
    /\ ReaderAt(r, "semop")
    /\ counted' = counted \cup {r}
    /\ Goes(r, "fetch")
    /\ torn' = torn \ {r}
    /\ UNCHANGED <<shbuf, ipc, writing, syslogd, stream, base, cleared,
                   bb_got_signal, used>>

SMrdn(r) ==
    /\ ReaderAt(r, "semop")
    /\ ~writing
    /\ counted' = counted \cup {r}
    /\ Goes(r, "fetch")
    /\ torn' = torn \ {r}
    /\ UNCHANGED <<shbuf, ipc, writing, syslogd, stream, base, cleared,
                   bb_got_signal, used>>

IsNul(i) == shbuf.data[i] = 0
NulFrom(cur) == CHOOSE i \in cur .. Size : IsNul(i) /\ \A j \in cur .. i - 1 : ~IsNul(j)
NulBefore(n) == {i \in 0 .. n - 1 : IsNul(i)}

Incremented(cur) == IF cur + 1 >= shbuf.size THEN 0 ELSE cur + 1

(* The first byte of the oldest complete message. *)
Oldest(cur) ==
    IF NulFrom(cur) < shbuf.size THEN Incremented(NulFrom(cur))
                                 ELSE Incremented(NulFrom(0))

NoneComplete(cur) ==
    NulFrom(cur) >= shbuf.size /\ NulBefore(shbuf.tail) = {}

Bytes(from, to) == [i \in 1 .. to - from |-> shbuf.data[from + i - 1]]

(* Fault: the second part of a text that wraps around is left out. *)
CopiedFirstPart(from) ==
    IF from <= shbuf.tail THEN Bytes(from, shbuf.tail) ELSE Bytes(from, shbuf.size)

Copied(from) ==
    IF from <= shbuf.tail THEN Bytes(from, shbuf.tail)
    ELSE Bytes(from, shbuf.size) \o Bytes(0, shbuf.tail)

Looked(r) ==
    /\ torn' = IF r \in cleared \cap Follower THEN torn \cup {r} ELSE torn
    /\ cleared' = cleared \ {r}

Fetch(r) ==
    LET l == logread[r]
        from == IF r \in Follower THEN l.cur ELSE Oldest(l.cur)
    IN /\ ReaderAt(r, "fetch")
       /\ r \in Follower => l.cur # shbuf.tail
       /\ ~(r \notin Follower /\ NoneComplete(l.cur))
       /\ ~(from > shbuf.tail /\ shbuf.size < from)
       /\ Becomes(r, [l EXCEPT !.pc = "up", !.copy = Copied(from),
                               !.cur = shbuf.tail, !.seen = l.at,
                               !.at = Len(stream)])
       /\ Looked(r)
       /\ UNCHANGED <<shbuf, ipc, writing, counted, syslogd, stream, base,
                      bb_got_signal, used>>

(* Nothing new for logread -f, which takes no time to look around. *)
NothingNew(r) ==
    /\ ReaderAt(r, "fetch")
    /\ r \in Follower /\ logread[r].cur = shbuf.tail
    /\ Becomes(r, [logread[r] EXCEPT !.pc = "sleep", !.seen = logread[r].at,
                                     !.at = Len(stream)])
    /\ Looked(r)
    /\ counted' = counted \ {r}
    /\ UNCHANGED <<shbuf, ipc, writing, syslogd, stream, base, bb_got_signal,
                   used>>

(* "no complete messages": copy and len_total are used as they are, that   *)
(* is uninitialized; or the length of the copy is negative.                *)
Undefined(r) ==
    /\ ReaderAt(r, "fetch")
    /\ \/ r \notin Follower /\ NoneComplete(logread[r].cur)
       \/ /\ r \in Follower /\ logread[r].cur > shbuf.tail
          /\ shbuf.size < logread[r].cur
    /\ Goes(r, "undefined")
    /\ counted' = counted \ {r}
    /\ UNCHANGED <<shbuf, ipc, writing, syslogd, bb_got_signal, used, history>>

(* logread exits, and may be run again. *)
SMrup(r) ==
    /\ ReaderAt(r, "up")
    /\ counted' = counted \ {r}
    /\ Becomes(r, [logread[r] EXCEPT !.copy = << >>,
                      !.pc = IF r \in Follower THEN "semop" ELSE "off"])
    /\ UNCHANGED <<shbuf, ipc, writing, syslogd, bb_got_signal, used, history>>

Wake(r) ==
    /\ ReaderAt(r, "sleep")
    /\ Goes(r, "semop")
    /\ UNCHANGED <<shbuf, ipc, writing, counted, syslogd, bb_got_signal, used,
                   history>>

(* Fault: a semaphore without SEM_UNDO. *)
InterruptedCounted(r) ==
    /\ logread[r].pc \in {"semop", "fetch", "up"} /\ used.kills < MaxKills
    /\ used' = [used EXCEPT !.kills = @ + 1]
    /\ Goes(r, "gone")
    /\ UNCHANGED <<shbuf, ipc, writing, counted, syslogd, bb_got_signal,
                   history>>

(* SIGINT, SIGKILL: SEM_UNDO takes the reader out of the semaphore. *)
Interrupted(r) ==
    /\ logread[r].pc \in {"semop", "fetch", "up"} /\ used.kills < MaxKills
    /\ used' = [used EXCEPT !.kills = @ + 1]
    /\ Goes(r, "gone")
    /\ counted' = counted \ {r}
    /\ UNCHANGED <<shbuf, ipc, writing, syslogd, bb_got_signal, history>>

-----------------------------------------------------------------------------

Init ==
    /\ shbuf = [size |-> 0, tail |-> 0, data |-> Cleared]
    /\ ipc = FALSE /\ writing = FALSE /\ counted = {}
    /\ syslogd = [pc |-> "off", left |-> 0, text |-> 0, back |-> "loop"]
    /\ logread = [r \in Reader |-> [pc |-> "off", cur |-> 0, copy |-> << >>,
                     seen |-> 0, at |-> 0]]
    /\ stream = << >> /\ base = 0 /\ cleared = {} /\ torn = {}
    /\ bb_got_signal = FALSE
    /\ used = [messages |-> 0, starts |-> 0, kills |-> 0]

SyslogdStep ==
    \/ \E len \in MessageLen : SetSize(len) \/ Stop(len)
    \/ SMwdn \/ StoreMessage \/ StoreFirstPart \/ SMwup
    \/ ipcsyslog_cleanup

ReaderStep(r) == SMrdn(r) \/ Fetch(r) \/ NothingNew(r) \/ Undefined(r) \/ SMrup(r)

Next ==
    \/ SyslogdStep
    \/ ipcsyslog_init \/ Signal \/ SignalWhileWaiting \/ Killed
    \/ \E len \in MessageLen : Read(len)
    \/ \E r \in Reader : ReaderStep(r) \/ Open(r) \/ Wake(r) \/ Interrupted(r)

(* A process goes on when it can, and a sleeping semop() is completed by   *)
(* the step that makes it possible: syslogd needs no luck to get a lock    *)
(* that readers take again and again.                                      *)
Fairness ==
    /\ WF_vars(SyslogdStep) /\ SF_vars(SMwdn)
    /\ \A r \in Reader : WF_vars(ReaderStep(r))

Spec == Init /\ [][Next]_vars /\ Fairness

-----------------------------------------------------------------------------
(* The types of the variables. *)
SyslogTypeOK ==
    /\ shbuf \in Segment /\ shbuf.data[Size] = 0
    /\ ipc \in BOOLEAN /\ writing \in BOOLEAN /\ bb_got_signal \in BOOLEAN
    /\ counted \subseteq Reader /\ cleared \subseteq Reader /\ torn \subseteq Reader
    /\ syslogd \in SyslogdState
    /\ logread \in [Reader -> ReaderState]
    /\ stream \in Seq(Char) /\ base \in Nat
    /\ used \in [messages: Char, starts: Nat, kills: Nat]

(* Where a message begins. *)
Boundary(i) == i = base \/ (i > 0 /\ stream[i] = 0)
Boundaries(r) == {i \in 0 .. logread[r].at : Boundary(i)}

Clean(r) == r \notin Follower /\ logread[r].pc = "up" /\ r \notin torn

(* logread prints whole messages, in the order they were logged, up to the *)
(* newest, whatever was written between its look at tail and its lock; and *)
(* if nothing was, every message that is complete in the buffer.           *)
ReadsWholeMessages ==
    \A r \in Reader : Clean(r) =>
       /\ Boundary(logread[r].at)
       /\ \E i \in Boundaries(r) :
             Text(logread[r].copy) = Text(Written(i, logread[r].at))
       /\ logread[r].seen = logread[r].at =>
             \A i \in Boundaries(r) :
                base <= i /\ logread[r].at - i < Size =>
                   Len(Text(Written(i, logread[r].at))) <= Len(Text(logread[r].copy))

(* In each turn logread -f prints what was written since it last looked,   *)
(* in order, and sleeps only if that is nothing.  As a turn begins where   *)
(* the one before ended, it prints each byte once; but for a turn in which *)
(* a whole buffer was written since the look before, and those a start of  *)
(* syslogd spoils: the one it clears the segment in, and the next one of   *)
(* each reader that goes on, which looks for its old place in the new log. *)
FollowerMissesNothing ==
    \A r \in Follower :
       LET l == logread[r]
       IN r \notin torn /\ l.at - l.seen < Size =>
             /\ ReaderAt(r, "up") => l.copy = Written(l.seen, l.at)
             /\ ReaderAt(r, "sleep") => l.seen = l.at

(* A reader does without defined values only while the segment has no size. *)
UndefinedOnlyUninitialised ==
    [][\A r \in Reader : logread[r].pc # "undefined" /\ logread[r].pc' = "undefined"
                             => shbuf.size = 0]_vars

(* The semaphore that a syslogd left behind when it was killed. *)
Orphaned == writing /\ syslogd.pc \notin {"copy", "up"}

(* Nobody waits in semop() for ever: not a reader, and not syslogd, which  *)
(* then writes its message or is dead, unless readers that overlap never   *)
(* let go of the log; but for a syslogd that was killed while it wrote.    *)
LetGo == \A r \in Reader : logread[r].pc \notin {"fetch", "up"}

NobodyWaitsForever ==
    /\ []<>LetGo => (At("semop") ~> At("copy") \/ At("off") \/ Orphaned)
    /\ \A r \in Reader :
          ReaderAt(r, "semop") ~> ~ReaderAt(r, "semop") \/ Orphaned
=============================================================================

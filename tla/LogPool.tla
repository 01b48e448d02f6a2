------------------------------- MODULE LogPool -------------------------------
(* The log of the device (utilsLog.cpp, LOG_SEND of globals.h).             *)
(*                                                                          *)
(* A task that logs takes a buffer from the free pool, fills it and queues  *)
(* it; the log task passes the line to the web socket, the ring in RTC      *)
(* memory and the file on the card, and gives the buffer back.  The web     *)
(* task opens, flushes, closes, clears and removes the file meanwhile; on a *)
(* failing supply the capture task pushes the file to the card.             *)
(*                                                                          *)
(* A line of the capture task is numbered; the lines the web task and the   *)
(* log task itself write are not told apart (0).                            *)
EXTENDS Naturals, Sequences, FiniteSets

CONSTANTS
    LOG_BUF_COUNT, WRITE_CACHE_CYCLE,
    RAM_LOG_LEN,  \* cells of the ring; a line takes one, an alert two, and leaves one bit
    MaxLines,     \* bound: lines of the capture task
    LogEvents     \* the events that are switched on: "slowTask", "closeInWrite", "deadSocket"

ASSUME LogConstants ==
    /\ LOG_BUF_COUNT \in Nat \ {0} /\ WRITE_CACHE_CYCLE \in Nat \ {0}
    /\ RAM_LOG_LEN \in Nat /\ RAM_LOG_LEN > 2 /\ MaxLines \in Nat
    /\ LogEvents \subseteq {"slowTask", "closeInWrite", "deadSocket"}

VARIABLES
    logFreePool,            \* buffers in the pool, which are all alike
    logQueue,
    filling,                \* by task: the line it has a buffer for
    logStep, msg,           \* the log task, and the line it is at
    sdLog, log_remote_fp, counter_write,
    buffered, card,         \* numbers of the lines in the stdio buffer and on the card
    webOp,                  \* what the web task has still to do to the file
    messageLog, mlogEnd,
    tail,                   \* history: the last cells that went into the ring
    lines, owed             \* history: lines made; those queued since the file was opened

pool == <<logFreePool, logQueue, filling, logStep, msg>>
file == <<sdLog, log_remote_fp, counter_write, buffered, card>>
ringVars == <<messageLog, mlogEnd, tail>>
logVars == <<pool, file, webOp, ringVars, lines, owed>>

Callers == {"capture", "web"}
Kinds == {"inf", "dia", "alert"} \* LOG_INF, LOG_DIA; LOG_ALT, LOG_WRN and LOG_ERR
NoLine == [no |-> 0, kind |-> "none"]
Cells == 0 .. RAM_LOG_LEN - 1

LogInit ==
    /\ logFreePool = LOG_BUF_COUNT /\ logQueue = << >> /\ filling = [t \in Callers |-> NoLine]
    /\ logStep = "wait" /\ msg = NoLine
    /\ sdLog = TRUE /\ log_remote_fp = "open" /\ counter_write \in 0 .. WRITE_CACHE_CYCLE - 1
    /\ buffered = {} /\ card = {} /\ webOp = << >>
    /\ messageLog = [c \in Cells |-> 0] /\ mlogEnd = 0 /\ tail = [c \in Cells |-> 0]
    /\ lines = 0 /\ owed = {}

---------------------------------------------------------------------------
(* LOG_SEND.  The wait for a buffer is bounded: the line is dropped then,   *)
(* and counted.                                                             *)

TakeBuffer(t, line) ==
    IF logFreePool > 0
    THEN logFreePool' = logFreePool - 1 /\ filling' = [filling EXCEPT ![t] = line]
    ELSE UNCHANGED <<logFreePool, filling>>

CaptureLogs ==
    /\ filling["capture"] = NoLine /\ lines < MaxLines
    /\ lines' = lines + 1
    /\ \E k \in Kinds : TakeBuffer("capture", [no |-> lines + 1, kind |-> k])
    /\ UNCHANGED <<logQueue, logStep, msg, file, webOp, ringVars, owed>>

(* Queue the line, or give the buffer back when the queue has no room.      *)
QueueLine(t) ==
    /\ filling[t] # NoLine /\ filling' = [filling EXCEPT ![t] = NoLine]
    /\ IF Len(logQueue) < LOG_BUF_COUNT
       THEN /\ logQueue' = Append(logQueue, filling[t])
            /\ UNCHANGED logFreePool
            /\ owed' = IF t = "capture" /\ sdLog /\ log_remote_fp = "open" /\ webOp = << >>
                       THEN owed \cup {filling[t].no} ELSE owed
       ELSE logFreePool' = logFreePool + 1 /\ UNCHANGED <<logQueue, owed>>
    /\ UNCHANGED <<logStep, msg, file, webOp, ringVars, lines>>

---------------------------------------------------------------------------
(* logTask() *)

ReceiveLine ==
    /\ logStep = "wait" /\ logQueue # << >>
    /\ msg' = Head(logQueue) /\ logQueue' = Tail(logQueue) /\ logStep' = "echo"
    /\ UNCHANGED <<logFreePool, filling, file, webOp, ringVars, lines, owed>>

(* wsAsyncSendText(): a send that fails is itself logged, by this task.     *)
HasBuffer == logFreePool > 0 /\ Len(logQueue) < LOG_BUF_COUNT

EchoLine ==
    /\ logStep = "echo" /\ logStep' = "store"
    /\ \E fails \in IF "deadSocket" \in LogEvents THEN BOOLEAN ELSE {FALSE} :
       IF fails /\ HasBuffer
       THEN /\ logFreePool' = logFreePool - 1
            /\ logQueue' = Append(logQueue, [no |-> 0, kind |-> "alert"])
       ELSE UNCHANGED <<logFreePool, logQueue>>
    /\ UNCHANGED <<filling, msg, file, webOp, ringVars, lines, owed>>

Size(line) == IF line.kind = "alert" THEN 2 ELSE 1
Shift(cells, n, v) == [c \in Cells |-> IF c + n < RAM_LOG_LEN THEN cells[c + n] ELSE v]

Wraps(n) == mlogEnd + n >= RAM_LOG_LEN

(* A line that reaches the end of the ring goes on at its beginning.        *)
RamLogStore(line) ==
    LET n == Size(line) v == line.no % 2 IN
    /\ messageLog' = [c \in Cells |->
          IF (c >= mlogEnd /\ c < mlogEnd + n) \/ (Wraps(n) /\ c + RAM_LOG_LEN < mlogEnd + n)
          THEN v ELSE messageLog[c]]
    /\ mlogEnd' = IF Wraps(n) THEN mlogEnd + n - RAM_LOG_LEN ELSE mlogEnd + n
    /\ tail' = Shift(tail, n, v)

StoreLine ==
    /\ logStep = "store"
    /\ IF msg.kind = "dia" THEN UNCHANGED ringVars ELSE RamLogStore(msg)
    /\ logStep' = IF sdLog /\ log_remote_fp = "open" THEN "write" ELSE "return"
    /\ UNCHANGED <<logFreePool, logQueue, filling, msg, file, webOp, lines, owed>>

MustSync == counter_write = 0 \/ msg.kind = "alert"

WriteLine ==
    /\ logStep = "write"
    /\ buffered' = buffered \cup ({msg.no} \ {0})
    /\ counter_write' = (counter_write + 1) % WRITE_CACHE_CYCLE
    /\ logStep' = IF MustSync THEN "sync" ELSE "return"
    /\ UNCHANGED <<logFreePool, logQueue, filling, msg, sdLog, log_remote_fp, card,
                   webOp, ringVars, lines, owed>>

(* fflush() and fsync() *)
Sync == card' = card \cup buffered /\ buffered' = {}

SyncLine ==
    /\ logStep = "sync" /\ logStep' = "return" /\ Sync
    /\ UNCHANGED <<logFreePool, logQueue, filling, msg, sdLog, log_remote_fp,
                   counter_write, webOp, ringVars, lines, owed>>

ReturnWritten == \* MUTANT of ReturnBuffer: a line that is not written keeps its buffer
    /\ logStep = "return" /\ logStep' = "wait" /\ msg' = NoLine
    /\ logFreePool' = IF sdLog THEN logFreePool + 1 ELSE logFreePool
    /\ UNCHANGED <<logQueue, filling, file, webOp, ringVars, lines, owed>>

ReturnBuffer ==
    /\ logStep = "return" /\ logStep' = "wait" /\ msg' = NoLine
    /\ logFreePool' = logFreePool + 1
    /\ UNCHANGED <<logQueue, filling, file, webOp, ringVars, lines, owed>>

---------------------------------------------------------------------------
(* logSyncSD(), called by the capture task when the supply fails.  It waits *)
(* for the queue to empty and for the line in hand to be written; only      *)
(* "slowTask" makes its bounds too short for that.                          *)

LogSyncNow == \* MUTANT of LogSyncSD: the queue is not waited for
    /\ filling["capture"] = NoLine /\ log_remote_fp = "open" /\ Sync
    /\ UNCHANGED <<pool, sdLog, log_remote_fp, counter_write, webOp, ringVars, lines, owed>>

LogSyncSD ==
    /\ filling["capture"] = NoLine /\ log_remote_fp = "open"
    /\ "slowTask" \in LogEvents \/ (logQueue = << >> /\ logStep = "wait")
    /\ Sync
    /\ UNCHANGED <<pool, sdLog, log_remote_fp, counter_write, webOp, ringVars, lines, owed>>

---------------------------------------------------------------------------
(* The web task: flush_log(), remote_log_init(), reset_log() *)

FlushLog == << "flush" >>
FlushAndClose == << "flush", "say", "close" >>
Request(op) == filling["web"] = NoLine /\ webOp = << >> /\ webOp' = op

(* The log is shown or downloaded. *)
ShowLog ==
    /\ Request(FlushLog)
    /\ UNCHANGED <<pool, file, ringVars, lines, owed>>

(* Setting sdLog or logType, to what it is or to another value, runs        *)
(* remote_log_init().                                                       *)
RemoteLogInit ==
    /\ sdLog' \in BOOLEAN /\ owed' = {}
    /\ Request(IF sdLog' THEN FlushLog \o << "reopen" >> ELSE FlushAndClose)
    /\ UNCHANGED <<pool, log_remote_fp, counter_write, buffered, card, ringVars, lines>>

ResetLogSD ==
    /\ Request(FlushAndClose \o << "remove", "reopen" >>) /\ owed' = {}
    /\ UNCHANGED <<pool, file, ringVars, lines>>

ClearRam ==
    /\ webOp = << >>
    /\ messageLog' = [c \in Cells |-> 0] /\ mlogEnd' = 0 /\ tail' = [c \in Cells |-> 0]
    /\ UNCHANGED <<pool, file, webOp, lines, owed>>

Next1(op) == webOp # << >> /\ Head(webOp) = op /\ webOp' = Tail(webOp) /\ filling["web"] = NoLine

WebFlush ==
    /\ Next1("flush")
    /\ IF log_remote_fp = "open" THEN Sync ELSE UNCHANGED <<buffered, card>>
    /\ UNCHANGED <<pool, sdLog, log_remote_fp, counter_write, ringVars, lines, owed>>

WebSays ==
    /\ Next1("say") /\ TakeBuffer("web", [no |-> 0, kind |-> "inf"])
    /\ UNCHANGED <<logQueue, logStep, msg, file, ringVars, lines, owed>>

(* Nothing keeps the log task from being between its test of the file and  *)
(* its last use of it; only "closeInWrite" closes the file under it.       *)
FileIdle == "closeInWrite" \in LogEvents \/ logStep \notin {"write", "sync"}

WebClose ==
    /\ Next1("close") /\ FileIdle
    /\ IF log_remote_fp = "open" THEN Sync ELSE UNCHANGED <<buffered, card>>
    /\ log_remote_fp' = "null"
    /\ UNCHANGED <<pool, sdLog, counter_write, ringVars, lines, owed>>

WebRemove ==
    /\ Next1("remove") /\ card' = {}
    /\ UNCHANGED <<pool, sdLog, log_remote_fp, counter_write, buffered, ringVars, lines, owed>>

(* remote_log_init_SD() closes what is open, and may fail to open.         *)
WebReopen ==
    /\ Next1("reopen") /\ FileIdle
    /\ IF log_remote_fp = "open" THEN Sync ELSE UNCHANGED <<buffered, card>>
    /\ log_remote_fp' \in {"open", "null"}
    /\ TakeBuffer("web", [no |-> 0, kind |-> IF log_remote_fp' = "open" THEN "inf" ELSE "alert"])
    /\ UNCHANGED <<logQueue, logStep, msg, sdLog, counter_write, ringVars, lines, owed>>

LogTask == ReceiveLine \/ EchoLine \/ StoreLine \/ WriteLine \/ SyncLine \/ ReturnBuffer
WebTask == WebFlush \/ WebSays \/ WebClose \/ WebRemove \/ WebReopen
LogNext ==
    \/ CaptureLogs \/ (\E t \in Callers : QueueLine(t)) \/ LogTask \/ LogSyncSD
    \/ ShowLog \/ RemoteLogInit \/ ResetLogSD \/ ClearRam \/ WebTask

(* The scheduler runs the log task, and a task that has taken a buffer.     *)
LogFairness == WF_logVars(LogTask) /\ \A t \in Callers : WF_logVars(QueueLine(t))
LogSpec == LogInit /\ [][LogNext]_logVars /\ LogFairness

---------------------------------------------------------------------------
InHand == IF logStep = "wait" THEN 0 ELSE 1
Filled == Cardinality({t \in Callers : filling[t] # NoLine})

(* Every buffer is in the pool, being filled, queued, or in the log task's  *)
(* hand: so a caller with a buffer always finds room in the queue, and the  *)
(* log task in the pool (LOG_SEND, logTask()).                              *)
PoolWhole == logFreePool + Filled + Len(logQueue) + InHand = LOG_BUF_COUNT

(* Once the log task is done with an alert, that line and every line logged *)
(* before it to the same file are on the card, the ones still in the stdio  *)
(* buffer included: the decision to sync and its order (logTask()).         *)
AlertsLand ==
    logStep = "return" /\ msg.kind = "alert" /\ msg.no \in owed
        => {m \in owed : m <= msg.no} \subseteq card

(* When logSyncSD() returns, every line the capture task logged before is   *)
(* on the card: the last lines before the supply goes.                      *)
SagLinesLand == [][LogSyncSD => owed \subseteq card']_logVars

(* Read from its end once around - the end must be a cell of it - the ring  *)
(* gives the last bytes that were stored, in order: ramLogStore() at the    *)
(* wrap, against saveRamLog().                                              *)
RingIsTail ==
    /\ mlogEnd \in Cells
    /\ \A c \in Cells : messageLog[(mlogEnd + c) % RAM_LOG_LEN] = tail[c]

(* The log task writes to a file that is open: nothing but luck keeps it so  *)
(* between logTask()'s test of log_remote_fp and its fsync().                *)
WritesOpenFile == logStep \in {"write", "sync"} => log_remote_fp = "open"

(* When nobody logs any more the log comes to rest.  It does not while the   *)
(* web socket is dead but not closed ("deadSocket"): each line that cannot   *)
(* be sent makes the next one (wsAsyncSendText() called by logTask()).       *)
LogRests == <>[](lines = MaxLines /\ webOp = << >>) => <>[](logQueue = << >>)
=============================================================================

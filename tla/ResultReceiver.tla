--------------------------- MODULE ResultReceiver ---------------------------
(***************************************************************************)
(* The receiving end of the results (pkg/result/receiver.go): receiveLoop, *)
(* alarmPersistLoop, the aggregator of main.go that reads resultChan, and  *)
(* Close, which main runs while the other three may be anywhere.  The      *)
(* fields running, socket, alarmLog and resultChan are read without the    *)
(* mutex, so every access of theirs is a step of its own; results and      *)
(* alarms are read and written under it.                                   *)
(***************************************************************************)
EXTENDS Integers, Sequences, SequencesExt

CONSTANTS
  Payloads,                 \* messages: sequences of severities
  SocketSize,               \* messages ZeroMQ holds before the publisher drops
  ResultChanSize, AlarmChanSize,   \* bufSize
  ResultsLimit, ResultsKept,       \* 1000 and 500
  AlarmsLimit, AlarmsKept,         \* 500 and 200
  MaxMessages               \* bound: messages published in a behaviour

ASSUME ResultReceiverAssumption ==
  /\ Payloads \subseteq Seq(1..5) \ {<<>>}
  /\ SocketSize \in Nat \ {0} /\ MaxMessages \in Nat
  /\ ResultChanSize \in Nat \ {0} /\ AlarmChanSize \in Nat \ {0}
  /\ ResultsKept \in Nat \ {0} /\ ResultsLimit \in Nat /\ ResultsKept <= ResultsLimit
  /\ AlarmsKept \in Nat \ {0} /\ AlarmsLimit \in Nat /\ AlarmsKept <= AlarmsLimit

VARIABLES
  published,     \* messages and results published: the next number
  wire,          \* messages between the sockets
  socket,        \* rr.socket: "open", "closed" or "nil"
  recv,          \* receiveLoop: where it is, and the results in its hand
  resultChan,    \* its buffer, and whether it is closed
  results,       \* rr.results
  received,      \* history: the results that receiveLoop recorded
  alarmID, alarmChan, alarms,
  dropped,       \* history: ids of the alarms the full channel refused
  persist,       \* alarmPersistLoop: where it is, and the alarm in its hand
  alarmLog,      \* whether the log is open, and the alarms written to it
  unlogged,      \* history: ids of the alarms not written: the log was closed
  running,       \* rr.running
  main,          \* main: before, in and after Close
  aggregator,    \* "run" or "exited"
  panicked       \* a goroutine panicked: the process is gone

vars == <<published, wire, socket, recv, resultChan, results, received, alarmID,
          alarmChan, alarms, dropped, persist, alarmLog, unlogged, running,
          main, aggregator, panicked>>

recvVars    == <<socket, recv, wire, resultChan, results, received>>
alarmVars   == <<alarmID, alarmChan, dropped>>
persistVars == <<persist, alarms, alarmLog, unlogged>>
closeVars   == <<running, main, aggregator, panicked>>

Init ==
  /\ published = [messages |-> 0, results |-> 0]
  /\ wire = <<>>
  /\ socket = "open"
  /\ recv = [pc |-> "poll", hand |-> <<>>]
  /\ resultChan = [buf |-> <<>>, closed |-> FALSE]
  /\ results = <<>> /\ received = <<>>
  /\ alarmID = 0 /\ alarmChan = <<>> /\ alarms = <<>> /\ dropped = {}
  /\ persist = [pc |-> "select", hand |-> <<>>]
  /\ alarmLog = [open |-> TRUE, lines |-> <<>>] /\ unlogged = {}
  /\ running = TRUE /\ main = "run" /\ aggregator = "run" /\ panicked = FALSE
-----------------------------------------------------------------------------
\* Mutant: the limit may be passed by one.
RecordLate(list, new, limit, kept) ==
  LET all == list \o new
  IN IF Len(all) > limit + 1 THEN SubSeq(all, Len(all) - kept + 1, Len(all)) ELSE all

\* Append, then cut to the last kept elements when the limit is passed.
Record(list, new, limit, kept) ==
  LET all == list \o new
  IN IF Len(all) > limit THEN SubSeq(all, Len(all) - kept + 1, Len(all)) ELSE all

IsAlarm(result) == result.severity >= 2

\* publish_nonblock: a full PUB socket drops the message.
Publish ==
  /\ published.messages < MaxMessages
  /\ \E payload \in Payloads :
       LET message == [i \in DOMAIN payload |->
                         [n |-> published.results + i, severity |-> payload[i]]]
       IN /\ published' = [messages |-> published.messages + 1,
                           results |-> published.results + Len(payload)]
          /\ wire' = IF Len(wire) < SocketSize THEN Append(wire, message) ELSE wire
  /\ UNCHANGED <<socket, recv, resultChan, results, received, alarmVars,
                 persistVars, closeVars>>

\* Mutant: the loop does not look at running again.
RecvPollForever ==
  /\ recv.pc = "poll"
  /\ recv' = [recv EXCEPT !.pc = IF socket = "open" /\ wire # <<>> THEN "recv" ELSE "poll"]
  /\ UNCHANGED <<published, wire, socket, resultChan, results, received,
                 alarmVars, persistVars, closeVars>>

\* receiveLoop: the loop condition and the poll.
RecvPoll ==
  /\ recv.pc = "poll"
  /\ recv' = [recv EXCEPT !.pc = IF ~running THEN "exited"
                                 ELSE IF socket = "open" /\ wire # <<>> THEN "recv"
                                 ELSE "poll"]
  /\ UNCHANGED <<published, wire, socket, resultChan, results, received,
                 alarmVars, persistVars, closeVars>>

\* RecvBytes and parseMessage; a nil socket panics, a closed one is an error.
RecvBytes ==
  /\ recv.pc = "recv"
  /\ CASE socket = "open"   -> /\ recv' = [pc |-> "send", hand |-> Head(wire)]
                               /\ wire' = Tail(wire)
                               /\ UNCHANGED panicked
       [] socket = "closed" -> /\ recv' = [recv EXCEPT !.pc = "poll"]
                               /\ UNCHANGED <<wire, panicked>>
       [] socket = "nil"    -> /\ panicked' = TRUE
                               /\ UNCHANGED <<recv, wire>>
  /\ UNCHANGED <<published, socket, resultChan, results, received, alarmVars,
                 persistVars, running, main, aggregator>>

\* Mutant: results that the full channel refuses are not recorded.
RecvSendSkips ==
  /\ recv.pc = "send"
  /\ ~resultChan.closed
  /\ IF Len(resultChan.buf) < ResultChanSize
     THEN /\ resultChan' = [resultChan EXCEPT !.buf = Append(@, recv.hand)]
          /\ recv' = [recv EXCEPT !.pc = "record"]
     ELSE /\ recv' = [recv EXCEPT !.pc = "alarm"]
          /\ UNCHANGED resultChan
  /\ UNCHANGED <<published, wire, socket, results, received, alarmVars,
                 persistVars, closeVars>>

\* The non-blocking send to resultChan; a send on a closed channel panics.
RecvSend ==
  /\ recv.pc = "send"
  /\ IF resultChan.closed
     THEN panicked' = TRUE /\ UNCHANGED <<recv, resultChan>>
     ELSE /\ resultChan' = IF Len(resultChan.buf) < ResultChanSize
                           THEN [resultChan EXCEPT !.buf = Append(@, recv.hand)]
                           ELSE resultChan
          /\ recv' = [recv EXCEPT !.pc = "record"]
          /\ UNCHANGED panicked
  /\ UNCHANGED <<published, wire, socket, results, received, alarmVars,
                 persistVars, running, main, aggregator>>

RecvRecord ==
  /\ recv.pc = "record"
  /\ results' = Record(results, recv.hand, ResultsLimit, ResultsKept)
  /\ received' = received \o recv.hand
  /\ recv' = [recv EXCEPT !.pc = "alarm"]
  /\ UNCHANGED <<published, wire, socket, resultChan, alarmVars, persistVars, closeVars>>

\* Mutant: a refused alarm does not use up its number.
RecvAlarmReuses ==
  /\ recv.pc = "alarm"
  /\ LET result == Head(recv.hand) IN
       IF ~IsAlarm(result) THEN UNCHANGED alarmVars
       ELSE IF Len(alarmChan) < AlarmChanSize
       THEN /\ alarmID' = alarmID + 1
            /\ alarmChan' = Append(alarmChan, [id |-> alarmID', n |-> result.n])
            /\ UNCHANGED dropped
       ELSE /\ dropped' = dropped \cup {alarmID + 1}
            /\ UNCHANGED <<alarmID, alarmChan>>
  /\ recv' = [pc |-> IF Len(recv.hand) = 1 THEN "poll" ELSE "alarm",
              hand |-> Tail(recv.hand)]
  /\ UNCHANGED <<published, wire, socket, resultChan, results, received,
                 persistVars, closeVars>>

\* Mutant: the results of a message from the last to the first.
RecvAlarmBackwards ==
  /\ recv.pc = "alarm"
  /\ LET result == Last(recv.hand) IN
       IF IsAlarm(result) /\ Len(alarmChan) < AlarmChanSize
       THEN /\ alarmID' = alarmID + 1
            /\ alarmChan' = Append(alarmChan, [id |-> alarmID', n |-> result.n])
            /\ UNCHANGED dropped
       ELSE UNCHANGED alarmVars
  /\ recv' = [pc |-> IF Len(recv.hand) = 1 THEN "poll" ELSE "alarm",
              hand |-> Front(recv.hand)]
  /\ UNCHANGED <<published, wire, socket, resultChan, results, received,
                 persistVars, closeVars>>

\* One turn of the loop over the results of a message.
RecvAlarm ==
  /\ recv.pc = "alarm"
  /\ LET result == Head(recv.hand) IN
       IF ~IsAlarm(result)
       THEN UNCHANGED alarmVars
       ELSE /\ alarmID' = alarmID + 1
            /\ IF Len(alarmChan) < AlarmChanSize
               THEN /\ alarmChan' = Append(alarmChan, [id |-> alarmID', n |-> result.n])
                    /\ UNCHANGED dropped
               ELSE /\ dropped' = dropped \cup {alarmID'}
                    /\ UNCHANGED alarmChan
  /\ recv' = [pc |-> IF Len(recv.hand) = 1 THEN "poll" ELSE "alarm",
              hand |-> Tail(recv.hand)]
  /\ UNCHANGED <<published, wire, socket, resultChan, results, received,
                 persistVars, closeVars>>

\* Mutant: the alarm is not written to the log.
PersistSelectNoWrite ==
  /\ persist.pc = "select"
  /\ IF running /\ alarmChan # <<>>
     THEN /\ persist' = [pc |-> "record", hand |-> <<Head(alarmChan)>>]
          /\ alarmChan' = Tail(alarmChan)
     ELSE /\ persist' = [persist EXCEPT !.pc = IF running THEN "select" ELSE "exited"]
          /\ UNCHANGED alarmChan
  /\ UNCHANGED <<published, recvVars, alarmID, dropped, alarms, alarmLog, unlogged,
                 closeVars>>

\* Mutant: the loop ends when no alarm waits.
PersistSelectOnce ==
  /\ persist.pc = "select"
  /\ IF running /\ alarmChan # <<>>
     THEN /\ persist' = [pc |-> "write", hand |-> <<Head(alarmChan)>>]
          /\ alarmChan' = Tail(alarmChan)
     ELSE /\ persist' = [persist EXCEPT !.pc = "exited"]
          /\ UNCHANGED alarmChan
  /\ UNCHANGED <<published, recvVars, alarmID, dropped, alarms, alarmLog, unlogged,
                 closeVars>>

\* alarmPersistLoop: the loop condition and the select.
PersistSelect ==
  /\ persist.pc = "select"
  /\ IF running /\ alarmChan # <<>>
     THEN /\ persist' = [pc |-> "write", hand |-> <<Head(alarmChan)>>]
          /\ alarmChan' = Tail(alarmChan)
     ELSE /\ persist' = [persist EXCEPT !.pc = IF running THEN "select" ELSE "exited"]
          /\ UNCHANGED alarmChan
  /\ UNCHANGED <<published, recvVars, alarmID, dropped, alarms, alarmLog, unlogged,
                 closeVars>>

\* persistAlarm: nothing is written to a log that Close closed.
PersistWrite ==
  /\ persist.pc = "write"
  /\ IF alarmLog.open
     THEN /\ alarmLog' = [alarmLog EXCEPT !.lines = @ \o persist.hand]
          /\ UNCHANGED unlogged
     ELSE /\ unlogged' = unlogged \cup {persist.hand[1].id}
          /\ UNCHANGED alarmLog
  /\ persist' = [persist EXCEPT !.pc = "record"]
  /\ UNCHANGED <<published, recvVars, alarmVars, alarms, closeVars>>

PersistRecord ==
  /\ persist.pc = "record"
  /\ alarms' = Record(alarms, persist.hand, AlarmsLimit, AlarmsKept)
  /\ persist' = [pc |-> "select", hand |-> <<>>]
  /\ UNCHANGED <<published, recvVars, alarmVars, alarmLog, unlogged, closeVars>>

\* resultAggregator: one message, or its end: cancelled, or channel closed.
Aggregate ==
  /\ aggregator = "run"
  /\ \/ /\ resultChan.buf # <<>>
        /\ resultChan' = [resultChan EXCEPT !.buf = Tail(@)]
        /\ UNCHANGED aggregator
     \/ /\ main # "run"
        /\ aggregator' = "exited"
        /\ UNCHANGED resultChan
  /\ UNCHANGED <<published, wire, socket, recv, results, received, alarmVars,
                 persistVars, running, main, panicked>>

\* main: a signal, cancel, and Close statement by statement.
Cancel       == main = "run" /\ main' = "cancelled" /\ UNCHANGED <<running, alarmLog, socket, resultChan>>
CloseRunning == main = "cancelled" /\ main' = "log" /\ running' = FALSE
                /\ UNCHANGED <<alarmLog, socket, resultChan>>
CloseLog     == main = "log" /\ main' = "socket" /\ alarmLog' = [alarmLog EXCEPT !.open = FALSE]
                /\ UNCHANGED <<running, socket, resultChan>>
CloseSocket  == main = "socket" /\ main' = "nil" /\ socket' = "closed"
                /\ UNCHANGED <<running, alarmLog, resultChan>>
ClearSocket  == main = "nil" /\ main' = "chan" /\ socket' = "nil"
                /\ UNCHANGED <<running, alarmLog, resultChan>>
CloseChan    == main = "chan" /\ main' = "closed" /\ resultChan' = [resultChan EXCEPT !.closed = TRUE]
                /\ UNCHANGED <<running, alarmLog, socket>>

Close ==
  /\ CloseRunning \/ CloseLog \/ CloseSocket \/ ClearSocket \/ CloseChan
  /\ UNCHANGED <<published, wire, recv, results, received, alarmVars, persist,
                 alarms, unlogged, aggregator, panicked>>

Shutdown ==
  /\ Cancel
  /\ UNCHANGED <<published, wire, recv, results, received, alarmVars, persist,
                 alarms, unlogged, aggregator, panicked>>

ReceiveLoop == RecvPoll \/ RecvBytes \/ RecvSend \/ RecvRecord \/ RecvAlarm
PersistLoop == PersistSelect \/ PersistWrite \/ PersistRecord

\* A panic ends the process.
Next ==
  /\ ~panicked
  /\ Publish \/ ReceiveLoop \/ PersistLoop \/ Aggregate \/ Shutdown \/ Close

Spec == Init /\ [][Next]_vars

\* The goroutines and main are scheduled; nobody need publish, or send a signal.
FairSpec ==
  /\ Spec
  /\ WF_vars(~panicked /\ ReceiveLoop)
  /\ WF_vars(~panicked /\ PersistLoop)
  /\ WF_vars(~panicked /\ Aggregate)
  /\ WF_vars(~panicked /\ Close)
-----------------------------------------------------------------------------
Result  == [n : Nat, severity : 1..5]
Alarm   == [id : Nat, n : Nat]
Message == Seq(Result)

\* The types, and the bounds of the channels, the socket and the two lists.
TypeOK ==
  /\ published \in [messages : 0..MaxMessages, results : Nat]
  /\ wire \in Seq(Message) /\ Len(wire) <= SocketSize
  /\ socket \in {"open", "closed", "nil"}
  /\ recv \in [pc : {"poll", "recv", "send", "record", "alarm", "exited"}, hand : Message]
  /\ resultChan \in [buf : Seq(Message), closed : BOOLEAN]
  /\ Len(resultChan.buf) <= ResultChanSize
  /\ results \in Seq(Result) /\ Len(results) <= ResultsLimit
  /\ alarms \in Seq(Alarm) /\ Len(alarms) <= AlarmsLimit
  /\ alarmID \in Nat /\ alarmChan \in Seq(Alarm) /\ Len(alarmChan) <= AlarmChanSize
  /\ persist \in [pc : {"select", "write", "record", "exited"}, hand : Seq(Alarm)]
  /\ alarmLog \in [open : BOOLEAN, lines : Seq(Alarm)]
  /\ running \in BOOLEAN /\ panicked \in BOOLEAN
  /\ main \in {"run", "cancelled", "log", "socket", "nil", "chan", "closed"}
  /\ aggregator \in {"run", "exited"}

IdsOf(s) == {s[i].id : i \in DOMAIN s}

\* Every alarm number given out is in exactly one place: written to the log,
\* refused by the full channel, missed by the closed log, waiting, or in the
\* hand of the goroutine that is about to write it; and where alarms are in a
\* line, they are in the order of their numbers and of their results.
AlarmsConserved ==
  LET inHand == IF persist.pc = "write" THEN IdsOf(persist.hand) ELSE {}
      places == <<IdsOf(alarmLog.lines), dropped, unlogged, IdsOf(alarmChan), inHand>>
  IN /\ UNION {places[i] : i \in DOMAIN places} = 1..alarmID
     /\ \A i, j \in DOMAIN places : i # j => places[i] \cap places[j] = {}
     /\ \A list \in {alarmLog.lines, alarms, alarmChan} : \A i, j \in DOMAIN list :
          i < j => list[i].id < list[j].id /\ list[i].n < list[j].n

\* Whoever sees an alarm, in LatestAlarms, in the log or in the channel, finds
\* its result in LatestResults, unless more than ResultsKept came after it; and
\* who sees it in LatestAlarms finds it in the log, unless Close closed that
\* (of a log that was opened and a disk that takes what is written: a failure of
\* either is ignored by the code, and the alarm listed all the same).
\* Neither list ever holds more than its limit, however fast messages come.
AlarmBacked ==
  /\ \A list \in {alarmLog.lines, alarms, alarmChan} : \A i \in DOMAIN list :
       \/ \E k \in DOMAIN results : results[k].n = list[i].n
       \/ \E k \in 1..(Len(received) - ResultsKept) : received[k].n = list[i].n
  /\ IdsOf(alarms) \subseteq IdsOf(alarmLog.lines) \cup unlogged
  /\ Len(results) <= ResultsLimit /\ Len(alarms) <= AlarmsLimit

\* An alarm that reached the channel is written to the log, unless the
\* program is stopped (of the same log).
AlarmLogged ==
  \A id \in 1..MaxMessages :
    id \in IdsOf(alarmChan) ~> id \in IdsOf(alarmLog.lines) \/ main # "run"

\* Once stopped, every goroutine ends, wherever Close found it, or the process
\* does: receiveLoop may still send on the closed channel or use the nil
\* socket, but nothing waits forever.
AllEnd ==
  main = "cancelled" ~>
    \/ panicked
    \/ main = "closed" /\ recv.pc = "exited" /\ persist.pc = "exited" /\ aggregator = "exited"
==============================================================================

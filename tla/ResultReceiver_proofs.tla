------------------------ MODULE ResultReceiver_proofs ------------------------
(***************************************************************************)
(* Machine-checked proofs about the receiving end of the results, for all  *)
(* messages, sizes of the channels and limits of the lists.                *)
(***************************************************************************)
EXTENDS ResultReceiver, TLAPS

\* The loops have something in hand exactly where they use it.
Hands ==
  /\ received \in Seq(Result)
  /\ \A i \in DOMAIN wire : wire[i] # <<>>
  /\ recv.pc = "recv" => wire # <<>>
  /\ recv.pc \in {"poll", "recv", "exited"} => recv.hand = <<>>
  /\ recv.pc \in {"send", "record", "alarm"} => recv.hand # <<>>
  /\ persist.pc \in {"select", "exited"} => persist.hand = <<>>
  /\ persist.pc \in {"write", "record"} => Len(persist.hand) = 1

\* Result numbers rise within a list, and from one list to another.
Rising(s)   == \A i, j \in DOMAIN s : i < j => s[i].n < s[j].n
Below(s, t) == \A i \in DOMAIN s, j \in DOMAIN t : s[i].n < t[j].n
Upto(s, n)  == \A i \in DOMAIN s : s[i].n <= n

\* Results travel in the order in which they were published.
Flow ==
  /\ \A i \in DOMAIN wire : /\ Rising(wire[i]) /\ Upto(wire[i], published.results)
                            /\ Below(recv.hand, wire[i]) /\ Below(received, wire[i])
  /\ \A i, j \in DOMAIN wire : i < j => Below(wire[i], wire[j])
  /\ Rising(recv.hand) /\ Upto(recv.hand, published.results) /\ Upto(received, published.results)
  /\ recv.pc \in {"send", "record"} => Below(received, recv.hand)

\* Alarms in the order of their numbers and of their results.
Ordered(s)   == \A i, j \in DOMAIN s : i < j => s[i].id < s[j].id /\ s[i].n < s[j].n
Before(s, t) == \A i \in DOMAIN s, j \in DOMAIN t : s[i].id < t[j].id /\ s[i].n < t[j].n

\* An alarm goes from the channel through the hand to log and list; its result
\* comes before those receiveLoop has still in hand.
Lists ==
  /\ Ordered(alarmLog.lines) /\ Ordered(alarms) /\ Ordered(alarmChan)
  /\ Before(alarmLog.lines, alarmChan) /\ Before(alarms, alarmChan) /\ Before(persist.hand, alarmChan)
  /\ persist.pc = "write" => Before(alarmLog.lines, persist.hand)
  /\ Before(alarms, persist.hand)
  /\ IdsOf(alarms) \subseteq 1..alarmID
  /\ recv.pc = "alarm" => /\ Below(alarmLog.lines, recv.hand) /\ Below(alarms, recv.hand)
                          /\ Below(alarmChan, recv.hand) /\ Below(persist.hand, recv.hand)

Logged == IdsOf(alarmLog.lines)
InChan == IdsOf(alarmChan)
InHand == IF persist.pc = "write" THEN IdsOf(persist.hand) ELSE {}

\* AlarmsConserved, place by place.
Places ==
  /\ Logged \cup dropped \cup unlogged \cup InChan \cup InHand = 1..alarmID
  /\ Logged \cap dropped = {} /\ Logged \cap unlogged = {} /\ Logged \cap InChan = {} /\ Logged \cap InHand = {}
  /\ dropped \cap unlogged = {} /\ dropped \cap InChan = {} /\ dropped \cap InHand = {}
  /\ unlogged \cap InChan = {} /\ unlogged \cap InHand = {}
  /\ InChan \cap InHand = {}

\* Every element has the number of a result that receiveLoop recorded.
Recorded(s) == \A i \in DOMAIN s : \E k \in DOMAIN received : received[k].n = s[i].n

\* A list is the end of another, and it is all of it or not too short an end.
EndOf(s, all) == Len(s) <= Len(all) /\ \A i \in DOMAIN s : s[i] = all[Len(all) - Len(s) + i]
Enough(s, all, kept) == Len(s) = Len(all) \/ Len(s) >= kept

\* The list of results is the end of what was recorded, and not too short an
\* end; alarms are of recorded results, and are listed when they were written.
Backed ==
  /\ EndOf(results, received)
  /\ Enough(results, received, ResultsKept)
  /\ recv.pc = "alarm" => Recorded(recv.hand)
  /\ Recorded(alarmLog.lines) /\ Recorded(alarms) /\ Recorded(alarmChan) /\ Recorded(persist.hand)
  /\ IdsOf(alarms) \subseteq Logged \cup unlogged
  /\ persist.pc = "record" => IdsOf(persist.hand) \subseteq Logged \cup unlogged

IInv == TypeOK /\ Hands /\ Flow /\ Lists /\ Places /\ Backed
-----------------------------------------------------------------------------
\* What taking the head of a list leaves, and what giving it an element adds.
LEMMA Taking ==
  ASSUME NEW S, NEW s \in Seq(S), s # <<>>
  PROVE  /\ Tail(s) \in Seq(S) /\ Head(s) \in S /\ Head(s) = s[1] /\ 1 \in DOMAIN s
         /\ Len(Tail(s)) = Len(s) - 1
         /\ \A i \in DOMAIN Tail(s) : i + 1 \in DOMAIN s /\ i + 1 > 1 /\ Tail(s)[i] = s[i + 1]
         /\ \A i \in DOMAIN s : i = 1 \/ (i - 1 \in DOMAIN Tail(s) /\ s[i] = Tail(s)[i - 1])
<1>1. /\ Len(s) \in Nat /\ Len(s) >= 1 /\ DOMAIN s = 1..Len(s)
      /\ Tail(s) \in Seq(S) /\ Head(s) \in S /\ Head(s) = s[1]
      /\ Len(Tail(s)) = Len(s) - 1 /\ DOMAIN Tail(s) = 1..(Len(s) - 1)
      /\ \A i \in 1..(Len(s) - 1) : Tail(s)[i] = s[i + 1]
  OBVIOUS
<1> QED BY <1>1

LEMMA Giving ==
  ASSUME NEW S, NEW s \in Seq(S), NEW x \in S
  PROVE  /\ Append(s, x) \in Seq(S) /\ Len(Append(s, x)) = Len(s) + 1
         /\ DOMAIN Append(s, x) = DOMAIN s \cup {Len(s) + 1}
         /\ \A i \in DOMAIN s : i < Len(s) + 1 /\ Append(s, x)[i] = s[i]
         /\ Append(s, x)[Len(s) + 1] = x
<1>1. /\ Len(s) \in Nat /\ DOMAIN s = 1..Len(s)
      /\ Append(s, x) \in Seq(S) /\ Len(Append(s, x)) = Len(s) + 1
      /\ DOMAIN Append(s, x) = 1..(Len(s) + 1)
      /\ \A i \in 1..Len(s) : Append(s, x)[i] = s[i]
      /\ Append(s, x)[Len(s) + 1] = x
  OBVIOUS
<1> QED BY <1>1

LEMMA Nothing ==
  ASSUME NEW S, NEW s \in Seq(S)
  PROVE  s = <<>> <=> Len(s) = 0
OBVIOUS

\* One list after another.
LEMMA Joining ==
  ASSUME NEW S, NEW s \in Seq(S), NEW t \in Seq(S)
  PROVE  /\ s \o t \in Seq(S) /\ Len(s \o t) = Len(s) + Len(t)
         /\ \A i \in DOMAIN (s \o t) :
              \/ i \in DOMAIN s /\ (s \o t)[i] = s[i]
              \/ i - Len(s) \in DOMAIN t /\ (s \o t)[i] = t[i - Len(s)] /\ i > Len(s)
         /\ \A i \in DOMAIN s : i \in DOMAIN (s \o t) /\ (s \o t)[i] = s[i] /\ i <= Len(s)
         /\ \A i \in DOMAIN t : Len(s) + i \in DOMAIN (s \o t) /\ (s \o t)[Len(s) + i] = t[i]
<1>1. /\ Len(s) \in Nat /\ Len(t) \in Nat /\ DOMAIN s = 1..Len(s) /\ DOMAIN t = 1..Len(t)
      /\ s \o t \in Seq(S) /\ Len(s \o t) = Len(s) + Len(t)
      /\ DOMAIN (s \o t) = 1..(Len(s) + Len(t))
      /\ \A i \in 1..(Len(s) + Len(t)) : (s \o t)[i] = IF i <= Len(s) THEN s[i] ELSE t[i - Len(s)]
  OBVIOUS
<1> QED BY <1>1

\* What Record keeps is the end of the list and what is added to it, all of it
\* or the number that is kept.
LEMMA RecordKeepsEnd ==
  ASSUME NEW S, NEW list \in Seq(S), NEW new \in Seq(S), NEW limit \in Nat, NEW kept \in Nat, kept <= limit
  PROVE  LET all  == list \o new
             end  == Record(list, new, limit, kept)
         IN /\ end \in Seq(S) /\ Len(end) <= limit
            /\ EndOf(end, all) /\ Enough(end, all, kept)
<1> DEFINE all == list \o new
<1>1. all \in Seq(S) /\ Len(all) \in Nat /\ DOMAIN all = 1..Len(all)
  OBVIOUS
<1>2. CASE Len(all) > limit
  <2> DEFINE first == Len(all) - kept + 1
  <2>1. Record(list, new, limit, kept) = SubSeq(all, first, Len(all))
    BY <1>2 DEF Record
  <2>2. first \in 1..(Len(all) + 1) /\ Len(all) - first + 1 = kept
    BY <1>1, <1>2
  <2>3. /\ SubSeq(all, first, Len(all)) \in Seq(S)
        /\ Len(SubSeq(all, first, Len(all))) = kept
        /\ \A i \in 1..kept : SubSeq(all, first, Len(all))[i] = all[first + i - 1]
    <3> HIDE DEF all, first
    <3>1. first \in Nat
      BY <2>2
    <3> QED BY <1>1, <2>2, <3>1
  <2> HIDE DEF all
  <2>4. \A i \in 1..kept : first + i - 1 = Len(all) - kept + i /\ Len(all) - kept + i \in 1..Len(all)
    BY <1>1, <1>2
  <2> DEFINE end == Record(list, new, limit, kept)
  <2>5. /\ end \in Seq(S) /\ Len(end) = kept /\ DOMAIN end = 1..kept
        /\ \A i \in 1..kept : end[i] = all[first + i - 1]
    BY <2>1, <2>3
  <2> HIDE DEF end, first
  <2>6. Len(end) <= limit /\ Len(end) <= Len(all)
    BY <1>1, <1>2, <2>5
  <2>7. ASSUME NEW i \in DOMAIN end
        PROVE  end[i] = all[Len(all) - Len(end) + i]
    <3>1. i \in 1..kept /\ end[i] = all[first + i - 1]
      BY <2>5
    <3>2. first + i - 1 = Len(all) - Len(end) + i
      BY <1>1, <2>4, <2>5, <3>1
    <3> QED BY <3>1, <3>2
  <2>8. EndOf(end, all)
    BY <2>6, <2>7 DEF EndOf
  <2> QED BY <2>5, <2>6, <2>8 DEF all, end, Enough
<1>3. CASE ~(Len(all) > limit)
  <2>1. Record(list, new, limit, kept) = all
    BY <1>3 DEF Record
  <2> HIDE DEF all
  <2>2. EndOf(all, all)
    BY <1>1 DEF EndOf
  <2> QED BY <1>1, <1>3, <2>1, <2>2 DEF all, Enough
<1> QED BY <1>2, <1>3
-----------------------------------------------------------------------------
LEMMA TypeStep ==
  ASSUME TypeOK, Hands, [Next]_vars
  PROVE  TypeOK' /\ Hands'
<1> USE ResultReceiverAssumption
<1>. /\ wire \in Seq(Message) /\ received \in Seq(Result)
     /\ recv \in [pc : {"poll", "recv", "send", "record", "alarm", "exited"}, hand : Message]
     /\ persist \in [pc : {"select", "write", "record", "exited"}, hand : Seq(Alarm)]
  BY DEF TypeOK, Hands
<1>1. CASE UNCHANGED vars
  BY <1>1 DEF vars, TypeOK, Hands
<1>2. CASE Publish
  <2>1. PICK payload \in Payloads :
          LET message == [i \in DOMAIN payload |-> [n |-> published.results + i, severity |-> payload[i]]]
          IN /\ published' = [messages |-> published.messages + 1,
                              results |-> published.results + Len(payload)]
             /\ wire' = IF Len(wire) < SocketSize THEN Append(wire, message) ELSE wire
    BY <1>2 DEF Publish
  <2> DEFINE message == [i \in DOMAIN payload |-> [n |-> published.results + i, severity |-> payload[i]]]
  <2>2. payload \in Seq(1..5) /\ payload # <<>> /\ Len(payload) \in Nat /\ DOMAIN payload = 1..Len(payload)
        /\ Len(payload) # 0
    BY <2>1
  <2>3. published.results \in Nat /\ published.messages \in 0..MaxMessages /\ published.messages < MaxMessages
    BY <1>2 DEF TypeOK, Publish
  <2>4. message \in Message /\ message # <<>>
    <3>1. \A i \in 1..Len(payload) : [n |-> published.results + i, severity |-> payload[i]] \in Result
      BY <2>2, <2>3 DEF Result
    <3>2. message \in Seq(Result) /\ Len(message) = Len(payload)
      BY <2>2, <3>1
    <3> QED BY <2>2, <3>2 DEF Message
  <2>5. published' \in [messages : 0..MaxMessages, results : Nat]
    BY SMTT(40), <2>1, <2>2, <2>3
  <2>6. wire' = (IF Len(wire) < SocketSize THEN Append(wire, message) ELSE wire)
    BY <2>1
  <2> HIDE DEF message
  <2>7. wire' \in Seq(Message) /\ Len(wire') <= SocketSize /\ (wire # <<>> => wire' # <<>>)
        /\ \A i \in DOMAIN wire' : wire'[i] # <<>>
    <3>1. Len(wire) <= SocketSize /\ Len(wire) \in Nat
      BY DEF TypeOK
    <3> QED BY <2>4, <2>6, <3>1, Giving DEF Hands
  <2>8. UNCHANGED <<socket, recv, resultChan, results, received, alarmVars, persistVars, closeVars>>
    BY <1>2 DEF Publish
  <2>9. TypeOK'
    BY <2>5, <2>7, <2>8 DEF TypeOK, alarmVars, persistVars, closeVars
  <2> QED BY <2>7, <2>8, <2>9 DEF Hands, persistVars
<1>3. CASE RecvPoll
  <2>1. /\ recv' \in [pc : {"poll", "recv", "send", "record", "alarm", "exited"}, hand : Message]
        /\ recv.pc = "poll" /\ recv'.pc \in {"exited", "recv", "poll"} /\ recv'.hand = recv.hand
        /\ recv'.pc = "recv" => wire # <<>>
    BY <1>3 DEF RecvPoll
  <2>2. UNCHANGED <<published, wire, socket, resultChan, results, received, alarmVars, persistVars, closeVars>>
    BY <1>3 DEF RecvPoll
  <2>3. TypeOK'
    BY <2>1, <2>2 DEF TypeOK, alarmVars, persistVars, closeVars
  <2> QED BY <2>1, <2>2, <2>3 DEF Hands, persistVars
<1>4. CASE RecvBytes
  <2>1. CASE socket = "open"
    <3>1. /\ recv' = [pc |-> "send", hand |-> Head(wire)] /\ wire' = Tail(wire) /\ UNCHANGED panicked
      BY <1>4, <2>1 DEF RecvBytes
    <3>2. wire # <<>>
      BY <1>4 DEF RecvBytes, Hands
    <3>3. /\ Head(wire) \in Message /\ Head(wire) # <<>> /\ wire' \in Seq(Message)
          /\ Len(wire') <= SocketSize /\ \A i \in DOMAIN wire' : wire'[i] # <<>>
      BY SMTT(40), <3>1, <3>2, Taking DEF Hands, TypeOK
    <3>4. UNCHANGED <<published, socket, resultChan, results, received, alarmVars, persistVars, running, main, aggregator>>
      BY <1>4 DEF RecvBytes
    <3>5. TypeOK'
      BY <3>1, <3>3, <3>4 DEF TypeOK, alarmVars, persistVars
    <3> QED BY <3>1, <3>3, <3>4, <3>5 DEF Hands, persistVars
  <2>2. CASE socket # "open"
    <3>1. UNCHANGED <<published, wire, socket, resultChan, results, received, alarmVars, persistVars, running, main, aggregator>>
      BY <1>4, <2>2 DEF RecvBytes, TypeOK
    <3>2. /\ recv' \in [pc : {"poll", "recv", "send", "record", "alarm", "exited"}, hand : Message]
          /\ recv.pc = "recv" /\ recv'.pc \in {"recv", "poll"} /\ recv'.hand = recv.hand
          /\ panicked' \in BOOLEAN
      BY <1>4, <2>2 DEF RecvBytes, TypeOK
    <3>3. TypeOK'
      BY <3>1, <3>2 DEF TypeOK, alarmVars, persistVars
    <3> QED BY <3>1, <3>2, <3>3 DEF Hands, persistVars
  <2> QED BY <2>1, <2>2
<1>5. CASE RecvSend
  <2>1. recv' \in [pc : {"poll", "recv", "send", "record", "alarm", "exited"}, hand : Message]
        /\ recv'.hand = recv.hand /\ recv.pc = "send" /\ recv'.pc \in {"send", "record"}
    BY <1>5 DEF RecvSend
  <2>2. resultChan' \in [buf : Seq(Message), closed : BOOLEAN] /\ Len(resultChan'.buf) <= ResultChanSize
    <3>1. /\ resultChan \in [buf : Seq(Message), closed : BOOLEAN] /\ Len(resultChan.buf) <= ResultChanSize
          /\ recv.hand \in Message /\ Len(resultChan.buf) \in Nat
      BY DEF TypeOK
    <3>2. /\ Append(resultChan.buf, recv.hand) \in Seq(Message)
          /\ Len(Append(resultChan.buf, recv.hand)) = Len(resultChan.buf) + 1
      BY <3>1
    <3>3. \/ UNCHANGED resultChan
          \/ /\ Len(resultChan.buf) < ResultChanSize
             /\ resultChan' = [resultChan EXCEPT !.buf = Append(@, recv.hand)]
      BY <1>5 DEF RecvSend
    <3>4. Len(resultChan.buf) < ResultChanSize => Len(resultChan.buf) + 1 <= ResultChanSize
      BY <3>1
    <3> QED BY <3>1, <3>2, <3>3, <3>4
  <2>3. panicked' \in BOOLEAN
    BY <1>5 DEF RecvSend, TypeOK
  <2>4. UNCHANGED <<published, wire, socket, results, received, alarmVars, persistVars, running, main, aggregator>>
    BY <1>5 DEF RecvSend
  <2>5. TypeOK'
    BY <2>1, <2>2, <2>3, <2>4 DEF TypeOK, alarmVars, persistVars
  <2> QED BY <2>1, <2>4, <2>5 DEF Hands, persistVars
<1>6. CASE RecvRecord
  <2>1. results' \in Seq(Result) /\ Len(results') <= ResultsLimit
    BY <1>6, RecordKeepsEnd DEF RecvRecord, TypeOK, Message
  <2>2. received' \in Seq(Result)
    BY <1>6 DEF RecvRecord, Message
  <2>3. /\ recv' = [recv EXCEPT !.pc = "alarm"] /\ recv.pc = "record"
        /\ UNCHANGED <<published, wire, socket, resultChan, alarmVars, persistVars, closeVars>>
    BY <1>6 DEF RecvRecord
  <2>4. /\ recv' \in [pc : {"poll", "recv", "send", "record", "alarm", "exited"}, hand : Message]
        /\ recv'.pc = "alarm" /\ recv'.hand = recv.hand
    BY <2>3
  <2>5. TypeOK'
    BY <2>1, <2>3, <2>4 DEF TypeOK, alarmVars, persistVars, closeVars
  <2> QED BY <2>2, <2>3, <2>4, <2>5 DEF Hands, persistVars
<1>7. CASE RecvAlarm
  <2>1. recv.hand \in Seq(Result) /\ recv.hand # <<>> /\ Len(recv.hand) \in Nat /\ Len(recv.hand) # 0
    BY <1>7 DEF RecvAlarm, Hands, Message
  <2>2. Head(recv.hand) \in Result /\ Tail(recv.hand) \in Message /\ Len(Tail(recv.hand)) = Len(recv.hand) - 1
    BY <2>1, Taking DEF Message
  <2>3. alarmID' \in Nat /\ alarmChan' \in Seq(Alarm) /\ Len(alarmChan') <= AlarmChanSize
    <3>1. alarmID \in Nat /\ alarmChan \in Seq(Alarm) /\ Len(alarmChan) <= AlarmChanSize /\ Len(alarmChan) \in Nat
      BY DEF TypeOK
    <3> DEFINE alarm == [id |-> alarmID + 1, n |-> Head(recv.hand).n]
    <3>2. alarm \in Alarm
      BY <2>2, <3>1 DEF Alarm, Result
    <3>3. \/ UNCHANGED <<alarmID, alarmChan>>
          \/ alarmID' = alarmID + 1 /\ UNCHANGED alarmChan
          \/ /\ alarmID' = alarmID + 1 /\ Len(alarmChan) < AlarmChanSize
             /\ alarmChan' = Append(alarmChan, alarm)
      BY <1>7 DEF RecvAlarm, alarmVars
    <3> HIDE DEF alarm
    <3>4. Append(alarmChan, alarm) \in Seq(Alarm) /\ Len(Append(alarmChan, alarm)) = Len(alarmChan) + 1
      BY <3>1, <3>2, Giving
    <3>5. Len(alarmChan) < AlarmChanSize => Len(alarmChan) + 1 <= AlarmChanSize
      BY <3>1
    <3>6. alarmID + 1 \in Nat
      BY <3>1
    <3> QED BY <3>1, <3>3, <3>4, <3>5, <3>6
  <2>4. recv' = [pc |-> IF Len(recv.hand) = 1 THEN "poll" ELSE "alarm", hand |-> Tail(recv.hand)]
    BY <1>7 DEF RecvAlarm
  <2>5. Tail(recv.hand) = <<>> <=> Len(recv.hand) = 1
    <3>1. Tail(recv.hand) \in Seq(Result) /\ (Len(Tail(recv.hand)) = 0 <=> Len(recv.hand) = 1)
      BY <2>1, <2>2 DEF Message
    <3> QED BY <3>1, Nothing
  <2>6. UNCHANGED <<published, wire, socket, resultChan, results, received, persistVars, closeVars>>
    BY <1>7 DEF RecvAlarm
  <2>7. TypeOK'
    BY <2>2, <2>3, <2>4, <2>6 DEF TypeOK, persistVars, closeVars
  <2> QED BY <2>4, <2>5, <2>6, <2>7 DEF Hands, persistVars
<1>8. CASE PersistSelect
  <2>1. CASE running /\ alarmChan # <<>>
    <3>1. Head(alarmChan) \in Alarm /\ Tail(alarmChan) \in Seq(Alarm) /\ Len(Tail(alarmChan)) <= AlarmChanSize
      BY <2>1, Taking DEF TypeOK
    <3>2. persist' = [pc |-> "write", hand |-> <<Head(alarmChan)>>] /\ alarmChan' = Tail(alarmChan)
      BY <1>8, <2>1 DEF PersistSelect
    <3> QED BY <1>8, <3>1, <3>2 DEF PersistSelect, TypeOK, Hands, recvVars, closeVars
  <2>2. CASE ~(running /\ alarmChan # <<>>)
    <3>1. persist'.pc \in {"select", "exited"} /\ persist'.hand = <<>>
          /\ persist' \in [pc : {"select", "write", "record", "exited"}, hand : Seq(Alarm)]
      BY <1>8, <2>2 DEF PersistSelect, Hands
    <3>2. UNCHANGED <<published, recvVars, alarmVars, alarms, alarmLog, unlogged, closeVars>>
      BY <1>8, <2>2 DEF PersistSelect, alarmVars
    <3>3. TypeOK'
      BY <3>1, <3>2 DEF TypeOK, recvVars, alarmVars, closeVars
    <3> QED BY <3>1, <3>2, <3>3 DEF Hands, recvVars
  <2> QED BY <2>1, <2>2
<1>9. CASE PersistWrite
  <2>1. alarmLog' \in [open : BOOLEAN, lines : Seq(Alarm)]
    <3>1. alarmLog \in [open : BOOLEAN, lines : Seq(Alarm)] /\ persist.hand \in Seq(Alarm)
      BY DEF TypeOK
    <3>2. alarmLog.lines \o persist.hand \in Seq(Alarm)
      BY <3>1
    <3> QED BY <1>9, <3>1, <3>2 DEF PersistWrite
  <2>2. /\ persist.pc = "write" /\ persist'.pc = "record" /\ persist'.hand = persist.hand
        /\ persist' \in [pc : {"select", "write", "record", "exited"}, hand : Seq(Alarm)]
        /\ UNCHANGED <<published, recvVars, alarmVars, alarms, closeVars>>
    BY <1>9 DEF PersistWrite
  <2>3. TypeOK'
    BY <2>1, <2>2 DEF TypeOK, recvVars, alarmVars, closeVars
  <2> QED BY <2>2, <2>3 DEF Hands, recvVars
<1>10. CASE PersistRecord
  <2>1. alarms' \in Seq(Alarm) /\ Len(alarms') <= AlarmsLimit
    BY <1>10, RecordKeepsEnd DEF PersistRecord, TypeOK
  <2>2. persist' = [pc |-> "select", hand |-> <<>>]
    BY <1>10 DEF PersistRecord
  <2> QED BY <1>10, <2>1, <2>2 DEF PersistRecord, TypeOK, Hands, recvVars, alarmVars, closeVars
<1>11. CASE Aggregate
  <2>1. resultChan' \in [buf : Seq(Message), closed : BOOLEAN] /\ Len(resultChan'.buf) <= ResultChanSize
    <3>1. /\ resultChan \in [buf : Seq(Message), closed : BOOLEAN] /\ Len(resultChan.buf) <= ResultChanSize
      BY DEF TypeOK
    <3>2. resultChan.buf # <<>> => /\ Tail(resultChan.buf) \in Seq(Message)
                                   /\ Len(Tail(resultChan.buf)) <= ResultChanSize
      BY <3>1
    <3> QED BY <1>11, <3>1, <3>2 DEF Aggregate
  <2> QED BY <1>11, <2>1 DEF Aggregate, TypeOK, Hands, alarmVars, persistVars
<1>12. CASE Shutdown \/ Close
  <2>1. /\ running' \in BOOLEAN /\ socket' \in {"open", "closed", "nil"}
        /\ main' \in {"run", "cancelled", "log", "socket", "nil", "chan", "closed"}
    BY <1>12 DEF Shutdown, Cancel, Close, CloseRunning, CloseLog, CloseSocket, ClearSocket, CloseChan, TypeOK
  <2>2. alarmLog' \in [open : BOOLEAN, lines : Seq(Alarm)]
    BY <1>12 DEF Shutdown, Cancel, Close, CloseRunning, CloseLog, CloseSocket, ClearSocket, CloseChan, TypeOK
  <2>3. resultChan' \in [buf : Seq(Message), closed : BOOLEAN] /\ Len(resultChan'.buf) <= ResultChanSize
    BY <1>12 DEF Shutdown, Cancel, Close, CloseRunning, CloseLog, CloseSocket, ClearSocket, CloseChan, TypeOK
  <2>4. UNCHANGED <<published, wire, recv, results, received, alarmVars, persist, alarms, unlogged, aggregator, panicked>>
    BY <1>12 DEF Shutdown, Close
  <2> QED BY <2>1, <2>2, <2>3, <2>4 DEF TypeOK, Hands, alarmVars
<1> QED
  BY <1>1, <1>2, <1>3, <1>4, <1>5, <1>6, <1>7, <1>8, <1>9, <1>10, <1>11, <1>12
  DEF Next, ReceiveLoop, PersistLoop
-----------------------------------------------------------------------------
\* Order within and between lists goes over to a tail and to a longer list.
LEMMA TailOrder ==
  ASSUME NEW s \in Seq(Result), s # <<>>, NEW t \in Seq(Result)
  PROVE  /\ Rising(s) => Rising(Tail(s)) /\ \A j \in DOMAIN Tail(s) : Head(s).n < Tail(s)[j].n
         /\ Below(t, s) => Below(t, Tail(s))
         /\ \A n : Upto(s, n) => Upto(Tail(s), n)
BY Taking DEF Rising, Below, Upto

LEMMA FlowStep ==
  ASSUME TypeOK, Hands, Flow, [Next]_vars
  PROVE  Flow'
<1> USE ResultReceiverAssumption
<1>. /\ wire \in Seq(Message) /\ received \in Seq(Result) /\ recv.hand \in Seq(Result)
     /\ recv \in [pc : {"poll", "recv", "send", "record", "alarm", "exited"}, hand : Message]
     /\ published \in [messages : 0..MaxMessages, results : Nat]
     /\ DOMAIN wire = 1..Len(wire) /\ Len(wire) \in Nat
  BY DEF TypeOK, Hands, Message
<1>. \A i \in DOMAIN wire : wire[i] \in Seq(Result)
  BY DEF Message
<1>1. ASSUME UNCHANGED <<published, wire, received>>, recv'.hand = recv.hand,
             recv'.pc \in {"send", "record"} => recv.pc \in {"send", "record"}
      PROVE  Flow'
  BY <1>1 DEF Flow, Rising, Upto, Below
<1>2. CASE Publish
  <2>1. PICK payload \in Payloads :
          LET message == [i \in DOMAIN payload |-> [n |-> published.results + i, severity |-> payload[i]]]
          IN /\ published' = [messages |-> published.messages + 1,
                              results |-> published.results + Len(payload)]
             /\ wire' = IF Len(wire) < SocketSize THEN Append(wire, message) ELSE wire
    BY <1>2 DEF Publish
  <2> DEFINE message == [i \in DOMAIN payload |-> [n |-> published.results + i, severity |-> payload[i]]]
  <2>2. payload \in Seq(1..5) /\ Len(payload) \in Nat /\ DOMAIN payload = 1..Len(payload)
    BY <2>1
  <2>3. published.results \in Nat /\ published'.results = published.results + Len(payload)
    BY <2>1
  <2>4. /\ DOMAIN message = 1..Len(payload)
        /\ \A i \in DOMAIN message : message[i].n = published.results + i
    BY <2>2
  <2>5. message \in Seq(Result)
    <3>1. \A i \in 1..Len(payload) : [n |-> published.results + i, severity |-> payload[i]] \in Result
      BY <2>2, <2>3 DEF Result
    <3> QED BY <2>2, <3>1
  <2>6. wire' = wire \/ wire' = Append(wire, message)
    BY <2>1
  <2> HIDE DEF message
  <2>7. /\ Rising(message) /\ Upto(message, published'.results)
        /\ \A s \in Seq(Result) : Upto(s, published.results) =>
             Below(s, message) /\ Upto(s, published'.results)
    <3>1. \A i \in DOMAIN message : i \in Nat /\ i > 0 /\ i <= Len(payload)
      BY <2>2, <2>4
    <3>2. ASSUME NEW s \in Seq(Result), Upto(s, published.results)
          PROVE  Below(s, message) /\ Upto(s, published'.results)
      <4>1. \A k \in DOMAIN s : s[k] \in Result
        OBVIOUS
      <4>2. \A k \in DOMAIN s : s[k].n \in Nat /\ s[k].n <= published.results
        BY <3>2, <4>1 DEF Upto, Result
      <4> QED BY <2>2, <2>3, <2>4, <3>1, <4>2 DEF Below, Upto
    <3>3. Rising(message) /\ Upto(message, published'.results)
      BY <2>2, <2>3, <2>4, <3>1 DEF Rising, Upto
    <3> QED BY <3>2, <3>3
  <2>8. UNCHANGED <<recv, received>>
    BY <1>2 DEF Publish
  <2>9. Upto(recv.hand, published'.results) /\ Upto(received, published'.results)
        /\ Below(recv.hand, message) /\ Below(received, message)
    BY <2>7 DEF Flow
  <2>10. \A i \in DOMAIN wire : Upto(wire[i], published'.results) /\ Below(wire[i], message)
    BY <2>7 DEF Flow
  <2>11. CASE wire' = wire
    BY <2>8, <2>9, <2>10, <2>11 DEF Flow
  <2>12. CASE wire' = Append(wire, message)
    <3>1. /\ DOMAIN wire' = DOMAIN wire \cup {Len(wire) + 1}
          /\ \A i \in DOMAIN wire : wire'[i] = wire[i]
          /\ wire'[Len(wire) + 1] = message
      BY <2>5, <2>12, Giving DEF Message
    <3>2. \A i, j \in DOMAIN wire' : i < j => Below(wire'[i], wire'[j])
      <4> SUFFICES ASSUME NEW i \in DOMAIN wire', NEW j \in DOMAIN wire', i < j
                   PROVE  Below(wire'[i], wire'[j])
        OBVIOUS
      <4>1. i \in DOMAIN wire
        BY <3>1
      <4> QED BY <2>10, <3>1, <4>1 DEF Flow
    <3>3. \A i \in DOMAIN wire' : /\ Rising(wire'[i]) /\ Upto(wire'[i], published'.results)
                                  /\ Below(recv.hand, wire'[i]) /\ Below(received, wire'[i])
      BY <2>7, <2>9, <2>10, <3>1 DEF Flow
    <3> QED BY <2>8, <2>9, <3>2, <3>3 DEF Flow
  <2> QED BY <2>6, <2>11, <2>12
<1>3. CASE RecvPoll
  BY <1>1, <1>3 DEF RecvPoll
<1>4. CASE RecvBytes
  <2>1. CASE socket = "open"
    <3>1. /\ recv' = [pc |-> "send", hand |-> Head(wire)] /\ wire' = Tail(wire)
          /\ UNCHANGED <<published, received>>
      BY <1>4, <2>1 DEF RecvBytes
    <3>2. wire # <<>>
      BY <1>4 DEF RecvBytes, Hands
    <3>3. /\ Head(wire) = wire[1] /\ 1 \in DOMAIN wire
          /\ \A i \in DOMAIN Tail(wire) : i \in Int /\ i + 1 \in DOMAIN wire /\ 1 < i + 1 /\ Tail(wire)[i] = wire[i + 1]
      BY <3>2, Taking
    <3>4. \A i \in DOMAIN wire' : /\ Rising(wire'[i]) /\ Upto(wire'[i], published.results)
                                  /\ Below(wire[1], wire'[i]) /\ Below(received, wire'[i])
      BY <3>1, <3>3 DEF Flow
    <3>5. \A i, j \in DOMAIN wire' : i < j => Below(wire'[i], wire'[j])
      <4> SUFFICES ASSUME NEW i \in DOMAIN wire', NEW j \in DOMAIN wire', i < j
                   PROVE  Below(wire'[i], wire'[j])
        OBVIOUS
      <4>1. i \in Int /\ j \in Int /\ i + 1 < j + 1 /\ wire'[i] = wire[i + 1] /\ wire'[j] = wire[j + 1]
            /\ i + 1 \in DOMAIN wire /\ j + 1 \in DOMAIN wire
        BY <3>1, <3>3
      <4> QED BY <4>1 DEF Flow
    <3>6. Rising(wire[1]) /\ Upto(wire[1], published.results) /\ Below(received, wire[1]) /\ Upto(received, published.results)
      BY <3>3 DEF Flow
    <3>7. recv'.hand = wire[1]
      BY <3>1, <3>3
    <3> QED BY <3>1, <3>4, <3>5, <3>6, <3>7 DEF Flow
  <2>2. CASE socket # "open"
    <3>1. UNCHANGED <<published, wire, received>> /\ recv'.hand = recv.hand /\ recv'.pc \in {"poll", "recv"}
      BY <1>4, <2>2 DEF RecvBytes, TypeOK
    <3> QED BY <1>1, <3>1
  <2> QED BY <2>1, <2>2
<1>5. CASE RecvSend
  <2>1. UNCHANGED <<published, wire, received>> /\ recv'.hand = recv.hand /\ recv.pc = "send"
    BY <1>5 DEF RecvSend
  <2> QED BY <1>1, <2>1
<1>6. CASE RecvRecord
  <2>1. /\ recv'.pc = "alarm" /\ recv'.hand = recv.hand /\ received' = received \o recv.hand
        /\ UNCHANGED <<published, wire>> /\ recv.pc = "record"
    BY <1>6 DEF RecvRecord
  <2>2. \A i \in DOMAIN received' : \/ i \in DOMAIN received /\ received'[i] = received[i]
                                    \/ \E k \in DOMAIN recv.hand : received'[i] = recv.hand[k]
    BY <2>1, Joining
  <2>3. Upto(received', published.results)
    BY <2>2 DEF Upto, Flow
  <2>4. \A i \in DOMAIN wire : Below(received', wire[i])
    <3> SUFFICES ASSUME NEW i \in DOMAIN wire
                 PROVE  Below(received', wire[i])
      OBVIOUS
    <3>1. Below(received, wire[i]) /\ Below(recv.hand, wire[i])
      BY DEF Flow
    <3> QED BY <2>2, <3>1 DEF Below
  <2>5. Rising(recv.hand) /\ Upto(recv.hand, published.results)
        /\ \A i \in DOMAIN wire : Rising(wire[i]) /\ Upto(wire[i], published.results) /\ Below(recv.hand, wire[i])
    BY DEF Flow
  <2>6. \A i, j \in DOMAIN wire : i < j => Below(wire[i], wire[j])
    BY DEF Flow
  <2> QED BY <2>1, <2>3, <2>4, <2>5, <2>6 DEF Flow
<1>7. CASE RecvAlarm
  <2>1. /\ recv'.pc \in {"poll", "alarm"} /\ recv'.hand = Tail(recv.hand)
        /\ UNCHANGED <<published, wire, received>> /\ recv.hand # <<>>
    BY <1>7 DEF RecvAlarm, Hands
  <2>2. Rising(Tail(recv.hand)) /\ Upto(Tail(recv.hand), published.results)
    BY <2>1, TailOrder DEF Flow
  <2>3. \A i \in DOMAIN wire : Below(Tail(recv.hand), wire[i])
    <3> SUFFICES ASSUME NEW i \in DOMAIN wire
                 PROVE  Below(Tail(recv.hand), wire[i])
      OBVIOUS
    <3>1. \A k \in DOMAIN Tail(recv.hand) : k + 1 \in DOMAIN recv.hand /\ Tail(recv.hand)[k] = recv.hand[k + 1]
      BY <2>1, Taking
    <3> QED BY <3>1 DEF Below, Flow
  <2> QED BY <2>1, <2>2, <2>3 DEF Flow
<1>8. CASE PersistLoop \/ Aggregate \/ Shutdown \/ Close \/ UNCHANGED vars
  <2>1. UNCHANGED <<published, wire, received, recv>>
    BY <1>8 DEF PersistLoop, PersistSelect, PersistWrite, PersistRecord, Aggregate, Shutdown, Close, vars, recvVars
  <2> QED BY <1>1, <2>1
<1> QED BY <1>2, <1>3, <1>4, <1>5, <1>6, <1>7, <1>8 DEF Next, ReceiveLoop
-----------------------------------------------------------------------------
\* The numbers and the order in the lists of alarms that the steps build.
LEMMA Ids ==
  ASSUME NEW s \in Seq(Alarm)
  PROVE  /\ IdsOf(s) \subseteq Nat
         /\ s # <<>> => IdsOf(s) = {Head(s).id} \cup IdsOf(Tail(s))
         /\ \A x \in Alarm : IdsOf(Append(s, x)) = IdsOf(s) \cup {x.id} /\ IdsOf(<<x>>) = {x.id}
         /\ \A t \in Seq(Alarm) : IdsOf(s \o t) = IdsOf(s) \cup IdsOf(t)
<1>1. IdsOf(s) \subseteq Nat
  <2>1. \A i \in DOMAIN s : s[i] \in Alarm
    OBVIOUS
  <2>2. \A i \in DOMAIN s : s[i].id \in Nat
    BY <2>1 DEF Alarm
  <2> QED BY <2>2 DEF IdsOf
<1>2. s # <<>> => IdsOf(s) = {Head(s).id} \cup IdsOf(Tail(s))
  <2> SUFFICES ASSUME s # <<>>
               PROVE  IdsOf(s) = {Head(s).id} \cup IdsOf(Tail(s))
    OBVIOUS
  <2>1. /\ Head(s) = s[1] /\ 1 \in DOMAIN s
        /\ \A i \in DOMAIN Tail(s) : i + 1 \in DOMAIN s /\ Tail(s)[i] = s[i + 1]
        /\ \A i \in DOMAIN s : i = 1 \/ (i - 1 \in DOMAIN Tail(s) /\ s[i] = Tail(s)[i - 1])
    BY Taking
  <2>2. ASSUME NEW id
        PROVE  (\E i \in DOMAIN s : id = s[i].id)
                 <=> (id = Head(s).id \/ \E i \in DOMAIN Tail(s) : id = Tail(s)[i].id)
    <3>1. ASSUME NEW i \in DOMAIN s, id = s[i].id
          PROVE  id = Head(s).id \/ \E k \in DOMAIN Tail(s) : id = Tail(s)[k].id
      BY <2>1, <3>1
    <3>2. ASSUME NEW i \in DOMAIN Tail(s), id = Tail(s)[i].id
          PROVE  \E k \in DOMAIN s : id = s[k].id
      BY <2>1, <3>2
    <3> QED BY <2>1, <3>1, <3>2
  <2> QED BY ZenonT(40), <2>2 DEF IdsOf
<1>3. ASSUME NEW x \in Alarm
      PROVE  IdsOf(Append(s, x)) = IdsOf(s) \cup {x.id} /\ IdsOf(<<x>>) = {x.id}
  <2>1. IdsOf(Append(s, x)) = IdsOf(s) \cup {x.id}
    <3>1. /\ DOMAIN Append(s, x) = DOMAIN s \cup {Len(s) + 1}
          /\ \A i \in DOMAIN s : Append(s, x)[i] = s[i]
          /\ Append(s, x)[Len(s) + 1] = x
      BY Giving
    <3> QED BY <3>1 DEF IdsOf
  <2>2. DOMAIN <<x>> = {1} /\ <<x>>[1] = x
    OBVIOUS
  <2> QED BY <2>1, <2>2 DEF IdsOf
<1>4. ASSUME NEW t \in Seq(Alarm)
      PROVE  IdsOf(s \o t) = IdsOf(s) \cup IdsOf(t)
  <2>1. /\ \A i \in DOMAIN (s \o t) :
              \/ i \in DOMAIN s /\ (s \o t)[i] = s[i]
              \/ i - Len(s) \in DOMAIN t /\ (s \o t)[i] = t[i - Len(s)]
        /\ \A i \in DOMAIN s : i \in DOMAIN (s \o t) /\ (s \o t)[i] = s[i]
        /\ \A i \in DOMAIN t : Len(s) + i \in DOMAIN (s \o t) /\ (s \o t)[Len(s) + i] = t[i]
    BY Joining
  <2>2. ASSUME NEW id
        PROVE  (\E i \in DOMAIN (s \o t) : id = (s \o t)[i].id)
                 <=> ((\E i \in DOMAIN s : id = s[i].id) \/ (\E i \in DOMAIN t : id = t[i].id))
    <3>1. ASSUME NEW i \in DOMAIN (s \o t), id = (s \o t)[i].id
          PROVE  (\E k \in DOMAIN s : id = s[k].id) \/ (\E k \in DOMAIN t : id = t[k].id)
      BY <2>1, <3>1
    <3>2. ASSUME NEW i \in DOMAIN s, id = s[i].id
          PROVE  \E k \in DOMAIN (s \o t) : id = (s \o t)[k].id
      BY <2>1, <3>2
    <3>3. ASSUME NEW i \in DOMAIN t, id = t[i].id
          PROVE  \E k \in DOMAIN (s \o t) : id = (s \o t)[k].id
      BY <2>1, <3>3
    <3> QED BY <3>1, <3>2, <3>3
  <2> QED BY <2>2 DEF IdsOf
<1> QED BY <1>1, <1>2, <1>3, <1>4

LEMMA JoinOrder ==
  ASSUME NEW s \in Seq(Alarm), NEW t \in Seq(Alarm)
  PROVE  /\ Ordered(s) /\ Len(t) = 1 /\ Before(s, t) => Ordered(s \o t)
         /\ \A u : Before(s, u) /\ Before(t, u) => Before(s \o t, u)
         /\ \A u : Below(s, u) /\ Below(t, u) => Below(s \o t, u)
         /\ Recorded(s) /\ Recorded(t) => Recorded(s \o t)
<1>1. \A i \in DOMAIN (s \o t) :
        \/ i \in DOMAIN s /\ (s \o t)[i] = s[i] /\ i <= Len(s)
        \/ i - Len(s) \in DOMAIN t /\ (s \o t)[i] = t[i - Len(s)] /\ i > Len(s)
  BY Joining
<1>2. ASSUME Ordered(s), Len(t) = 1, Before(s, t)
      PROVE  Ordered(s \o t)
  <2> SUFFICES ASSUME NEW i \in DOMAIN (s \o t), NEW j \in DOMAIN (s \o t), i < j
               PROVE  (s \o t)[i].id < (s \o t)[j].id /\ (s \o t)[i].n < (s \o t)[j].n
    BY DEF Ordered
  <2>1. i \in Int /\ j \in Int /\ Len(s) \in Nat /\ DOMAIN t = {1}
    <3>1. s \o t \in Seq(Alarm) /\ Len(s \o t) \in Nat /\ DOMAIN (s \o t) = 1..Len(s \o t)
      OBVIOUS
    <3> QED BY <1>2, <3>1
  <2>2. i \in DOMAIN s /\ (s \o t)[i] = s[i]
    <3>1. ~(i > Len(s) /\ j > Len(s))
      <4> SUFFICES ASSUME i > Len(s), j > Len(s)
                   PROVE  FALSE
        OBVIOUS
      <4>1. i - Len(s) = 1 /\ j - Len(s) = 1
        BY <1>1, <2>1 
      <4> QED BY <2>1, <4>1
    <3> QED BY <1>1, <2>1, <3>1
  <2>3. CASE j \in DOMAIN s /\ (s \o t)[j] = s[j]
    BY <1>2, <2>2, <2>3 DEF Ordered
  <2>4. CASE j - Len(s) \in DOMAIN t /\ (s \o t)[j] = t[j - Len(s)]
    BY <1>2, <2>2, <2>4 DEF Before
  <2> QED BY <1>1, <2>3, <2>4
<1>3. ASSUME NEW u
      PROVE  /\ Before(s, u) /\ Before(t, u) => Before(s \o t, u)
             /\ Below(s, u) /\ Below(t, u) => Below(s \o t, u)
  BY <1>1 DEF Before, Below
<1>4. Recorded(s) /\ Recorded(t) => Recorded(s \o t)
  BY <1>1 DEF Recorded
<1> QED BY <1>2, <1>3, <1>4

\* What Record keeps is in the order it was, and no element of it is new.
LEMMA RecordOrder ==
  ASSUME NEW list \in Seq(Alarm), NEW new \in Seq(Alarm), NEW limit \in Nat, NEW kept \in Nat, kept <= limit
  PROVE  LET all == list \o new
             end == Record(list, new, limit, kept)
         IN /\ Ordered(all) => Ordered(end)
            /\ \A u : Before(all, u) => Before(end, u)
            /\ \A u : Below(all, u) => Below(end, u)
            /\ Recorded(all) => Recorded(end)
            /\ IdsOf(end) \subseteq IdsOf(all)
<1> DEFINE all == list \o new
           end == Record(list, new, limit, kept)
           before == Len(all) - Len(end)
<1>1. /\ all \in Seq(Alarm) /\ end \in Seq(Alarm)
      /\ \A i \in DOMAIN end : before + i \in DOMAIN all /\ end[i] = all[before + i]
  <2>1. all \in Seq(Alarm)
    OBVIOUS
  <2>2. end \in Seq(Alarm) /\ EndOf(end, all)
    BY RecordKeepsEnd
  <2> HIDE DEF all, end
  <2> QED BY <2>1, <2>2 DEF EndOf
<1>2. before \in Int /\ (\A i \in DOMAIN end : i \in Int) 
  BY <1>1
<1> HIDE DEF all, end, before
<1>3. Ordered(all) => Ordered(end)
  <2> SUFFICES ASSUME Ordered(all), NEW i \in DOMAIN end, NEW j \in DOMAIN end, i < j
               PROVE  end[i].id < end[j].id /\ end[i].n < end[j].n
    BY DEF Ordered
  <2>1. before + i < before + j
    BY <1>2
  <2> QED BY <1>1, <2>1 DEF Ordered
<1>4. ASSUME NEW u
      PROVE  (Before(all, u) => Before(end, u)) /\ (Below(all, u) => Below(end, u))
  BY <1>1 DEF Before, Below
<1>5. Recorded(all) => Recorded(end)
  BY <1>1 DEF Recorded
<1>6. IdsOf(end) \subseteq IdsOf(all)
  BY <1>1 DEF IdsOf
<1> QED BY <1>3, <1>4, <1>5, <1>6 DEF all, end

\* The alarm that RecvAlarm makes of the head of its hand.
Raised == [id |-> alarmID + 1, n |-> Head(recv.hand).n]

LEMMA AlarmEffect ==
  ASSUME TypeOK, Hands, RecvAlarm
  PROVE  /\ recv.hand \in Seq(Result) /\ recv.hand # <<>> /\ Head(recv.hand) \in Result
         /\ recv.pc = "alarm" /\ recv'.pc \in {"poll", "alarm"} /\ recv'.hand = Tail(recv.hand)
         /\ UNCHANGED <<published, wire, results, received, persist, alarms, alarmLog, unlogged>>
         /\ Raised \in Alarm
         /\ \/ UNCHANGED <<alarmID, alarmChan, dropped>>
            \/ alarmID' = alarmID + 1 /\ alarmChan' = Append(alarmChan, Raised) /\ UNCHANGED dropped
            \/ alarmID' = alarmID + 1 /\ UNCHANGED alarmChan /\ dropped' = dropped \cup {alarmID + 1}
<1>1. recv.hand \in Seq(Result) /\ recv.hand # <<>> /\ alarmID \in Nat
  BY DEF TypeOK, Hands, Message, RecvAlarm
<1>2. Head(recv.hand) \in Result
  BY <1>1, Taking
<1>3. Raised \in Alarm
  BY <1>1, <1>2 DEF Raised, Alarm, Result
<1>4. recv.pc = "alarm" /\ recv'.pc \in {"poll", "alarm"} /\ recv'.hand = Tail(recv.hand)
  BY DEF RecvAlarm
<1>5. UNCHANGED <<published, wire, results, received, persist, alarms, alarmLog, unlogged>>
  BY DEF RecvAlarm, persistVars
<1>6. \/ UNCHANGED <<alarmID, alarmChan, dropped>>
      \/ alarmID' = alarmID + 1 /\ alarmChan' = Append(alarmChan, Raised) /\ UNCHANGED dropped
      \/ alarmID' = alarmID + 1 /\ UNCHANGED alarmChan /\ dropped' = dropped \cup {alarmID + 1}
  BY DEF RecvAlarm, Raised, alarmVars
<1> QED BY <1>1, <1>2, <1>3, <1>4, <1>5, <1>6
-----------------------------------------------------------------------------
\* Order over a tail, and over one more element.
LEMMA OrderTaken ==
  ASSUME NEW s \in Seq(Alarm), s # <<>>
  PROVE  /\ Ordered(s) => Ordered(Tail(s)) /\ Before(<<Head(s)>>, Tail(s))
         /\ \A t : Before(t, s) => Before(t, Tail(s)) /\ Before(t, <<Head(s)>>)
         /\ \A t : Below(s, t) => Below(Tail(s), t) /\ Below(<<Head(s)>>, t)
         /\ Recorded(s) => Recorded(Tail(s)) /\ Recorded(<<Head(s)>>)
<1>1. /\ Head(s) = s[1] /\ 1 \in DOMAIN s
      /\ \A i \in DOMAIN Tail(s) : i \in Int /\ i + 1 \in DOMAIN s /\ i + 1 > 1 /\ Tail(s)[i] = s[i + 1]
  BY Taking
<1>2. DOMAIN <<Head(s)>> = {1} /\ <<Head(s)>>[1] = s[1]
  BY <1>1
<1>3. Ordered(s) => Ordered(Tail(s))
  <2> SUFFICES ASSUME Ordered(s), NEW i \in DOMAIN Tail(s), NEW j \in DOMAIN Tail(s), i < j
               PROVE  Tail(s)[i].id < Tail(s)[j].id /\ Tail(s)[i].n < Tail(s)[j].n
    BY DEF Ordered
  <2>1. i + 1 < j + 1
    BY <1>1
  <2> QED BY <1>1, <2>1 DEF Ordered
<1>4. Ordered(s) => Before(<<Head(s)>>, Tail(s))
  BY <1>1, <1>2 DEF Ordered, Before
<1>5. ASSUME NEW t
      PROVE  /\ Before(t, s) => Before(t, Tail(s)) /\ Before(t, <<Head(s)>>)
             /\ Below(s, t) => Below(Tail(s), t) /\ Below(<<Head(s)>>, t)
  BY <1>1, <1>2 DEF Before, Below
<1>6. Recorded(s) => Recorded(Tail(s)) /\ Recorded(<<Head(s)>>)
  BY <1>1, <1>2 DEF Recorded
<1> QED BY <1>3, <1>4, <1>5, <1>6

LEMMA OrderGiven ==
  ASSUME NEW s \in Seq(Alarm), NEW x \in Alarm
  PROVE  /\ Ordered(s) /\ (\A i \in DOMAIN s : s[i].id < x.id /\ s[i].n < x.n) => Ordered(Append(s, x))
         /\ \A t : Before(t, s) /\ (\A i \in DOMAIN t : t[i].id < x.id /\ t[i].n < x.n)
                     => Before(t, Append(s, x))
         /\ \A t : Below(s, t) /\ (\A j \in DOMAIN t : x.n < t[j].n) => Below(Append(s, x), t)
<1>1. /\ DOMAIN Append(s, x) = DOMAIN s \cup {Len(s) + 1}
      /\ \A i \in DOMAIN s : i < Len(s) + 1 /\ Append(s, x)[i] = s[i]
      /\ Append(s, x)[Len(s) + 1] = x
  BY Giving
<1>2. Len(s) \in Nat /\ \A i \in DOMAIN s : i \in Int /\ ~(Len(s) + 1 < i)
  BY <1>1
<1>3. Ordered(s) /\ (\A i \in DOMAIN s : s[i].id < x.id /\ s[i].n < x.n) => Ordered(Append(s, x))
  BY <1>1, <1>2 DEF Ordered
<1>4. ASSUME NEW t
      PROVE  /\ Before(t, s) /\ (\A i \in DOMAIN t : t[i].id < x.id /\ t[i].n < x.n)
                  => Before(t, Append(s, x))
             /\ Below(s, t) /\ (\A j \in DOMAIN t : x.n < t[j].n) => Below(Append(s, x), t)
  BY <1>1 DEF Before, Below
<1> QED BY <1>3, <1>4

\* Every alarm known so far is smaller than the one RecvAlarm raises.
LEMMA RaisedIsLast ==
  ASSUME TypeOK, Hands, Flow, Lists, Places, Backed, RecvAlarm,
         NEW list \in {alarmLog.lines, alarms, alarmChan, persist.hand}, NEW i \in DOMAIN list
  PROVE  list[i].id < Raised.id /\ list[i].n < Raised.n
<1>. list \in Seq(Alarm) /\ alarmID \in Nat
  BY DEF TypeOK
<1>1. IdsOf(list) \subseteq 1..alarmID
  <2>1. list = persist.hand => IdsOf(list) \subseteq InHand \/ list = <<>> \/ persist.pc = "record"
    BY DEF InHand, TypeOK, Hands
  <2>2. IdsOf(<<>>) = {}
    BY DEF IdsOf
  <2>3. persist.pc = "record" => IdsOf(persist.hand) \subseteq Logged \cup unlogged
    BY DEF Backed
  <2> QED BY <2>1, <2>2, <2>3 DEF Places, Lists, Logged, InChan
<1>2. list[i].id \in 1..alarmID
  BY <1>1 DEF IdsOf
<1>3. 1 \in DOMAIN recv.hand /\ Head(recv.hand) = recv.hand[1] /\ recv.pc = "alarm"
  BY AlarmEffect, Taking
<1>4. list[i].n < recv.hand[1].n
  BY <1>3 DEF Lists, Below
<1> QED BY <1>2, <1>3, <1>4 DEF Raised

\* Where nothing is recorded or raised, no hand with alarms to raise comes up.
LEMMA OutsideAlarm ==
  ASSUME TypeOK, Publish \/ RecvPoll \/ RecvBytes \/ RecvSend \/ Aggregate \/ Shutdown \/ Close \/ UNCHANGED vars
  PROVE  recv'.pc = "alarm" => recv.pc = "alarm" /\ recv'.hand = recv.hand
<1>1. RecvPoll => recv'.pc # "alarm"
  BY DEF RecvPoll, TypeOK
<1>2. RecvBytes => UNCHANGED recv \/ recv'.pc # "alarm"
  <2>1. RecvBytes /\ socket = "open" => recv'.pc = "send"
    BY DEF RecvBytes
  <2>2. RecvBytes /\ socket = "closed" => recv'.pc = "poll"
    BY DEF RecvBytes, TypeOK
  <2>3. RecvBytes /\ socket = "nil" => UNCHANGED recv
    BY DEF RecvBytes
  <2> QED BY <2>1, <2>2, <2>3 DEF TypeOK
<1>3. RecvSend => UNCHANGED recv \/ recv'.pc # "alarm"
  BY DEF RecvSend, TypeOK
<1>4. UNCHANGED recv \/ recv'.pc # "alarm"
  BY <1>1, <1>2, <1>3 DEF Publish, Aggregate, Shutdown, Close, vars
<1> QED BY <1>4

LEMMA ListsStep ==
  ASSUME TypeOK, Hands, Flow, Lists, Places, Backed, [Next]_vars
  PROVE  Lists'
<1> USE ResultReceiverAssumption
<1>. /\ alarmLog.lines \in Seq(Alarm) /\ alarms \in Seq(Alarm) /\ alarmChan \in Seq(Alarm)
     /\ persist.hand \in Seq(Alarm) /\ recv.hand \in Seq(Result) /\ alarmID \in Nat
  BY DEF TypeOK, Message
<1>1. ASSUME UNCHANGED <<alarms, alarmChan, alarmID>>, alarmLog'.lines = alarmLog.lines,
             persist'.hand = persist.hand, persist'.pc = "write" => persist.pc = "write",
             recv'.pc = "alarm" => recv.pc = "alarm" /\ recv'.hand = recv.hand
      PROVE  Lists'
  BY <1>1 DEF Lists, Ordered, Before, Below, IdsOf
<1>2. CASE Publish \/ RecvPoll \/ RecvBytes \/ RecvSend \/ Aggregate \/ Shutdown \/ Close \/ UNCHANGED vars
  <2>1. UNCHANGED <<alarms, alarmChan, alarmID, persist>>
    BY <1>2 DEF Publish, RecvPoll, RecvBytes, RecvSend, Aggregate, Shutdown, Close, vars, alarmVars, persistVars
  <2>2. alarmLog'.lines = alarmLog.lines
    <3>1. UNCHANGED alarmLog \/ alarmLog' = [alarmLog EXCEPT !.open = FALSE]
      BY <1>2 DEF Publish, RecvPoll, RecvBytes, RecvSend, Aggregate, Shutdown, Cancel, Close, vars,
                  CloseRunning, CloseLog, CloseSocket, ClearSocket, CloseChan, persistVars
    <3> QED BY <3>1 DEF TypeOK
  <2>3. recv'.pc = "alarm" => recv.pc = "alarm" /\ recv'.hand = recv.hand
    BY <1>2, OutsideAlarm
  <2> QED BY <1>1, <2>1, <2>2, <2>3
<1>3. CASE RecvRecord
  <2>1. /\ recv'.pc = "alarm" /\ recv'.hand = recv.hand /\ recv.pc = "record"
        /\ UNCHANGED <<alarms, alarmChan, alarmID, persist, alarmLog>>
    BY <1>3 DEF RecvRecord, alarmVars, persistVars, TypeOK
  <2>2. Below(received, recv.hand)
    BY <2>1 DEF Flow
  <2>3. \A s : Recorded(s) => Below(s, recv.hand)
    BY <2>2 DEF Recorded, Below
  <2>4. /\ Below(alarmLog.lines, recv.hand) /\ Below(alarms, recv.hand)
        /\ Below(alarmChan, recv.hand) /\ Below(persist.hand, recv.hand)
    BY <2>3 DEF Backed
  <2> QED BY <2>1, <2>4 DEF Lists
<1>4. CASE RecvAlarm
  <2>1. /\ recv.hand # <<>> /\ recv.pc = "alarm" /\ recv'.hand = Tail(recv.hand)
        /\ UNCHANGED <<persist, alarms, alarmLog>> /\ Raised \in Alarm
        /\ \/ UNCHANGED <<alarmID, alarmChan>>
           \/ alarmID' = alarmID + 1 /\ alarmChan' = Append(alarmChan, Raised)
           \/ alarmID' = alarmID + 1 /\ UNCHANGED alarmChan
    BY <1>4, AlarmEffect
  <2>2. \A s \in Seq(Alarm) : Below(s, recv.hand) => Below(s, Tail(recv.hand))
    <3>1. \A i \in DOMAIN Tail(recv.hand) : i + 1 \in DOMAIN recv.hand /\ Tail(recv.hand)[i] = recv.hand[i + 1]
      BY <2>1, Taking
    <3> QED BY <3>1 DEF Below
  <2>3. \A j \in DOMAIN Tail(recv.hand) : Raised.n < Tail(recv.hand)[j].n
    BY <2>1, TailOrder DEF Flow, Raised
  <2>4. /\ Below(alarmLog.lines, Tail(recv.hand)) /\ Below(alarms, Tail(recv.hand))
        /\ Below(alarmChan, Tail(recv.hand)) /\ Below(persist.hand, Tail(recv.hand))
    BY <2>1, <2>2 DEF Lists
  <2>5. IdsOf(alarms) \subseteq 1..alarmID'
    BY <2>1 DEF Lists
  <2>6. CASE UNCHANGED alarmChan
    BY <2>1, <2>4, <2>5, <2>6 DEF Lists
  <2>7. CASE alarmChan' = Append(alarmChan, Raised)
    <3>1. \A list \in {alarmLog.lines, alarms, alarmChan, persist.hand} : \A i \in DOMAIN list :
            list[i].id < Raised.id /\ list[i].n < Raised.n
      BY <1>4, RaisedIsLast
    <3>2. Ordered(alarmChan')
      BY <2>1, <2>7, <3>1, OrderGiven DEF Lists
    <3>3. /\ Before(alarmLog.lines, alarmChan') /\ Before(alarms, alarmChan')
          /\ Before(persist.hand, alarmChan')
      BY <2>1, <2>7, <3>1, OrderGiven DEF Lists
    <3>4. Below(alarmChan', Tail(recv.hand))
      BY <2>1, <2>3, <2>4, <2>7, OrderGiven
    <3> QED BY <2>1, <2>4, <2>5, <3>2, <3>3, <3>4 DEF Lists
  <2> QED BY <2>1, <2>6, <2>7
<1>5. CASE PersistSelect
  <2>1. CASE running /\ alarmChan # <<>>
    <3>1. /\ persist' = [pc |-> "write", hand |-> <<Head(alarmChan)>>] /\ alarmChan' = Tail(alarmChan)
          /\ UNCHANGED <<recv, alarms, alarmLog, alarmID>>
      BY <1>5, <2>1 DEF PersistSelect, recvVars
    <3>2. /\ Ordered(Tail(alarmChan)) /\ Before(<<Head(alarmChan)>>, Tail(alarmChan))
          /\ Before(alarmLog.lines, Tail(alarmChan)) /\ Before(alarmLog.lines, <<Head(alarmChan)>>)
          /\ Before(alarms, Tail(alarmChan)) /\ Before(alarms, <<Head(alarmChan)>>)
      BY <2>1, OrderTaken DEF Lists
    <3>3. recv.pc = "alarm" => /\ Below(Tail(alarmChan), recv.hand)
                               /\ Below(<<Head(alarmChan)>>, recv.hand)
      BY <2>1, OrderTaken DEF Lists
    <3> QED BY <3>1, <3>2, <3>3 DEF Lists
  <2>2. CASE ~(running /\ alarmChan # <<>>)
    <3>1. /\ persist'.pc # "write" /\ persist'.hand = persist.hand
          /\ UNCHANGED <<recv, alarms, alarmChan, alarmLog, alarmID>>
      BY <1>5, <2>2 DEF PersistSelect, recvVars, TypeOK
    <3> QED BY <1>1, <3>1
  <2> QED BY <2>1, <2>2
<1>6. CASE PersistWrite
  <2>1. /\ persist.pc = "write" /\ persist'.pc = "record" /\ persist'.hand = persist.hand
        /\ UNCHANGED <<recv, alarms, alarmChan, alarmID>>
        /\ alarmLog'.lines = alarmLog.lines \o persist.hand \/ UNCHANGED alarmLog
    BY <1>6 DEF PersistWrite, recvVars, alarmVars, TypeOK
  <2>2. CASE UNCHANGED alarmLog
    BY <1>1, <2>1, <2>2
  <2>3. CASE alarmLog'.lines = alarmLog.lines \o persist.hand
    <3>1. Len(persist.hand) = 1
      BY <2>1 DEF Hands
    <3>2. Ordered(alarmLog'.lines) /\ Before(alarmLog'.lines, alarmChan)
      BY <2>1, <2>3, <3>1, JoinOrder DEF Lists
    <3>3. recv.pc = "alarm" => Below(alarmLog'.lines, recv.hand)
      BY <2>3, JoinOrder DEF Lists
    <3> QED BY <2>1, <3>2, <3>3 DEF Lists
  <2> QED BY <2>1, <2>2, <2>3
<1>7. CASE PersistRecord
  <2>1. /\ persist.pc = "record" /\ persist' = [pc |-> "select", hand |-> <<>>]
        /\ alarms' = Record(alarms, persist.hand, AlarmsLimit, AlarmsKept)
        /\ UNCHANGED <<recv, alarmLog, alarmChan, alarmID>>
    BY <1>7 DEF PersistRecord, recvVars, alarmVars
  <2>2. /\ Ordered(alarms \o persist.hand) /\ Before(alarms \o persist.hand, alarmChan)
        /\ recv.pc = "alarm" => Below(alarms \o persist.hand, recv.hand)
    <3>1. Len(persist.hand) = 1
      BY <2>1 DEF Hands
    <3> QED BY <3>1, JoinOrder DEF Lists
  <2>3. IdsOf(alarms \o persist.hand) \subseteq 1..alarmID
    <3>1. IdsOf(persist.hand) \subseteq 1..alarmID
      BY <2>1 DEF Backed, Places
    <3> QED BY <3>1, Ids DEF Lists
  <2>4. Ordered(alarms') /\ Before(alarms', alarmChan) /\ IdsOf(alarms') \subseteq 1..alarmID
    BY <2>1, <2>2, <2>3, RecordOrder
  <2>5. recv.pc = "alarm" => Below(alarms', recv.hand)
    BY <2>1, <2>2, RecordOrder
  <2>6. Before(alarms', <<>>) /\ Before(<<>>, alarmChan) /\ Below(<<>>, recv.hand)
    BY DEF Before, Below
  <2>7. persist'.hand = <<>> /\ persist'.pc = "select"
    BY <2>1
  <2> QED BY <2>1, <2>4, <2>5, <2>6, <2>7 DEF Lists
<1> QED BY <1>2, <1>3, <1>4, <1>5, <1>6, <1>7 DEF Next, ReceiveLoop, PersistLoop
-----------------------------------------------------------------------------
LEMMA PlacesStep ==
  ASSUME TypeOK, Hands, Lists, Places, [Next]_vars
  PROVE  Places'
<1> USE ResultReceiverAssumption
<1>. /\ alarmLog.lines \in Seq(Alarm) /\ alarmChan \in Seq(Alarm) /\ persist.hand \in Seq(Alarm)
     /\ alarmID \in Nat /\ InChan \subseteq 1..alarmID
  BY DEF TypeOK, Places
<1>1. ASSUME UNCHANGED <<alarmChan, alarmID, dropped, unlogged>>, alarmLog'.lines = alarmLog.lines,
             persist'.hand = persist.hand, persist'.pc = "write" <=> persist.pc = "write"
      PROVE  Places'
  <2>1. UNCHANGED <<Logged, InChan, InHand>>
    BY <1>1 DEF Logged, InChan, InHand, IdsOf
  <2> QED BY <1>1, <2>1 DEF Places
<1>2. CASE Publish \/ RecvPoll \/ RecvBytes \/ RecvSend \/ RecvRecord \/ Aggregate \/ Shutdown \/ Close \/ UNCHANGED vars
  <2>1. UNCHANGED <<alarmChan, alarmID, dropped, unlogged, persist>>
    BY <1>2 DEF Publish, RecvPoll, RecvBytes, RecvSend, RecvRecord, Aggregate, Shutdown, Close, vars,
                alarmVars, persistVars
  <2>2. alarmLog'.lines = alarmLog.lines
    <3>1. UNCHANGED alarmLog \/ alarmLog' = [alarmLog EXCEPT !.open = FALSE]
      BY <1>2 DEF Publish, RecvPoll, RecvBytes, RecvSend, RecvRecord, Aggregate, Shutdown, Cancel, Close,
                  vars, CloseRunning, CloseLog, CloseSocket, ClearSocket, CloseChan, persistVars
    <3> QED BY <3>1 DEF TypeOK
  <2> QED BY <1>1, <2>1, <2>2
<1>3. CASE RecvAlarm
  <2>1. UNCHANGED <<persist, alarmLog, unlogged>> /\ Raised \in Alarm /\ Raised.id = alarmID + 1
    BY <1>3, AlarmEffect DEF Raised
  <2>2. UNCHANGED <<Logged, InHand>>
    BY <2>1 DEF Logged, InHand
  <2>3. 1..(alarmID + 1) = 1..alarmID \cup {alarmID + 1} /\ alarmID + 1 \notin 1..alarmID
    OBVIOUS
  <2>4. CASE UNCHANGED <<alarmID, alarmChan, dropped>>
    BY <1>1, <2>1, <2>4
  <2>5. CASE alarmID' = alarmID + 1 /\ alarmChan' = Append(alarmChan, Raised) /\ UNCHANGED dropped
    <3>1. InChan' = InChan \cup {alarmID + 1}
      <4>1. IdsOf(Append(alarmChan, Raised)) = IdsOf(alarmChan) \cup {Raised.id}
        BY <2>1, Ids
      <4> QED BY <2>1, <2>5, <4>1 DEF InChan
    <3> QED BY <2>1, <2>2, <2>3, <2>5, <3>1 DEF Places
  <2>6. CASE alarmID' = alarmID + 1 /\ UNCHANGED alarmChan /\ dropped' = dropped \cup {alarmID + 1}
    <3>1. UNCHANGED InChan
      BY <2>6 DEF InChan
    <3> QED BY <2>1, <2>2, <2>3, <2>6, <3>1 DEF Places
  <2> QED BY <1>3, <2>4, <2>5, <2>6, AlarmEffect
<1>4. CASE PersistSelect
  <2>1. CASE running /\ alarmChan # <<>>
    <3>1. /\ persist' = [pc |-> "write", hand |-> <<Head(alarmChan)>>] /\ alarmChan' = Tail(alarmChan)
          /\ UNCHANGED <<alarmLog, alarmID, dropped, unlogged>> /\ persist.pc = "select"
      BY <1>4, <2>1 DEF PersistSelect
    <3>2. Head(alarmChan) \in Alarm
      BY <2>1, Taking
    <3>3. InChan = {Head(alarmChan).id} \cup InChan'
      BY <2>1, <3>1, Ids DEF InChan
    <3>4. InHand = {} /\ InHand' = {Head(alarmChan).id}
      BY <3>1, <3>2, Ids DEF InHand
    <3>5. Head(alarmChan).id \notin InChan'
      <4>1. Before(<<Head(alarmChan)>>, Tail(alarmChan))
        BY <2>1, OrderTaken DEF Lists
      <4>2. \A i \in DOMAIN Tail(alarmChan) : Head(alarmChan).id < Tail(alarmChan)[i].id
        BY <4>1 DEF Before
      <4>3. Head(alarmChan).id \in Nat
        BY <3>2 DEF Alarm
      <4> QED BY <3>1, <4>2, <4>3 DEF InChan, IdsOf
    <3>6. UNCHANGED Logged
      BY <3>1 DEF Logged
    <3> QED BY <3>1, <3>3, <3>4, <3>5, <3>6 DEF Places
  <2>2. CASE ~(running /\ alarmChan # <<>>)
    <3>1. /\ persist'.pc # "write" /\ persist.pc # "write" /\ persist'.hand = persist.hand
          /\ UNCHANGED <<alarmChan, alarmLog, alarmID, dropped, unlogged>>
      BY <1>4, <2>2 DEF PersistSelect, TypeOK
    <3> QED BY <1>1, <3>1
  <2> QED BY <2>1, <2>2
<1>5. CASE PersistWrite
  <2>1. /\ persist.pc = "write" /\ persist'.pc = "record" /\ UNCHANGED <<alarmChan, alarmID, dropped>>
        /\ \/ alarmLog'.lines = alarmLog.lines \o persist.hand /\ UNCHANGED unlogged
           \/ UNCHANGED alarmLog /\ unlogged' = unlogged \cup {persist.hand[1].id}
    BY <1>5 DEF PersistWrite, alarmVars, TypeOK
  <2>2. InHand = IdsOf(persist.hand) /\ InHand' = {} /\ UNCHANGED InChan
    BY <2>1 DEF InHand, InChan
  <2>3. InHand = {persist.hand[1].id}
    <3>1. DOMAIN persist.hand = {1}
      BY <2>1 DEF Hands
    <3> QED BY <2>2, <3>1 DEF IdsOf
  <2>4. CASE alarmLog'.lines = alarmLog.lines \o persist.hand /\ UNCHANGED unlogged
    <3>1. Logged' = Logged \cup InHand
      BY <2>2, <2>4, Ids DEF Logged
    <3> QED BY <2>1, <2>2, <2>4, <3>1 DEF Places
  <2>5. CASE UNCHANGED alarmLog /\ unlogged' = unlogged \cup {persist.hand[1].id}
    <3>1. UNCHANGED Logged /\ unlogged' = unlogged \cup InHand
      BY <2>3, <2>5 DEF Logged
    <3> QED BY <2>1, <2>2, <3>1 DEF Places
  <2> QED BY <2>1, <2>4, <2>5
<1>6. CASE PersistRecord
  <2>1. /\ persist.pc = "record" /\ persist'.pc = "select" /\ UNCHANGED <<alarmChan, alarmLog, alarmID, dropped, unlogged>>
    BY <1>6 DEF PersistRecord, alarmVars
  <2>2. UNCHANGED <<Logged, InChan>> /\ InHand = {} /\ InHand' = {}
    BY <2>1 DEF Logged, InChan, InHand
  <2> QED BY <2>1, <2>2 DEF Places
<1> QED BY <1>2, <1>3, <1>4, <1>5, <1>6 DEF Next, ReceiveLoop, PersistLoop

\* The end of a list stays an end when both get the same elements, and an end
\* of an end is an end.
LEMMA EndsJoin ==
  ASSUME NEW S, NEW s \in Seq(S), NEW t \in Seq(S), NEW u \in Seq(S), EndOf(s, t)
  PROVE  EndOf(s \o u, t \o u)
<1> DEFINE shift == Len(t) - Len(s)
<1>1. /\ Len(s) \in Nat /\ Len(t) \in Nat /\ Len(u) \in Nat
      /\ DOMAIN s = 1..Len(s) /\ DOMAIN u = 1..Len(u)
      /\ Len(s \o u) = Len(s) + Len(u) /\ Len(t \o u) = Len(t) + Len(u)
      /\ DOMAIN (s \o u) = 1..(Len(s) + Len(u))
      /\ \A i \in 1..(Len(s) + Len(u)) : (s \o u)[i] = IF i <= Len(s) THEN s[i] ELSE u[i - Len(s)]
      /\ \A i \in 1..(Len(t) + Len(u)) : (t \o u)[i] = IF i <= Len(t) THEN t[i] ELSE u[i - Len(t)]
  OBVIOUS
<1>2. shift \in Nat /\ shift + Len(s) = Len(t) /\ Len(t \o u) - Len(s \o u) = shift
  BY <1>1 DEF EndOf
<1>3. \A i \in 1..Len(s) : s[i] = t[shift + i]
  BY <1>1 DEF EndOf
<1> HIDE DEF shift
<1>4. ASSUME NEW i \in 1..(Len(s) + Len(u))
      PROVE  (s \o u)[i] = (t \o u)[shift + i]
  <2>1. shift + i \in 1..(Len(t) + Len(u)) /\ (i <= Len(s) <=> shift + i <= Len(t))
        /\ (shift + i) - Len(t) = i - Len(s)
    <3>1. Len(s) \in Nat /\ Len(t) \in Nat /\ Len(u) \in Nat /\ shift \in Nat /\ i \in Nat
          /\ shift + Len(s) = Len(t) /\ 1 <= i /\ i <= Len(s) + Len(u)
      BY <1>1, <1>2
    <3>2. shift + i \in Nat /\ shift + i >= 1
      BY <3>1
    <3>3. shift + i <= Len(t) + Len(u)
      BY <3>1
    <3>4. i <= Len(s) <=> shift + i <= Len(t)
      BY <3>1
    <3>5. (shift + i) - Len(t) = i - Len(s)
      BY <3>1
    <3>6. Len(t) + Len(u) \in Nat
      BY <3>1
    <3> QED BY <3>2, <3>3, <3>4, <3>5, <3>6
  <2>2. /\ (s \o u)[i] = IF i <= Len(s) THEN s[i] ELSE u[i - Len(s)]
        /\ (t \o u)[shift + i] = IF shift + i <= Len(t) THEN t[shift + i] ELSE u[(shift + i) - Len(t)]
    BY <1>1, <2>1
  <2>3. i <= Len(s) => s[i] = t[shift + i]
    BY <1>1, <1>3
  <2> QED BY <2>1, <2>2, <2>3
<1>5. Len(s \o u) <= Len(t \o u)
  <2>1. Len(s) <= Len(t)
    BY DEF EndOf
  <2>2. Len(s) + Len(u) <= Len(t) + Len(u)
    BY <1>1, <2>1
  <2> QED BY <1>1, <2>2
<1> QED BY <1>1, <1>2, <1>4, <1>5 DEF EndOf

LEMMA EndOfEnd ==
  ASSUME NEW S, NEW s \in Seq(S), NEW t \in Seq(S), NEW u \in Seq(S), EndOf(s, t), EndOf(t, u)
  PROVE  EndOf(s, u)
<1>1. /\ Len(s) \in Nat /\ Len(t) \in Nat /\ Len(u) \in Nat
      /\ DOMAIN s = 1..Len(s) /\ DOMAIN t = 1..Len(t) /\ Len(s) <= Len(t) /\ Len(t) <= Len(u)
      /\ \A i \in 1..Len(s) : s[i] = t[Len(t) - Len(s) + i]
      /\ \A i \in 1..Len(t) : t[i] = u[Len(u) - Len(t) + i]
  BY DEF EndOf
<1>2. ASSUME NEW i \in 1..Len(s)
      PROVE  s[i] = u[Len(u) - Len(s) + i]
  <2>1. /\ Len(t) - Len(s) + i \in 1..Len(t)
        /\ Len(u) - Len(t) + (Len(t) - Len(s) + i) = Len(u) - Len(s) + i
    BY <1>1
  <2>2. t[Len(t) - Len(s) + i] = u[Len(u) - Len(t) + (Len(t) - Len(s) + i)]
    BY <1>1, <2>1
  <2> QED BY <1>1, <2>1, <2>2
<1> QED BY <1>1, <1>2 DEF EndOf

\* Where receiveLoop records a message, the list of results stays an end of
\* what was recorded.
LEMMA ResultsStep ==
  ASSUME TypeOK, Hands, Backed, RecvRecord
  PROVE  /\ EndOf(results', received')
         /\ Enough(results', received', ResultsKept)
         /\ \A s : Recorded(s) => \A i \in DOMAIN s : \E k \in DOMAIN received' : received'[k].n = s[i].n
<1> USE ResultReceiverAssumption
<1>1. /\ results \in Seq(Result) /\ received \in Seq(Result) /\ recv.hand \in Seq(Result)
      /\ results' = Record(results, recv.hand, ResultsLimit, ResultsKept)
      /\ received' = received \o recv.hand
  BY DEF TypeOK, Hands, Message, RecvRecord
<1> DEFINE all == results \o recv.hand
<1>2. results' \in Seq(Result) /\ EndOf(results', all) /\ Enough(results', all, ResultsKept)
  <2>1. ResultsLimit \in Nat /\ ResultsKept \in Nat /\ ResultsKept <= ResultsLimit
    OBVIOUS
  <2> DEFINE end == Record(results, recv.hand, ResultsLimit, ResultsKept)
  <2>2. end \in Seq(Result) /\ EndOf(end, all) /\ Enough(end, all, ResultsKept)
    BY <1>1, <2>1, RecordKeepsEnd
  <2> QED BY <1>1, <2>2
<1>3. all \in Seq(Result) /\ Len(all) = Len(results) + Len(recv.hand)
      /\ received' \in Seq(Result) /\ Len(received') = Len(received) + Len(recv.hand)
      /\ Len(results) \in Nat /\ Len(received) \in Nat /\ Len(recv.hand) \in Nat
  BY <1>1
<1>4. EndOf(all, received')
  BY <1>1, EndsJoin DEF Backed
<1> HIDE DEF all
<1>5. EndOf(results', received')
  BY <1>2, <1>3, <1>4, EndOfEnd
<1>6. Enough(results', received', ResultsKept)
  BY <1>2, <1>3 DEF Enough, Backed
<1>7. \A k \in DOMAIN received : k \in DOMAIN received' /\ received'[k] = received[k]
  BY <1>1, Joining
<1> QED BY <1>5, <1>6, <1>7 DEF Recorded

LEMMA BackedStep ==
  ASSUME TypeOK, Hands, Places, Backed, [Next]_vars
  PROVE  Backed'
<1> USE ResultReceiverAssumption
<1>. /\ alarmLog.lines \in Seq(Alarm) /\ alarms \in Seq(Alarm) /\ alarmChan \in Seq(Alarm)
     /\ persist.hand \in Seq(Alarm) /\ recv.hand \in Seq(Result) /\ received \in Seq(Result)
  BY DEF TypeOK, Hands, Message
<1>1. ASSUME UNCHANGED <<results, received, alarms, alarmChan, unlogged>>, alarmLog'.lines = alarmLog.lines,
             persist'.hand = persist.hand, persist'.pc = "record" => persist.pc = "record",
             recv'.pc = "alarm" => recv.pc = "alarm" /\ recv'.hand = recv.hand
      PROVE  Backed'
  <2>1. EndOf(results', received') /\ Enough(results', received', ResultsKept)
    BY <1>1 DEF Backed
  <2>2. Recorded(alarmLog.lines)' /\ Recorded(alarms)' /\ Recorded(alarmChan)' /\ Recorded(persist.hand)'
    BY <1>1 DEF Backed, Recorded
  <2>3. recv'.pc = "alarm" => Recorded(recv.hand)'
    BY ZenonT(40), <1>1 DEF Backed, Recorded
  <2>4. UNCHANGED Logged /\ IdsOf(alarms)' = IdsOf(alarms) /\ IdsOf(persist.hand)' = IdsOf(persist.hand)
    BY <1>1 DEF IdsOf, Logged
  <2> QED BY <1>1, <2>1, <2>2, <2>3, <2>4 DEF Backed
<1>2. CASE Publish \/ RecvPoll \/ RecvBytes \/ RecvSend \/ Aggregate \/ Shutdown \/ Close \/ UNCHANGED vars
  <2>1. UNCHANGED <<results, received, alarms, alarmChan, unlogged, persist>>
    BY <1>2 DEF Publish, RecvPoll, RecvBytes, RecvSend, Aggregate, Shutdown, Close, vars, alarmVars, persistVars
  <2>2. alarmLog'.lines = alarmLog.lines
    <3>1. UNCHANGED alarmLog \/ alarmLog' = [alarmLog EXCEPT !.open = FALSE]
      BY <1>2 DEF Publish, RecvPoll, RecvBytes, RecvSend, Aggregate, Shutdown, Cancel, Close, vars,
                  CloseRunning, CloseLog, CloseSocket, ClearSocket, CloseChan, persistVars
    <3> QED BY <3>1 DEF TypeOK
  <2>3. recv'.pc = "alarm" => recv.pc = "alarm" /\ recv'.hand = recv.hand
    BY <1>2, OutsideAlarm
  <2> QED BY <1>1, <2>1, <2>2, <2>3
<1>3. CASE RecvRecord
  <2>1. /\ recv'.pc = "alarm" /\ recv'.hand = recv.hand /\ received' = received \o recv.hand
        /\ UNCHANGED <<alarms, alarmChan, unlogged, persist, alarmLog>>
    BY <1>3 DEF RecvRecord, alarmVars, persistVars, TypeOK
  <2>2. /\ EndOf(results', received') /\ Enough(results', received', ResultsKept)
        /\ \A s : Recorded(s) => \A i \in DOMAIN s : \E k \in DOMAIN received' : received'[k].n = s[i].n
    BY <1>3, ResultsStep
  <2>3. Recorded(recv.hand)'
    <3>1. \A i \in DOMAIN recv.hand : Len(received) + i \in DOMAIN received'
            /\ received'[Len(received) + i] = recv.hand[i]
      BY SMTT(40), <2>1, Joining
    <3>2. \A i \in DOMAIN recv.hand : \E k \in DOMAIN received' : received'[k].n = recv.hand[i].n
      BY <3>1
    <3> QED BY <2>1, <3>2 DEF Recorded
  <2>4. Recorded(alarmLog.lines)' /\ Recorded(alarms)' /\ Recorded(alarmChan)' /\ Recorded(persist.hand)'
    <3>1. \A s \in {alarmLog.lines, alarms, alarmChan, persist.hand} :
            \A i \in DOMAIN s : \E k \in DOMAIN received' : received'[k].n = s[i].n
      BY <2>2 DEF Backed
    <3>2. Recorded(alarmLog.lines)'
      BY <2>1, <3>1 DEF Recorded
    <3>3. Recorded(alarms)'
      BY <2>1, <3>1 DEF Recorded
    <3>4. Recorded(alarmChan)'
      BY <2>1, <3>1 DEF Recorded
    <3>5. Recorded(persist.hand)'
      BY <2>1, <3>1 DEF Recorded
    <3> QED BY <3>2, <3>3, <3>4, <3>5
  <2>5. UNCHANGED Logged /\ IdsOf(alarms)' = IdsOf(alarms) /\ IdsOf(persist.hand)' = IdsOf(persist.hand)
    BY <2>1 DEF Logged
  <2> QED BY <2>1, <2>2, <2>3, <2>4, <2>5 DEF Backed
<1>4. CASE RecvAlarm
  <2>1. /\ recv.hand # <<>> /\ recv.pc = "alarm" /\ recv'.hand = Tail(recv.hand)
        /\ UNCHANGED <<results, received, persist, alarms, alarmLog, unlogged>> /\ Raised \in Alarm
        /\ alarmChan' = Append(alarmChan, Raised) \/ UNCHANGED alarmChan
    BY <1>4, AlarmEffect
  <2>2. Recorded(recv.hand)
    BY <2>1 DEF Backed
  <2>3. Recorded(recv.hand)' /\ \E k \in DOMAIN received : received[k].n = Raised.n
    <3>1. /\ Head(recv.hand) = recv.hand[1] /\ 1 \in DOMAIN recv.hand
          /\ \A i \in DOMAIN Tail(recv.hand) : i + 1 \in DOMAIN recv.hand /\ Tail(recv.hand)[i] = recv.hand[i + 1]
      BY <2>1, Taking
    <3> QED BY SMTT(40), <2>1, <2>2, <3>1 DEF Recorded, Raised
  <2>4. Recorded(alarmChan)'
    <3>1. CASE alarmChan' = Append(alarmChan, Raised)
      <4>1. /\ DOMAIN alarmChan' = DOMAIN alarmChan \cup {Len(alarmChan) + 1}
            /\ \A i \in DOMAIN alarmChan : alarmChan'[i] = alarmChan[i]
            /\ alarmChan'[Len(alarmChan) + 1] = Raised
        BY <2>1, <3>1, Giving
      <4>2. Recorded(alarmChan)
        BY DEF Backed
      <4>3. UNCHANGED received
        BY <1>4 DEF RecvAlarm
      <4>4. ASSUME NEW i \in DOMAIN alarmChan'
            PROVE  \E k \in DOMAIN received : received[k].n = alarmChan'[i].n
        <5>1. CASE i \in DOMAIN alarmChan
          BY <4>1, <4>2, <5>1 DEF Recorded
        <5>2. CASE i = Len(alarmChan) + 1
          BY <2>3, <4>1, <5>2
        <5> QED BY <4>1, <5>1, <5>2
      <4> QED BY <4>3, <4>4 DEF Recorded
    <3> QED BY <2>1, <3>1 DEF Recorded, Backed
  <2>5. Recorded(alarmLog.lines)' /\ Recorded(alarms)' /\ Recorded(persist.hand)'
    BY <2>1 DEF Recorded, Backed
  <2>6. UNCHANGED Logged /\ IdsOf(alarms)' = IdsOf(alarms) /\ IdsOf(persist.hand)' = IdsOf(persist.hand)
    BY <2>1 DEF Logged
  <2>7. EndOf(results', received') /\ Enough(results', received', ResultsKept)
    BY <2>1 DEF Backed
  <2> QED BY <2>1, <2>3, <2>4, <2>5, <2>6, <2>7 DEF Backed
<1>5. CASE PersistSelect
  <2>1. CASE running /\ alarmChan # <<>>
    <3>1. /\ persist' = [pc |-> "write", hand |-> <<Head(alarmChan)>>] /\ alarmChan' = Tail(alarmChan)
          /\ UNCHANGED <<recv, results, received, alarms, alarmLog, unlogged>>
      BY <1>5, <2>1 DEF PersistSelect, recvVars
    <3>2. Recorded(Tail(alarmChan)) /\ Recorded(<<Head(alarmChan)>>)
      BY <2>1, OrderTaken DEF Backed
    <3>3. Recorded(alarmChan)' /\ Recorded(persist.hand)'
      BY <3>1, <3>2 DEF Recorded
    <3>4. Recorded(alarmLog.lines)' /\ Recorded(alarms)' /\ (recv'.pc = "alarm" => Recorded(recv.hand)')
      BY <3>1 DEF Recorded, Backed
    <3>5. UNCHANGED Logged /\ IdsOf(alarms)' = IdsOf(alarms)
      BY <3>1 DEF Logged
    <3> QED BY <3>1, <3>3, <3>4, <3>5 DEF Backed
  <2>2. CASE ~(running /\ alarmChan # <<>>)
    <3>1. /\ persist'.pc # "record" /\ persist'.hand = persist.hand
          /\ UNCHANGED <<recv, results, received, alarms, alarmChan, alarmLog, unlogged>>
      BY <1>5, <2>2 DEF PersistSelect, recvVars, TypeOK
    <3> QED BY <1>1, <3>1
  <2> QED BY <2>1, <2>2
<1>6. CASE PersistWrite
  <2>1. /\ persist.pc = "write" /\ persist'.pc = "record" /\ persist'.hand = persist.hand
        /\ UNCHANGED <<recv, results, received, alarms, alarmChan>>
        /\ \/ alarmLog'.lines = alarmLog.lines \o persist.hand /\ UNCHANGED unlogged
           \/ UNCHANGED alarmLog /\ unlogged' = unlogged \cup {persist.hand[1].id}
    BY <1>6 DEF PersistWrite, recvVars, alarmVars, TypeOK
  <2>2. Logged' \cup unlogged' = Logged \cup unlogged \cup IdsOf(persist.hand)
    <3>1. CASE alarmLog'.lines = alarmLog.lines \o persist.hand /\ UNCHANGED unlogged
      <4>1. Logged' = Logged \cup IdsOf(persist.hand)
        BY <3>1, Ids DEF Logged
      <4> QED BY <3>1, <4>1
    <3>2. CASE UNCHANGED alarmLog /\ unlogged' = unlogged \cup {persist.hand[1].id}
      <4>1. DOMAIN persist.hand = {1}
        BY <2>1 DEF Hands
      <4>2. IdsOf(persist.hand) = {persist.hand[1].id} /\ UNCHANGED Logged
        BY <3>2, <4>1 DEF IdsOf, Logged
      <4> QED BY <3>2, <4>2
    <3> QED BY <2>1, <3>1, <3>2
  <2>3. Recorded(alarmLog.lines)'
    <3>1. Recorded(alarmLog.lines \o persist.hand) /\ Recorded(alarmLog.lines)
      BY JoinOrder DEF Backed
    <3> QED BY <2>1, <3>1 DEF Recorded
  <2>4. Recorded(alarms)' /\ Recorded(alarmChan)' /\ Recorded(persist.hand)'
        /\ (recv'.pc = "alarm" => Recorded(recv.hand)')
    BY <2>1 DEF Recorded, Backed
  <2>5. IdsOf(alarms)' = IdsOf(alarms) /\ IdsOf(persist.hand)' = IdsOf(persist.hand)
    BY <2>1 DEF IdsOf
  <2> QED BY <2>1, <2>2, <2>3, <2>4, <2>5 DEF Backed
<1>7. CASE PersistRecord
  <2>1. /\ persist.pc = "record" /\ persist'.pc = "select" /\ persist'.hand = <<>>
        /\ alarms' = Record(alarms, persist.hand, AlarmsLimit, AlarmsKept)
        /\ UNCHANGED <<recv, results, received, alarmLog, alarmChan, unlogged>>
    BY <1>7 DEF PersistRecord, recvVars, alarmVars
  <2>2. Recorded(alarms')
    <3>1. Recorded(alarms \o persist.hand)
      BY JoinOrder DEF Backed
    <3> QED BY <2>1, <3>1, RecordOrder
  <2>3. IdsOf(alarms') \subseteq Logged \cup unlogged
    <3>1. IdsOf(alarms \o persist.hand) \subseteq Logged \cup unlogged
      BY <2>1, Ids DEF Backed
    <3> QED BY <2>1, <3>1, RecordOrder
  <2>4. Recorded(alarms)' /\ Recorded(persist.hand)'
    BY <2>1, <2>2 DEF Recorded
  <2>5. Recorded(alarmLog.lines)' /\ Recorded(alarmChan)' /\ (recv'.pc = "alarm" => Recorded(recv.hand)')
    BY <2>1 DEF Recorded, Backed
  <2>6. UNCHANGED Logged
    BY <2>1 DEF Logged
  <2> QED BY <2>1, <2>3, <2>4, <2>5, <2>6 DEF Backed
<1> QED BY <1>2, <1>3, <1>4, <1>5, <1>6, <1>7 DEF Next, ReceiveLoop, PersistLoop
-----------------------------------------------------------------------------
LEMMA InitInv == Init => IInv
<1> SUFFICES ASSUME Init
             PROVE  IInv
  OBVIOUS
<1> USE ResultReceiverAssumption
<1>1. DOMAIN <<>> = {} /\ Len(<<>>) = 0 /\ \A S : <<>> \in Seq(S)
  OBVIOUS
<1>2. TypeOK
  <2>1. /\ published \in [messages : 0..MaxMessages, results : Nat]
        /\ recv \in [pc : {"poll", "recv", "send", "record", "alarm", "exited"}, hand : Message]
        /\ persist \in [pc : {"select", "write", "record", "exited"}, hand : Seq(Alarm)]
    BY <1>1 DEF Init, Message
  <2>2. /\ resultChan \in [buf : Seq(Message), closed : BOOLEAN] /\ Len(resultChan.buf) <= ResultChanSize
        /\ alarmLog \in [open : BOOLEAN, lines : Seq(Alarm)]
    BY <1>1 DEF Init
  <2>3. /\ wire \in Seq(Message) /\ Len(wire) <= SocketSize
        /\ results \in Seq(Result) /\ Len(results) <= ResultsLimit
        /\ alarms \in Seq(Alarm) /\ Len(alarms) <= AlarmsLimit
        /\ alarmChan \in Seq(Alarm) /\ Len(alarmChan) <= AlarmChanSize
    BY <1>1 DEF Init
  <2> QED BY <2>1, <2>2, <2>3 DEF Init, TypeOK
<1>3. Hands /\ Flow
  BY <1>1 DEF Init, Hands, Flow, Rising, Upto, Below
<1>4. IdsOf(<<>>) = {}
  BY <1>1 DEF IdsOf
<1>5. Lists
  BY <1>1, <1>4 DEF Init, Lists, Ordered, Before, Below
<1>6. Places
  BY <1>4 DEF Init, Places, Logged, InChan, InHand
<1>7. Backed
  BY <1>1, <1>4 DEF Init, Backed, EndOf, Enough, Recorded
<1> QED BY <1>2, <1>3, <1>5, <1>6, <1>7 DEF IInv

LEMMA InvStep == IInv /\ [Next]_vars => IInv'
BY TypeStep, FlowStep, ListsStep, PlacesStep, BackedStep DEF IInv

\* Whatever receiveLoop, alarmPersistLoop, the aggregator and Close do, the
\* invariant holds.
THEOREM Invariance == Spec => []IInv
<1>1. Init => IInv
  BY InitInv
<1>2. IInv /\ [Next]_vars => IInv'
  BY InvStep
<1> QED BY <1>1, <1>2, PTL DEF Spec

\* Places, as the property AlarmsConserved lists them.
LEMMA PlacesConserve == IInv => AlarmsConserved
<1> SUFFICES ASSUME IInv
             PROVE  AlarmsConserved
  OBVIOUS
<1> DEFINE places == <<Logged, dropped, unlogged, InChan, InHand>>
<1>1. DOMAIN places = {1, 2, 3, 4, 5}
  OBVIOUS
<1>2. /\ places[1] = Logged /\ places[2] = dropped /\ places[3] = unlogged
      /\ places[4] = InChan /\ places[5] = InHand
  OBVIOUS
<1> HIDE DEF places
<1>3. UNION {places[i] : i \in DOMAIN places} = 1..alarmID
  <2>1. UNION {places[i] : i \in DOMAIN places} = Logged \cup dropped \cup unlogged \cup InChan \cup InHand
    BY <1>1, <1>2
  <2> QED BY <2>1 DEF IInv, Places
<1>4. \A i, j \in DOMAIN places : i # j => places[i] \cap places[j] = {}
  BY <1>1, <1>2 DEF IInv, Places
<1>5. \A list \in {alarmLog.lines, alarms, alarmChan} : \A i, j \in DOMAIN list :
        i < j => list[i].id < list[j].id /\ list[i].n < list[j].n
  BY DEF IInv, Lists, Ordered
<1> QED BY <1>3, <1>4, <1>5 DEF AlarmsConserved, places, Logged, InChan, InHand

\* A result that is no longer in the list has enough results after it.
LEMMA ResultFound ==
  ASSUME TypeOK, Hands, Backed, NEW s, Recorded(s), NEW i \in DOMAIN s
  PROVE  \/ \E k \in DOMAIN results : results[k].n = s[i].n
         \/ \E k \in 1..(Len(received) - ResultsKept) : received[k].n = s[i].n
<1> USE ResultReceiverAssumption
<1>1. PICK k \in DOMAIN received : received[k].n = s[i].n
  BY DEF Recorded
<1> DEFINE shift == Len(received) - Len(results)
<1>2. received \in Seq(Result) /\ results \in Seq(Result)
  BY DEF TypeOK, Hands
<1>3. /\ Len(received) \in Nat /\ Len(results) \in Nat /\ DOMAIN received = 1..Len(received)
      /\ DOMAIN results = 1..Len(results)
  BY <1>2
<1>4. \A m \in DOMAIN results : results[m] = received[shift + m]
  BY DEF Backed, EndOf
<1>5. Len(results) <= Len(received) /\ (Len(results) = Len(received) \/ Len(results) >= ResultsKept)
  BY DEF Backed, EndOf, Enough
<1>6. shift \in Nat /\ shift + Len(results) = Len(received)
  <2>1. Len(received) \in Nat /\ Len(results) \in Nat /\ Len(results) <= Len(received)
    BY <1>3, <1>5
  <2>2. \A a, b \in Nat : a <= b => b - a \in Nat /\ (b - a) + a = b
    OBVIOUS
  <2> QED BY <2>1, <2>2
<1> HIDE DEF shift
<1>7. k \in Nat /\ 1 <= k /\ k <= Len(received) /\ ResultsKept \in Nat
  BY <1>3
<1>8. CASE k > shift
  <2>1. k - shift \in 1..Len(results) /\ shift + (k - shift) = k
    BY <1>3, <1>6, <1>7, <1>8
  <2>2. results[k - shift] = received[shift + (k - shift)]
    BY <1>3, <1>4, <2>1
  <2> QED BY <1>1, <1>3, <2>1, <2>2
<1>9. CASE ~(k > shift)
  <2>1. \A a, b, c, d, e \in Nat : a + b = c /\ 1 <= d /\ d <= c /\ ~(d > a) /\ (b = c \/ b >= e)
          => d \in 1..(c - e)
    OBVIOUS
  <2>2. k \in 1..(Len(received) - ResultsKept)
    BY <1>3, <1>5, <1>6, <1>7, <1>9, <2>1
  <2> QED BY <1>1, <2>2
<1> QED BY <1>8, <1>9

LEMMA AlarmsBacked == IInv => AlarmBacked
<1> SUFFICES ASSUME IInv
             PROVE  AlarmBacked
  OBVIOUS
<1>1. \A list \in {alarmLog.lines, alarms, alarmChan} : Recorded(list)
  BY DEF IInv, Backed
<1>2. \A list \in {alarmLog.lines, alarms, alarmChan} : \A i \in DOMAIN list :
        \/ \E k \in DOMAIN results : results[k].n = list[i].n
        \/ \E k \in 1..(Len(received) - ResultsKept) : received[k].n = list[i].n
  BY <1>1, ResultFound DEF IInv
<1>3. Len(results) <= ResultsLimit /\ Len(alarms) <= AlarmsLimit
  BY DEF IInv, TypeOK
<1> QED BY <1>2, <1>3 DEF IInv, Backed, Logged, AlarmBacked

\* The channels, the socket and the two lists never hold more than their sizes.
THEOREM TypeCorrect == Spec => []TypeOK
BY Invariance, PTL DEF IInv

\* receiver.go: no alarm number is lost, used twice or out of its order on its
\* way from receiveLoop to the log, whatever is dropped, missed or stopped.
THEOREM AlarmsConservedAlways == Spec => []AlarmsConserved
BY Invariance, PlacesConserve, PTL

\* receiver.go: who finds an alarm finds its result, unless ResultsKept came
\* after it, and the list of alarms shows only what was offered to the log.
THEOREM AlarmBackedAlways == Spec => []AlarmBacked
BY Invariance, AlarmsBacked, PTL
=============================================================================

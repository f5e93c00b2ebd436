----------------------------- MODULE SnmpProofs -----------------------------
(***************************************************************************)
(* The SNMP engine keeps its types, stays behind the device's clock, and   *)
(* walks a column without a gap, for any column, retries, time window and  *)
(* number of restarts, losses and repeated datagrams.                      *)
(***************************************************************************)
EXTENDS SnmpEngine, TLAPS

-----------------------------------------------------------------------------
(* The inductive invariant.                                                 *)

\* Every request names a row that an answer may be counted from.
RequestsTyped ==
    \A m \in requests : m.kind \in {"discover", "get", "next"}
                        /\ m.row \in 0 .. EndRow

\* A reply answers a request that was sent, and only a Report answers a
\* discovery.
RepliesTyped ==
    \A r \in replies :
        /\ r.to \in requests
        /\ r.boots \in Nat /\ r.time \in Nat
        /\ \/ r.row = ReportRow
           \/ r.to.kind # "discover" /\ r.row = AnswerRow(r.to)

\* The request in hand is the one this call makes, and a walk sent it before
\* it had its max_oids.
InHand ==
    pc = "wait" /\ pending.kind # "discover" =>
        IF op = "get" THEN pending.kind = "get"
                      ELSE pending.kind = "next" /\ steps < max_oids

TypeInv == /\ TypeOK /\ RequestsTyped /\ RepliesTyped /\ InHand
           /\ calls \in Nat /\ max_oids \in Nat

\* No reply in flight, and nothing that the engine took from one, is ahead of
\* the device: the device's time only grows while it does not restart.
RepliesBehind ==
    \A r \in replies :
        /\ r.boots <= device_boots
        /\ r.boots = device_boots => booted_at + r.time <= clock

KnownBehind ==
    discovered => /\ boots <= device_boots
                  /\ boots = device_boots => engine_time + booted_at <= ref

ClockInv == RepliesBehind /\ KnownBehind

\* What one call sends at most: a discovery, and a GETNEXT for every row and
\* one more for the end of the column.
PerCall == Rows + 2

\* The ids that calls before this one have used at most.
Before == (calls - 1) * PerCall

\* An id is never given twice, because there are enough of them.
IdsCounted ==
    /\ calls <= MaxCalls
    /\ pc # "idle" => calls >= 1
    /\ pc = "idle" => id <= calls * PerCall
    /\ pc = "ready" => IF discovered THEN id <= Before + 1 + steps
                                     ELSE id <= Before /\ steps = 0
    /\ pc = "wait" => IF pending.kind = "discover"
                      THEN id <= Before + 1 /\ steps = 0
                      ELSE id <= Before + 2 + steps /\ discovered
    /\ op = "get" => steps = 0

IdsUnique ==
    /\ \A m \in requests : m.id \in Nat /\ m.id <= id
    /\ \A m, n \in requests : m.id = n.id => m = n

\* Where a walk stands, and what its request asks for.
WalkInv ==
    /\ op = "walk" => current <= Rows
    /\ pc = "wait" /\ pending.kind = "next" => pending.row = current

\* A Report to the GETNEXT in hand was sent during this call.
ReportsSeen ==
    pc = "wait" /\ pending.kind = "next" =>
        \A r \in replies : r.to = pending /\ r.row = ReportRow => reported

\* A call that has ended is not at work.
Ended == result = "ok" => pc = "idle"

IInv == /\ TypeInv /\ IdsCounted /\ IdsUnique /\ WalkInv /\ ReportsSeen /\ Ended
        /\ WalkPrefix /\ WalkComplete

-----------------------------------------------------------------------------
(* Types and the clock.                                                     *)

\* One disjunct per action, as the step proofs take them.
LEMMA NextCases ==
    ASSUME Next
    PROVE  \/ Tick
           \/ RestartDevice
           \/ \E m \in requests : Respond(m)
           \/ \E row \in 1 .. Rows : Call("get", row, 0)
           \/ \E limit \in Limits : Call("walk", 0, limit)
           \/ Send
           \/ Overflow
           \/ \E r \in replies : Discovered(r)
           \/ \E r \in replies : Rejected(r)
           \/ \E r \in replies : Got(r)
           \/ \E r \in replies : Walked(r)
           \/ Timeout
  BY DEF Next, Receive

LEMMA InitTypeInv == Init => TypeInv
  BY SnmpAssumption
  DEF Init, TypeInv, TypeOK, RequestsTyped, RepliesTyped, InHand, EndRow

\* The device sends one more reply, to a request that was sent, and changes
\* nothing of the engine.
LEMMA RespondAdds ==
    ASSUME TypeInv, NEW m \in requests, Respond(m)
    PROVE  \E r : /\ replies' = replies \cup {r}
                  /\ r.to = m /\ r.boots = device_boots /\ r.time = DeviceTime
                  /\ \/ r.row = ReportRow /\ (m.kind = "discover" \/ reported')
                     \/ m.kind # "discover" /\ r.row = AnswerRow(m)
<1> DEFINE Q(r) == /\ replies' = replies \cup {r}
                   /\ r.to = m /\ r.boots = device_boots /\ r.time = DeviceTime
                   /\ \/ r.row = ReportRow /\ (m.kind = "discover" \/ reported')
                      \/ m.kind # "discover" /\ r.row = AnswerRow(m)
<1>1. ASSUME m.kind # "discover", NEW error,
             replies' = replies \cup {Reply(m, m.id, AnswerRow(m), error)}
      PROVE  Q(Reply(m, m.id, AnswerRow(m), error))
  BY <1>1 DEF Reply
<1>2. ASSUME m.kind = "discover" \/ ~Timely(m), NEW request_id,
             replies' = replies \cup {Reply(m, request_id, ReportRow, FALSE)}
      PROVE  Q(Reply(m, request_id, ReportRow, FALSE))
  <2>1. m.kind = "discover" \/ reported'
    BY <1>2, Zenon DEF Respond
  <2> QED
    BY <1>2, <2>1 DEF Reply
<1> HIDE DEF Q
<1>3. \E r : Q(r)
  BY <1>1, <1>2, Zenon DEF Respond
<1> QED
  BY <1>3 DEF Q

\* An answer names a row of the column, what follows it, or nothing.
LEMMA AnswerTyped ==
    ASSUME TypeInv, NEW r \in replies
    PROVE  r.row \in 0 .. EndRow
  BY SnmpAssumption
  DEF TypeInv, RepliesTyped, RequestsTyped, AnswerRow, ReportRow, EndRow

LEMMA TypeStep ==
    ASSUME TypeInv, [Next]_vars
    PROVE  TypeInv'
<1> USE DEF TypeInv, TypeOK, RequestsTyped, RepliesTyped, InHand, AnswerRow
<1>1. CASE Tick
  BY <1>1 DEF Tick, device, net, known, call
<1>2. CASE RestartDevice
  BY <1>2 DEF RestartDevice, net, known, call
<1>3. ASSUME NEW m \in requests, Respond(m) PROVE TypeInv'
  <2> PICK r : /\ replies' = replies \cup {r}
               /\ r.to = m /\ r.boots = device_boots /\ r.time = DeviceTime
               /\ r.row = ReportRow \/ (m.kind # "discover" /\ r.row = AnswerRow(m))
    BY <1>3, RespondAdds
  <2> QED
    BY <1>3 DEF Respond, DeviceTime, known
<1>4. ASSUME NEW row \in 1 .. Rows, Call("get", row, 0) PROVE TypeInv'
  BY <1>4, SnmpAssumption DEF Call, EndRow, device, net, known
<1>5. ASSUME NEW limit \in Limits, Call("walk", 0, limit) PROVE TypeInv'
  BY <1>5, SnmpAssumption DEF Call, EndRow, device, net, known
<1>6. CASE Send
  <2>1. NextId \in 0 .. IdSpace - 1
    BY SnmpAssumption DEF NextId
  <2>2. /\ pending'.kind \in {"discover", "get", "next"}
        /\ pending'.row \in 0 .. EndRow
        /\ pending'.id = NextId
        /\ pending'.kind # "discover" =>
              IF op = "get" THEN pending'.kind = "get" ELSE pending'.kind = "next"
    BY <1>6, SnmpAssumption DEF Send, EndRow
  <2> QED
    BY <1>6, <2>1, <2>2, SnmpAssumption DEF Send, MaySend, device, known, call
<1>7. CASE Overflow
  BY <1>7 DEF Overflow, Raise, device, net, known
<1>8. ASSUME NEW r \in replies, Discovered(r) PROVE TypeInv'
  BY <1>8 DEF Discovered, device, net, call
<1>9. ASSUME NEW r \in replies, Rejected(r) PROVE TypeInv'
  BY <1>9 DEF Rejected, Synchronise, Raise, device, net, known
<1>10. ASSUME NEW r \in replies, Got(r) PROVE TypeInv'
  BY <1>10, AnswerTyped DEF Got, Accepted, Synchronise, device, net
<1>11. ASSUME NEW r \in replies, Walked(r) PROVE TypeInv'
  <2>1. steps < max_oids
    BY <1>11 DEF Walked, Accepted, Matches
  <2>2. UNCHANGED <<clock, device_boots, booted_at, requests, replies, id,
                    pending, attempt, calls, op, max_oids>>
        /\ boots' \in Nat /\ engine_time' \in Nat /\ ref' \in 0 .. clock
    BY <1>11 DEF Walked, Accepted, Synchronise, device, net
  <2>3. /\ pc' \in {"idle", "ready"} /\ out' \subseteq 1 .. Rows
        /\ current' \in 0 .. EndRow /\ steps' \in 0 .. max_oids
    BY <1>11, <2>1, SnmpAssumption DEF Walked, InColumn, EndRow
  <2> QED
    BY <2>2, <2>3 DEF EndRow
<1>12. CASE Timeout
  BY <1>12, SnmpAssumption DEF Timeout, Raise, device, net, known
<1>13. CASE UNCHANGED vars
  BY <1>13 DEF vars, device, net, known, call
<1> QED
  BY <1>1, <1>2, <1>3, <1>4, <1>5, <1>6, <1>7, <1>8, <1>9, <1>10, <1>11,
     <1>12, <1>13, NextCases

LEMMA TypeInvAlways == Spec => []TypeInv
  BY InitTypeInv, TypeStep, PTL DEF Spec

\* The engine stays well typed: a call keeps to its retries and to max_oids,
\* and waits for the request it sent last, whatever the network does.
THEOREM TypeCorrect == Spec => []TypeOK
<1>1. TypeInv => TypeOK
  BY DEF TypeInv
<1> QED
  BY <1>1, TypeInvAlways, PTL

LEMMA ClockStep ==
    ASSUME TypeInv, ClockInv, [Next]_vars
    PROVE  ClockInv'
<1> USE DEF ClockInv, RepliesBehind, KnownBehind, TypeInv, TypeOK, RepliesTyped
<1>1. CASE Tick
  BY <1>1 DEF Tick, device, net, known
<1>2. CASE RestartDevice
  BY <1>2 DEF RestartDevice, net, known
<1>3. ASSUME NEW m \in requests, Respond(m) PROVE ClockInv'
  <2> PICK r : /\ replies' = replies \cup {r}
               /\ r.boots = device_boots /\ r.time = DeviceTime
    BY <1>3, RespondAdds
  <2> QED
    BY <1>3 DEF Respond, DeviceTime, known
<1>4. ASSUME NEW r \in replies, Discovered(r) PROVE ClockInv'
  BY <1>4 DEF Discovered, device, net
<1>5. ASSUME NEW r \in replies, Synchronise(r), UNCHANGED <<clock, device, net>>
      PROVE  ClockInv'
  BY <1>5 DEF Synchronise, Newer, device, net
<1>6. CASE UNCHANGED <<clock, device_boots, booted_at, replies, known>>
  BY <1>6 DEF known
<1>7. ASSUME NEW r \in replies, Rejected(r) PROVE ClockInv'
  BY <1>5, <1>6, <1>7 DEF Rejected, device, net
<1>8. ASSUME NEW r \in replies, Got(r) \/ Walked(r) PROVE ClockInv'
  BY <1>5, <1>8 DEF Got, Walked, Accepted
<1> QED
  BY <1>1, <1>2, <1>3, <1>4, <1>6, <1>7, <1>8, NextCases
  DEF Call, Send, Overflow, Timeout, vars, device, net

\* The engine's idea of the device's clock is never ahead of the device
\* (CurrentTime against the answers taken in discover and _check_time_window).
THEOREM ClockBehindAlways == Spec => []ClockBehind
<1>1. Init => ClockInv
  BY DEF Init, ClockInv, RepliesBehind, KnownBehind
<1>2. TypeInv /\ ClockInv /\ [Next]_vars => ClockInv'
  BY ClockStep
<1>3. TypeInv /\ ClockInv => ClockBehind
  BY DEF TypeInv, TypeOK, ClockInv, KnownBehind, ClockBehind, CurrentTime,
         DeviceTime
<1> QED
  BY <1>1, <1>2, <1>3, TypeInvAlways, PTL DEF Spec

-----------------------------------------------------------------------------
(* Walks.  The device and the engine have enough ids for the calls made.     *)

EnoughIds == MaxCalls * PerCall < IdSpace

\* The calls so far have not used the ids up: the last one is still to come.
LEMMA Room ==
    ASSUME EnoughIds, NEW n \in Nat, 1 <= n, n <= MaxCalls
    PROVE  /\ PerCall \in Nat
           /\ (n - 1) * PerCall \in Nat
           /\ (n - 1) * PerCall + PerCall = n * PerCall
           /\ (n - 1) * PerCall + PerCall < IdSpace
<1>1. PerCall \in Nat
  BY SnmpAssumption DEF PerCall
<1>2. (n - 1) * PerCall \in Nat /\ (n - 1) * PerCall + PerCall = n * PerCall
  BY <1>1
<1>3. n * PerCall <= MaxCalls * PerCall
  BY <1>1, SnmpAssumption
<1> QED
  BY <1>1, <1>2, <1>3, SnmpAssumption DEF EnoughIds

\* A reply that the engine takes was sent to the request in hand: not to an
\* earlier one, however late it comes.
LEMMA ReplyToPending ==
    ASSUME IInv, NEW r \in replies, Matches(r)
    PROVE  r.to = pending
  BY DEF IInv, IdsUnique, Matches, TypeInv, TypeOK, RepliesTyped

\* What the walk gets for its GETNEXT: the next row, the end of the column
\* when it has come there, or a Report sent during this call.
LEMMA NextAnswer ==
    ASSUME IInv, NEW r \in replies, Matches(r), op = "walk",
           pending.kind # "discover"
    PROVE  \/ current < Rows /\ r.row = current + 1
           \/ current = Rows /\ r.row = EndRow
           \/ r.row = ReportRow /\ reported
<1>1. r.to = pending /\ pending.kind = "next" /\ pending.row = current
  BY ReplyToPending
  DEF IInv, TypeInv, TypeOK, InHand, WalkInv, Matches
<1>2. CASE r.row = ReportRow
  BY <1>1, <1>2 DEF IInv, ReportsSeen, Matches
<1>3. CASE r.row = AnswerRow(pending)
  BY <1>1, <1>3, SnmpAssumption
  DEF IInv, TypeInv, TypeOK, WalkInv, AnswerRow, EndRow
<1> QED
  BY <1>1, <1>2, <1>3 DEF IInv, TypeInv, RepliesTyped

LEMMA InitIInv == Init => IInv
<1> SUFFICES ASSUME Init PROVE IInv
  OBVIOUS
<1>1. TypeInv
  BY InitTypeInv
<1>2. IdsCounted
  BY SnmpAssumption DEF Init, IdsCounted, PerCall
<1> QED
  BY <1>1, <1>2 DEF Init, IInv, IdsUnique, WalkInv, ReportsSeen, Ended,
                    WalkPrefix, WalkComplete

\* A request is sent with an id that no request has.
LEMMA SendFresh ==
    ASSUME EnoughIds, IInv, Send
    PROVE  IdsCounted' /\ IdsUnique' /\ pending'.id > id
<1>1. /\ calls \in Nat /\ id \in Nat /\ steps \in Nat /\ Rows \in Nat
      /\ 1 <= calls /\ calls <= MaxCalls
  BY SnmpAssumption DEF Send, IInv, IdsCounted, TypeInv, TypeOK
<1>2. steps <= Rows
  BY <1>1 DEF IInv, IdsCounted, WalkInv, WalkPrefix, TypeInv, TypeOK
<1>3. /\ PerCall \in Nat /\ Before \in Nat
      /\ Before + PerCall = calls * PerCall /\ Before + PerCall < IdSpace
  BY <1>1, Room DEF Before
<1>4. IF discovered THEN id <= Before + 1 + steps ELSE id <= Before /\ steps = 0
  BY DEF Send, IInv, IdsCounted
<1>5. NextId = id + 1
  <2>1. id + 1 < IdSpace
    BY <1>1, <1>2, <1>3, <1>4, SnmpAssumption DEF PerCall
  <2> QED
    BY <2>1, <1>1, SnmpAssumption DEF NextId
<1>6. Before' = Before
  BY DEF Send, Before, call
<1>7. pending'.id = id + 1 /\ (pending'.kind = "discover" <=> ~discovered)
  BY <1>5 DEF Send
<1>8. IdsCounted'
  <2>1. UNCHANGED <<calls, op, steps, discovered>> /\ pc' = "wait" /\ id' = id + 1
    BY <1>5 DEF Send, call, known
  <2>2. CASE discovered
    BY <1>1, <1>3, <1>4, <1>6, <1>7, <2>1, <2>2 DEF IInv, IdsCounted
  <2>3. CASE ~discovered
    BY <1>1, <1>3, <1>4, <1>6, <1>7, <2>1, <2>3 DEF IInv, IdsCounted
  <2> QED
    BY <2>2, <2>3
<1>9. IdsUnique'
  BY <1>1, <1>5, <1>7 DEF Send, IInv, IdsUnique
<1> QED
  BY <1>1, <1>7, <1>8, <1>9

\* The invariant of a walk at every step that sends nothing and takes no reply.
LEMMA QuietStep ==
    ASSUME EnoughIds, IInv,
           Tick \/ RestartDevice \/ Overflow \/ Timeout \/ UNCHANGED vars
           \/ (\E row \in 1 .. Rows : Call("get", row, 0))
           \/ (\E limit \in Limits : Call("walk", 0, limit))
    PROVE  (IdsCounted /\ IdsUnique /\ WalkInv /\ ReportsSeen /\ Ended
             /\ WalkPrefix /\ WalkComplete)'
<1> USE DEF IInv, IdsUnique, WalkInv, ReportsSeen, Ended, WalkPrefix, WalkComplete
<1>1. CASE Tick \/ RestartDevice \/ UNCHANGED vars
  BY <1>1 DEF Tick, RestartDevice, vars, device, net, known, call, IdsCounted,
              Before
<1>2. CASE Overflow \/ Timeout
  <2>1. /\ UNCHANGED <<requests, replies, known, id, pending, calls, op, current,
                       steps, out, reported>>
        /\ \/ UNCHANGED <<pc, result>>
           \/ pc' = "idle" /\ result' = "error" /\ pc # "idle"
    BY <1>2 DEF Overflow, Timeout, Raise, net
  <2>2. /\ calls \in Nat /\ id \in Nat /\ steps \in Nat /\ Rows \in Nat
        /\ steps <= Rows
    BY SnmpAssumption DEF IdsCounted, TypeInv, TypeOK
  <2>3. pc # "idle" => id <= calls * PerCall
    <3> HAVE pc # "idle"
    <3>1. 1 <= calls /\ calls <= MaxCalls
      BY DEF IdsCounted
    <3>2. PerCall \in Nat /\ Before \in Nat /\ Before + PerCall = calls * PerCall
      BY <2>2, <3>1, Room DEF Before
    <3> QED
      BY <2>2, <3>2 DEF IdsCounted, PerCall, TypeInv, TypeOK
  <2>4. IdsCounted'
    BY <2>1, <2>3 DEF IdsCounted, Before, known
  <2> QED
    BY <2>1, <2>4
<1>3. ASSUME NEW what \in {"get", "walk"}, NEW row \in 0 .. Rows, NEW limit,
             what = "walk" => row = 0, Call(what, row, limit)
      PROVE  (IdsCounted /\ IdsUnique /\ WalkInv /\ ReportsSeen /\ Ended
               /\ WalkPrefix /\ WalkComplete)'
  <2>1. Before' = calls * PerCall /\ calls' = calls + 1 /\ calls \in Nat
    BY <1>3 DEF Call, Before, TypeInv
  <2>2. IdsCounted'
    BY <1>3, <2>1, SnmpAssumption DEF Call, IdsCounted, known, TypeInv, TypeOK
  <2> QED
    BY <1>3, <2>2, SnmpAssumption DEF Call, net
<1> QED
  BY <1>1, <1>2, <1>3, SnmpAssumption

LEMMA IInvStep ==
    ASSUME EnoughIds, IInv, [Next]_vars
    PROVE  IInv'
<1>0. TypeInv'
  BY TypeStep DEF IInv
<1>1. CASE Tick \/ RestartDevice \/ Overflow \/ Timeout \/ UNCHANGED vars
           \/ (\E row \in 1 .. Rows : Call("get", row, 0))
           \/ (\E limit \in Limits : Call("walk", 0, limit))
  BY <1>0, <1>1, QuietStep DEF IInv
<1>2. CASE Send
  <2>1. IdsCounted' /\ IdsUnique' /\ pending'.id > id
    BY <1>2, SendFresh
  <2>2. UNCHANGED <<replies, op, current, steps, out, result, reported>>
        /\ pc = "ready" /\ pending' \in requests'
    BY <1>2 DEF Send, call
  <2>3. WalkInv' /\ WalkPrefix' /\ WalkComplete' /\ Ended'
    BY <1>2, <2>2 DEF Send, IInv, WalkInv, WalkPrefix, WalkComplete, Ended
  <2>4. \A r \in replies : r.to # pending'
    BY <2>1 DEF IInv, IdsUnique, TypeInv, RepliesTyped, TypeOK
  <2>5. ReportsSeen'
    BY <2>2, <2>4 DEF ReportsSeen
  <2> QED
    BY <1>0, <2>1, <2>3, <2>5 DEF IInv
<1>3. ASSUME NEW m \in requests, Respond(m) PROVE IInv'
  <2>1. /\ requests' = requests /\ discovered' = discovered /\ id' = id
        /\ pc' = pc /\ pending' = pending /\ calls' = calls /\ op' = op
        /\ current' = current /\ steps' = steps /\ out' = out
        /\ result' = result
    BY <1>3 DEF Respond, known
  <2>2. reported => reported'
    BY <1>3, Zenon DEF Respond
  <2>3. PICK r : /\ replies' = replies \cup {r} /\ r.to = m
                 /\ r.row = ReportRow /\ m.kind = "next" => reported'
    <3>1. m.kind = "next" => AnswerRow(m) # ReportRow
      BY SnmpAssumption
      DEF IInv, TypeInv, RequestsTyped, AnswerRow, ReportRow, EndRow
    <3> QED
      BY <1>3, <3>1, RespondAdds, Zenon DEF IInv
  <2>4. IdsCounted' /\ IdsUnique'
    BY <2>1 DEF IInv, IdsCounted, IdsUnique, Before
  <2>5. WalkInv' /\ Ended' /\ WalkPrefix'
    BY <2>1 DEF IInv, WalkInv, Ended, WalkPrefix
  <2>6. WalkComplete'
    BY <2>1, <2>2, Zenon DEF IInv, WalkComplete
  <2>7. ReportsSeen'
    BY <2>1, <2>2, <2>3, Zenon DEF IInv, ReportsSeen
  <2> QED
    BY <1>0, <2>4, <2>5, <2>6, <2>7 DEF IInv
<1>4. ASSUME NEW r \in replies, Discovered(r) PROVE IInv'
  <2>1. /\ UNCHANGED <<requests, replies, id, pending, calls, op, current, steps,
                       out, result, reported>>
        /\ discovered' /\ pc' = "ready"
        /\ pc = "wait" /\ pending.kind = "discover"
    BY <1>4 DEF Discovered, Matches, net, call
  <2>2. IdsCounted'
    <3>1. Before' = Before /\ Before \in Int
      BY <2>1, SnmpAssumption DEF Before, PerCall, IInv, TypeInv
    <3> QED
      BY <2>1, <3>1 DEF IInv, IdsCounted, TypeInv, TypeOK
  <2>3. IdsUnique' /\ WalkInv' /\ ReportsSeen' /\ Ended'
    BY <2>1 DEF IInv, IdsUnique, WalkInv, ReportsSeen, Ended
  <2>4. WalkPrefix' /\ WalkComplete'
    BY <2>1 DEF IInv, WalkPrefix, WalkComplete, Ended
  <2> QED
    BY <1>0, <2>2, <2>3, <2>4 DEF IInv
<1>5. ASSUME NEW r \in replies, Rejected(r) \/ Got(r) \/ Walked(r), pc' = "idle"
      PROVE  IdsCounted'
  <2>1. /\ pc = "wait" /\ calls' = calls /\ id' = id /\ steps' = steps
        /\ op' = op
    BY <1>5 DEF Rejected, Got, Walked, Accepted, Matches, Raise
  <2>2. /\ calls \in Nat /\ id \in Nat /\ steps \in Nat /\ Rows \in Nat
        /\ steps <= Rows /\ 1 <= calls /\ calls <= MaxCalls
    BY <2>1, SnmpAssumption
    DEF IInv, IdsCounted, TypeInv, TypeOK, WalkPrefix, WalkInv
  <2>3. PerCall \in Nat /\ Before \in Nat /\ Before + PerCall = calls * PerCall
    BY <2>2, Room DEF Before
  <2>4. id <= calls * PerCall
    BY <2>1, <2>2, <2>3 DEF IInv, IdsCounted, PerCall
  <2> QED
    BY <1>5, <2>1, <2>4 DEF IInv, IdsCounted
<1>6. ASSUME NEW r \in replies, Rejected(r) PROVE IInv'
  <2>1. /\ pc = "wait" /\ pc' = "idle" /\ result' = "error"
        /\ UNCHANGED <<requests, id, op, current, steps, out>>
    BY <1>6 DEF Rejected, Matches, Raise, net
  <2>2. IdsUnique' /\ WalkInv' /\ ReportsSeen' /\ Ended' /\ WalkPrefix'
        /\ WalkComplete'
    BY <2>1 DEF IInv, IdsUnique, WalkInv, ReportsSeen, Ended, WalkPrefix,
                WalkComplete
  <2> QED
    BY <1>0, <1>5, <1>6, <2>1, <2>2 DEF IInv
<1>7. ASSUME NEW r \in replies, Got(r) PROVE IInv'
  <2>1. /\ pc = "wait" /\ pc' = "idle" /\ op = "get" /\ op' = "get"
        /\ UNCHANGED <<requests, id>>
    BY <1>7 DEF Got, Accepted, Matches, net
  <2>2. IdsUnique' /\ WalkInv' /\ ReportsSeen' /\ Ended' /\ WalkPrefix'
        /\ WalkComplete'
    BY <2>1 DEF IInv, IdsUnique, WalkInv, ReportsSeen, Ended, WalkPrefix,
                WalkComplete
  <2> QED
    BY <1>0, <1>5, <1>7, <2>1, <2>2 DEF IInv
<1>8. ASSUME NEW r \in replies, Walked(r) PROVE IInv'
  <2>1. /\ pc = "wait" /\ op = "walk" /\ pending.kind # "discover"
        /\ UNCHANGED <<requests, replies, id, pending, calls, op, discovered,
                       reported>>
    BY <1>8 DEF Walked, Accepted, Matches, Synchronise, net
  <2>2. /\ \/ current < Rows /\ r.row = current + 1
           \/ current = Rows /\ r.row = EndRow
           \/ r.row = ReportRow /\ reported
        /\ current \in Nat /\ Rows \in Nat
    BY <1>8, <2>1, NextAnswer, SnmpAssumption
    DEF Walked, Accepted, IInv, TypeInv, TypeOK
  <2>3. CASE InColumn(r.row)
    <3>1. /\ current < Rows /\ current' = current + 1 /\ steps' = steps + 1
          /\ pc' = "ready" /\ result' = result
          /\ out' = out \cup ({current + 1} \ Holes)
      BY <1>8, <2>2, <2>3 DEF Walked, InColumn, EndRow, ReportRow
    <3>2. IdsCounted'
      <4>1. Before' = Before /\ Before \in Int
        BY <2>1, SnmpAssumption DEF Before, PerCall, IInv, TypeInv
      <4> QED
        BY <2>1, <3>1, <4>1 DEF IInv, IdsCounted, TypeInv, TypeOK
    <3>3. WalkInv' /\ ReportsSeen' /\ IdsUnique' /\ Ended' /\ WalkComplete'
      BY <2>1, <2>2, <3>1
      DEF IInv, WalkInv, ReportsSeen, IdsUnique, Ended, WalkComplete
    <3>4. WalkPrefix'
      <4>1. 1 .. (current + 1) = (1 .. current) \cup {current + 1}
        BY <2>2
      <4> QED
        BY <2>1, <2>2, <3>1, <4>1 DEF IInv, WalkPrefix
    <3> QED
      BY <1>0, <3>2, <3>3, <3>4 DEF IInv
  <2>4. CASE ~InColumn(r.row)
    <3>1. UNCHANGED <<current, steps, out>> /\ pc' = "idle"
      BY <1>8, <2>4 DEF Walked
    <3>2. current = Rows \/ reported
      BY <2>2, <2>4 DEF InColumn
    <3>3. WalkInv' /\ ReportsSeen' /\ IdsUnique' /\ Ended' /\ WalkPrefix'
      BY <2>1, <3>1
      DEF IInv, WalkInv, ReportsSeen, IdsUnique, Ended, WalkPrefix
    <3>4. WalkComplete'
      BY <2>1, <3>1, <3>2 DEF IInv, WalkPrefix, WalkComplete
    <3> QED
      BY <1>0, <1>5, <1>8, <3>1, <3>3, <3>4 DEF IInv
  <2> QED
    BY <2>3, <2>4
<1> QED
  BY <1>1, <1>2, <1>3, <1>4, <1>6, <1>7, <1>8, NextCases

LEMMA IInvAlways ==
    ASSUME EnoughIds
    PROVE  Spec => []IInv
<1>1. IInv /\ [Next]_vars => IInv'
  BY IInvStep
<1> QED
  BY <1>1, InitIInv, PTL DEF Spec

\* However replies are delayed and repeated, a walk has collected every row up
\* to the one it stands at, as long as message ids do not come round.
THEOREM WalkPrefixAlways ==
    ASSUME EnoughIds
    PROVE  Spec => []WalkPrefix
<1>1. IInv => WalkPrefix
  BY DEF IInv
<1> QED
  BY <1>1, IInvAlways, PTL

\* A walk that ends well without a Report from the device has the whole column,
\* as long as message ids do not come round.
THEOREM WalkCompleteAlways ==
    ASSUME EnoughIds
    PROVE  Spec => []WalkComplete
<1>1. IInv => WalkComplete
  BY DEF IInv
<1> QED
  BY <1>1, IInvAlways, PTL
=============================================================================

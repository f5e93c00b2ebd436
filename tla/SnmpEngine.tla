----------------------------- MODULE SnmpEngine -----------------------------
(***************************************************************************)
(* SnmpV3Engine of ingest/snmp_engine.py: discovery, exchanges with          *)
(* retries, get and walk, over UDP and against a device that may restart.   *)
(*                                                                         *)
(* The device and the network are external.  Datagrams are lost, delayed    *)
(* and repeated: requests and replies stay in flight once sent, and may be  *)
(* taken any number of times or never (a socket may be given the port of an *)
(* earlier one, so old replies can arrive).  The device serves one column,   *)
(* rows 1 to Rows in this order; encoding, keys and ciphers are left out.    *)
(***************************************************************************)
EXTENDS Integers, FiniteSets

CONSTANTS
    Rows,           \* rows of the column
    Holes,          \* rows answered with noSuchObject or noSuchInstance
    Limits,         \* values of walk's max_oids (default 10000)
    Retries,        \* retries of the engine (1)
    UseAuth,        \* whether the security level authenticates
    Window,         \* TIME_WINDOW_SECONDS (150)
    IdSpace,        \* message and request ids (2^31)
    MaxClock,       \* bound: how far time.monotonic() advances
    MaxRestarts,    \* bound: restarts of the device
    MaxErrors,      \* bound: answers with an error status
    MaxAnswers,     \* bound: different answers to one request
    MaxCalls        \* bound: calls of get and walk

ASSUME SnmpAssumption ==
    /\ Rows \in Nat /\ Limits \subseteq Nat /\ Retries \in Nat
    /\ Holes \subseteq 1 .. Rows
    /\ UseAuth \in BOOLEAN /\ Window \in Nat /\ IdSpace \in Nat \ {0}
    /\ MaxClock \in Nat /\ MaxRestarts \in Nat
    /\ MaxErrors \in Nat /\ MaxAnswers \in Nat /\ MaxCalls \in Nat

VARIABLES
    clock,          \* time.monotonic()
    device_boots,   \* the device's snmpEngineBoots
    booted_at,      \* when it last started
    errors,         \* answers with an error status so far
    requests,       \* datagrams to the device
    replies,        \* datagrams from the device
    discovered, boots, engine_time, ref, \* what the engine knows of the device
    id,             \* the last message id; request ids advance with it
    calls,          \* calls so far
    op,             \* the call being served: "get" or "walk"
    max_oids,       \* its max_oids
    pc,             \* "idle", "ready" to send, or "wait"ing for a reply
    pending,        \* the request it waits for
    attempt,        \* its retries so far
    current,        \* the row asked for (get) or last seen (walk)
    steps,          \* GETNEXTs answered in this walk
    out,            \* the rows collected by this walk
    result,         \* how the last call ended: "none" yet, "ok" or "error"
    reported        \* history: a Report other than discovery's was sent
                    \* since the call began

device == <<device_boots, booted_at, errors>>
net    == <<requests, replies>>
known  == <<discovered, boots, engine_time, ref>>
call   == <<calls, op, max_oids, current, steps, out, result, reported>>
vars   == <<clock, device, net, known, id, pc, pending, attempt, call>>

\* What an answer names besides a row: a statistics counter of a Report, or
\* whatever follows the column.
ReportRow == 0
EndRow    == Rows + 1

NoRequest == [kind |-> "none", id |-> 0, row |-> 0, boots |-> 0, time |-> 0]

Init ==
    /\ clock = 0 /\ device_boots = 0 /\ booted_at = 0 /\ errors = 0
    /\ requests = {} /\ replies = {}
    /\ discovered = FALSE /\ boots = 0 /\ engine_time = 0 /\ ref = 0
    /\ id = 0 /\ calls = 0 /\ op = "get" /\ max_oids = 0
    /\ pc = "idle" /\ pending = NoRequest /\ attempt = 0
    /\ current = 0 /\ steps = 0 /\ out = {} /\ result = "none"
    /\ reported = FALSE

-----------------------------------------------------------------------------
(* The device.                                                              *)

Tick ==
    /\ clock < MaxClock
    /\ clock' = clock + 1
    /\ UNCHANGED <<device, net, known, id, pc, pending, attempt, call>>

DeviceTime == clock - booted_at

RestartDevice ==
    /\ device_boots < MaxRestarts
    /\ device_boots' = device_boots + 1
    /\ booted_at' = clock
    /\ UNCHANGED <<clock, errors, net, known, id, pc, pending, attempt, call>>

Within(s, t) == s - t <= Window /\ t - s <= Window

\* The device takes an authenticated request only inside its time window.
Timely(m) == \/ ~UseAuth
             \/ m.boots = device_boots /\ Within(m.time, DeviceTime)

AnswerRow(m) == CASE m.kind = "get"  -> m.row
                  [] m.kind = "next" -> IF m.row < Rows THEN m.row + 1
                                                        ELSE EndRow

\* A reply carries the message id of the request it is sent to.
Reply(m, request_id, row, error) ==
    [to |-> m, request_id |-> request_id, boots |-> device_boots,
     time |-> DeviceTime, row |-> row, error |-> error]

\* An answer; or a Report to a discovery or to an untimely request, which
\* carries the request id if the device got as far as reading it.
Respond(m) ==
    /\ Cardinality({r \in replies : r.to = m}) < MaxAnswers
    /\ \/ /\ m.kind # "discover" /\ Timely(m)
          /\ replies' = replies \cup {Reply(m, m.id, AnswerRow(m), FALSE)}
          /\ UNCHANGED errors
       \/ /\ m.kind # "discover" /\ Timely(m)
          /\ errors < MaxErrors
          /\ errors' = errors + 1
          /\ replies' = replies \cup {Reply(m, m.id, AnswerRow(m), TRUE)}
       \/ /\ m.kind = "discover" \/ ~Timely(m)
          /\ \E request_id \in IF m.kind = "discover" THEN {0} ELSE {0, m.id} :
                replies' = replies \cup {Reply(m, request_id, ReportRow, FALSE)}
          /\ UNCHANGED errors
    /\ reported' = (reported \/ (m.kind # "discover" /\ ~Timely(m)))
    /\ UNCHANGED <<clock, device_boots, booted_at, requests, known, id, pc,
                   pending, attempt, calls, op, max_oids, current, steps, out,
                   result>>

-----------------------------------------------------------------------------
(* The engine.                                                              *)

\* get(oid) or walk(base_oid) is called.
Call(what, row, limit) ==
    /\ pc = "idle"
    /\ calls < MaxCalls
    /\ calls' = calls + 1
    /\ pc' = "ready"
    /\ op' = what /\ max_oids' = limit
    /\ current' = row
    /\ steps' = 0 /\ out' = {} /\ result' = "none"
    /\ reported' = FALSE
    /\ UNCHANGED <<clock, device, net, known, id, pending, attempt>>

\* Mutation: the time of the last message is not kept.
CurrentTimeNow == engine_time + clock

CurrentTime == engine_time + (clock - ref)

\* Mutation: ids do not advance.
NextIdStuck == id

NextId == (id + 1) % IdSpace

\* Mutation: the loop runs once too often.
MaySendOnceMore == op = "walk" => steps <= max_oids

\* A walk that has had its max_oids sends nothing more.
MaySend == op = "walk" => steps < max_oids

\* The head of discover and of _exchange.
Send ==
    /\ pc = "ready"
    /\ MaySend
    /\ id' = NextId
    /\ pending' = IF discovered
                  THEN [kind |-> IF op = "get" THEN "get" ELSE "next",
                        id |-> NextId, row |-> current,
                        boots |-> boots, time |-> CurrentTime]
                  ELSE [kind |-> "discover", id |-> NextId, row |-> 0,
                        boots |-> 0, time |-> 0]
    /\ requests' = requests \cup {pending'}
    /\ attempt' = 0
    /\ pc' = "wait"
    /\ UNCHANGED <<clock, device, replies, known, call>>

\* An SnmpError leaves get or walk.
Raise == pc' = "idle" /\ result' = "error"

Overflow ==
    /\ pc = "ready"
    /\ ~MaySend
    /\ Raise
    /\ UNCHANGED <<clock, device, net, known, id, pending, attempt, calls, op,
                   max_oids, current, steps, out, reported>>

\* _send_recv returns the first reply with the id of the request; others are
\* dropped without effect.
Matches(r) == pc = "wait" /\ r.to.id = pending.id

\* The rest of discover.
Discovered(r) ==
    /\ Matches(r)
    /\ pending.kind = "discover"
    /\ discovered' = TRUE
    /\ boots' = r.boots /\ engine_time' = r.time /\ ref' = clock
    /\ pc' = "ready"
    /\ UNCHANGED <<clock, device, net, id, pending, attempt, call>>

\* request-id, _check_time_window and error-status.
InTimeWindow(r) ==
    UseAuth => \/ r.boots > boots
               \/ r.boots = boots /\ Within(r.time, CurrentTime)

Newer(r) == r.boots > boots \/ (r.boots = boots /\ r.time > engine_time)

\* A fresher notion of the device's time is kept even if the answer is an
\* error.
Synchronise(r) ==
    /\ UNCHANGED discovered
    /\ IF Newer(r)
       THEN boots' = r.boots /\ engine_time' = r.time /\ ref' = clock
       ELSE UNCHANGED <<boots, engine_time, ref>>

Rejected(r) ==
    /\ Matches(r)
    /\ pending.kind # "discover"
    /\ \/ ~(r.request_id = pending.id /\ InTimeWindow(r)) /\ UNCHANGED known
       \/ r.request_id = pending.id /\ InTimeWindow(r)
            /\ r.error /\ Synchronise(r)
    /\ Raise
    /\ UNCHANGED <<clock, device, net, id, pending, attempt, calls, op,
                   max_oids, current, steps, out, reported>>

Accepted(r) ==
    /\ Matches(r)
    /\ pending.kind # "discover"
    /\ r.request_id = pending.id /\ InTimeWindow(r) /\ ~r.error
    /\ Synchronise(r)

Got(r) ==
    /\ op = "get"
    /\ Accepted(r)
    /\ current' = r.row
    /\ pc' = "idle" /\ result' = "ok"
    /\ UNCHANGED <<clock, device, net, id, pending, attempt, calls, op,
                   max_oids, steps,
                   out, reported>>

\* Mutation: a hole is taken for the end of the column.
InColumnDense(row) == row \in (1 .. Rows) \ (Holes \cup {current})

\* The answer is a row of the column other than the one asked from.
InColumn(row) == row \in (1 .. Rows) \ {current}

\* A turn of walk's loop.
Walked(r) ==
    /\ op = "walk"
    /\ Accepted(r)
    /\ IF InColumn(r.row)
       THEN /\ out' = out \cup ({r.row} \ Holes)
            /\ current' = r.row
            /\ steps' = steps + 1
            /\ pc' = "ready"
            /\ UNCHANGED result
       ELSE /\ pc' = "idle" /\ result' = "ok"
            /\ UNCHANGED <<out, current, steps>>
    /\ UNCHANGED <<clock, device, net, id, pending, attempt, calls, op,
                   max_oids, reported>>

\* Mutation: retries without a limit.
TimeoutForever ==
    /\ pc = "wait"
    /\ attempt' = 1 - attempt
    /\ UNCHANGED <<clock, device, net, known, id, pc, pending, call>>

\* No reply in time: the same message again on a new socket, or an error.
Timeout ==
    /\ pc = "wait"
    /\ IF attempt < Retries
       THEN attempt' = attempt + 1 /\ UNCHANGED <<pc, result>>
       ELSE Raise /\ UNCHANGED attempt
    /\ UNCHANGED <<clock, device, net, known, id, pending, calls, op, max_oids,
                   current, steps, out, reported>>

-----------------------------------------------------------------------------
Receive == \E r \in replies :
    Discovered(r) \/ Rejected(r) \/ Got(r) \/ Walked(r)

Next ==
    \/ Tick
    \/ RestartDevice
    \/ \E m \in requests : Respond(m)
    \/ \E row \in 1 .. Rows : Call("get", row, 0)
    \/ \E limit \in Limits : Call("walk", 0, limit)
    \/ Send
    \/ Overflow
    \/ Receive
    \/ Timeout

Spec == Init /\ [][Next]_vars

\* The calling thread runs, and a socket's timeout ends its wait; nothing is
\* assumed of the device or of the network.
FairSpec == Spec /\ WF_vars(Send \/ Overflow) /\ WF_vars(Receive \/ Timeout)

-----------------------------------------------------------------------------
\* The engine and the device stay well typed; a call keeps to its retries and to
\* max_oids, and waits for the request that it sent last (SnmpV3Engine).
TypeOK ==
    /\ clock \in Nat /\ device_boots \in Nat /\ booted_at \in 0 .. clock
    /\ boots \in Nat /\ engine_time \in Nat /\ ref \in 0 .. clock
    /\ id \in 0 .. IdSpace - 1
    /\ pc \in {"idle", "ready", "wait"}
    /\ op \in {"get", "walk"}
    /\ attempt \in 0 .. Retries
    /\ current \in 0 .. EndRow /\ steps \in 0 .. max_oids
    /\ out \subseteq 1 .. Rows
    /\ pc = "wait" => pending.id = id /\ pending \in requests

\* The engine's idea of the device's clock is never ahead of the device, so a
\* request is refused for being late, never for coming from the future.
ClockBehind ==
    discovered => /\ boots <= device_boots
                  /\ boots = device_boots => CurrentTime <= DeviceTime

\* However replies are delayed and repeated, a walk has collected, without a
\* gap, the rows up to the one it stands at, and counted each of them.
WalkPrefix ==
    op = "walk" => out = (1 .. current) \ Holes /\ steps = current

\* A walk to which the device sent no Report returns the whole column or, at
\* max_oids, nothing: it is never cut short by a row without a value, an error
\* or an old reply.
WalkComplete ==
    op = "walk" /\ result = "ok" /\ ~reported => out = (1 .. Rows) \ Holes

\* Every call ends, whether the device answers or not.
CallEnds == (pc # "idle") ~> (pc = "idle")
=============================================================================

------------------------------ MODULE RabbitMQ ------------------------------
(***************************************************************************)
(* rabbitmq: the connection, its reconnect loops and the subscribers that  *)
(* follow it.  A channel of Go that is only ever closed (r.close,          *)
(* waitConnection) is a number and the set of numbers that are open; a     *)
(* select holds the numbers it read when it was entered.  An AMQP          *)
(* connection is a number too; the server drops open ones.  A new channel  *)
(* or connection takes a number that nobody holds.                         *)
(***************************************************************************)
EXTENDS Naturals, Functions

CONSTANTS Subscribers, None,
          Ids,      \* the numbers of channels and connections
          Budgets   \* pairs: calls of Connect; failed dials and channels, dropped connections

VARIABLES
    connection,   \* r.Connection; 0, nil, after a failed dial
    open,
    connected,
    closeCh, closeOpen,   \* r.close and the open ones
    waitCh, waitOpen,     \* waitConnection and the open ones
    caller,               \* the goroutine calling Connect: "idle", "try", "mark"
    calls,                \* Connect calls made
    loop, watch, stop,    \* reconnect: place, connection notified about, r.close read
    spc, mayRun, rmtx,    \* resubscribe: place, s.mayRun, holder of rbroker.mtx
    sclose, swait,        \* the channels its select waits on
    ch, stored,           \* connection of its consumer channel; it is in s.ch
    budget, faults, panicked, overlapped

connVars == <<connection, open>>
chanVars == <<closeCh, closeOpen, waitCh, waitOpen>>
loopVars == <<loop, watch, stop>>
subVars == <<spc, mayRun, rmtx, sclose, swait, ch, stored>>
vars == <<connVars, connected, chanVars, caller, calls, loopVars, subVars, faults, panicked, overlapped, budget>>

MaxConnects == budget[1]
FaultBudget == budget[2]
Loops == UNION {1 .. b[1] : b \in Budgets}

\* 0 is nil, and there is always a number that no field holds.
IdsAssumption ==
    /\ 0 \notin Ids /\ 1 \in Ids
    /\ \A f \in [Loops -> Ids \cup {0}], g \in [Subscribers -> Ids \cup {0}], n \in Ids \cup {0} :
          \E x \in Ids : x \notin Range(f) \cup Range(g) \cup {n}
Fresh(held) == CHOOSE n \in Ids : n \notin held

\* newRabbitMQConn: waitConnection is closed at the start.
Init ==
    /\ connection = 0 /\ open = {} /\ connected = FALSE
    /\ closeCh = 1 /\ closeOpen = {1} /\ waitCh = 1 /\ waitOpen = {}
    /\ caller = "idle" /\ calls = 0
    /\ loop = [i \in Loops |-> "off"] /\ watch = [i \in Loops |-> 0] /\ stop = [i \in Loops |-> 0]
    /\ spc = [s \in Subscribers |-> "none"] /\ mayRun = [s \in Subscribers |-> FALSE] /\ rmtx = None
    /\ sclose = [s \in Subscribers |-> 0] /\ swait = [s \in Subscribers |-> 0]
    /\ ch = [s \in Subscribers |-> 0] /\ stored = [s \in Subscribers |-> FALSE]
    /\ budget \in Budgets /\ faults = 0 /\ panicked = FALSE /\ overlapped = FALSE

----------------------------------------------------------------------------
\* dialConfig and the two channels; r.Connection is nil when the dial fails, and a
\* connection whose channel fails is left open behind it.  A connection that no field
\* holds any more leaves the set open: nothing reads it again.
Held == Range(watch) \cup Range(ch)
Dial ==
    /\ connection' = Fresh(Held \cup {connection})
    /\ open' = (open \cap Held) \cup {connection'}
tryConnect(ok, err) ==
    \/ Dial /\ ok /\ UNCHANGED faults
    \/ faults < FaultBudget /\ faults' = faults + 1 /\ err /\ connection' = 0 /\ UNCHANGED open
    \/ faults < FaultBudget /\ faults' = faults + 1 /\ err /\ Dial

\* Connect: nothing when connected; a closed r.close is replaced.
Connect ==
    /\ caller = "idle" /\ calls < MaxConnects /\ ~connected
    /\ calls' = calls + 1 /\ caller' = "try"
    /\ IF closeCh \in closeOpen
       THEN UNCHANGED <<closeCh, closeOpen>>
       ELSE /\ closeCh' = Fresh({closeCh} \cup Range(sclose) \cup Range(stop))
            /\ closeOpen' = closeOpen \cup {closeCh'}
    /\ UNCHANGED <<connVars, connected, waitCh, waitOpen, loopVars, subVars,
                   faults, panicked, overlapped, budget>>
ConnectTry ==
    /\ caller = "try" /\ tryConnect(caller' = "mark", caller' = "idle")
    /\ UNCHANGED <<connected, chanVars, calls, loopVars, subVars, panicked, overlapped, budget>>
\* connect: connected, and its own reconnect loop.
connect ==
    /\ caller = "mark" /\ caller' = "idle" /\ connected' = TRUE
    /\ loop' = [loop EXCEPT ![calls] = "notify"]
    /\ overlapped' = (overlapped \/ \E i \in Loops : loop[i] # "off")
    /\ UNCHANGED <<connVars, chanVars, calls, watch, stop, subVars, faults, panicked, budget>>

\* Connection c ends: a watch or a consumer on it holds 0 from here on.
Ends(c) ==
    /\ open' = open \ {c}
    /\ watch' = [i \in Loops |-> IF watch[i] = c THEN 0 ELSE watch[i]]
    /\ ch' = [s \in Subscribers |-> IF ch[s] = c THEN 0 ELSE ch[s]]

\* Close, once per r.close; it panics on the nil connection a failed dial left.
Close ==
    /\ caller = "idle" /\ calls > 0 /\ closeCh \in closeOpen
    /\ closeOpen' = closeOpen \ {closeCh} /\ connected' = FALSE
    /\ panicked' = (connection = 0) /\ Ends(connection)
    /\ UNCHANGED <<connection, closeCh, waitCh, waitOpen, caller, calls, loop, stop, spc, mayRun,
                   rmtx, sclose, swait, stored, faults, overlapped, budget>>

----------------------------------------------------------------------------
\* reconnect: the loop that dials does not look at r.close.
Reconnect(i) ==
    /\ loop[i] = "try"
    /\ tryConnect(loop' = [loop EXCEPT ![i] = "mark"], UNCHANGED loop)
    /\ UNCHANGED <<connected, chanVars, caller, calls, watch, stop, subVars, panicked, overlapped, budget>>

\* Mutant: the channel is replaced without closing it.
UnblockNobody(i) ==
    /\ loop[i] = "mark" /\ loop' = [loop EXCEPT ![i] = "notify"]
    /\ connected' = TRUE
    /\ UNCHANGED <<connVars, chanVars, caller, calls, watch, stop, subVars,
                   faults, panicked, overlapped, budget>>

Unblock(i) ==
    /\ loop[i] = "mark" /\ loop' = [loop EXCEPT ![i] = "notify"]
    /\ connected' = TRUE /\ waitOpen' = waitOpen \ {waitCh}
    /\ UNCHANGED <<connVars, closeCh, closeOpen, waitCh, caller, calls, watch, stop, subVars,
                   faults, panicked, overlapped, budget>>
\* NotifyClose, and the select: both read their fields without the mutex.
NotifyClose(i) ==
    /\ loop[i] = "notify" /\ loop' = [loop EXCEPT ![i] = "wait"]
    /\ panicked' = (connection = 0)
    /\ watch' = [watch EXCEPT ![i] = connection] /\ stop' = [stop EXCEPT ![i] = closeCh]
    /\ UNCHANGED <<connVars, connected, chanVars, caller, calls, subVars, faults, overlapped, budget>>
Lost(i) ==
    /\ loop[i] = "wait" /\ watch[i] \notin open /\ loop' = [loop EXCEPT ![i] = "try"]
    /\ watch' = [watch EXCEPT ![i] = 0] /\ stop' = [stop EXCEPT ![i] = 0]
    /\ connected' = FALSE
    /\ waitCh' = Fresh({waitCh} \cup Range(swait))
    /\ waitOpen' = (waitOpen \cap Range(swait)) \cup {waitCh'}
    /\ UNCHANGED <<connVars, closeCh, closeOpen, caller, calls, subVars,
                   faults, panicked, overlapped, budget>>

LoopEnds(i) ==
    /\ loop[i] = "wait" /\ stop[i] \notin closeOpen /\ loop' = [loop EXCEPT ![i] = "off"]
    /\ watch' = [watch EXCEPT ![i] = 0] /\ stop' = [stop EXCEPT ![i] = 0]
    /\ UNCHANGED <<connVars, connected, chanVars, caller, calls, subVars, faults, panicked, overlapped, budget>>

\* The server or the network closes a connection.
Drop(c) ==
    /\ c \in open /\ c \in Held \cup {connection} /\ faults < FaultBudget /\ faults' = faults + 1 /\ Ends(c)
    /\ UNCHANGED <<connection, connected, chanVars, caller, calls, loop, stop, spc, mayRun, rmtx,
                   sclose, swait, stored, panicked, overlapped, budget>>

----------------------------------------------------------------------------
Subscribe(s) ==
    /\ spc[s] = "none" /\ calls > 0
    /\ spc' = [spc EXCEPT ![s] = "check"] /\ mayRun' = [mayRun EXCEPT ![s] = TRUE]
    /\ UNCHANGED <<connVars, connected, chanVars, caller, calls, loopVars, rmtx, sclose, swait,
                   ch, stored, faults, panicked, overlapped, budget>>

\* Goes to place p.
At(s, p) == spc' = [spc EXCEPT ![s] = p]
NotOfSubscribers == <<connVars, connected, chanVars, caller, calls, loopVars, overlapped, budget>>

\* The loop head: ended by Unsubscribe, or the select is entered.
Check(s) ==
    /\ spc[s] = "check"
    /\ IF mayRun[s]
       THEN /\ At(s, "select")
            /\ sclose' = [sclose EXCEPT ![s] = closeCh] /\ swait' = [swait EXCEPT ![s] = waitCh]
       ELSE At(s, "done") /\ UNCHANGED <<sclose, swait>>
    /\ UNCHANGED <<NotOfSubscribers, mayRun, rmtx, ch, stored, faults, panicked>>
Selected(s) == sclose' = [sclose EXCEPT ![s] = 0] /\ swait' = [swait EXCEPT ![s] = 0]
Shutdown(s) ==
    /\ spc[s] = "select" /\ sclose[s] \notin closeOpen /\ At(s, "done") /\ Selected(s)
    /\ UNCHANGED <<NotOfSubscribers, mayRun, rmtx, ch, stored, faults, panicked>>
Connected(s) ==
    /\ spc[s] = "select" /\ swait[s] \notin waitOpen /\ At(s, "recheck") /\ Selected(s)
    /\ UNCHANGED <<NotOfSubscribers, mayRun, rmtx, ch, stored, faults, panicked>>

\* rbroker.mtx, which reconnect and Close do not take, and conn.connected.
Recheck(s) ==
    /\ spc[s] = "recheck" /\ rmtx = None
    /\ IF connected THEN rmtx' = s /\ At(s, "consume") ELSE At(s, "check") /\ UNCHANGED rmtx
    /\ UNCHANGED <<NotOfSubscribers, mayRun, sclose, swait, ch, stored, faults, panicked>>
\* Consume reads r.Connection again: nil panics, a dead one or the server may refuse; after
\* an error resubscribe sleeps and starts over.
Consume(s) ==
    /\ spc[s] = "consume" /\ rmtx' = None /\ panicked' = (connection = 0)
    /\ \/ connection \in open /\ At(s, "store") /\ ch' = [ch EXCEPT ![s] = connection]
          /\ stored' = [stored EXCEPT ![s] = FALSE] /\ UNCHANGED faults
       \/ connection \notin open /\ At(s, "check") /\ UNCHANGED <<ch, stored, faults>>
       \/ connection \in open /\ faults < FaultBudget /\ faults' = faults + 1 /\ At(s, "check")
          /\ UNCHANGED <<ch, stored>>
    /\ UNCHANGED <<NotOfSubscribers, mayRun, sclose, swait>>
Store(s) ==
    /\ spc[s] = "store" /\ At(s, "range") /\ stored' = [stored EXCEPT ![s] = TRUE]
    /\ UNCHANGED <<NotOfSubscribers, mayRun, rmtx, sclose, swait, ch, faults, panicked>>
\* range over the deliveries ends with the channel.
RangeEnds(s) ==
    /\ spc[s] = "range" /\ ch[s] \notin open /\ At(s, "check")
    /\ ch' = [ch EXCEPT ![s] = 0]
    /\ UNCHANGED <<NotOfSubscribers, mayRun, rmtx, sclose, swait, stored, faults, panicked>>

\* Unsubscribe closes s.ch, which is the running channel only once it has been stored.
Unsubscribe(s) ==
    /\ spc[s] # "none" /\ mayRun[s] /\ mayRun' = [mayRun EXCEPT ![s] = FALSE]
    /\ ch' = IF stored[s] THEN [ch EXCEPT ![s] = 0] ELSE ch
    /\ UNCHANGED <<NotOfSubscribers, spc, rmtx, sclose, swait, stored, faults, panicked>>

LoopStep(i) == Reconnect(i) \/ Unblock(i) \/ NotifyClose(i) \/ Lost(i) \/ LoopEnds(i)
SubStep(s) ==
    Check(s) \/ Shutdown(s) \/ Connected(s) \/ Recheck(s) \/ Consume(s) \/ Store(s) \/ RangeEnds(s)
UserStep == ConnectTry \/ connect

Next ==
    /\ ~panicked
    /\ \/ Connect \/ Close \/ UserStep
       \/ \E i \in Loops : LoopStep(i)
       \/ \E c \in open : Drop(c)
       \/ \E s \in Subscribers : Subscribe(s) \/ SubStep(s) \/ Unsubscribe(s)

\* Goroutines run, and a waiting sync.Mutex is acquired.
Fairness ==
    /\ WF_vars(~panicked /\ UserStep)
    /\ \A i \in Loops : WF_vars(~panicked /\ LoopStep(i))
    /\ \A s \in Subscribers : SF_vars(~panicked /\ SubStep(s))
Spec == Init /\ [][Next]_vars /\ Fairness

----------------------------------------------------------------------------
TypeOK ==
    /\ connection \in Ids \cup {0} /\ {waitCh, closeCh} \subseteq Ids
    /\ open \subseteq Ids /\ closeOpen \subseteq Ids /\ waitOpen \subseteq Ids
    /\ {watch, stop} \subseteq [Loops -> Ids \cup {0}]
    /\ {ch, sclose, swait} \subseteq [Subscribers -> Ids \cup {0}]
    /\ rmtx \in Subscribers \cup {None}
    /\ caller \in {"idle", "try", "mark"}
    /\ loop \in [Loops -> {"off", "try", "mark", "notify", "wait"}]
    /\ spc \in [Subscribers -> {"none", "check", "select", "recheck", "consume", "store", "range", "done"}]

Consuming(s) == spc[s] = "range" /\ ch[s] \in open
\* A subscriber follows the connection: while one reconnect loop serves it, nobody closes
\* and nobody unsubscribes, it ends up consuming on an open connection however often the
\* connection or a dial fails.
SubscribersComeBack ==
    \A s \in Subscribers :
        []<>(mayRun[s] /\ (\E i \in Loops : loop[i] # "off") =>
                 Consuming(s) \/ closeCh \notin closeOpen \/ calls > 1 \/ overlapped \/ panicked)

\* Close ends every reconnect loop that was running, also one that was dialling: unless
\* the broker is connected again, none is left in the end.
LoopsEnd ==
    []<>(panicked \/ closeCh \in closeOpen \/ \A i \in Loops : loop[i] = "off")

\* A subscriber blocked on waitConnection is woken by the next connection: while a single
\* loop runs, the channel it waits on is the current one or closed.
NoMissedWakeup ==
    \A s \in Subscribers :
        spc[s] = "select" /\ ~overlapped => swait[s] = waitCh \/ swait[s] \notin waitOpen
=============================================================================

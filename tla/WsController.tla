---------------------------- MODULE WsController ----------------------------
(***************************************************************************)
(* The task that owns a client session's connections to the subgraphs      *)
(* (handler/websocket/controller.rs, grouped_stream.rs).  It reads two      *)
(* inputs, the commands of the session's operations and the messages of    *)
(* the upstream connections, one at a time; while it opens a connection it *)
(* reads neither.  Subscriptions to one service share one connection,      *)
(* which is closed when the last of them is finished.                      *)
(*                                                                         *)
(* The callers and the upstream servers are the environment.  A channel    *)
(* in Chans stands for one mpsc pair of tx and rx and for the call that    *)
(* made it; src, in remote and link, is the channel whose Subscribe made   *)
(* the upstream talk (a ghost: the wire carries the id only).              *)
(***************************************************************************)
EXTENDS Integers, FiniteSets, SequencesExt

CONSTANTS Services,     \* subgraphs that a subscription can name
          Ids,          \* subscription ids
          Chans,        \* response channels
          NoChan,       \* the tx of an id that is not subscribed
          SharedIds,    \* may two channels use one id at a time?
          MaxCommands,  \* bound: commands waiting in the unbounded channel
          MaxInFlight   \* bound: upstream messages not yet received by a caller

ASSUME ServicesAssumption == IsFiniteSet(Services)
ASSUME IdsAssumption      == IsFiniteSet(Ids)
ASSUME ChansAssumption    == IsFiniteSet(Chans) /\ NoChan \notin Chans
ASSUME SharedAssumption   == SharedIds \in BOOLEAN
ASSUME BoundsAssumption   == MaxCommands \in Nat /\ MaxInFlight \in Nat

VARIABLES
    task,         \* the spawned task: "running", "ended" or "panicked"
    handle,       \* does anyone hold a clone of tx_command?
    commands,     \* rx_command
    busy,         \* the command whose ensure_upstream is being awaited
    initPayload,  \* is the client's connection_init payload still there?
    upstream,     \* keys of the GroupedStream
    info,         \* keys of upstream_info
    count,        \* subscribe_count of the services in info, 0 elsewhere
    subscribes,   \* what is subscribed under each id
    reply,        \* the oneshot of each (channel, service) call
    rx,           \* channels whose receiver is alive
    inbox,        \* responses sent and not yet received, by their src
    link,         \* messages of each upstream connection, oldest first
    remote        \* subscriptions each upstream server is running

taskVars   == <<task, handle, busy, initPayload>>
tableVars  == <<upstream, info, count, subscribes>>
callerVars == <<reply, rx, inbox>>
wireVars   == <<link, remote>>
vars == <<taskVars, commands, tableVars, callerVars, wireVars>>

SubscribeCommand == [op : {"Subscribe"}, service : Services, id : Ids, tx : Chans]
StopCommand == [op : {"Stop"}, id : Ids]
Command == SubscribeCommand \cup StopCommand

Idle == [phase |-> "idle"]
Connecting == [phase : {"dial", "ack"}, cmd : SubscribeCommand]

NoSub == [services |-> {}, tx |-> NoChan]
SubscribeInfo == [services : SUBSET Services, tx : Chans \cup {NoChan}]

Fault == [kind |-> "Fault"]
Message == [kind : {"Data", "Complete"}, id : Ids, src : Chans] \cup {Fault}
Reply == {"none", "pending", "ok", "err", "dropped"}

TypeOK ==
    /\ task \in {"running", "ended", "panicked"}
    /\ handle \in BOOLEAN
    /\ commands \in Seq(Command)
    /\ busy \in Connecting \cup {Idle}
    /\ initPayload \in BOOLEAN
    /\ upstream \in SUBSET Services
    /\ info \in SUBSET Services
    /\ count \in [Services -> Nat]
    /\ subscribes \in [Ids -> SubscribeInfo]
    /\ reply \in [Chans -> [Services -> Reply]]
    /\ rx \in SUBSET Chans
    /\ inbox \in [Chans -> Seq(Chans)]
    /\ link \in [Services -> Seq(Message)]
    /\ remote \in [Services -> SUBSET (Ids \X Chans)]

Init ==
    /\ task = "running"
    /\ handle = TRUE
    /\ commands = <<>>
    /\ busy = Idle
    /\ initPayload \in BOOLEAN
    /\ upstream = {}
    /\ info = {}
    /\ count = [s \in Services |-> 0]
    /\ subscribes = [i \in Ids |-> NoSub]
    /\ reply = [c \in Chans |-> [s \in Services |-> "none"]]
    /\ rx = {}
    /\ inbox = [c \in Chans |-> <<>>]
    /\ link = [s \in Services |-> <<>>]
    /\ remote = [s \in Services |-> {}]

-----------------------------------------------------------------------------
(* What the callers hold and what still refers to a channel.               *)

Queued == {commands[k] : k \in DOMAIN commands}
                \cup IF busy = Idle THEN {} ELSE {busy.cmd}

QueuedFor(c) == {m \in Queued : m.op = "Subscribe" /\ m.tx = c}

\* Clones of c's sender: when none is left, rx.recv() returns None.
HasSender(c) == QueuedFor(c) # {} \/ \E i \in Ids : subscribes[i].tx = c

InLink(s) == {link[s][k] : k \in DOMAIN link[s]} \ {Fault}

\* Nothing in the task, the channels or an upstream remembers c.
Forgotten(c) ==
    /\ c \notin rx
    /\ ~HasSender(c)
    /\ \A s \in Services : /\ \A p \in remote[s] : p[2] # c
                           /\ \A m \in InLink(s) : m.src # c

\* Nothing remembers the id i.
Unused(i) ==
    /\ subscribes[i] = NoSub
    /\ \A m \in Queued : m.id # i
    /\ \A s \in Services : /\ \A p \in remote[s] : p[1] # i
                           /\ \A m \in InLink(s) : m.id # i

\* The oneshot of a command answers its caller, if the caller still waits.
Answered(r, c, s, v) ==
    IF r[c][s] = "pending" THEN [r EXCEPT ![c][s] = v] ELSE r

-----------------------------------------------------------------------------
(* The callers of the handle.                                              *)

\* The burst of Subscribe commands that one poll of a call sends, in order.
Subscribe(c, i, order) ==
    /\ handle
    /\ Forgotten(c)
    /\ SharedIds \/ Unused(i)
    /\ rx' = rx \cup {c}
    /\ IF task = "running"
       THEN /\ Len(commands) + Len(order) <= MaxCommands
            /\ commands' = commands \o
                 [k \in DOMAIN order |-> [op |-> "Subscribe", service |-> order[k],
                                          id |-> i, tx |-> c]]
            /\ reply' = [reply EXCEPT ![c] = [s \in Services |->
                    IF \E k \in DOMAIN order : order[k] = s THEN "pending" ELSE "none"]]
       ELSE /\ reply' = [reply EXCEPT ![c][order[1]] = "dropped"]
            /\ UNCHANGED commands
    /\ UNCHANGED <<taskVars, tableVars, inbox, wireVars>>

\* stop(): the send to a task that is gone fails silently.
Stop(i) ==
    /\ handle
    /\ task = "running"
    /\ Len(commands) < MaxCommands
    /\ commands' = Append(commands, [op |-> "Stop", id |-> i])
    /\ UNCHANGED <<taskVars, tableVars, callerVars, wireVars>>

\* rx.recv() takes the oldest response of c.
Receive(c) ==
    /\ inbox[c] # <<>>
    /\ inbox' = [inbox EXCEPT ![c] = Tail(@)]
    /\ UNCHANGED <<taskVars, commands, tableVars, reply, rx, wireVars>>

\* The future that owns c's receiver, and awaits its replies, is dropped.
DropReceiver(c) ==
    /\ c \in rx
    /\ rx' = rx \ {c}
    /\ inbox' = [inbox EXCEPT ![c] = <<>>]
    /\ reply' = [reply EXCEPT ![c] = [s \in Services |-> "none"]]
    /\ UNCHANGED <<taskVars, commands, tableVars, wireVars>>

\* The session's actor stops: its handle and its streams are dropped.
DropHandle ==
    /\ handle
    /\ handle' = FALSE
    /\ rx' = {}
    /\ inbox' = [c \in Chans |-> <<>>]
    /\ reply' = [c \in Chans |-> [s \in Services |-> "none"]]
    /\ UNCHANGED <<task, commands, busy, initPayload, tableVars, wireVars>>

-----------------------------------------------------------------------------
(* The task.                                                               *)

\* The task is over: everything it owns is dropped, the queued commands and
\* the oneshots in them included.
Terminate(how) ==
    /\ task' = how
    /\ commands' = <<>>
    /\ busy' = Idle
    /\ upstream' = {}
    /\ info' = {}
    /\ count' = [s \in Services |-> 0]
    /\ subscribes' = [i \in Ids |-> NoSub]
    /\ reply' = [c \in Chans |-> [s \in Services |->
                    IF reply[c][s] = "pending" THEN "dropped" ELSE reply[c][s]]]
    /\ link' = [s \in Services |-> <<>>]
    /\ remote' = [s \in Services |-> {}]
    /\ UNCHANGED <<handle, initPayload, rx, inbox>>

\* An id is finished: the services in closed lose their entry, those in cut
\* their stream; ls are the links once the event is taken off.
Finish(i, ls, closed, cut) ==
    /\ subscribes' = [subscribes EXCEPT ![i] = NoSub]
    /\ count' = [s \in Services |->
            IF s \in subscribes[i].services \cap info THEN count[s] - 1 ELSE count[s]]
    /\ info' = info \ closed
    /\ upstream' = upstream \ cut
    /\ link' = [s \in Services |-> IF s \in cut THEN <<>> ELSE ls[s]]
    /\ remote' = [s \in Services |-> IF s \in cut THEN {} ELSE remote[s]]

\* The connections that the id i is the last to use.
LastUse(i) == {s \in subscribes[i].services \cap info : count[s] = 1}

\* Mutant: the stream of a closed connection stays in the GroupedStream.
FinishKeepsStream(i, ls) == Finish(i, ls, LastUse(i), {})

\* Mutant: finishing one subscription ends all those of its services.
FinishDropsOthers(i, ls) ==
    /\ subscribes' = [j \in Ids |->
            IF subscribes[j].services \cap subscribes[i].services # {}
            THEN NoSub ELSE subscribes[j]]
    /\ link' = ls
    /\ UNCHANGED <<count, info, upstream, remote>>

\* finish_subscribe
FinishSubscribe(i, ls) == Finish(i, ls, LastUse(i), LastUse(i))

\* The command m is entered in the tables and its caller told: ks are the
\* connected services, n is how many subscribe to m's, rest the commands left.
\* A second command of an id joins the services of the first; its tx is dropped.
Enter(m, ks, n, rest) ==
    /\ upstream' = ks
    /\ info' = info \cup ks
    /\ count' = [count EXCEPT ![m.service] = n]
    /\ subscribes' = [subscribes EXCEPT ![m.id] =
            [services |-> @.services \cup {m.service},
             tx |-> IF @ = NoSub THEN m.tx ELSE @.tx]]
    /\ remote' = [remote EXCEPT ![m.service] = @ \cup {<<m.id, m.tx>>}]
    /\ reply' = Answered(reply, m.tx, m.service, "ok")
    /\ busy' = Idle
    /\ commands' = rest
    /\ UNCHANGED <<task, handle, initPayload, rx, inbox, link>>

\* Mutant: only the first service of an id is counted.
RegisterCountsNewIds(m, ks, rest) ==
    Enter(m, ks, IF subscribes[m.id] = NoSub THEN count[m.service] + 1
                                             ELSE count[m.service], rest)

\* The part of handle_command_subscribe after the connection is there: the
\* assert! panics when the id is subscribed to the service already.
Register(m, ks, rest) ==
    IF m.service \in subscribes[m.id].services
    THEN Terminate("panicked")
    ELSE Enter(m, ks, count[m.service] + 1, rest)

Ready == task = "running" /\ busy = Idle

\* A Subscribe to a service that is connected.
CommandJoin ==
    /\ Ready
    /\ commands # <<>>
    /\ LET m == Head(commands)
       IN  /\ m.op = "Subscribe"
           /\ m.service \in upstream
           /\ Register(m, upstream, Tail(commands))

\* Mutant: the caller is told Ok before the connection is made.
CommandConnectRepliesFirst ==
    /\ Ready
    /\ commands # <<>>
    /\ Head(commands).op = "Subscribe"
    /\ Head(commands).service \notin upstream
    /\ busy' = [phase |-> "dial", cmd |-> Head(commands)]
    /\ reply' = Answered(reply, Head(commands).tx, Head(commands).service, "ok")
    /\ commands' = Tail(commands)
    /\ UNCHANGED <<task, handle, initPayload, tableVars, rx, inbox, wireVars>>

\* A Subscribe to a service that is not: the task awaits ensure_upstream.
CommandConnect ==
    /\ Ready
    /\ commands # <<>>
    /\ Head(commands).op = "Subscribe"
    /\ Head(commands).service \notin upstream
    /\ busy' = [phase |-> "dial", cmd |-> Head(commands)]
    /\ commands' = Tail(commands)
    /\ UNCHANGED <<task, handle, initPayload, tableVars, callerVars, wireVars>>

CommandStop ==
    /\ Ready
    /\ commands # <<>>
    /\ Head(commands).op = "Stop"
    /\ commands' = Tail(commands)
    /\ FinishSubscribe(Head(commands).id, link)
    /\ UNCHANGED <<taskVars, callerVars>>

\* Mutant: the end of the commands is noticed only when no connection is open.
CommandsClosedWhenUnused ==
    /\ Ready
    /\ commands = <<>>
    /\ ~handle
    /\ upstream = {}
    /\ Terminate("ended")

\* recv() returns None: no handle is left and the queue is drained.
CommandsClosed ==
    /\ Ready
    /\ commands = <<>>
    /\ ~handle
    /\ Terminate("ended")

\* The connection is open: the init message is sent with the payload, which
\* is taken whatever comes of the handshake.
SendInit ==
    /\ task = "running"
    /\ busy.phase = "dial"
    /\ busy' = [busy EXCEPT !.phase = "ack"]
    /\ initPayload' = FALSE
    /\ UNCHANGED <<task, handle, commands, tableVars, callerVars, wireVars>>

ConnectionAck ==
    /\ task = "running"
    /\ busy.phase = "ack"
    /\ Register(busy.cmd, upstream \cup {busy.cmd.service}, commands)

\* Mutant: a failed connection is not reported to the caller.
ConnectFailedSilently(phase) ==
    /\ task = "running"
    /\ busy.phase = phase
    /\ busy' = Idle
    /\ UNCHANGED <<task, handle, initPayload, commands, tableVars, callerVars, wireVars>>

\* ensure_upstream returns an error: unknown service, a middleware error, a
\* refused connection, an unknown protocol, and after the init message also a
\* connection error, a closed connection or the timeout.
ConnectFailed(phase) ==
    /\ task = "running"
    /\ busy.phase = phase
    /\ busy' = Idle
    /\ reply' = Answered(reply, busy.cmd.tx, busy.cmd.service, "err")
    /\ UNCHANGED <<task, handle, initPayload, commands, tableVars, rx, inbox, wireVars>>

Popped(s) == [link EXCEPT ![s] = Tail(@)]

\* Mutant: the payload goes to some subscriber of the service.
EventDataByService(s) ==
    /\ Ready
    /\ link[s] # <<>>
    /\ Head(link[s]).kind = "Data"
    /\ \E i \in Ids :
          /\ s \in subscribes[i].services
          /\ subscribes[i].tx \in rx
          /\ inbox' = [inbox EXCEPT ![subscribes[i].tx] = Append(@, Head(link[s]).src)]
    /\ link' = Popped(s)
    /\ UNCHANGED <<taskVars, commands, reply, rx, tableVars, remote>>

\* Data or Next: the id alone decides who gets the payload.
EventData(s) ==
    /\ Ready
    /\ link[s] # <<>>
    /\ LET m == Head(link[s])
           tx == subscribes[m.id].tx
       IN  /\ m.kind = "Data"
           /\ IF tx = NoChan \/ tx \in rx
              THEN /\ inbox' = [c \in Chans |->
                          IF c = tx THEN Append(inbox[c], m.src) ELSE inbox[c]]
                   /\ link' = Popped(s)
                   /\ UNCHANGED <<tableVars, remote>>
              ELSE FinishSubscribe(m.id, Popped(s)) /\ UNCHANGED inbox
    /\ UNCHANGED <<taskVars, commands, reply, rx>>

EventComplete(s) ==
    /\ Ready
    /\ link[s] # <<>>
    /\ Head(link[s]).kind = "Complete"
    /\ FinishSubscribe(Head(link[s]).id, Popped(s))
    /\ UNCHANGED <<taskVars, commands, callerVars>>

\* A text that is no ServerMessage, a stream error, or the end of the stream.
EventFault(s) ==
    /\ Ready
    /\ link[s] # <<>>
    /\ Head(link[s]) = Fault
    /\ Terminate("ended")

-----------------------------------------------------------------------------
(* The upstream servers.  None is told when a subscription of a shared      *)
(* connection is finished: it goes on until it completes it itself.        *)

InboxesHaveRoom == \A c \in Chans : Len(inbox[c]) < MaxInFlight

UpstreamData(s, p) ==
    /\ p \in remote[s]
    /\ Len(link[s]) < MaxInFlight
    /\ InboxesHaveRoom
    /\ link' = [link EXCEPT ![s] =
                   Append(@, [kind |-> "Data", id |-> p[1], src |-> p[2]])]
    /\ UNCHANGED <<taskVars, commands, tableVars, callerVars, remote>>

UpstreamComplete(s, p) ==
    /\ p \in remote[s]
    /\ Len(link[s]) < MaxInFlight
    /\ link' = [link EXCEPT ![s] =
                   Append(@, [kind |-> "Complete", id |-> p[1], src |-> p[2]])]
    /\ remote' = [remote EXCEPT ![s] = @ \ {p}]
    /\ UNCHANGED <<taskVars, commands, tableVars, callerVars>>

\* The server closes or breaks the connection, or sends a message that
\* ServerMessage does not know; nothing after it is read.
UpstreamFault(s) ==
    /\ s \in upstream
    /\ Len(link[s]) < MaxInFlight
    /\ Fault \notin {link[s][k] : k \in DOMAIN link[s]}
    /\ link' = [link EXCEPT ![s] = Append(@, Fault)]
    /\ remote' = [remote EXCEPT ![s] = {}]
    /\ UNCHANGED <<taskVars, commands, tableVars, callerVars>>

-----------------------------------------------------------------------------
\* The orders in which one call names its services, each of them once.
Orders == SetToAllKPermutations(Services) \ {<<>>}

Callers ==
    \/ \E c \in Chans, i \in Ids, order \in Orders : Subscribe(c, i, order)
    \/ \E i \in Ids : Stop(i)
    \/ \E c \in Chans : Receive(c)
    \/ \E c \in Chans : DropReceiver(c)
    \/ DropHandle

TakeCommand == CommandJoin \/ CommandConnect \/ CommandStop \/ CommandsClosed

Handshake ==
    \/ SendInit
    \/ ConnectionAck
    \/ ConnectFailed("dial")
    \/ ConnectFailed("ack")

Event == \E s \in Services : EventData(s) \/ EventComplete(s) \/ EventFault(s)

Upstreams ==
    \E s \in Services :
        \/ \E p \in Ids \X Chans : UpstreamData(s, p)
        \/ \E p \in Ids \X Chans : UpstreamComplete(s, p)
        \/ UpstreamFault(s)

Next == Callers \/ TakeCommand \/ Handshake \/ Event \/ Upstreams

Spec == Init /\ [][Next]_vars

\* select! picks at random among its two ready branches, the commands and the
\* stream of all connections, so neither starves.  Which connection the second
\* serves is up to GroupedStream, which polls in one order and returns the
\* first that is ready: no single connection is bound to get its turn.  The
\* handshake is bounded by CONNECT_TIMEOUT_SECONDS, the dial by nothing.
Fairness ==
    /\ WF_vars(TakeCommand)
    /\ WF_vars(ConnectionAck \/ ConnectFailed("ack"))
    /\ WF_vars(Event)

FairSpec == Spec /\ Fairness

-----------------------------------------------------------------------------
Users(s) == {i \in Ids : s \in subscribes[i].services}

\* subscribe_count of a connected service is the number of ids subscribed to
\* it: `subscribe_count -= 1` never underflows and reaches 0 with the last id.
CountsMatch == \A s \in Services : count[s] = Cardinality(Users(s))

\* A connection is open exactly while some id uses it, and it has a stream
\* and an entry in upstream_info: none leaks, none is closed under a user.
OpenIffUsed ==
    /\ upstream = info
    /\ upstream = {s \in Services : Users(s) # {}}

\* A caller that waits for a reply has its command in the queue or in the
\* handshake: no command is lost on the way, not even when the task dies.
NoLostReply ==
    \A c \in Chans, s \in Services :
        reply[c][s] = "pending" =>
            task = "running" /\ \E m \in QueuedFor(c) : m.service = s

\* What the task takes up in this step is about the id i.
About(i) ==
    \/ commands # <<>> /\ Head(commands) = [op |-> "Stop", id |-> i]
    \/ \E s \in Services : link[s] # <<>> /\ link'[s] # link[s]
                             /\ Head(link[s]) # Fault /\ Head(link[s]).id = i

\* Finishing one subscription never ends another: unless the whole task is
\* over, an id leaves the table on its own Stop or on a message for it.
NoCollateral ==
    [][\A i \in Ids : subscribes[i] # NoSub /\ subscribes'[i] = NoSub
                         => task' # "running" \/ About(i)]_vars

\* The task does what the Multiplexer promises.
Mux == INSTANCE Multiplexer WITH
           alive <- task = "running",
           subs  <- {p \in Ids \X Services : p[2] \in subscribes[p[1]].services},
           conns <- upstream
ImplementsMultiplexer == Mux!Spec

\* With ids that are not shared, a response reaches the channel whose own
\* Subscribe made the upstream send it.
NoCrossTalk ==
    \A c \in Chans : \A k \in DOMAIN inbox[c] : inbox[c][k] = c

\* With ids that are not shared, a caller that is told Ok has its own tx in
\* the table at that moment, so that its responses can reach it.
OkIsRegistered ==
    [][\A c \in Chans : (\E s \in Services : reply[c][s] = "pending" /\ reply'[c][s] = "ok")
            => \E i \in Ids : subscribes'[i].tx = c]_vars

\* Every dial ends; nothing in ensure_upstream bounds one.
DialsEnd == []<>(busy.phase # "dial")

\* When dials end, every caller gets a reply, from the task or from its death.
CallsAnswered ==
    DialsEnd => \A c \in Chans, s \in Services :
                    reply[c][s] = "pending" ~> reply[c][s] # "pending"

\* When dials end and the client session is gone, the task ends and its
\* connections with it.
SessionEnds == DialsEnd => (~handle ~> task # "running")

=============================================================================

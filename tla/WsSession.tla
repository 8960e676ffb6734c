----------------------------- MODULE WsSession ------------------------------
(***************************************************************************)
(* One client's WebSocket session: the Subscription actor                  *)
(* (handler/websocket/subscription.rs), the response stream of each of its *)
(* operations (Executor::execute_stream in handler/executor.rs), the       *)
(* fetcher those streams use (WebSocketFetcher in handler/fetcher.rs), and *)
(* the controller task they share (WsController).                          *)
(*                                                                         *)
(* An operation o is the id of a Start message; the client gives each      *)
(* Start an id of its own.  Its subscription uses the id o and the channel *)
(* <<o, 0>>.  Its n-th fetch uses the channel <<o, n>> and the id n, which *)
(* is what the code's "__req{n}" is: a counter of the operation's fetcher. *)
(*                                                                         *)
(* The actor, its streams and the tasks it spawns run on one thread.  The  *)
(* first poll of a stream follows in the same turn as the Start that added *)
(* it, so handling a Start and its burst of commands are one step.         *)
(***************************************************************************)
EXTENDS Integers, FiniteSets, SequencesExt

CONSTANTS Services,
          Ops,          \* the operations that the client may start
          Plans,        \* what the planner may make of them
          MaxReq,       \* bound: fetches of one operation
          NoChan,
          MaxCommands,  \* bound: commands and Stops waiting when the client sends
          MaxInFlight   \* bound: upstream messages not yet received

\* A "subscribe" subscribes to root and on each response fetches from then; a
\* "query" fetches from root; of a "bad" one the planner makes an error.  most
\* is a bound: how often the operation fetches.
ASSUME PlansAssumption ==
    Plans \subseteq [Ops -> [kind : {"subscribe", "query", "bad"}, root : SUBSET Services,
                             then : SUBSET Services, most : 0..MaxReq]]
ASSUME MaxReqAssumption == MaxReq \in Nat
ASSUME ServicesAssumption == IsFiniteSet(Services)
ASSUME BoundsAssumption == MaxCommands \in Nat /\ MaxInFlight \in Nat

\* The client names no operation like a fetch, "__req<n>".
ASSUME OpsAssumption == IsFiniteSet(Ops) /\ Ops \cap 1..MaxReq = {}

Chans == Ops \X (0..MaxReq)
Ids == Ops \cup 1..MaxReq

ASSUME NoChanAssumption == NoChan \notin Chans

VARIABLES task, handle, commands, busy, initPayload, upstream, info, count,
          subscribes, reply, rx, inbox, link, remote,
    plan,      \* what the planner makes of each operation
    open,      \* the actor is running
    created,   \* its controller: Option<WebSocketController> is Some
    pc,        \* where the response stream of each operation is
    fetches,   \* the fetches that its executor is awaiting
    lastReq,   \* the counter of its fetcher
    stops      \* operations for which a spawned task has yet to send a Stop

Ctl == INSTANCE WsController WITH SharedIds <- TRUE

ctlVars == <<task, handle, commands, busy, initPayload, upstream, info, count,
             subscribes, reply, rx, inbox, link, remote>>
actorVars == <<plan, open, created, stops>>
opVars == <<pc, fetches, lastReq>>
vars == <<ctlVars, actorVars, opVars>>

\* What a step of the actor or of a stream leaves alone: the task's state.
taskVars == <<task, busy, upstream, info, count, subscribes, link, remote>>

\* The controller task is there from the start, but nothing reaches it before
\* the actor creates it.  The client's ConnectionInit has a payload.
Init ==
    /\ Ctl!Init
    /\ initPayload
    /\ plan \in Plans
    /\ open = TRUE
    /\ created = FALSE
    /\ pc = [o \in Ops |-> "idle"]
    /\ fetches = [o \in Ops |-> {}]
    /\ lastReq = [o \in Ops |-> 0]
    /\ stops = {}

-----------------------------------------------------------------------------
(* Calls on the controller's handle.                                       *)

\* Mutant: every call of the session uses the same id.
CallWithOneId(o, n, s) == [op |-> "Subscribe", service |-> s,
                           id |-> CHOOSE p \in Ops : TRUE, tx |-> <<o, n>>]

\* Mutant: the counter of the fetcher stands still.
CallUncounted(o, n, s) == [op |-> "Subscribe", service |-> s,
                           id |-> IF n = 0 THEN o ELSE 1, tx |-> <<o, n>>]

Call(o, n, s) == [op |-> "Subscribe", service |-> s,
                  id |-> IF n = 0 THEN o ELSE n, tx |-> <<o, n>>]

StopOf(o) == [op |-> "Stop", id |-> o]

\* tx_command.send of all of ms: lost when the task is gone.
Send(ms) ==
    commands' = IF task = "running" THEN commands \o ms ELSE commands

\* A bound of the model: the client waits when its commands pile up.
Calm == Len(commands) + Cardinality(stops) < MaxCommands

\* The channels of the calls ms are opened and await their replies, after the
\* receivers in gone are dropped.
Await(ms, gone) ==
    LET asks(c, s) == \E m \in ToSet(ms) : m.tx = c /\ m.service = s
        live == (rx \ gone) \cup {m.tx : m \in ToSet(ms)}
    IN  /\ rx' = live
        /\ reply' = [c \in Chans |-> [s \in Services |->
                        IF asks(c, s) THEN "pending"
                        ELSE IF c \in live THEN reply[c][s] ELSE "none"]]

\* The inbox of c loses its oldest response.
Taken(c) == [inbox EXCEPT ![c] = Tail(@)]

\* The executor of o fetches from the services S at once; rest are the inboxes
\* left.  The fetches of a dead controller have failed when they return.
Execute(o, S, rest) ==
    \E order \in SetToSeqs(S) :
        LET n0 == lastReq[o]
            ms == [k \in DOMAIN order |-> Call(o, n0 + k, order[k])]
        IN  /\ n0 + Len(ms) <= plan[o].most
            /\ pc' = [pc EXCEPT ![o] = "executing"]
            /\ lastReq' = [lastReq EXCEPT ![o] = n0 + Len(ms)]
            /\ Send(ms)
            /\ inbox' = rest
            /\ IF task = "running"
               THEN /\ fetches' = [fetches EXCEPT ![o] = n0 + 1 .. n0 + Len(ms)]
                    /\ Await(ms, {})
               ELSE UNCHANGED <<fetches, rx, reply>>

-----------------------------------------------------------------------------
(* The actor.                                                              *)

\* The first ConnectionInit creates the controller and is acknowledged.
ConnectionInit ==
    /\ open
    /\ ~created
    /\ created' = TRUE
    /\ UNCHANGED <<ctlVars, plan, open, stops, opVars>>

\* get_or_insert_with: a controller made by a Start or a Stop has no payload.
Controller == /\ created' = TRUE
              /\ initPayload' = (initPayload /\ created)

\* Subscribe commands to all the root services, in any order, under one id.
StartSubscription(o) ==
    /\ plan[o].kind = "subscribe"
    /\ \E order \in SetToSeqs(plan[o].root) :
          LET ms == [k \in DOMAIN order |-> Call(o, 0, order[k])]
          IN  /\ Send(ms)
              /\ IF task = "running"
                 THEN Await(ms, {}) /\ pc' = [pc EXCEPT ![o] = "calling"]
                 ELSE UNCHANGED <<rx, reply>> /\ pc' = [pc EXCEPT ![o] = "answer"]
    /\ UNCHANGED <<inbox, fetches, lastReq>>

StartQuery(o) ==
    /\ plan[o].kind = "query"
    /\ Execute(o, plan[o].root, inbox)

\* The planner's error is the one response.
StartRefused(o) ==
    /\ plan[o].kind = "bad"
    /\ pc' = [pc EXCEPT ![o] = "answer"]
    /\ UNCHANGED <<commands, rx, reply, inbox, fetches, lastReq>>

Start(o) ==
    /\ open
    /\ Calm
    /\ pc[o] = "idle"
    /\ Controller
    /\ StartSubscription(o) \/ StartQuery(o) \/ StartRefused(o)
    /\ UNCHANGED <<taskVars, handle, plan, open, stops>>

\* A client's Stop is sent to the controller by a task of its own.
ClientStop(o) ==
    /\ open
    /\ Calm
    /\ pc[o] # "idle"
    /\ Controller
    /\ stops' = stops \cup {o}
    /\ UNCHANGED <<taskVars, handle, commands, reply, rx, inbox, plan, open, opVars>>

\* Mutant: the Stop of an operation that is still subscribing is not sent.
SendStopLost(o) ==
    /\ o \in stops
    /\ IF pc[o] = "calling" THEN UNCHANGED commands ELSE Send(<<StopOf(o)>>)
    /\ stops' = stops \ {o}
    /\ handle' = (open \/ stops' # {})
    /\ UNCHANGED <<taskVars, initPayload, reply, rx, inbox, plan, open, created, opVars>>

SendStop(o) ==
    /\ o \in stops
    /\ Send(<<StopOf(o)>>)
    /\ stops' = stops \ {o}
    /\ handle' = (open \/ stops' # {})
    /\ UNCHANGED <<taskVars, initPayload, reply, rx, inbox, plan, open, created, opVars>>

\* The client closes or breaks the connection, sends a second ConnectionInit
\* or a query that does not parse: the actor stops, its streams are dropped.
Close ==
    /\ open
    /\ open' = FALSE
    /\ handle' = (stops # {})
    /\ pc' = [o \in Ops |-> IF pc[o] \in {"idle", "done"} THEN pc[o] ELSE "dropped"]
    /\ fetches' = [o \in Ops |-> {}]
    /\ rx' = {}
    /\ inbox' = [c \in Chans |-> <<>>]
    /\ reply' = [c \in Chans |-> [s \in Services |-> "none"]]
    /\ UNCHANGED <<taskVars, commands, initPayload, plan, created, stops, lastReq>>

-----------------------------------------------------------------------------
(* The response stream of an operation.                                    *)

Main(o) == <<o, 0>>

Replies(c) == {reply[c][s] : s \in Services} \ {"none"}

\* rx.recv() gives None.
Ended(c) == inbox[c] = <<>> /\ ~Ctl!HasSender(c)

\* try_join_all has an Ok from every service.
Subscribed(o) ==
    /\ pc[o] = "calling"
    /\ Replies(Main(o)) = {"ok"}
    /\ pc' = [pc EXCEPT ![o] = "streaming"]
    /\ UNCHANGED <<ctlVars, actorVars, fetches, lastReq>>

\* Mutant: the services that did accept are not told to stop.
SubscribeFailedSilently(o) ==
    /\ pc[o] = "calling"
    /\ Replies(Main(o)) \cap {"err", "dropped"} # {}
    /\ pc' = [pc EXCEPT ![o] = "answer"]
    /\ Await(<<>>, {Main(o)})
    /\ inbox' = [inbox EXCEPT ![Main(o)] = <<>>]
    /\ UNCHANGED <<taskVars, handle, initPayload, commands, actorVars, fetches, lastReq>>

\* try_join_all has an Err: the receiver is dropped, the services that did
\* accept, or will, are told to stop, and the error is the one response.
SubscribeFailed(o) ==
    /\ pc[o] = "calling"
    /\ Replies(Main(o)) \cap {"err", "dropped"} # {}
    /\ pc' = [pc EXCEPT ![o] = "answer"]
    /\ Send(<<StopOf(o)>>)
    /\ Await(<<>>, {Main(o)})
    /\ inbox' = [inbox EXCEPT ![Main(o)] = <<>>]
    /\ UNCHANGED <<taskVars, handle, initPayload, actorVars, fetches, lastReq>>

\* A response is passed on, after the fetches that complete it.
Push(o) ==
    /\ pc[o] = "streaming"
    /\ inbox[Main(o)] # <<>>
    /\ IF plan[o].then = {}
       THEN /\ inbox' = Taken(Main(o))
            /\ UNCHANGED <<opVars, commands, reply, rx>>
       ELSE Execute(o, plan[o].then, Taken(Main(o)))
    /\ UNCHANGED <<taskVars, handle, initPayload, actorVars>>

StreamEnded(o) ==
    /\ pc[o] = "streaming"
    /\ Ended(Main(o))
    /\ pc' = [pc EXCEPT ![o] = "last"]
    /\ Await(<<>>, {Main(o)})
    /\ UNCHANGED <<taskVars, handle, initPayload, commands, inbox, actorVars,
                   fetches, lastReq>>

\* Mutant: a fetch whose channel closes without a response is waited for.
FetchAnswered(o, n) ==
    /\ n \in fetches[o]
    /\ \/ Replies(<<o, n>>) \cap {"err", "dropped"} # {}
       \/ Replies(<<o, n>>) = {"ok"} /\ inbox[<<o, n>>] # <<>>
    /\ fetches' = [fetches EXCEPT ![o] = @ \ {n}]
    /\ Await(<<>>, {<<o, n>>})
    /\ inbox' = [inbox EXCEPT ![<<o, n>>] = <<>>]
    /\ UNCHANGED <<taskVars, handle, initPayload, commands, actorVars, pc, lastReq>>

\* WebSocketFetcher::query returns, with a response or an error.
FetchEnds(o, n) ==
    /\ n \in fetches[o]
    /\ \/ Replies(<<o, n>>) \cap {"err", "dropped"} # {}
       \/ Replies(<<o, n>>) = {"ok"} /\ (inbox[<<o, n>>] # <<>> \/ Ended(<<o, n>>))
    /\ fetches' = [fetches EXCEPT ![o] = @ \ {n}]
    /\ Await(<<>>, {<<o, n>>})
    /\ inbox' = [inbox EXCEPT ![<<o, n>>] = <<>>]
    /\ UNCHANGED <<taskVars, handle, initPayload, commands, actorVars, pc, lastReq>>

\* The plan is executed and the response passed on.
Executed(o) ==
    /\ pc[o] = "executing"
    /\ fetches[o] = {}
    /\ pc' = [pc EXCEPT ![o] = IF plan[o].kind = "query" THEN "last" ELSE "streaming"]
    /\ UNCHANGED <<ctlVars, actorVars, fetches, lastReq>>

\* The one response of an operation that failed, and then its Complete.
Finish(o) ==
    /\ pc[o] \in {"answer", "last"}
    /\ pc' = [pc EXCEPT ![o] = IF @ = "answer" THEN "last" ELSE "done"]
    /\ UNCHANGED <<ctlVars, actorVars, fetches, lastReq>>

Stream(o) ==
    \/ Subscribed(o)
    \/ SubscribeFailed(o)
    \/ Push(o)
    \/ StreamEnded(o)
    \/ \E n \in 1..MaxReq : FetchEnds(o, n)
    \/ Executed(o)
    \/ Finish(o)

-----------------------------------------------------------------------------
(* The upstream of an operation that fetches on each response sends no more *)
(* responses than most lets it fetch for (a bound of the model).           *)
Coming(o) ==
    lastReq[o] + Len(inbox[Main(o)])
        + Cardinality({x \in Services \X (1..MaxInFlight) :
              /\ x[2] <= Len(link[x[1]])
              /\ link[x[1]][x[2]].kind = "Data"
              /\ link[x[1]][x[2]].src = Main(o)})

MaySend(c) == c[2] # 0 \/ plan[c[1]].then = {} \/ Coming(c[1]) < plan[c[1]].most

Upstreams ==
    \E s \in Services :
        \/ \E p \in Ids \X Chans : MaySend(p[2]) /\ Ctl!UpstreamData(s, p)
        \/ \E p \in Ids \X Chans : Ctl!UpstreamComplete(s, p)
        \/ Ctl!UpstreamFault(s)

Actor ==
    \/ ConnectionInit
    \/ Close
    \/ \E o \in Ops : Start(o) \/ ClientStop(o) \/ SendStop(o)

Task == Ctl!TakeCommand \/ Ctl!Handshake \/ Ctl!Event

Next ==
    \/ Actor
    \/ \E o \in Ops : Stream(o)
    \/ (Task \/ Upstreams) /\ UNCHANGED <<actorVars, opVars>>

Spec == Init /\ [][Next]_vars

\* The runtime polls every stream and task that can move.
Fairness ==
    /\ Ctl!Fairness
    /\ \A o \in Ops : WF_vars(Stream(o)) /\ WF_vars(SendStop(o))

FairSpec == Spec /\ Fairness

-----------------------------------------------------------------------------
\* The assertion of handle_command_subscribe holds: no id is subscribed twice
\* to a service, although the client gives each operation an id of its own.
NoPanic == task # "panicked"

\* An operation that is over, or is about to be, leaves no subscription
\* behind: its id is out of the controller's table or its Stop is queued.
NoOrphan ==
    \A o \in Ops :
        open /\ pc[o] \in {"answer", "last", "done"}
            => subscribes[o] = Ctl!NoSub \/ StopOf(o) \in ToSet(commands)

\* A subscription in the table feeds the operation whose id it has, and what
\* that operation receives was sent for it, though fetches share their ids.
OwnChannel ==
    \A o \in Ops :
        /\ subscribes[o] # Ctl!NoSub => subscribes[o].tx = Main(o)
        /\ \A k \in DOMAIN inbox[Main(o)] : inbox[Main(o)][k] = Main(o)

\* What a fetch is answered with was sent for that very fetch, although the
\* controller goes by the id alone and each operation numbers its own fetches.
OwnResponse ==
    \A o \in Ops, n \in 1..MaxReq :
        \A k \in DOMAIN inbox[<<o, n>>] : inbox[<<o, n>>][k] = <<o, n>>

Over(o) == pc[o] \in {"done", "dropped"}

\* When dials end, a client's Stop ends a subscription that does not fetch.
StopEnds ==
    Ctl!DialsEnd =>
        \A o \in Ops :
            o \in stops /\ plan[o].kind = "subscribe" /\ plan[o].then = {} ~> Over(o)

\* When the controller task is gone, by a fault of any upstream, a panic or
\* the end of the session, every operation that was started is answered and
\* completed: none hangs on a channel that nobody will write to.
DeathCompletes ==
    \A o \in Ops : task # "running" /\ pc[o] # "idle" ~> Over(o)

=============================================================================

--------------------------- MODULE WsSessionProofs ---------------------------
(* A session uses the controller as its proofs assume: whatever a session's *)
(* operations send, the invariants of the controller hold in it.  CtlP      *)
(* brings the lemmas of WsControllerProofs and WsControllerOwnIds; its      *)
(* definitions are those of Ctl under another name (SameState, SameSteps).  *)
EXTENDS WsSession, FiniteSetTheorems, TLAPS

CtlP == INSTANCE WsControllerOwnIds WITH SharedIds <- TRUE

LEMMA SameState ==
  /\ Ctl!Idle = CtlP!Idle /\ Ctl!NoSub = CtlP!NoSub /\ Ctl!Fault = CtlP!Fault
  /\ Ctl!Queued = CtlP!Queued
  /\ Ctl!Init <=> CtlP!Init
BY DEF Ctl!Idle, CtlP!Idle, Ctl!NoSub, CtlP!NoSub, Ctl!Fault, CtlP!Fault, Ctl!Queued,
       CtlP!Queued, Ctl!Init, CtlP!Init

LEMMA SameSteps ==
  /\ Ctl!TakeCommand <=> CtlP!TakeCommand
  /\ Ctl!Handshake <=> CtlP!Handshake
  /\ Ctl!Event <=> CtlP!Event
  /\ Upstreams => CtlP!Upstreams
<1> USE DEF Ctl!Queued, CtlP!Queued, Ctl!Answered, CtlP!Answered, Ctl!Terminate,
        CtlP!Terminate, Ctl!Finish, CtlP!Finish, Ctl!LastUse, CtlP!LastUse,
        Ctl!FinishSubscribe, CtlP!FinishSubscribe, Ctl!Enter, CtlP!Enter, Ctl!Register,
        CtlP!Register, Ctl!Ready, CtlP!Ready, Ctl!CommandJoin, CtlP!CommandJoin,
        Ctl!CommandConnect, CtlP!CommandConnect, Ctl!CommandStop, CtlP!CommandStop,
        Ctl!CommandsClosed, CtlP!CommandsClosed, Ctl!SendInit, CtlP!SendInit,
        Ctl!ConnectionAck, CtlP!ConnectionAck, Ctl!ConnectFailed, CtlP!ConnectFailed,
        Ctl!Popped, CtlP!Popped, Ctl!EventData, CtlP!EventData, Ctl!EventComplete,
        CtlP!EventComplete, Ctl!EventFault, CtlP!EventFault, Ctl!InboxesHaveRoom,
        CtlP!InboxesHaveRoom, Ctl!UpstreamData, CtlP!UpstreamData, Ctl!UpstreamComplete,
        CtlP!UpstreamComplete, Ctl!UpstreamFault, CtlP!UpstreamFault, Ctl!TakeCommand,
        CtlP!TakeCommand, Ctl!Handshake, CtlP!Handshake, Ctl!Event, CtlP!Event,
        Ctl!Idle, CtlP!Idle, Ctl!NoSub, CtlP!NoSub, Ctl!Fault, CtlP!Fault, Ctl!taskVars,
        CtlP!taskVars, Ctl!tableVars, CtlP!tableVars, Ctl!callerVars, CtlP!callerVars,
        Ctl!wireVars, CtlP!wireVars
<1>1. Ctl!TakeCommand <=> CtlP!TakeCommand
  OBVIOUS
<1>2. Ctl!Handshake <=> CtlP!Handshake
  OBVIOUS
<1>3. Ctl!Event <=> CtlP!Event
  OBVIOUS
<1>4. Upstreams => CtlP!Upstreams
  BY DEF Upstreams, CtlP!Upstreams
<1> QED
  BY <1>1, <1>2, <1>3, <1>4

\* The constants of the session meet the assumptions of the controller.
LEMMA Assumptions ==
  /\ CtlP!ServicesAssumption /\ CtlP!IdsAssumption /\ CtlP!ChansAssumption
  /\ CtlP!SharedAssumption /\ CtlP!BoundsAssumption
<1>1. IsFiniteSet(1..MaxReq) /\ IsFiniteSet(0..MaxReq)
  BY MaxReqAssumption, FS_Interval
<1>2. IsFiniteSet(Ids)
  BY <1>1, OpsAssumption, FS_Union DEF Ids
<1>3. IsFiniteSet(Chans)
  BY <1>1, OpsAssumption, FS_Product DEF Chans
<1> QED
  BY <1>2, <1>3, ServicesAssumption, BoundsAssumption, NoChanAssumption
     DEF IsFiniteSet, CtlP!IsFiniteSet

-----------------------------------------------------------------------------
(* Types.                                                                   *)

States == {"idle", "calling", "streaming", "executing", "answer", "last", "done", "dropped"}

SessionOK ==
    /\ plan \in Plans
    /\ open \in BOOLEAN
    /\ created \in BOOLEAN
    /\ pc \in [Ops -> States]
    /\ fetches \in [Ops -> SUBSET (1..MaxReq)]
    /\ lastReq \in [Ops -> 0..MaxReq]
    /\ stops \in SUBSET Ops

\* The state of the controller and of the callers is well-formed, the counts
\* are exact, a connection is open exactly while it is used.
SessionInv == SessionOK /\ CtlP!RestOK /\ CtlP!TablesInv

LEMMA PlanType ==
  ASSUME SessionOK, NEW o \in Ops
  PROVE  /\ plan[o].root \in SUBSET Services /\ plan[o].then \in SUBSET Services
         /\ plan[o].most \in 0..MaxReq
BY PlansAssumption DEF SessionOK

LEMMA ChansType == \A o \in Ops, n \in 0..MaxReq : <<o, n>> \in Chans
BY DEF Chans

LEMMA CallType ==
  ASSUME NEW o \in Ops, NEW n \in 0..MaxReq, NEW s \in Services
  PROVE  /\ Call(o, n, s) \in CtlP!Command
         /\ Call(o, n, s).op = "Subscribe" /\ Call(o, n, s).service = s
         /\ Call(o, n, s).tx = <<o, n>> /\ Call(o, n, s).tx \in Chans
         /\ Call(o, n, s).id = IF n = 0 THEN o ELSE n
<1>1. (IF n = 0 THEN o ELSE n) \in Ids
  BY MaxReqAssumption DEF Ids
<1> QED
  BY <1>1, ChansType DEF Call, CtlP!Command, CtlP!SubscribeCommand

\* The services of an operation in some order, none twice.
LEMMA OrderType ==
  ASSUME NEW S \in SUBSET Services, NEW order \in SetToSeqs(S)
  PROVE  \E n \in Nat : /\ order \in [1..n -> S] /\ DOMAIN order = 1..n
                        /\ \A j, k \in 1..n : j # k => order[j] # order[k]
<1>1. Cardinality(S) \in Nat
  BY ServicesAssumption, FS_Subset, FS_CardinalityType
<1> QED
  BY <1>1 DEF SetToSeqs

\* The calls that an operation makes at once: for its subscription, and for
\* its fetches after n0 others.
RootCalls(o, order) == [k \in DOMAIN order |-> Call(o, 0, order[k])]
FetchCalls(o, n0, order) == [k \in DOMAIN order |-> Call(o, n0 + k, order[k])]

LEMMA RootBurst ==
  ASSUME NEW o \in Ops, NEW S \in SUBSET Services, NEW order \in SetToSeqs(S)
  PROVE  \E n \in Nat : /\ order \in [1..n -> S]
                        /\ \A j, k \in 1..n : j # k => order[j] # order[k]
                        /\ RootCalls(o, order) \in Seq(CtlP!Command)
                        /\ Len(RootCalls(o, order)) = n /\ DOMAIN RootCalls(o, order) = 1..n
                        /\ \A k \in 1..n : RootCalls(o, order)[k] = Call(o, 0, order[k])
<1>1. PICK n \in Nat : /\ order \in [1..n -> S] /\ DOMAIN order = 1..n
                       /\ \A j, k \in 1..n : j # k => order[j] # order[k]
  BY OrderType
<1>2. RootCalls(o, order) = [k \in 1..n |-> Call(o, 0, order[k])]
  BY <1>1 DEF RootCalls
<1>3. \A k \in 1..n : Call(o, 0, order[k]) \in CtlP!Command
  BY <1>1, CallType, MaxReqAssumption
<1>4. RootCalls(o, order) \in [1..n -> CtlP!Command]
  BY <1>2, <1>3
<1>5. RootCalls(o, order) \in Seq(CtlP!Command) /\ Len(RootCalls(o, order)) = n
  BY <1>4
<1> QED
  BY <1>1, <1>2, <1>5

LEMMA FetchBurst ==
  ASSUME NEW o \in Ops, NEW S \in SUBSET Services, NEW order \in SetToSeqs(S),
         NEW n0 \in Nat, n0 + Len(FetchCalls(o, n0, order)) <= MaxReq
  PROVE  \E n \in Nat : /\ order \in [1..n -> S]
                        /\ \A j, k \in 1..n : j # k => order[j] # order[k]
                        /\ FetchCalls(o, n0, order) \in Seq(CtlP!Command)
                        /\ Len(FetchCalls(o, n0, order)) = n
                        /\ DOMAIN FetchCalls(o, n0, order) = 1..n
                        /\ \A k \in 1..n : FetchCalls(o, n0, order)[k] = Call(o, n0 + k, order[k])
                        /\ \A k \in 1..n : n0 + k \in 1..MaxReq
<1>1. PICK n \in Nat : /\ order \in [1..n -> S] /\ DOMAIN order = 1..n
                       /\ \A j, k \in 1..n : j # k => order[j] # order[k]
  BY OrderType
<1>2. FetchCalls(o, n0, order) = [k \in 1..n |-> Call(o, n0 + k, order[k])]
  BY <1>1 DEF FetchCalls
<1>3. Len(FetchCalls(o, n0, order)) = n
  BY <1>2
<1>4. \A k \in 1..n : n0 + k \in 1..MaxReq
  BY <1>3, MaxReqAssumption
<1>5. ASSUME NEW k \in 1..n PROVE Call(o, n0 + k, order[k]) \in CtlP!Command
  <2>1. n0 + k \in 0..MaxReq /\ order[k] \in Services
    BY <1>1, <1>4, MaxReqAssumption
  <2> QED
    BY <2>1, CallType
<1>6. FetchCalls(o, n0, order) \in [1..n -> CtlP!Command]
  BY <1>2, <1>5
<1>7. FetchCalls(o, n0, order) \in Seq(CtlP!Command)
  BY <1>6
<1>8. \A k \in 1..n : FetchCalls(o, n0, order)[k] = Call(o, n0 + k, order[k])
  BY <1>2
<1>9. DOMAIN FetchCalls(o, n0, order) = 1..n
  BY <1>2
<1> QED
  BY <1>1, <1>3, <1>4, <1>7, <1>8, <1>9

-----------------------------------------------------------------------------
(* What the operations do to the state they share with the controller.      *)

LEMMA StopType ==
  ASSUME NEW o \in Ops
  PROVE  /\ <<StopOf(o)>> \in Seq(CtlP!Command)
         /\ StopOf(o).op = "Stop" /\ StopOf(o).id = o
BY DEF StopOf, CtlP!Command, CtlP!StopCommand, Ids

LEMMA SendType ==
  ASSUME CtlP!RestOK, NEW ms \in Seq(CtlP!Command), Send(ms)
  PROVE  commands' \in Seq(CtlP!Command)
BY DEF Send, CtlP!RestOK

LEMMA AwaitType ==
  ASSUME CtlP!RestOK, NEW ms, \A m \in ToSet(ms) : m.tx \in Chans,
         NEW gone, Await(ms, gone)
  PROVE  /\ rx' \in SUBSET Chans
         /\ reply' \in [Chans -> [Services -> CtlP!Reply]]
BY DEF Await, CtlP!RestOK, CtlP!Reply

LEMMA AwaitNothing ==
  ASSUME CtlP!RestOK, NEW gone, Await(<<>>, gone)
  PROVE  /\ rx' \in SUBSET Chans
         /\ reply' \in [Chans -> [Services -> CtlP!Reply]]
         /\ \A c \in Chans, s \in Services : reply'[c][s] \in {reply[c][s], "none"}
<1>1. ToSet(<<>>) = {}
  BY DEF ToSet
<1>2. \A c \in Chans, s \in Services : reply'[c][s] \in {reply[c][s], "none"}
  BY <1>1 DEF Await, CtlP!RestOK
<1> QED
  BY <1>1, <1>2, AwaitType

LEMMA AwaitBurst ==
  ASSUME CtlP!RestOK, NEW ms, NEW n \in Nat, DOMAIN ms = 1..n,
         \A k \in 1..n : ms[k].tx \in Chans, Await(ms, {})
  PROVE  /\ rx' \in SUBSET Chans
         /\ reply' \in [Chans -> [Services -> CtlP!Reply]]
BY AwaitType DEF ToSet

LEMMA TakenType ==
  ASSUME CtlP!RestOK, NEW c \in Chans, inbox[c] # <<>>
  PROVE  Taken(c) \in [Chans -> Seq(Chans)]
<1>1. inbox[c] \in Seq(Chans)
  BY DEF CtlP!RestOK
<1>2. Tail(inbox[c]) \in Seq(Chans)
  BY <1>1
<1> QED
  BY <1>2 DEF Taken, CtlP!RestOK

LEMMA ClearedInbox ==
  ASSUME CtlP!RestOK, NEW c
  PROVE  [inbox EXCEPT ![c] = <<>>] \in [Chans -> Seq(Chans)]
<1>1. <<>> \in Seq(Chans)
  OBVIOUS
<1>2. inbox \in [Chans -> Seq(Chans)]
  BY DEF CtlP!RestOK
<1> QED
  BY <1>1, <1>2

\* The variables that both the operations and the task change.
CallerOK ==
    /\ commands \in Seq(CtlP!Command)
    /\ rx \in SUBSET Chans
    /\ reply \in [Chans -> [Services -> CtlP!Reply]]
    /\ inbox \in [Chans -> Seq(Chans)]

OpsOK ==
    /\ pc \in [Ops -> States]
    /\ fetches \in [Ops -> SUBSET (1..MaxReq)]
    /\ lastReq \in [Ops -> 0..MaxReq]

\* The executor's step, its calls under their name.
LEMMA ExecuteStep ==
  ASSUME NEW o, NEW S, NEW rest, Execute(o, S, rest)
  PROVE  \E order \in SetToSeqs(S) :
            /\ lastReq[o] + Len(FetchCalls(o, lastReq[o], order)) <= plan[o].most
            /\ pc' = [pc EXCEPT ![o] = "executing"]
            /\ lastReq' = [lastReq EXCEPT ![o] =
                              lastReq[o] + Len(FetchCalls(o, lastReq[o], order))]
            /\ Send(FetchCalls(o, lastReq[o], order))
            /\ inbox' = rest
            /\ IF task = "running"
               THEN /\ fetches' = [fetches EXCEPT ![o] = lastReq[o] + 1 ..
                             lastReq[o] + Len(FetchCalls(o, lastReq[o], order))]
                    /\ Await(FetchCalls(o, lastReq[o], order), {})
               ELSE UNCHANGED <<fetches, rx, reply>>
BY DEF Execute, FetchCalls

LEMMA ExecuteBurst ==
  ASSUME SessionOK, NEW o \in Ops, NEW S \in SUBSET Services, NEW order \in SetToSeqs(S),
         lastReq[o] + Len(FetchCalls(o, lastReq[o], order)) <= plan[o].most
  PROVE  \E n \in Nat : /\ order \in [1..n -> S]
                        /\ \A j, k \in 1..n : j # k => order[j] # order[k]
                        /\ FetchCalls(o, lastReq[o], order) \in Seq(CtlP!Command)
                        /\ Len(FetchCalls(o, lastReq[o], order)) = n
                        /\ DOMAIN FetchCalls(o, lastReq[o], order) = 1..n
                        /\ \A k \in 1..n : FetchCalls(o, lastReq[o], order)[k]
                                              = Call(o, lastReq[o] + k, order[k])
                        /\ \A k \in 1..n : lastReq[o] + k \in 1..MaxReq
<1>1. plan[o].most \in 0..MaxReq /\ lastReq[o] \in Nat
  BY PlanType, MaxReqAssumption DEF SessionOK
<1>2. Len(FetchCalls(o, lastReq[o], order)) \in Nat
  <2>1. PICK j \in Nat : order \in [1..j -> S]
    BY OrderType
  <2> QED
    BY <2>1 DEF FetchCalls
<1>3. lastReq[o] + Len(FetchCalls(o, lastReq[o], order)) <= MaxReq
  BY <1>1, <1>2, MaxReqAssumption
<1> QED
  BY <1>1, <1>3, FetchBurst, Zenon

LEMMA ExecuteType ==
  ASSUME SessionOK, CtlP!RestOK, NEW o \in Ops, NEW S \in SUBSET Services,
         NEW rest \in [Chans -> Seq(Chans)], Execute(o, S, rest)
  PROVE  CallerOK' /\ OpsOK'
<1> DEFINE n0 == lastReq[o]
<1>1. PICK order \in SetToSeqs(S) :
            /\ n0 + Len(FetchCalls(o, n0, order)) <= plan[o].most
            /\ pc' = [pc EXCEPT ![o] = "executing"]
            /\ lastReq' = [lastReq EXCEPT ![o] = n0 + Len(FetchCalls(o, n0, order))]
            /\ Send(FetchCalls(o, n0, order))
            /\ inbox' = rest
            /\ IF task = "running"
               THEN /\ fetches' = [fetches EXCEPT ![o] =
                                      n0 + 1 .. n0 + Len(FetchCalls(o, n0, order))]
                    /\ Await(FetchCalls(o, n0, order), {})
               ELSE UNCHANGED <<fetches, rx, reply>>
  BY ExecuteStep
<1>2. PICK n \in Nat :
            /\ FetchCalls(o, n0, order) \in Seq(CtlP!Command)
            /\ Len(FetchCalls(o, n0, order)) = n
            /\ DOMAIN FetchCalls(o, n0, order) = 1..n
            /\ order \in [1..n -> S]
            /\ \A k \in 1..n : FetchCalls(o, n0, order)[k] = Call(o, n0 + k, order[k])
            /\ \A k \in 1..n : n0 + k \in 1..MaxReq
  BY <1>1, ExecuteBurst
<1>3. \A k \in 1..n : FetchCalls(o, n0, order)[k].tx \in Chans
  BY <1>2, CallType, MaxReqAssumption
<1>4. plan[o].most \in 0..MaxReq /\ n0 \in Nat
  BY PlanType, MaxReqAssumption DEF SessionOK
<1>5. commands' \in Seq(CtlP!Command)
  BY <1>1, <1>2, SendType
<1>6. rx' \in SUBSET Chans /\ reply' \in [Chans -> [Services -> CtlP!Reply]]
  BY <1>1, <1>2, <1>3, AwaitBurst DEF CtlP!RestOK
<1>7. n0 + n \in 0..MaxReq /\ n0 + 1 .. n0 + n \subseteq 1..MaxReq
  BY <1>1, <1>2, <1>4, MaxReqAssumption
<1>8. OpsOK'
  BY <1>1, <1>2, <1>7 DEF OpsOK, SessionOK, States
<1> QED
  BY <1>1, <1>5, <1>6, <1>8 DEF CallerOK

\* Every step of an operation's stream keeps the types and leaves the state of
\* the task alone.
LEMMA StreamType ==
  ASSUME SessionOK, CtlP!RestOK, NEW o \in Ops, Stream(o)
  PROVE  CallerOK' /\ OpsOK' /\ UNCHANGED <<taskVars, handle, initPayload, actorVars>>
<1> USE DEF OpsOK
<1>0. CallerOK /\ OpsOK
  BY DEF CallerOK, SessionOK, CtlP!RestOK
<1>1. CASE Subscribed(o) \/ Executed(o) \/ Finish(o)
  <2>1. OpsOK'
    BY <1>0, <1>1 DEF Subscribed, Executed, Finish, States
  <2> QED
    BY <1>0, <1>1, <2>1 DEF Subscribed, Executed, Finish, CallerOK, ctlVars, taskVars
<1>2. CASE SubscribeFailed(o)
  <2>1. Await(<<>>, {Main(o)}) /\ Send(<<StopOf(o)>>)
    BY <1>2 DEF SubscribeFailed
  <2>2. inbox' \in [Chans -> Seq(Chans)] /\ pc' \in [Ops -> States]
    BY <1>0, <1>2, ClearedInbox DEF SubscribeFailed, States
  <2>3. rx' \in SUBSET Chans /\ reply' \in [Chans -> [Services -> CtlP!Reply]]
    BY <2>1, AwaitNothing
  <2>4. commands' \in Seq(CtlP!Command)
    BY <2>1, StopType, SendType
  <2>5. UNCHANGED <<taskVars, handle, initPayload, actorVars, fetches, lastReq>>
    BY <1>2 DEF SubscribeFailed
  <2> QED
    BY <1>0, <2>2, <2>3, <2>4, <2>5 DEF CallerOK
<1>3. CASE Push(o)
  <2>1. Taken(Main(o)) \in [Chans -> Seq(Chans)]
    BY <1>3, ChansType, TakenType, MaxReqAssumption DEF Push, Main
  <2>2. UNCHANGED <<taskVars, handle, initPayload, actorVars>>
    BY <1>3 DEF Push
  <2>3. CASE plan[o].then = {}
    BY <1>0, <1>3, <2>1, <2>2, <2>3 DEF Push, opVars, CallerOK
  <2>4. CASE plan[o].then # {}
    <3>1. Execute(o, plan[o].then, Taken(Main(o)))
      BY <1>3, <2>4 DEF Push
    <3> QED
      BY <2>1, <2>2, <3>1, PlanType, ExecuteType
  <2> QED
    BY <2>3, <2>4
<1>4. CASE StreamEnded(o)
  <2>1. Await(<<>>, {Main(o)})
    BY <1>4 DEF StreamEnded
  <2>2. rx' \in SUBSET Chans /\ reply' \in [Chans -> [Services -> CtlP!Reply]]
    BY <2>1, AwaitNothing
  <2>3. OpsOK'
    BY <1>0, <1>4 DEF StreamEnded, States
  <2>4. UNCHANGED <<taskVars, handle, initPayload, actorVars, commands, inbox>>
    BY <1>4 DEF StreamEnded
  <2> QED
    BY <1>0, <2>2, <2>3, <2>4 DEF CallerOK
<1>5. ASSUME NEW n \in 1..MaxReq, FetchEnds(o, n)
      PROVE  CallerOK' /\ OpsOK' /\ UNCHANGED <<taskVars, handle, initPayload, actorVars>>
  <2>1. Await(<<>>, {<<o, n>>})
    BY <1>5 DEF FetchEnds
  <2>2. rx' \in SUBSET Chans /\ reply' \in [Chans -> [Services -> CtlP!Reply]]
    BY <2>1, AwaitNothing
  <2>3. OpsOK' /\ inbox' \in [Chans -> Seq(Chans)]
    BY <1>0, <1>5, ClearedInbox DEF FetchEnds
  <2>4. UNCHANGED <<taskVars, handle, initPayload, actorVars, commands>>
    BY <1>5 DEF FetchEnds
  <2> QED
    BY <1>0, <2>2, <2>3, <2>4 DEF CallerOK
<1> QED
  BY <1>1, <1>2, <1>3, <1>4, <1>5 DEF Stream

LEMMA StartType ==
  ASSUME SessionOK, CtlP!RestOK, NEW o \in Ops, Start(o)
  PROVE  CallerOK' /\ OpsOK'
<1> USE DEF OpsOK
<1>0. CallerOK /\ OpsOK /\ MaxReq \in Nat
  BY MaxReqAssumption DEF CallerOK, SessionOK, CtlP!RestOK
<1>1. CASE StartSubscription(o)
  <2>1. PICK order \in SetToSeqs(plan[o].root) :
            /\ Send(RootCalls(o, order))
            /\ Await(RootCalls(o, order), {}) \/ UNCHANGED <<rx, reply>>
            /\ pc' = [pc EXCEPT ![o] = "calling"] \/ pc' = [pc EXCEPT ![o] = "answer"]
    BY <1>1 DEF StartSubscription, RootCalls
  <2>2. PICK n \in Nat : /\ order \in [1..n -> plan[o].root]
                         /\ RootCalls(o, order) \in Seq(CtlP!Command)
                         /\ DOMAIN RootCalls(o, order) = 1..n
                         /\ \A k \in 1..n : RootCalls(o, order)[k] = Call(o, 0, order[k])
    BY PlanType, RootBurst
  <2>3. \A k \in 1..n : RootCalls(o, order)[k].tx \in Chans
    BY <1>0, <2>2, CallType, PlanType
  <2>4. commands' \in Seq(CtlP!Command)
    BY <2>1, <2>2, SendType
  <2>5. rx' \in SUBSET Chans /\ reply' \in [Chans -> [Services -> CtlP!Reply]]
    BY <1>0, <2>1, <2>2, <2>3, AwaitBurst DEF CallerOK
  <2>6. UNCHANGED <<inbox, fetches, lastReq>> /\ pc' \in [Ops -> States]
    BY <1>0, <1>1, <2>1 DEF StartSubscription, States
  <2> QED
    BY <1>0, <2>4, <2>5, <2>6 DEF CallerOK
<1>2. CASE StartQuery(o)
  BY <1>0, <1>2, PlanType, ExecuteType DEF StartQuery, CallerOK
<1>3. CASE StartRefused(o)
  BY <1>0, <1>3 DEF StartRefused, CallerOK, States
<1> QED
  BY <1>1, <1>2, <1>3 DEF Start

LEMMA ActorType ==
  ASSUME SessionOK, CtlP!RestOK, Actor
  PROVE  /\ SessionOK' /\ CallerOK'
         /\ handle' \in BOOLEAN /\ initPayload' \in BOOLEAN /\ UNCHANGED taskVars
<1>0. CallerOK /\ handle \in BOOLEAN /\ initPayload \in BOOLEAN
  BY DEF CallerOK, CtlP!RestOK
<1>1. CASE ConnectionInit
  BY <1>0, <1>1 DEF ConnectionInit, CallerOK, SessionOK, ctlVars, taskVars, opVars
<1>2. CASE Close
  <2>1. pc' \in [Ops -> States] /\ fetches' \in [Ops -> SUBSET (1..MaxReq)]
    BY <1>2 DEF Close, SessionOK, States
  <2>2. CallerOK'
    BY <1>0, <1>2 DEF Close, CallerOK, CtlP!Reply
  <2> QED
    BY <1>0, <1>2, <2>1, <2>2 DEF Close, SessionOK
<1>3. ASSUME NEW o \in Ops, Start(o)
      PROVE  /\ SessionOK' /\ CallerOK'
             /\ handle' \in BOOLEAN /\ initPayload' \in BOOLEAN /\ UNCHANGED taskVars
  <2>1. CallerOK' /\ OpsOK'
    BY <1>3, StartType
  <2> QED
    BY <1>0, <1>3, <2>1 DEF Start, Controller, SessionOK, OpsOK
<1>4. ASSUME NEW o \in Ops, ClientStop(o)
      PROVE  /\ SessionOK' /\ CallerOK'
             /\ handle' \in BOOLEAN /\ initPayload' \in BOOLEAN /\ UNCHANGED taskVars
  BY <1>0, <1>4 DEF ClientStop, Controller, SessionOK, CallerOK, opVars
<1>5. ASSUME NEW o \in Ops, SendStop(o)
      PROVE  /\ SessionOK' /\ CallerOK'
             /\ handle' \in BOOLEAN /\ initPayload' \in BOOLEAN /\ UNCHANGED taskVars
  <2>1. commands' \in Seq(CtlP!Command)
    BY <1>5, StopType, SendType DEF SendStop
  <2> QED
    BY <1>0, <1>5, <2>1 DEF SendStop, SessionOK, CallerOK, opVars
<1> QED
  BY <1>1, <1>2, <1>3, <1>4, <1>5 DEF Actor

\* What the session's own steps leave alone keeps the controller's invariants.
LEMMA OwnSteps ==
  ASSUME SessionInv, Actor \/ \E o \in Ops : Stream(o)
  PROVE  SessionInv' /\ UNCHANGED taskVars
<1>1. /\ SessionOK' /\ CallerOK'
      /\ handle' \in BOOLEAN /\ initPayload' \in BOOLEAN /\ UNCHANGED taskVars
  <2>1. CASE Actor
    BY <2>1, ActorType DEF SessionInv
  <2>2. ASSUME NEW o \in Ops, Stream(o)
        PROVE  /\ SessionOK' /\ CallerOK'
               /\ handle' \in BOOLEAN /\ initPayload' \in BOOLEAN /\ UNCHANGED taskVars
    BY <2>2, StreamType DEF SessionInv, SessionOK, OpsOK, actorVars, CtlP!RestOK
  <2> QED
    BY <2>1, <2>2
<1>2. CtlP!TablesInv'
  BY <1>1, CtlP!SameTables, Assumptions DEF SessionInv, taskVars, CtlP!tableVars
<1>3. CtlP!RestOK'
  BY <1>1 DEF SessionInv, CtlP!RestOK, CallerOK, taskVars
<1> QED
  BY <1>1, <1>2, <1>3 DEF SessionInv

\* The task and the upstreams step as they do in the controller.
LEMMA ControllerSteps ==
  ASSUME SessionInv, Task \/ Upstreams, UNCHANGED <<actorVars, opVars>>
  PROVE  SessionInv'
<1>1. CtlP!TakeCommand \/ CtlP!Handshake \/ CtlP!Event \/ CtlP!Upstreams
  BY SameSteps DEF Task
<1>2. CtlP!IInv
  BY CtlP!IInvParts, Assumptions DEF SessionInv
<1>3. CtlP!IInv'
  BY <1>1, <1>2, Assumptions, CtlP!TakeCommandInv, CtlP!HandshakeInv, CtlP!EventInv,
     CtlP!UpstreamsInv
<1>4. CtlP!RestOK' /\ CtlP!TablesInv'
  BY <1>3, CtlP!IInvParts, Assumptions
<1> QED
  BY <1>4 DEF SessionInv, SessionOK, actorVars, opVars

\* In every reachable state of a session the controller's variables have
\* their types, its counts are exact and a connection is open exactly while
\* some operation or fetch uses it.
THEOREM SessionInvariance == Spec => []SessionInv
<1>1. Init => SessionInv
  <2> SUFFICES ASSUME Init PROVE SessionInv
    OBVIOUS
  <2>1. CtlP!IInv
    BY SameState, CtlP!InitInv, Assumptions DEF Init
  <2>2. CtlP!RestOK /\ CtlP!TablesInv
    BY <2>1, CtlP!IInvParts, Assumptions
  <2>3. 0 \in 0..MaxReq
    BY MaxReqAssumption
  <2>4. /\ pc \in [Ops -> States] /\ fetches \in [Ops -> SUBSET (1..MaxReq)]
        /\ lastReq \in [Ops -> 0..MaxReq]
    BY <2>3 DEF Init, States
  <2>5. plan \in Plans /\ open \in BOOLEAN /\ created \in BOOLEAN /\ stops \in SUBSET Ops
    BY DEF Init
  <2> QED
    BY <2>2, <2>4, <2>5 DEF SessionInv, SessionOK
<1>2. SessionInv /\ [Next]_vars => SessionInv'
  <2> SUFFICES ASSUME SessionInv, [Next]_vars PROVE SessionInv'
    OBVIOUS
  <2>1. CASE Next
    BY <2>1, OwnSteps, ControllerSteps DEF Next
  <2>2. CASE UNCHANGED vars
    <3>1. CtlP!TablesInv'
      BY <2>2, CtlP!SameTables, Assumptions DEF SessionInv, vars, ctlVars, CtlP!tableVars
    <3> QED
      BY <2>2, <3>1 DEF SessionInv, SessionOK, CtlP!RestOK, vars, ctlVars, actorVars, opVars
  <2> QED
    BY <2>1, <2>2
<1> QED
  BY <1>1, <1>2, PTL DEF Spec

-----------------------------------------------------------------------------
(* What the operations of a session may rely on although their fetches      *)
(* share ids: a subscription feeds the operation whose id it has, an        *)
(* operation that ends leaves none behind, and no id is subscribed twice to *)
(* a service as long as one operation alone fetches.                        *)

\* The commands that the task is not done with.
Line == CtlP!Line

\* The id i and the channel c are those of one call that some operation made.
Made(i, c) ==
    \E o \in Ops, n \in 0..MaxReq :
        c = <<o, n>> /\ i = (IF n = 0 THEN o ELSE n) /\ n <= lastReq[o]

UsesMade == \A i \in Ids : \A c \in Chans : CtlP!UsedBy(i, c) => Made(i, c)

\* A response and the channel that brings it are of calls with one id.
SameId(c, d) == \E i \in Ids : Made(i, c) /\ Made(i, d)

ResponsesById == \A c \in Chans : \A k \in DOMAIN inbox[c] : SameId(c, inbox[c][k])

Asks(m, i) == m.op = "Subscribe" /\ m.id = i

\* Nothing is subscribed, or asks to be, under the id i.
Absent(i) ==
    /\ subscribes[i] = CtlP!NoSub
    /\ \A k \in DOMAIN Line : ~Asks(Line[k], i)

\* Once the commands are done nothing is subscribed under the id o.
Settled(o) ==
    \/ Absent(o)
    \/ \E k \in DOMAIN Line : /\ Line[k] = StopOf(o)
                              /\ \A j \in DOMAIN Line : j > k => ~Asks(Line[j], o)

Dead == task # "running" => Line = <<>> /\ \A i \in Ids : subscribes[i] = CtlP!NoSub

Ending == {"answer", "last", "done"}

Quiet ==
    \A o \in Ops :
        /\ pc[o] = "idle" \/ plan[o].kind # "subscribe" => Absent(o)
        /\ pc[o] \in Ending => Settled(o)

OwnershipInv == UsesMade /\ CtlP!TxKnown /\ ResponsesById /\ Dead /\ Quiet

LEMMA LineType ==
  ASSUME SessionInv
  PROVE  /\ Line \in Seq(CtlP!Command)
         /\ CtlP!Queued = {Line[k] : k \in DOMAIN Line}
BY CtlP!LineType, Assumptions DEF SessionInv, Line

LineIsQueue == CtlP!Queued = {Line[k] : k \in DOMAIN Line}

LEMMA LineNext == SessionInv' => LineIsQueue'
<1>1. SessionInv => LineIsQueue
  BY LineType DEF LineIsQueue
<1> QED
  BY <1>1, PTL

\* The operations' ids and the fetches' are apart.
LEMMA MadeMain ==
  ASSUME NEW o \in Ops
  PROVE  /\ \A c : Made(o, c) => c = Main(o)
         /\ \A i : Made(i, Main(o)) => i = o
<1>1. o \notin 1..MaxReq
  BY OpsAssumption
<1>2. \A n \in 0..MaxReq : n = 0 \/ n \in 1..MaxReq
  BY MaxReqAssumption
<1> QED
  BY <1>1, <1>2 DEF Made, Main

\* Calls stay made: the counters only grow.
LEMMA MadeKept ==
  ASSUME SessionInv, SessionInv', \A o \in Ops : lastReq[o] <= lastReq'[o]
  PROVE  \A i, c : Made(i, c) => Made(i, c)'
<1>1. /\ lastReq \in [Ops -> 0..MaxReq] /\ lastReq' \in [Ops -> 0..MaxReq]
      /\ MaxReq \in Nat
  BY MaxReqAssumption DEF SessionInv, SessionOK
<1> SUFFICES ASSUME NEW i, NEW c, Made(i, c) PROVE Made(i, c)'
  OBVIOUS
<1>2. PICK o \in Ops, n \in 0..MaxReq :
          c = <<o, n>> /\ i = (IF n = 0 THEN o ELSE n) /\ n <= lastReq[o]
  BY DEF Made
<1>3. n <= lastReq'[o]
  BY <1>1, <1>2
<1> QED
  BY <1>2, <1>3 DEF Made

-----------------------------------------------------------------------------
(* Sequences.                                                               *)

LEMMA Appended ==
  ASSUME NEW S, NEW s \in Seq(S), NEW t \in Seq(S)
  PROVE  /\ s \o t \in Seq(S)
         /\ \A k \in DOMAIN s : k \in DOMAIN (s \o t) /\ (s \o t)[k] = s[k]
         /\ \A k \in DOMAIN t : /\ Len(s) + k \in DOMAIN (s \o t)
                                /\ (s \o t)[Len(s) + k] = t[k]
         /\ \A k \in DOMAIN (s \o t) :
               k \in DOMAIN s \/ \E j \in DOMAIN t : k = Len(s) + j
<1>1. /\ s \o t \in Seq(S)
      /\ \A k \in DOMAIN s : k \in DOMAIN (s \o t) /\ (s \o t)[k] = s[k]
      /\ \A k \in DOMAIN t : /\ Len(s) + k \in DOMAIN (s \o t)
                             /\ (s \o t)[Len(s) + k] = t[k]
  OBVIOUS
<1>2. ASSUME NEW k \in DOMAIN (s \o t), k \notin DOMAIN s
      PROVE  \E j \in DOMAIN t : k = Len(s) + j
  <2>1. k - Len(s) \in DOMAIN t /\ k = Len(s) + (k - Len(s))
    BY <1>2
  <2> QED
    BY <2>1
<1> QED
  BY <1>1, <1>2

LEMMA AppendedTwice ==
  ASSUME NEW S, NEW x \in S, NEW s \in Seq(S), NEW t \in Seq(S)
  PROVE  <<x>> \o (s \o t) = (<<x>> \o s) \o t
OBVIOUS

LEMMA Popped ==
  ASSUME NEW S, NEW s \in Seq(S), s # <<>>
  PROVE  /\ s[1] = Head(s) /\ 1 \in DOMAIN s
         /\ \A k \in DOMAIN Tail(s) : k + 1 \in DOMAIN s /\ Tail(s)[k] = s[k + 1]
         /\ \A k \in DOMAIN s : k # 1 => k - 1 \in DOMAIN Tail(s) /\ Tail(s)[k - 1] = s[k]
OBVIOUS

\* What is sent comes after what is there.
LEMMA SentLine ==
  ASSUME SessionInv, NEW ms \in Seq(CtlP!Command), Send(ms), busy' = busy
  PROVE  Line' = IF task = "running" THEN Line \o ms ELSE Line
<1>1. commands \in Seq(CtlP!Command)
  BY DEF SessionInv, CtlP!RestOK
<1>2. CASE busy = CtlP!Idle
  BY <1>2 DEF Send, Line, CtlP!Line, CtlP!Idle
<1>3. CASE busy # CtlP!Idle
  <2>1. busy.cmd \in CtlP!Command
    BY <1>3 DEF SessionInv, CtlP!RestOK, CtlP!Connecting, CtlP!Command
  <2>2. <<busy.cmd>> \o (commands \o ms) = (<<busy.cmd>> \o commands) \o ms
    BY <1>1, <2>1, AppendedTwice
  <2>3. Line = <<busy.cmd>> \o commands /\ Line' = <<busy.cmd>> \o commands'
    BY <1>3 DEF Line, CtlP!Line, CtlP!Idle
  <2> QED
    BY <2>2, <2>3 DEF Send
<1> QED
  BY <1>2, <1>3

-----------------------------------------------------------------------------
(* The task: it never adds to the line, and to the table only what was in   *)
(* the line.                                                                *)

LEMMA TaskLine ==
  ASSUME SessionInv, Task \/ Upstreams
  PROVE  CtlP!LineStep
<1>1. CtlP!TakeCommand \/ CtlP!Handshake \/ CtlP!Event \/ CtlP!Upstreams
  BY SameSteps DEF Task
<1> QED
  BY <1>1, CtlP!LineSteps, Assumptions DEF SessionInv

LEMMA TableType ==
  ASSUME SessionInv
  PROVE  subscribes \in [Ids -> CtlP!SubscribeInfo]
BY DEF SessionInv, CtlP!TablesInv, CtlP!TablesOK

LEMMA TaskKeepsAbsent ==
  ASSUME SessionInv, CtlP!LineStep, NEW i \in Ids, Absent(i)
  PROVE  Absent(i)'
<1> USE DEF Line
<1>1. Line \in Seq(CtlP!Command) /\ subscribes \in [Ids -> CtlP!SubscribeInfo]
  BY LineType, TableType
<1>2. CASE CtlP!LineKept
  BY <1>1, <1>2 DEF CtlP!LineKept, Absent
<1>3. ASSUME CtlP!HeadDone
      PROVE  /\ ~Asks(Head(Line), i)
             /\ \A k \in DOMAIN Line' : ~Asks(Line'[k], i)
  <2>1. Line # <<>> /\ Line' = Tail(Line)
    BY <1>3 DEF CtlP!HeadDone
  <2> QED
    BY <1>1, <2>1, Popped DEF Absent
<1>4. CASE CtlP!HeadStopped
  BY <1>1, <1>3, <1>4 DEF CtlP!HeadStopped, Absent
<1>5. CASE CtlP!HeadRefused
  BY <1>1, <1>3, <1>5 DEF CtlP!HeadRefused, Absent
<1>6. CASE CtlP!HeadEntered
  <2>1. Head(Line).id # i
    BY <1>3, <1>6 DEF CtlP!HeadEntered, Asks
  <2>2. subscribes'[i] = subscribes[i]
    BY <1>1, <1>6, <2>1 DEF CtlP!HeadEntered
  <2> QED
    BY <1>3, <1>6, <2>2 DEF CtlP!HeadEntered, Absent
<1>7. CASE CtlP!TaskOver
  BY <1>7 DEF CtlP!TaskOver, Absent
<1> QED
  BY <1>2, <1>4, <1>5, <1>6, <1>7 DEF CtlP!LineStep

LEMMA TaskKeepsSettled ==
  ASSUME SessionInv, CtlP!LineStep, NEW o \in Ops, Settled(o)
  PROVE  Settled(o)'
<1> USE DEF Line
<1>1. Line \in Seq(CtlP!Command) /\ subscribes \in [Ids -> CtlP!SubscribeInfo] /\ o \in Ids
  BY LineType, TableType DEF Ids
<1>2. CASE Absent(o)
  BY <1>1, <1>2, TaskKeepsAbsent DEF Settled
<1>3. CASE ~Absent(o)
  <2>1. PICK k \in DOMAIN Line : /\ Line[k] = StopOf(o)
                                 /\ \A j \in DOMAIN Line : j > k => ~Asks(Line[j], o)
    BY <1>3 DEF Settled
  <2>2. CASE CtlP!LineKept
    BY <2>1, <2>2 DEF CtlP!LineKept, Settled
  <2>3. CASE CtlP!HeadStopped \/ CtlP!HeadRefused \/ CtlP!HeadEntered
    <3>1. Line # <<>> /\ Line' = Tail(Line)
      BY <2>3 DEF CtlP!HeadStopped, CtlP!HeadRefused, CtlP!HeadEntered, CtlP!HeadDone
    <3>2. /\ Head(Line) = Line[1] /\ k \in Nat
          /\ \A j \in DOMAIN Tail(Line) : j \in Nat /\ j + 1 \in DOMAIN Line
                                          /\ Tail(Line)[j] = Line[j + 1]
      BY <1>1, <3>1, Popped
    <3>3. CASE k = 1
      <4>1. Head(Line).op = "Stop" /\ Head(Line).id = o
        BY <2>1, <3>2, <3>3 DEF StopOf
      <4>2. CtlP!HeadStopped
        BY <2>3, <4>1 DEF CtlP!HeadRefused, CtlP!HeadEntered
      <4>3. subscribes'[o] = CtlP!NoSub
        BY <1>1, <4>1, <4>2 DEF CtlP!HeadStopped
      <4>4. \A j \in DOMAIN Line' : ~Asks(Line'[j], o)
        BY <2>1, <3>1, <3>2, <3>3
      <4> QED
        BY <4>3, <4>4 DEF Settled, Absent
    <3>4. CASE k # 1
      <4>1. k - 1 \in DOMAIN Line' /\ Line'[k - 1] = StopOf(o)
        BY <1>1, <2>1, <3>1, <3>4, Popped
      <4>2. \A j \in DOMAIN Line' : j > k - 1 => ~Asks(Line'[j], o)
        BY <2>1, <3>1, <3>2
      <4> QED
        BY <4>1, <4>2 DEF Settled
    <3> QED
      BY <3>3, <3>4
  <2>4. CASE CtlP!TaskOver
    BY <1>1, <2>4 DEF CtlP!TaskOver, Settled, Absent
  <2> QED
    BY <2>2, <2>3, <2>4 DEF CtlP!LineStep
<1> QED
  BY <1>2, <1>3

LEMMA TaskKeepsDead ==
  ASSUME SessionInv, CtlP!LineStep, Dead
  PROVE  Dead'
<1> USE DEF Line
<1>1. subscribes \in [Ids -> CtlP!SubscribeInfo]
  BY TableType
<1>2. CASE CtlP!LineKept
  BY <1>1, <1>2 DEF CtlP!LineKept, Dead
<1>3. CASE CtlP!HeadDone
  BY <1>3 DEF CtlP!HeadDone, Dead
<1>4. CASE CtlP!TaskOver
  BY <1>4 DEF CtlP!TaskOver, Dead
<1> QED
  BY <1>2, <1>3, <1>4
     DEF CtlP!LineStep, CtlP!HeadStopped, CtlP!HeadRefused, CtlP!HeadEntered

\* The uses of ids and the responses: the task brings no use of its own.
LEMMA TaskKeepsUses ==
  ASSUME SessionInv, Task \/ Upstreams, UNCHANGED opVars, CtlP!TxKnown, UsesMade
  PROVE  UsesMade' /\ CtlP!TxKnown'
<1>1. CtlP!TakeCommand \/ CtlP!Handshake \/ CtlP!Event \/ CtlP!Upstreams
  BY SameSteps DEF Task
<1>2. CtlP!KeepsUses /\ CtlP!TxKnown'
  BY <1>1, CtlP!TaskUses, CtlP!EventUses, CtlP!UpstreamsUses, Assumptions DEF SessionInv
<1> QED
  BY <1>2 DEF UsesMade, CtlP!KeepsUses, Made, opVars

LEMMA TaskKeepsResponses ==
  ASSUME SessionInv, Task \/ Upstreams, UNCHANGED opVars, UsesMade, ResponsesById
  PROVE  ResponsesById'
<1>1. CtlP!TakeCommand \/ CtlP!Handshake \/ CtlP!Event \/ CtlP!Upstreams
  BY SameSteps DEF Task
<1>2. ASSUME NEW c \in Chans, inbox'[c] # inbox[c]
      PROVE  \E d \in Chans : SameId(c, d) /\ inbox'[c] = Append(inbox[c], d)
  <2>1. PICK s \in Services : CtlP!EventData(s)
    BY <1>1, <1>2 DEF CtlP!TakeCommand, CtlP!Handshake, CtlP!Event, CtlP!Upstreams,
        CtlP!CommandJoin, CtlP!CommandConnect, CtlP!CommandStop, CtlP!CommandsClosed,
        CtlP!SendInit, CtlP!ConnectionAck, CtlP!ConnectFailed, CtlP!Register, CtlP!Enter,
        CtlP!Terminate, CtlP!EventComplete, CtlP!EventFault, CtlP!UpstreamData,
        CtlP!UpstreamComplete, CtlP!UpstreamFault, CtlP!callerVars
  <2>2. PICK i \in Ids, d \in Chans : /\ CtlP!UsedBy(i, c) /\ CtlP!UsedBy(i, d)
                                      /\ inbox'[c] = Append(inbox[c], d)
    BY <1>2, <2>1, CtlP!Delivered, Assumptions DEF SessionInv
  <2>3. Made(i, c) /\ Made(i, d)
    BY <2>2 DEF UsesMade
  <2> QED
    BY <2>2, <2>3 DEF SameId
<1>3. ASSUME NEW c \in Chans, NEW k \in DOMAIN inbox'[c]
      PROVE  SameId(c, inbox'[c][k])
  <2>1. inbox[c] \in Seq(Chans)
    BY DEF SessionInv, CtlP!RestOK
  <2>2. CASE inbox'[c] = inbox[c]
    BY <1>3, <2>2 DEF ResponsesById
  <2>3. CASE \E d \in Chans : SameId(c, d) /\ inbox'[c] = Append(inbox[c], d)
    <3>1. PICK d \in Chans : SameId(c, d) /\ inbox'[c] = Append(inbox[c], d)
      BY <2>3
    <3>2. (k \in DOMAIN inbox[c] /\ inbox'[c][k] = inbox[c][k]) \/ inbox'[c][k] = d
      BY <1>3, <2>1, <3>1
    <3> QED
      BY <3>1, <3>2 DEF ResponsesById
  <2> QED
    BY <1>2, <2>2, <2>3
<1> QED
  BY <1>3 DEF ResponsesById, SameId, Made, opVars

LEMMA TaskKeepsOwnership ==
  ASSUME SessionInv, OwnershipInv, Task \/ Upstreams, UNCHANGED <<actorVars, opVars>>
  PROVE  OwnershipInv'
<1>1. CtlP!LineStep
  BY TaskLine
<1>2. Dead' /\ UsesMade' /\ CtlP!TxKnown' /\ ResponsesById'
  BY <1>1, TaskKeepsDead, TaskKeepsUses, TaskKeepsResponses DEF OwnershipInv
<1>3. Quiet'
  <2>1. ASSUME NEW o \in Ops
        PROVE  Absent(o) => Absent(o)'
    BY <1>1, TaskKeepsAbsent DEF Ids
  <2>2. ASSUME NEW o \in Ops
        PROVE  Settled(o) => Settled(o)'
    BY <1>1, TaskKeepsSettled
  <2> QED
    BY <2>1, <2>2 DEF OwnershipInv, Quiet, actorVars, opVars
<1> QED
  BY <1>2, <1>3 DEF OwnershipInv

-----------------------------------------------------------------------------
(* The operations: what a step of theirs sends.                             *)

\* No two calls of one burst are for the same id and service.
Distinct(ms) == \A j, k \in DOMAIN ms :
                    j # k => ms[j].id # ms[k].id \/ ms[j].service # ms[k].service

StopsSent(ms) == (\A k \in DOMAIN ms : ms[k].op = "Stop") /\ lastReq' = lastReq

RootsSent(o, ms) ==
    /\ pc[o] = "idle" /\ plan[o].kind = "subscribe"
    /\ pc' = [pc EXCEPT ![o] = IF task = "running" THEN "calling" ELSE "answer"]
    /\ \A k \in DOMAIN ms : Asks(ms[k], o) /\ ms[k].tx = Main(o)
    /\ Distinct(ms)
    /\ lastReq' = lastReq

FetchesSent(o, ms) ==
    /\ pc' = [pc EXCEPT ![o] = "executing"]
    /\ \A k \in DOMAIN ms : /\ lastReq[o] + k \in 1..MaxReq
                            /\ Asks(ms[k], lastReq[o] + k)
                            /\ ms[k].tx = <<o, lastReq[o] + k>>
    /\ lastReq' = [lastReq EXCEPT ![o] = lastReq[o] + Len(ms)]
    /\ lastReq[o] + Len(ms) <= plan[o].most

Sent(ms) ==
    /\ StopsSent(ms) \/ \E o \in Ops : RootsSent(o, ms) \/ FetchesSent(o, ms)
    /\ Line' = IF task = "running" THEN Line \o ms ELSE Line

LEMMA NothingSent ==
  ASSUME SessionInv, UNCHANGED <<commands, busy, lastReq>>
  PROVE  \E ms \in Seq(CtlP!Command) : Sent(ms)
<1>1. <<>> \in Seq(CtlP!Command) /\ StopsSent(<<>>)
  BY DEF StopsSent
<1>2. Line' = Line /\ Line \o <<>> = Line
  BY LineType DEF Line, CtlP!Line, CtlP!Idle
<1> QED
  BY <1>1, <1>2 DEF Sent

LEMMA StopIsSent ==
  ASSUME SessionInv, NEW o \in Ops, Send(<<StopOf(o)>>), UNCHANGED <<busy, lastReq>>
  PROVE  \E ms \in Seq(CtlP!Command) : Sent(ms)
<1>1. <<StopOf(o)>> \in Seq(CtlP!Command) /\ StopsSent(<<StopOf(o)>>)
  BY StopType DEF StopsSent
<1>2. Line' = IF task = "running" THEN Line \o <<StopOf(o)>> ELSE Line
  BY <1>1, SentLine
<1> QED
  BY <1>1, <1>2 DEF Sent

LEMMA ExecuteSends ==
  ASSUME SessionInv, NEW o \in Ops, NEW S \in SUBSET Services, NEW rest,
         Execute(o, S, rest), busy' = busy
  PROVE  \E ms \in Seq(CtlP!Command) : Sent(ms) /\ FetchesSent(o, ms)
<1> DEFINE n0 == lastReq[o]
<1>1. PICK order \in SetToSeqs(S) :
            /\ n0 + Len(FetchCalls(o, n0, order)) <= plan[o].most
            /\ pc' = [pc EXCEPT ![o] = "executing"]
            /\ lastReq' = [lastReq EXCEPT ![o] = n0 + Len(FetchCalls(o, n0, order))]
            /\ Send(FetchCalls(o, n0, order))
  BY ExecuteStep
<1>2. SessionOK /\ n0 \in Nat
  BY MaxReqAssumption DEF SessionInv, SessionOK
<1>3. PICK n \in Nat :
            /\ order \in [1..n -> S]
            /\ FetchCalls(o, n0, order) \in Seq(CtlP!Command)
            /\ Len(FetchCalls(o, n0, order)) = n
            /\ DOMAIN FetchCalls(o, n0, order) = 1..n
            /\ \A k \in 1..n : FetchCalls(o, n0, order)[k] = Call(o, n0 + k, order[k])
            /\ \A k \in 1..n : n0 + k \in 1..MaxReq
  BY <1>1, <1>2, ExecuteBurst
<1> DEFINE ms == FetchCalls(o, n0, order)
<1>4. \A k \in DOMAIN ms : /\ n0 + k \in 1..MaxReq /\ Asks(ms[k], n0 + k)
                           /\ ms[k].tx = <<o, n0 + k>>
  <2> TAKE k \in DOMAIN ms
  <2>1. /\ n0 + k \in 1..MaxReq /\ n0 + k \in 0..MaxReq /\ n0 + k # 0
        /\ order[k] \in Services
    BY <1>3
  <2>2. ms[k] = Call(o, n0 + k, order[k])
    BY <1>3
  <2> QED
    BY <2>1, <2>2, CallType DEF Asks
<1>5. Line' = IF task = "running" THEN Line \o ms ELSE Line
  BY <1>1, <1>3, SentLine
<1>6. FetchesSent(o, ms)
  BY <1>1, <1>4 DEF FetchesSent
<1> QED
  BY <1>3, <1>5, <1>6 DEF Sent

LEMMA SubscriptionSends ==
  ASSUME SessionInv, NEW o \in Ops, pc[o] = "idle", StartSubscription(o), busy' = busy
  PROVE  \E ms \in Seq(CtlP!Command) : Sent(ms) /\ RootsSent(o, ms)
<1>1. PICK order \in SetToSeqs(plan[o].root) :
          /\ Send(RootCalls(o, order))
          /\ pc' = [pc EXCEPT ![o] = IF task = "running" THEN "calling" ELSE "answer"]
  BY DEF StartSubscription, RootCalls
<1>2. plan[o].root \in SUBSET Services
  BY PlanType DEF SessionInv
<1>3. PICK n \in Nat : /\ order \in [1..n -> plan[o].root]
                       /\ \A j, k \in 1..n : j # k => order[j] # order[k]
                       /\ RootCalls(o, order) \in Seq(CtlP!Command)
                       /\ DOMAIN RootCalls(o, order) = 1..n
                       /\ \A k \in 1..n : RootCalls(o, order)[k] = Call(o, 0, order[k])
  BY <1>2, RootBurst
<1> DEFINE ms == RootCalls(o, order)
<1>4. \A k \in DOMAIN ms : /\ Asks(ms[k], o) /\ ms[k].tx = Main(o)
                           /\ ms[k].service = order[k]
  <2> TAKE k \in DOMAIN ms
  <2>1. order[k] \in Services /\ 0 \in 0..MaxReq /\ ms[k] = Call(o, 0, order[k])
    BY <1>2, <1>3, MaxReqAssumption
  <2> QED
    BY <2>1, CallType DEF Asks, Main
<1>5. Distinct(ms)
  BY <1>3, <1>4 DEF Distinct
<1>6. Line' = IF task = "running" THEN Line \o ms ELSE Line
  BY <1>1, <1>3, SentLine
<1>7. plan[o].kind = "subscribe" /\ lastReq' = lastReq
  BY DEF StartSubscription
<1>8. RootsSent(o, ms)
  BY <1>1, <1>4, <1>5, <1>7 DEF RootsSent
<1> QED
  BY <1>3, <1>6, <1>8 DEF Sent

LEMMA OwnSends ==
  ASSUME SessionInv, Actor \/ \E o \in Ops : Stream(o)
  PROVE  \E ms \in Seq(CtlP!Command) : Sent(ms)
<1>0. busy' = busy
  BY OwnSteps DEF taskVars
<1>1. CASE ConnectionInit \/ Close \/ \E o \in Ops : ClientStop(o)
  <2>1. UNCHANGED <<commands, busy, lastReq>>
    BY <1>0, <1>1 DEF ConnectionInit, Close, ClientStop, ctlVars, opVars
  <2> QED
    BY <2>1, NothingSent
<1>2. ASSUME NEW o \in Ops, Start(o)
      PROVE  \E ms \in Seq(CtlP!Command) : Sent(ms)
  <2>1. CASE StartSubscription(o)
    BY <1>0, <1>2, <2>1, SubscriptionSends DEF Start
  <2>2. CASE StartQuery(o)
    <3>1. plan[o].root \in SUBSET Services
      BY PlanType DEF SessionInv
    <3> QED
      BY <1>0, <2>2, <3>1, ExecuteSends DEF StartQuery
  <2>3. CASE StartRefused(o)
    BY <1>0, <2>3, NothingSent DEF StartRefused
  <2> QED
    BY <1>2, <2>1, <2>2, <2>3 DEF Start
<1>3. ASSUME NEW o \in Ops, SendStop(o)
      PROVE  \E ms \in Seq(CtlP!Command) : Sent(ms)
  BY <1>0, <1>3, StopIsSent DEF SendStop, opVars
<1>4. ASSUME NEW o \in Ops, SubscribeFailed(o)
      PROVE  \E ms \in Seq(CtlP!Command) : Sent(ms)
  BY <1>0, <1>4, StopIsSent DEF SubscribeFailed
<1>5. ASSUME NEW o \in Ops, Push(o)
      PROVE  \E ms \in Seq(CtlP!Command) : Sent(ms)
  <2>1. CASE plan[o].then = {}
    BY <1>0, <1>5, <2>1, NothingSent DEF Push, opVars
  <2>2. CASE plan[o].then # {}
    <3>1. plan[o].then \in SUBSET Services /\ Execute(o, plan[o].then, Taken(Main(o)))
      BY <1>5, <2>2, PlanType DEF SessionInv, Push
    <3> QED
      BY <1>0, <3>1, ExecuteSends
  <2> QED
    BY <2>1, <2>2
<1>6. ASSUME NEW o \in Ops, \/ Subscribed(o) \/ StreamEnded(o) \/ Executed(o) \/ Finish(o)
                            \/ \E n \in 1..MaxReq : FetchEnds(o, n)
      PROVE  \E ms \in Seq(CtlP!Command) : Sent(ms)
  <2>1. UNCHANGED <<commands, busy, lastReq>>
    BY <1>0, <1>6 DEF Subscribed, StreamEnded, Executed, Finish, FetchEnds, ctlVars
  <2> QED
    BY <2>1, NothingSent
<1> QED
  BY <1>1, <1>2, <1>3, <1>4, <1>5, <1>6 DEF Actor, Stream

LEMMA SentParts ==
  ASSUME SessionInv, NEW ms \in Seq(CtlP!Command), Sent(ms)
  PROVE  /\ \A k \in DOMAIN Line : k \in DOMAIN Line' /\ Line'[k] = Line[k]
         /\ \A k \in DOMAIN Line' :
               \/ k \in DOMAIN Line
               \/ task = "running" /\ \E j \in DOMAIN ms : k = Len(Line) + j /\ Line'[k] = ms[j]
<1>1. Line \in Seq(CtlP!Command) /\ Line' = IF task = "running" THEN Line \o ms ELSE Line
  BY LineType DEF Sent
<1>2. /\ \A k \in DOMAIN Line : k \in DOMAIN (Line \o ms) /\ (Line \o ms)[k] = Line[k]
      /\ \A k \in DOMAIN ms : (Line \o ms)[Len(Line) + k] = ms[k]
      /\ \A k \in DOMAIN (Line \o ms) : k \in DOMAIN Line \/ \E j \in DOMAIN ms : k = Len(Line) + j
  BY <1>1, Appended
<1> HIDE DEF Line
<1>3. CASE task = "running"
  BY <1>1, <1>2, <1>3
<1>4. CASE task # "running"
  BY <1>1, <1>4
<1> QED
  BY <1>3, <1>4

LEMMA SendKeepsAbsent ==
  ASSUME SessionInv, NEW ms \in Seq(CtlP!Command), Sent(ms), subscribes' = subscribes,
         NEW i \in Ids, Absent(i), task = "running" => \A k \in DOMAIN ms : ~Asks(ms[k], i)
  PROVE  Absent(i)'
BY SentParts DEF Absent

LEMMA SendKeepsSettled ==
  ASSUME SessionInv, NEW ms \in Seq(CtlP!Command), Sent(ms), subscribes' = subscribes,
         NEW o \in Ops, Settled(o), \A k \in DOMAIN ms : ~Asks(ms[k], o)
  PROVE  Settled(o)'
<1>1. CASE Absent(o)
  BY <1>1, SendKeepsAbsent DEF Settled, Ids
<1>2. CASE ~Absent(o)
  <2>1. PICK k \in DOMAIN Line : /\ Line[k] = StopOf(o)
                                 /\ \A j \in DOMAIN Line : j > k => ~Asks(Line[j], o)
    BY <1>2 DEF Settled
  <2>2. k \in DOMAIN Line' /\ Line'[k] = StopOf(o)
    BY <2>1, SentParts
  <2>3. \A j \in DOMAIN Line' : j > k => ~Asks(Line'[j], o)
    BY <2>1, SentParts
  <2> QED
    BY <2>2, <2>3 DEF Settled
<1> QED
  BY <1>1, <1>2

\* Only the Start of a subscription asks for the id of an operation.
LEMMA AsksOwn ==
  ASSUME NEW ms, Sent(ms), NEW o \in Ops
  PROVE  (\A k \in DOMAIN ms : ~Asks(ms[k], o)) \/ RootsSent(o, ms)
<1>1. o \notin 1..MaxReq
  BY OpsAssumption
<1>2. CASE StopsSent(ms)
  BY <1>2 DEF StopsSent, Asks
<1>3. ASSUME NEW p \in Ops, p # o, RootsSent(p, ms)
      PROVE  \A k \in DOMAIN ms : ~Asks(ms[k], o)
  BY <1>3 DEF RootsSent, Asks
<1>4. ASSUME NEW p \in Ops, FetchesSent(p, ms)
      PROVE  \A k \in DOMAIN ms : ~Asks(ms[k], o)
  BY <1>1, <1>4 DEF FetchesSent, Asks
<1> QED
  BY <1>2, <1>3, <1>4 DEF Sent

\* What is in line comes from what was, or from what is sent.
LEMMA QueuedNext ==
  ASSUME SessionInv', NEW ms \in Seq(CtlP!Command), SessionInv, Sent(ms),
         NEW m \in CtlP!Queued'
  PROVE  m \in CtlP!Queued \/ \E k \in DOMAIN ms : m = ms[k]
<1>1. CtlP!Queued' = {Line'[k] : k \in DOMAIN Line'}
  BY LineNext DEF LineIsQueue
<1>2. CtlP!Queued = {Line[k] : k \in DOMAIN Line}
  BY LineType
<1> QED
  BY <1>1, <1>2, SentParts

-----------------------------------------------------------------------------
(* The operations keep the invariant.                                       *)

\* What is sent counts up, if anything.
LEMMA CountersGrow ==
  ASSUME SessionInv, NEW ms \in Seq(CtlP!Command), Sent(ms)
  PROVE  \A o \in Ops : lastReq[o] <= lastReq'[o]
<1>1. lastReq \in [Ops -> 0..MaxReq] /\ MaxReq \in Nat /\ Len(ms) \in Nat
  BY MaxReqAssumption DEF SessionInv, SessionOK
<1>2. CASE lastReq' = lastReq
  BY <1>1, <1>2
<1>3. ASSUME NEW p \in Ops, lastReq' = [lastReq EXCEPT ![p] = lastReq[p] + Len(ms)]
      PROVE  \A o \in Ops : lastReq[o] <= lastReq'[o]
  BY <1>1, <1>3
<1> QED
  BY <1>2, <1>3 DEF Sent, StopsSent, RootsSent, FetchesSent

LEMMA SendKeepsUses ==
  ASSUME SessionInv, SessionInv', UNCHANGED taskVars, UsesMade, CtlP!TxKnown,
         NEW ms \in Seq(CtlP!Command), Sent(ms)
  PROVE  UsesMade' /\ CtlP!TxKnown'
<1>0. \A i, c : Made(i, c) => Made(i, c)'
  BY CountersGrow, MadeKept
<1>1. UNCHANGED <<subscribes, link, remote>>
  BY DEF taskVars
<1>2. ASSUME NEW k \in DOMAIN ms, ms[k].op = "Subscribe"
      PROVE  Made(ms[k].id, ms[k].tx)'
  <2>0. lastReq \in [Ops -> 0..MaxReq] /\ MaxReq \in Nat /\ lastReq' \in [Ops -> 0..MaxReq]
    BY MaxReqAssumption DEF SessionInv, SessionOK
  <2>1. ASSUME NEW o \in Ops, RootsSent(o, ms)
        PROVE  Made(ms[k].id, ms[k].tx)'
    <3>1. 0 \in 0..MaxReq /\ ms[k].id = o /\ ms[k].tx = <<o, 0>> /\ 0 <= lastReq'[o]
      BY <2>0, <2>1 DEF RootsSent, Asks, Main
    <3> QED
      BY <3>1 DEF Made
  <2>2. ASSUME NEW o \in Ops, FetchesSent(o, ms)
        PROVE  Made(ms[k].id, ms[k].tx)'
    <3> DEFINE n == lastReq[o] + k
    <3>1. n \in 1..MaxReq /\ ms[k].id = n /\ ms[k].tx = <<o, n>>
      BY <2>2 DEF FetchesSent, Asks
    <3>2. k \in 1..Len(ms) /\ Len(ms) \in Nat
      OBVIOUS
    <3>3. lastReq'[o] = lastReq[o] + Len(ms)
      BY <2>0, <2>2 DEF FetchesSent
    <3>4. n \in 0..MaxReq /\ n # 0 /\ n <= lastReq'[o]
      BY <2>0, <3>1, <3>2, <3>3
    <3> HIDE DEF n
    <3> QED
      BY <3>1, <3>4 DEF Made
  <2> QED
    BY <1>2, <2>1, <2>2 DEF Sent, StopsSent
<1>3. ASSUME NEW i \in Ids, NEW c \in Chans, CtlP!UsedBy(i, c)'
      PROVE  Made(i, c)'
  <2>1. CASE \E m \in CtlP!Queued' : m.op = "Subscribe" /\ m.id = i /\ m.tx = c
    <3>1. PICK m \in CtlP!Queued' : m.op = "Subscribe" /\ m.id = i /\ m.tx = c
      BY <2>1
    <3>2. CASE m \in CtlP!Queued
      BY <1>0, <3>1, <3>2 DEF UsesMade, CtlP!UsedBy
    <3> QED
      BY <1>2, <3>1, <3>2, QueuedNext
  <2>2. CASE ~\E m \in CtlP!Queued' : m.op = "Subscribe" /\ m.id = i /\ m.tx = c
    <3>1. CtlP!UsedBy(i, c)
      BY <1>1, <1>3, <2>2 DEF CtlP!UsedBy, CtlP!InLink, CtlP!NoSub, CtlP!Fault
    <3> QED
      BY <1>0, <3>1 DEF UsesMade
  <2> QED
    BY <2>1, <2>2
<1> QED
  BY <1>1, <1>3 DEF UsesMade, CtlP!TxKnown, CtlP!NoSub

\* A stream reads the inboxes of its channels from the front or drops them.
LEMMA OwnInboxes ==
  ASSUME SessionInv, Actor \/ \E o \in Ops : Stream(o), NEW c \in Chans
  PROVE  inbox'[c] \in {inbox[c], <<>>} \/ (inbox[c] # <<>> /\ inbox'[c] = Tail(inbox[c]))
<1>0. inbox \in [Chans -> Seq(Chans)]
  BY DEF SessionInv, CtlP!RestOK
<1>1. ASSUME NEW o \in Ops, Start(o)
      PROVE  inbox' = inbox
  BY <1>1 DEF Start, StartSubscription, StartQuery, StartRefused, Execute
<1>2. CASE Actor
  BY <1>0, <1>1, <1>2 DEF Actor, ConnectionInit, Close, ClientStop, SendStop, ctlVars
<1>3. ASSUME NEW o \in Ops, Push(o)
      PROVE  inbox[Main(o)] # <<>> /\ inbox' = Taken(Main(o))
  BY <1>3 DEF Push, Execute
<1>4. ASSUME NEW o \in Ops, Stream(o), ~Push(o)
      PROVE  inbox' = inbox \/ \E d \in Chans : inbox' = [inbox EXCEPT ![d] = <<>>]
  <2>1. CASE SubscribeFailed(o)
    <3>1. inbox' = [inbox EXCEPT ![Main(o)] = <<>>] /\ Main(o) \in Chans
      BY <2>1, ChansType, MaxReqAssumption DEF SubscribeFailed, Main
    <3> QED
      BY <3>1
  <2>2. ASSUME NEW n \in 1..MaxReq, FetchEnds(o, n)
        PROVE  \E d \in Chans : inbox' = [inbox EXCEPT ![d] = <<>>]
    <3>1. inbox' = [inbox EXCEPT ![<<o, n>>] = <<>>] /\ <<o, n>> \in Chans
      BY <2>2, ChansType, MaxReqAssumption DEF FetchEnds
    <3> QED
      BY <3>1
  <2>3. CASE Subscribed(o) \/ StreamEnded(o) \/ Executed(o) \/ Finish(o)
    BY <2>3 DEF Subscribed, StreamEnded, Executed, Finish, ctlVars
  <2> QED
    BY <1>4, <2>1, <2>2, <2>3 DEF Stream
<1> QED
  BY <1>0, <1>2, <1>3, <1>4 DEF Taken

LEMMA OwnKeepsResponses ==
  ASSUME SessionInv, SessionInv', Actor \/ \E o \in Ops : Stream(o), ResponsesById
  PROVE  ResponsesById'
<1>1. \A i, c : Made(i, c) => Made(i, c)'
  BY OwnSends, CountersGrow, MadeKept
<1>2. ASSUME NEW c \in Chans, NEW k \in DOMAIN inbox'[c]
      PROVE  SameId(c, inbox'[c][k])
  <2>1. inbox[c] \in Seq(Chans)
    BY DEF SessionInv, CtlP!RestOK
  <2>2. CASE inbox'[c] = inbox[c]
    BY <1>2, <2>2 DEF ResponsesById
  <2>3. CASE inbox'[c] = <<>>
    BY <1>2, <2>3
  <2>4. CASE inbox[c] # <<>> /\ inbox'[c] = Tail(inbox[c])
    BY <1>2, <2>1, <2>4, Popped DEF ResponsesById
  <2> QED
    BY <2>2, <2>3, <2>4, OwnInboxes
<1> QED
  BY <1>1, <1>2 DEF ResponsesById, SameId

\* An operation that comes to its end has nothing subscribed, or sends its Stop.
LEMMA OwnEnds ==
  ASSUME SessionInv, OwnershipInv, Actor \/ \E p \in Ops : Stream(p),
         NEW o \in Ops, pc'[o] \in Ending
  PROVE  Settled(o) \/ Send(<<StopOf(o)>>)
<1> USE DEF Ending
<1>0. pc \in [Ops -> States]
  BY DEF SessionInv, SessionOK
<1>1. CASE pc[o] \in Ending
  BY <1>1 DEF OwnershipInv, Quiet
<1>2. CASE pc[o] \notin Ending
  <2>1. CASE Actor
    <3>1. ASSUME NEW p \in Ops, Start(p), p # o PROVE FALSE
      BY <1>0, <1>2, <3>1 DEF Start, StartSubscription, StartQuery, StartRefused, Execute
    <3>2. CASE Start(o)
      BY <3>2 DEF Start, OwnershipInv, Quiet, Settled
    <3> QED
      BY <1>0, <1>2, <2>1, <3>1, <3>2
         DEF Actor, ConnectionInit, Close, ClientStop, SendStop, opVars
  <2>2. ASSUME NEW p \in Ops, Stream(p), p # o PROVE FALSE
    BY <1>0, <1>2, <2>2 DEF Stream, Subscribed, SubscribeFailed, Push, StreamEnded,
       FetchEnds, Executed, Finish, Execute, opVars
  <2>3. CASE SubscribeFailed(o)
    BY <2>3 DEF SubscribeFailed
  <2>4. CASE StreamEnded(o)
    <3>1. Main(o) \in Chans /\ o \in Ids
      BY ChansType, MaxReqAssumption DEF Main, Ids
    <3>2. ~Ctl!HasSender(Main(o))
      BY <2>4 DEF StreamEnded, Ended
    <3>3. subscribes[o] = CtlP!NoSub
      <4>1. SUFFICES ASSUME subscribes[o] # CtlP!NoSub PROVE FALSE
        OBVIOUS
      <4>2. subscribes[o].tx \in Chans /\ CtlP!UsedBy(o, subscribes[o].tx)
        BY <3>1, <4>1 DEF OwnershipInv, CtlP!TxKnown, CtlP!UsedBy
      <4>3. subscribes[o].tx = Main(o)
        BY <3>1, <4>2, MadeMain DEF OwnershipInv, UsesMade
      <4> QED
        BY <3>1, <3>2, <4>3 DEF Ctl!HasSender
    <3>4. ASSUME NEW k \in DOMAIN Line, Asks(Line[k], o) PROVE FALSE
      <4>1. Line[k] \in CtlP!Queued /\ Line[k] \in CtlP!SubscribeCommand
        BY <3>4, LineType DEF Asks, CtlP!Command, CtlP!StopCommand
      <4>2. Line[k].tx \in Chans /\ CtlP!UsedBy(o, Line[k].tx)
        BY <3>1, <3>4, <4>1 DEF Asks, CtlP!UsedBy, CtlP!SubscribeCommand
      <4>3. Line[k].tx = Main(o)
        BY <3>1, <4>2, MadeMain DEF OwnershipInv, UsesMade
      <4>4. Line[k] \in Ctl!QueuedFor(Main(o))
        BY <3>4, <4>1, <4>3, SameState DEF Ctl!QueuedFor, Asks
      <4> QED
        BY <3>2, <4>4 DEF Ctl!HasSender
    <3> QED
      BY <3>3, <3>4 DEF Settled, Absent
  <2>5. CASE Executed(o)
    <3>1. plan[o].kind = "query"
      BY <1>0, <2>5 DEF Executed
    <3> QED
      BY <3>1 DEF OwnershipInv, Quiet, Settled
  <2>6. CASE Subscribed(o) \/ Push(o) \/ Finish(o) \/ \E n \in 1..MaxReq : FetchEnds(o, n)
    BY <1>0, <1>2, <2>6 DEF Subscribed, Push, Finish, FetchEnds, Execute, opVars
  <2> QED
    BY <2>1, <2>2, <2>3, <2>4, <2>5, <2>6 DEF Stream
<1> QED
  BY <1>1, <1>2

LEMMA StopSettles ==
  ASSUME SessionInv, Dead, NEW o \in Ops, Send(<<StopOf(o)>>), UNCHANGED <<busy, subscribes>>
  PROVE  Settled(o)'
<1>1. /\ <<StopOf(o)>> \in Seq(CtlP!Command) /\ Line \in Seq(CtlP!Command)
      /\ StopOf(o).op = "Stop"
  BY StopType, LineType
<1>2. Line' = IF task = "running" THEN Line \o <<StopOf(o)>> ELSE Line
  BY <1>1, SentLine
<1>3. CASE task = "running"
  <2> DEFINE k == Len(Line) + 1
  <2>1. Line' = Append(Line, StopOf(o))
    BY <1>1, <1>2, <1>3
  <2>2. /\ k \in DOMAIN Line' /\ Line'[k] = StopOf(o)
        /\ \A j \in DOMAIN Line' : ~(j > k)
    BY <1>1, <2>1
  <2> QED
    BY <2>2 DEF Settled
<1>4. CASE task # "running"
  BY <1>2, <1>4 DEF Dead, Settled, Absent, Ids
<1> QED
  BY <1>3, <1>4

\* An operation starts but once.
LEMMA OwnStarts ==
  ASSUME SessionInv, Actor \/ \E p \in Ops : Stream(p), NEW o \in Ops
  PROVE  plan' = plan /\ (pc'[o] = "idle" => pc[o] = "idle")
<1>0. pc \in [Ops -> States]
  BY DEF SessionInv, SessionOK
<1>1. CASE Actor
  BY <1>0, <1>1 DEF Actor, ConnectionInit, Close, ClientStop, SendStop, Start, opVars,
                    StartSubscription, StartQuery, StartRefused, Execute
<1>2. ASSUME NEW p \in Ops, Stream(p)
      PROVE  plan' = plan /\ (pc'[o] = "idle" => pc[o] = "idle")
  BY <1>0, <1>2 DEF Stream, Subscribed, SubscribeFailed, Push, StreamEnded, FetchEnds,
                    Executed, Finish, Execute, actorVars, opVars
<1> QED
  BY <1>1, <1>2

LEMMA OwnKeepsQuiet ==
  ASSUME SessionInv, OwnershipInv, Actor \/ \E p \in Ops : Stream(p)
  PROVE  Quiet'
<1>0. UNCHANGED <<busy, subscribes, task>> /\ plan' = plan
  BY OwnSteps, OwnStarts DEF taskVars, Actor, ConnectionInit, Close, Start, ClientStop, SendStop
<1>1. PICK ms \in Seq(CtlP!Command) : Sent(ms)
  BY OwnSends
<1>2. ASSUME NEW o \in Ops, pc'[o] = "idle" \/ plan[o].kind # "subscribe"
      PROVE  Absent(o)'
  <2>1. Absent(o)
    BY <1>2, OwnStarts DEF OwnershipInv, Quiet
  <2>2. ~RootsSent(o, ms)
    BY <1>2 DEF RootsSent, SessionInv, SessionOK
  <2> QED
    BY <1>0, <1>1, <2>1, <2>2, AsksOwn, SendKeepsAbsent DEF Ids
<1>3. ASSUME NEW o \in Ops, pc'[o] \in Ending
      PROVE  Settled(o)'
  <2>1. CASE Send(<<StopOf(o)>>)
    BY <1>0, <2>1, StopSettles DEF OwnershipInv
  <2>2. CASE Settled(o) /\ RootsSent(o, ms)
    <3>1. pc[o] = "idle" /\ task # "running"
      BY <1>3, <2>2 DEF RootsSent, Ending, SessionInv, SessionOK
    <3>2. Absent(o)
      BY <3>1 DEF OwnershipInv, Quiet
    <3> QED
      BY <1>0, <1>1, <3>1, <3>2, SendKeepsAbsent DEF Settled, Ids
  <2>3. CASE Settled(o) /\ ~RootsSent(o, ms)
    BY <1>0, <1>1, <2>3, AsksOwn, SendKeepsSettled
  <2> QED
    BY <1>3, <2>1, <2>2, <2>3, OwnEnds
<1> QED
  BY <1>0, <1>2, <1>3 DEF Quiet

LEMMA OwnKeepsOwnership ==
  ASSUME SessionInv, OwnershipInv, Actor \/ \E p \in Ops : Stream(p)
  PROVE  OwnershipInv'
<1>1. SessionInv' /\ UNCHANGED taskVars
  BY OwnSteps
<1>2. PICK ms \in Seq(CtlP!Command) : Sent(ms)
  BY OwnSends
<1>3. UsesMade' /\ CtlP!TxKnown'
  BY <1>1, <1>2, SendKeepsUses DEF OwnershipInv
<1>4. Dead'
  BY <1>1, <1>2 DEF OwnershipInv, Dead, Sent, taskVars, CtlP!NoSub
<1> QED
  BY <1>1, <1>3, <1>4, OwnKeepsResponses, OwnKeepsQuiet DEF OwnershipInv

-----------------------------------------------------------------------------
\* In every reachable state the uses of ids are those of the operations'
\* calls, and what is idle, refused or over has nothing subscribed that the
\* commands in line will not stop.
THEOREM OwnershipInvariance == Spec => []OwnershipInv
<1>1. Init => OwnershipInv
  <2> SUFFICES ASSUME Init PROVE OwnershipInv
    OBVIOUS
  <2>1. CtlP!Init
    BY SameState DEF Init
  <2>2. Line = <<>> /\ \A i \in Ids : subscribes[i] = CtlP!NoSub
    BY <2>1 DEF CtlP!Init, Line, CtlP!Line
  <2>3. \A i \in Ids : \A c \in Chans : ~CtlP!UsedBy(i, c)
    BY <2>1 DEF CtlP!Init, CtlP!UsedBy, CtlP!Queued, CtlP!InLink
  <2>4. \A c \in Chans : inbox[c] = <<>>
    BY <2>1 DEF CtlP!Init
  <2>5. Quiet
    BY <2>2 DEF Quiet, Absent, Ending, Ids, Init
  <2> QED
    BY <2>2, <2>3, <2>4, <2>5
       DEF OwnershipInv, UsesMade, CtlP!TxKnown, ResponsesById, Dead
<1>2. SessionInv /\ OwnershipInv /\ [Next]_vars => OwnershipInv'
  <2> SUFFICES ASSUME SessionInv, OwnershipInv, [Next]_vars PROVE OwnershipInv'
    OBVIOUS
  <2>1. CASE Next
    BY <2>1, OwnKeepsOwnership, TaskKeepsOwnership DEF Next
  <2>2. CASE UNCHANGED vars
    <3>1. Line' = Line /\ CtlP!Queued' = CtlP!Queued
      BY <2>2 DEF vars, ctlVars, Line, CtlP!Line, CtlP!Queued, CtlP!Idle
    <3>2. \A i \in Ids, c \in Chans : Made(i, c)' <=> Made(i, c)
      BY <2>2 DEF vars, opVars, Made
    <3>3. \A i \in Ids, c \in Chans : CtlP!UsedBy(i, c)' <=> CtlP!UsedBy(i, c)
      BY <2>2, <3>1 DEF vars, ctlVars, CtlP!UsedBy, CtlP!InLink, CtlP!NoSub, CtlP!Fault
    <3>4. UsesMade' /\ CtlP!TxKnown'
      BY <2>2, <3>2, <3>3 DEF vars, ctlVars, OwnershipInv, UsesMade, CtlP!TxKnown, CtlP!NoSub
    <3>5. Dead'
      BY <2>2, <3>1 DEF vars, ctlVars, OwnershipInv, Dead, CtlP!NoSub
    <3>6. ResponsesById'
      <4>1. inbox' = inbox /\ lastReq' = lastReq
        BY <2>2 DEF vars, ctlVars, opVars
      <4> QED
        BY <4>1 DEF OwnershipInv, ResponsesById, SameId, Made
    <3>7. Quiet'
      BY <2>2, <3>1 DEF vars, ctlVars, actorVars, opVars, OwnershipInv, Quiet, Settled, Absent,
                        CtlP!NoSub
    <3> QED
      BY <3>4, <3>5, <3>6, <3>7 DEF OwnershipInv
  <2> QED
    BY <2>1, <2>2
<1> QED
  BY SessionInvariance, <1>1, <1>2, PTL DEF Spec

\* A subscription in the table feeds the operation whose id it has, and that
\* operation receives only what was sent for it, although any fetch of any
\* operation may have had the id of another's.
THEOREM SubscriptionsOwnChannel == Spec => []OwnChannel
<1>1. OwnershipInv => OwnChannel
  <2> SUFFICES ASSUME OwnershipInv, NEW o \in Ops
               PROVE  /\ subscribes[o] # Ctl!NoSub => subscribes[o].tx = Main(o)
                      /\ \A k \in DOMAIN inbox[Main(o)] : inbox[Main(o)][k] = Main(o)
    BY DEF OwnChannel
  <2>1. ASSUME subscribes[o] # Ctl!NoSub
        PROVE  subscribes[o].tx = Main(o)
    <3>1. subscribes[o].tx \in Chans /\ CtlP!UsedBy(o, subscribes[o].tx) /\ o \in Ids
      BY <2>1, SameState DEF OwnershipInv, CtlP!TxKnown, CtlP!UsedBy, Ids
    <3> QED
      BY <3>1, MadeMain DEF OwnershipInv, UsesMade
  <2>2. ASSUME NEW k \in DOMAIN inbox[Main(o)]
        PROVE  inbox[Main(o)][k] = Main(o)
    <3>1. Main(o) \in Chans
      BY ChansType, MaxReqAssumption DEF Main
    <3>2. PICK i \in Ids : Made(i, Main(o)) /\ Made(i, inbox[Main(o)][k])
      BY <2>2, <3>1 DEF OwnershipInv, ResponsesById, SameId
    <3>3. i = o
      BY <3>2, MadeMain
    <3> QED
      BY <3>2, <3>3, MadeMain
  <2> QED
    BY <2>1, <2>2
<1> QED
  BY OwnershipInvariance, <1>1, PTL

\* What reaches the n-th fetch of an operation was sent for the n-th fetch of
\* some operation, and for no subscription.
RoutedByNumber ==
    \A o \in Ops, n \in 1..MaxReq :
        \A k \in DOMAIN inbox[<<o, n>>] : \E p \in Ops : inbox[<<o, n>>][k] = <<p, n>>

LEMMA MadeFetch ==
  ASSUME NEW o \in Ops, NEW n \in 1..MaxReq, NEW d, SameId(<<o, n>>, d)
  PROVE  \E p \in Ops : d = <<p, n>> /\ n <= lastReq[o] /\ n <= lastReq[p]
<1>1. PICK i \in Ids : Made(i, <<o, n>>) /\ Made(i, d)
  BY DEF SameId
<1>2. n # 0 /\ n \notin Ops
  BY OpsAssumption, MaxReqAssumption
<1>3. i = n /\ n <= lastReq[o]
  BY <1>1, <1>2 DEF Made
<1>4. PICK p \in Ops, m \in 0..MaxReq :
          d = <<p, m>> /\ i = (IF m = 0 THEN p ELSE m) /\ m <= lastReq[p]
  BY <1>1 DEF Made
<1>5. m = n
  BY <1>2, <1>3, <1>4
<1> QED
  BY <1>3, <1>4, <1>5

\* Where ids are used again, by other operations or while late messages of an
\* earlier use are on their way, the damage stays among fetches of one number:
\* no fetch is answered with what another of its own operation asked for, nor
\* with what was sent for a subscription.
THEOREM FetchesRoutedByNumber == Spec => []RoutedByNumber
<1>1. OwnershipInv => RoutedByNumber
  <2> SUFFICES ASSUME OwnershipInv, NEW o \in Ops, NEW n \in 1..MaxReq,
                      NEW k \in DOMAIN inbox[<<o, n>>]
               PROVE  \E p \in Ops : inbox[<<o, n>>][k] = <<p, n>>
    BY DEF RoutedByNumber
  <2>1. <<o, n>> \in Chans
    BY ChansType, MaxReqAssumption
  <2> QED
    BY <2>1, MadeFetch DEF OwnershipInv, ResponsesById
<1> QED
  BY OwnershipInvariance, <1>1, PTL

\* An operation that failed, ended or was completed leaves no subscription
\* behind that the controller will not be told to stop.
THEOREM NoneOrphaned == Spec => []NoOrphan
<1>1. SessionInv /\ OwnershipInv => NoOrphan
  <2> SUFFICES ASSUME SessionInv, OwnershipInv, NEW o \in Ops, pc[o] \in Ending,
                      subscribes[o] # Ctl!NoSub
               PROVE  StopOf(o) \in ToSet(commands)
    BY DEF NoOrphan, Ending
  <2>1. PICK k \in DOMAIN Line : Line[k] = StopOf(o)
    BY SameState DEF OwnershipInv, Quiet, Settled, Absent
  <2>2. StopOf(o) \in CtlP!Queued /\ StopOf(o).op = "Stop"
    BY <2>1, LineType, StopType
  <2>3. busy # CtlP!Idle => busy.cmd.op = "Subscribe"
    BY DEF SessionInv, CtlP!RestOK, CtlP!Connecting, CtlP!SubscribeCommand
  <2> QED
    BY <2>2, <2>3 DEF CtlP!Queued, ToSet
<1> QED
  BY SessionInvariance, OwnershipInvariance, <1>1, PTL

-----------------------------------------------------------------------------
(* The assertion of handle_command_subscribe.                               *)

\* At most one operation of the session fetches over its controller: the others
\* are subscriptions whose responses need nothing else.
OneFetcher == \A p \in Plans : \A a, b \in Ops : p[a].most > 0 /\ p[b].most > 0 => a = b

SameCall(m, q) == m.op = "Subscribe" /\ q.op = "Subscribe" /\ m.id = q.id /\ m.service = q.service

\* No id asks for a service twice, nor for one that it has.
Once ==
    /\ \A j, k \in DOMAIN Line : SameCall(Line[j], Line[k]) => j = k
    /\ \A k \in DOMAIN Line :
          Line[k].op = "Subscribe" => Line[k].service \notin subscribes[Line[k].id].services

\* The ids above every counter are free.
Fresh == \A n \in 1..MaxReq : (\A o \in Ops : lastReq[o] < n) => Absent(n)

WithinPlan == \A o \in Ops : lastReq[o] <= plan[o].most

OnceInv == Once /\ Fresh /\ WithinPlan /\ NoPanic

LEMMA LineIds ==
  ASSUME SessionInv, NEW k \in DOMAIN Line
  PROVE  Line[k].id \in Ids
<1>1. Line[k] \in CtlP!Command
  BY LineType
<1> QED
  BY <1>1 DEF CtlP!Command, CtlP!SubscribeCommand, CtlP!StopCommand

LEMMA TaskKeepsOnce ==
  ASSUME SessionInv, CtlP!LineStep, Once
  PROVE  Once'
<1> USE DEF Line
<1>1. Line \in Seq(CtlP!Command) /\ subscribes \in [Ids -> CtlP!SubscribeInfo]
  BY LineType, TableType
<1>2. CASE CtlP!LineKept
  <2>1. \A i \in Ids : subscribes'[i].services \subseteq subscribes[i].services
    BY <1>1, <1>2 DEF CtlP!LineKept, CtlP!NoSub
  <2> QED
    BY <1>2, <2>1, LineIds DEF CtlP!LineKept, Once
<1>3. ASSUME CtlP!HeadDone
      PROVE  /\ Head(Line) = Line[1] /\ 1 \in DOMAIN Line /\ Line' = Tail(Line)
             /\ \A k \in DOMAIN Line' : /\ k \in Nat /\ k + 1 \in DOMAIN Line /\ k + 1 # 1
                                        /\ Line'[k] = Line[k + 1]
  <2>1. Line # <<>> /\ Line' = Tail(Line)
    BY <1>3 DEF CtlP!HeadDone
  <2>2. \A k \in DOMAIN Tail(Line) : k \in Nat /\ k + 1 # 1
    BY <1>1, <2>1
  <2> QED
    BY <1>1, <2>1, <2>2, Popped
<1>4. ASSUME CtlP!HeadDone
      PROVE  \A j, k \in DOMAIN Line' : SameCall(Line'[j], Line'[k]) => j = k
  <2> TAKE j, k \in DOMAIN Line'
  <2> HAVE SameCall(Line'[j], Line'[k])
  <2>1. j + 1 = k + 1
    BY <1>3, <1>4 DEF Once
  <2> QED
    BY <1>3, <1>4, <2>1
<1>5. CASE CtlP!HeadStopped \/ CtlP!HeadRefused
  <2>1. /\ CtlP!HeadDone
        /\ \A i \in Ids : subscribes'[i].services \subseteq subscribes[i].services
    BY <1>1, <1>5 DEF CtlP!HeadStopped, CtlP!HeadRefused, CtlP!NoSub
  <2> QED
    BY <1>3, <1>4, <2>1, LineIds DEF Once
<1>6. CASE CtlP!HeadEntered
  <2> DEFINE m == Head(Line)
  <2>1. /\ CtlP!HeadDone /\ m.op = "Subscribe"
        /\ m.id \in Ids
    BY <1>3, <1>6, LineIds DEF CtlP!HeadEntered
  <2>2. \A i \in Ids : subscribes'[i].services \subseteq
            subscribes[i].services \cup IF i = m.id THEN {m.service} ELSE {}
    BY <1>1, <1>6 DEF CtlP!HeadEntered
  <2>3. ASSUME NEW k \in DOMAIN Line', Line'[k].op = "Subscribe"
        PROVE  Line'[k].service \notin subscribes'[Line'[k].id].services
    <3>1. /\ Line'[k] = Line[k + 1] /\ k + 1 \in DOMAIN Line /\ k + 1 # 1
          /\ m = Line[1] /\ 1 \in DOMAIN Line
      BY <1>3, <2>1
    <3>2. ~SameCall(m, Line[k + 1]) /\ Line[k + 1].id \in Ids
      BY <3>1, LineIds DEF Once
    <3>3. Line[k + 1].service \notin subscribes[Line[k + 1].id].services
      BY <2>3, <3>1 DEF Once
    <3> HIDE DEF m, Line
    <3> QED
      BY <2>1, <2>2, <2>3, <3>1, <3>2, <3>3 DEF SameCall
  <2> QED
    BY <1>4, <2>1, <2>3 DEF Once
<1>7. CASE CtlP!TaskOver
  BY <1>7 DEF CtlP!TaskOver, Once
<1> QED
  BY <1>2, <1>5, <1>6, <1>7 DEF CtlP!LineStep

LEMMA TaskKeepsOnceInv ==
  ASSUME SessionInv, OnceInv, Task \/ Upstreams, UNCHANGED <<actorVars, opVars>>
  PROVE  OnceInv'
<1>1. CtlP!LineStep
  BY TaskLine
<1>2. Once'
  BY <1>1, TaskKeepsOnce DEF OnceInv
<1>3. ASSUME NEW n \in 1..MaxReq, \A o \in Ops : lastReq'[o] < n
      PROVE  Absent(n)'
  BY <1>1, <1>3, TaskKeepsAbsent DEF OnceInv, Fresh, opVars, Ids
<1>4. NoPanic'
  <2>1. Line # <<>> => Head(Line) = Line[1] /\ 1 \in DOMAIN Line
    BY LineType, Popped
  <2> QED
    BY <1>1, <2>1 DEF OnceInv, Once, NoPanic, Line, CtlP!LineStep, CtlP!LineKept, CtlP!HeadDone,
       CtlP!HeadStopped, CtlP!HeadRefused, CtlP!HeadEntered, CtlP!TaskOver
<1> QED
  BY <1>2, <1>3, <1>4 DEF OnceInv, Fresh, WithinPlan, actorVars, opVars

LEMMA SendKeepsOnce ==
  ASSUME SessionInv, Once, NEW ms \in Seq(CtlP!Command), Sent(ms), subscribes' = subscribes,
         \A j, k \in DOMAIN ms : SameCall(ms[j], ms[k]) => j = k,
         \A k \in DOMAIN ms : ms[k].op = "Subscribe" => Absent(ms[k].id)
  PROVE  Once'
<1>1. ASSUME NEW k \in DOMAIN Line'
      PROVE  \/ k \in DOMAIN Line /\ Line'[k] = Line[k]
             \/ \E j \in DOMAIN ms : k = Len(Line) + j /\ Line'[k] = ms[j]
  BY SentParts
<1>2. ASSUME NEW j \in DOMAIN Line, NEW k \in DOMAIN ms
      PROVE  ~SameCall(Line[j], ms[k])
  BY <1>2 DEF SameCall, Absent, Asks
<1>3. \A j, k \in DOMAIN Line' : SameCall(Line'[j], Line'[k]) => j = k
  <2> TAKE j, k \in DOMAIN Line'
  <2> HAVE SameCall(Line'[j], Line'[k])
  <2>1. SameCall(Line'[k], Line'[j])
    BY DEF SameCall
  <2>2. CASE j \in DOMAIN Line /\ Line'[j] = Line[j]
    BY <1>1, <1>2, <2>2 DEF Once
  <2>3. CASE k \in DOMAIN Line /\ Line'[k] = Line[k]
    BY <1>1, <1>2, <2>1, <2>3 DEF Once
  <2>4. CASE /\ \E i \in DOMAIN ms : j = Len(Line) + i /\ Line'[j] = ms[i]
             /\ \E i \in DOMAIN ms : k = Len(Line) + i /\ Line'[k] = ms[i]
    BY <2>4
  <2> QED
    BY <1>1, <2>2, <2>3, <2>4
<1>4. ASSUME NEW k \in DOMAIN Line', Line'[k].op = "Subscribe"
      PROVE  Line'[k].service \notin subscribes'[Line'[k].id].services
  BY <1>1, <1>4 DEF Once, Absent, CtlP!NoSub
<1> QED
  BY <1>3, <1>4 DEF Once

LEMMA OwnKeepsOnceInv ==
  ASSUME OneFetcher, SessionInv, OwnershipInv, OnceInv, Actor \/ \E p \in Ops : Stream(p)
  PROVE  OnceInv'
<1>0. UNCHANGED <<subscribes, task>> /\ plan' = plan
  BY OwnSteps, OwnStarts DEF taskVars, Actor, ConnectionInit, Close, Start, ClientStop, SendStop
<1>1. PICK ms \in Seq(CtlP!Command) : Sent(ms)
  BY OwnSends
<1>2. lastReq \in [Ops -> 0..MaxReq] /\ \A o \in Ops : plan[o].most \in 0..MaxReq
  BY PlanType DEF SessionInv, SessionOK
<1>3. CASE StopsSent(ms)
  <2>1. Once'
    BY <1>0, <1>1, <1>3, SendKeepsOnce DEF OnceInv, StopsSent, SameCall
  <2>2. \A n \in 1..MaxReq : Absent(n) => Absent(n)'
    BY <1>0, <1>1, <1>3, SendKeepsAbsent DEF StopsSent, Asks, Ids
  <2> QED
    BY <1>0, <1>3, <2>1, <2>2 DEF OnceInv, Fresh, WithinPlan, NoPanic, StopsSent
<1>4. ASSUME NEW o \in Ops, RootsSent(o, ms)
      PROVE  OnceInv'
  <2>1. Absent(o) /\ o \notin 1..MaxReq
    BY <1>4, OpsAssumption DEF RootsSent, OwnershipInv, Quiet
  <2>2. Once'
    BY <1>0, <1>1, <1>4, <2>1, SendKeepsOnce DEF OnceInv, RootsSent, SameCall, Distinct, Asks
  <2>3. \A n \in 1..MaxReq : Absent(n) => Absent(n)'
    BY <1>0, <1>1, <1>4, <2>1, SendKeepsAbsent DEF RootsSent, Asks, Ids
  <2> QED
    BY <1>0, <1>4, <2>2, <2>3 DEF OnceInv, Fresh, WithinPlan, NoPanic, RootsSent
<1>5. ASSUME NEW o \in Ops, FetchesSent(o, ms)
      PROVE  OnceInv'
  <2>1. \A k \in DOMAIN ms : /\ k \in 1..Len(ms) /\ lastReq[o] + k \in 1..MaxReq
                             /\ ms[k].op = "Subscribe" /\ ms[k].id = lastReq[o] + k
    BY <1>5 DEF FetchesSent, Asks
  <2>2. Len(ms) \in Nat /\ lastReq[o] \in Nat /\ lastReq[o] + Len(ms) <= plan[o].most
    BY <1>2, <1>5, MaxReqAssumption DEF FetchesSent
  <2>3. ASSUME NEW k \in DOMAIN ms
        PROVE  Absent(ms[k].id)
    <3>1. plan[o].most > 0
      BY <1>2, <2>1, <2>2
    <3>2. \A p \in Ops : p # o => lastReq[p] = 0
      BY <1>2, <3>1, MaxReqAssumption DEF OneFetcher, SessionInv, SessionOK, OnceInv, WithinPlan
    <3>3. \A p \in Ops : lastReq[p] < lastReq[o] + k
      BY <2>1, <2>2, <3>2
    <3> QED
      BY <2>1, <3>3 DEF OnceInv, Fresh
  <2>4. \A j, k \in DOMAIN ms : SameCall(ms[j], ms[k]) => j = k
    BY <2>1, <2>2 DEF SameCall
  <2>5. Once'
    BY <1>0, <1>1, <2>3, <2>4, SendKeepsOnce DEF OnceInv
  <2>6. lastReq' = [lastReq EXCEPT ![o] = lastReq[o] + Len(ms)]
    BY <1>5 DEF FetchesSent
  <2>7. ASSUME NEW n \in 1..MaxReq, \A p \in Ops : lastReq'[p] < n
        PROVE  Absent(n)'
    <3>1. lastReq[o] + Len(ms) < n /\ \A p \in Ops : lastReq[p] < n
      BY <1>2, <2>2, <2>6, <2>7
    <3>2. Absent(n)
      BY <3>1 DEF OnceInv, Fresh
    <3>3. \A k \in DOMAIN ms : ~Asks(ms[k], n)
      BY <2>1, <2>2, <3>1 DEF Asks
    <3> QED
      BY <1>0, <1>1, <3>2, <3>3, SendKeepsAbsent DEF Ids
  <2>8. WithinPlan'
    BY <1>0, <1>2, <2>2, <2>6 DEF OnceInv, WithinPlan
  <2> QED
    BY <1>0, <2>5, <2>7, <2>8 DEF OnceInv, Fresh, NoPanic
<1> QED
  BY <1>1, <1>3, <1>4, <1>5 DEF Sent

LEMMA OnceInvariance ==
  ASSUME OneFetcher
  PROVE  Spec => []OnceInv
<1>1. Init => OnceInv
  <2> SUFFICES ASSUME Init PROVE OnceInv
    OBVIOUS
  <2>1. CtlP!Init
    BY SameState DEF Init
  <2>2. Line = <<>> /\ task = "running" /\ \A i \in Ids : subscribes[i] = CtlP!NoSub
    BY <2>1 DEF CtlP!Init, Line, CtlP!Line
  <2>3. \A n \in 1..MaxReq : Absent(n)
    BY <2>2 DEF Absent, Ids
  <2>4. WithinPlan
    BY PlansAssumption, MaxReqAssumption DEF Init, WithinPlan
  <2> QED
    BY <2>2, <2>3, <2>4 DEF OnceInv, Once, Fresh, NoPanic
<1>2. SessionInv /\ OwnershipInv /\ OnceInv /\ [Next]_vars => OnceInv'
  <2> SUFFICES ASSUME SessionInv, OwnershipInv, OnceInv, [Next]_vars PROVE OnceInv'
    OBVIOUS
  <2>1. CASE Next
    BY <2>1, OwnKeepsOnceInv, TaskKeepsOnceInv DEF Next
  <2>2. CASE UNCHANGED vars
    <3>1. Line' = Line
      BY <2>2 DEF vars, ctlVars, Line, CtlP!Line, CtlP!Idle
    <3> QED
      BY <2>2, <3>1 DEF vars, ctlVars, actorVars, opVars, OnceInv, Once, Fresh, WithinPlan,
                        NoPanic, Absent, CtlP!NoSub
  <2> QED
    BY <2>1, <2>2
<1> QED
  BY SessionInvariance, OwnershipInvariance, <1>1, <1>2, PTL DEF Spec

\* As long as one operation of the session alone fetches, the assertion of
\* handle_command_subscribe holds.  (Two that fetch at once do break it.)
THEOREM OneFetcherNeverPanics ==
  ASSUME OneFetcher
  PROVE  Spec => []NoPanic
<1>1. OnceInv => NoPanic
  BY DEF OnceInv
<1> QED
  BY OnceInvariance, <1>1, PTL

\* As long as one operation of the session alone fetches, each of its fetches
\* is answered with what was sent for it, however many it has under way beside
\* any subscriptions.  (Two that fetch get each other's responses.)
THEOREM OneFetcherOwnResponses ==
  ASSUME OneFetcher
  PROVE  Spec => []OwnResponse
<1>1. SessionInv /\ OwnershipInv /\ OnceInv => OwnResponse
  <2> SUFFICES ASSUME SessionInv, OwnershipInv, OnceInv, NEW o \in Ops, NEW n \in 1..MaxReq,
                      NEW k \in DOMAIN inbox[<<o, n>>]
               PROVE  inbox[<<o, n>>][k] = <<o, n>>
    BY DEF OwnResponse
  <2>1. <<o, n>> \in Chans
    BY ChansType, MaxReqAssumption
  <2>2. PICK p \in Ops : /\ inbox[<<o, n>>][k] = <<p, n>>
                         /\ n <= lastReq[o] /\ n <= lastReq[p]
    BY <2>1, MadeFetch DEF OwnershipInv, ResponsesById
  <2>3. \A q \in Ops : plan[q].most \in 0..MaxReq /\ lastReq[q] \in 0..MaxReq
                       /\ lastReq[q] <= plan[q].most
    BY PlanType DEF SessionInv, SessionOK, OnceInv, WithinPlan
  <2>4. plan[o].most > 0 /\ plan[p].most > 0
    BY <2>2, <2>3, MaxReqAssumption
  <2>5. o = p
    BY <2>4 DEF OneFetcher, SessionInv, SessionOK
  <2> QED
    BY <2>2, <2>5
<1> QED
  BY SessionInvariance, OwnershipInvariance, OnceInvariance, <1>1, PTL

=============================================================================

------------------------- MODULE WsControllerOwnIds -------------------------
(* Who uses an id: a queued command, the table, an upstream or a message on *)
(* its way.  No step but a caller's adds a use, so that an id that callers  *)
(* do not share belongs to one channel, and a caller that is told Ok is in  *)
(* the table.  What callers that do share ids can rely on is for            *)
(* WsSessionProofs, which builds on the lemmas here.                        *)
EXTENDS WsControllerProofs

\* Something remembers that the channel c subscribed under the id i.
UsedBy(i, c) ==
    \/ \E m \in Queued : m.op = "Subscribe" /\ m.id = i /\ m.tx = c
    \/ subscribes[i] # NoSub /\ subscribes[i].tx = c
    \/ \E s \in Services : <<i, c>> \in remote[s]
    \/ \E s \in Services : \E m \in InLink(s) : m.id = i /\ m.src = c

OneUser == \A i \in Ids : \A c, d \in Chans : UsedBy(i, c) /\ UsedBy(i, d) => c = d

\* An entry of the table has a channel.
TxKnown == \A i \in Ids : subscribes[i] # NoSub => subscribes[i].tx \in Chans

OwnInv == OneUser /\ TxKnown

\* A step that brings no new use.
KeepsUses == \A i \in Ids : \A c \in Chans : UsedBy(i, c)' => UsedBy(i, c)

LEMMA KeepsApart == OneUser /\ KeepsUses => OneUser'
BY DEF OneUser, KeepsUses

-----------------------------------------------------------------------------
(* Where a use can come from: all that a step leaves was there before it.   *)

UsesFrom(r, sub, ls) ==
    /\ \A s \in Services : \A p \in r[s] : p \in Ids \X Chans /\ UsedBy(p[1], p[2])
    /\ \A i \in Ids : sub[i] # NoSub => UsedBy(i, sub[i].tx)
    /\ \A s \in Services : \A k \in DOMAIN ls[s] :
          ls[s][k] # Fault => UsedBy(ls[s][k].id, ls[s][k].src)

\* The wire and the table hold nothing that is not in use.
LEMMA PresentUses ==
  ASSUME RestOK
  PROVE  UsesFrom(remote, subscribes, link)
<1>1. \A s \in Services : \A p \in remote[s] : p \in Ids \X Chans /\ p = <<p[1], p[2]>>
  BY DEF RestOK
<1>2. \A s \in Services : \A p \in remote[s] : p \in Ids \X Chans /\ UsedBy(p[1], p[2])
  BY <1>1 DEF UsedBy
<1>3. \A s \in Services : \A k \in DOMAIN link[s] :
          link[s][k] # Fault => UsedBy(link[s][k].id, link[s][k].src)
  BY DEF UsedBy, InLink
<1> QED
  BY <1>2, <1>3 DEF UsesFrom, UsedBy

\* Nor does a step that leaves only what was on the wire, in the table or queued.
LEMMA NoNewUse ==
  ASSUME UsesFrom(remote', subscribes', link'),
         \A m \in Queued' : m.op = "Subscribe" => m \in Queued
  PROVE  KeepsUses
<1>1. ASSUME NEW i \in Ids, NEW c \in Chans, UsedBy(i, c)'
      PROVE  UsedBy(i, c)
  <2>1. CASE \E m \in Queued' : m.op = "Subscribe" /\ m.id = i /\ m.tx = c
    BY <2>1 DEF UsedBy
  <2>2. CASE subscribes'[i] # NoSub /\ subscribes'[i].tx = c
    BY <2>2 DEF UsesFrom
  <2>3. CASE \E s \in Services : <<i, c>> \in remote'[s]
    BY <2>3 DEF UsesFrom
  <2>4. CASE \E s \in Services : \E m \in InLink(s)' : m.id = i /\ m.src = c
    BY <2>4 DEF UsesFrom, InLink
  <2> QED
    BY <1>1, <2>1, <2>2, <2>3, <2>4 DEF UsedBy
<1> QED
  BY <1>1 DEF KeepsUses

\* Finishing an id, with the oldest message of a link taken off or not.
LEMMA FinishUses ==
  ASSUME RestOK, TablesInv, TxKnown, NEW i \in Ids, NEW ls,
         \/ ls = link
         \/ \E s \in Services : link[s] # <<>> /\ ls = Popped(s),
         FinishSubscribe(i, ls),
         \A m \in Queued' : m.op = "Subscribe" => m \in Queued
  PROVE  KeepsUses /\ TxKnown'
<1>1. /\ subscribes' = [subscribes EXCEPT ![i] = NoSub]
      /\ link' = [s \in Services |-> IF s \in LastUse(i) THEN <<>> ELSE ls[s]]
      /\ remote' = [s \in Services |-> IF s \in LastUse(i) THEN {} ELSE remote[s]]
  BY DEF FinishSubscribe, Finish
<1>2. \A s \in Services : \A k \in DOMAIN ls[s] :
          \E j \in DOMAIN link[s] : ls[s][k] = link[s][j]
  <2>1. ASSUME NEW s \in Services, NEW t \in Services, link[t] # <<>>, ls = Popped(t),
               NEW k \in DOMAIN ls[s]
        PROVE  \E j \in DOMAIN link[s] : ls[s][k] = link[s][j]
    <3>1. CASE s = t
      <4>1. link[s] \in Seq(Message) /\ ls[s] = Tail(link[s])
        BY <2>1, <3>1 DEF Popped, RestOK
      <4>2. k + 1 \in DOMAIN link[s] /\ Tail(link[s])[k] = link[s][k + 1]
        BY <2>1, <3>1, <4>1
      <4> QED
        BY <4>1, <4>2
    <3>2. CASE s # t
      BY <2>1, <3>2 DEF Popped, RestOK
    <3> QED
      BY <3>1, <3>2
  <2> QED
    BY <2>1
<1>3. UsesFrom(remote, subscribes, link)
  BY PresentUses
<1>4. subscribes \in [Ids -> SubscribeInfo]
  BY DEF TablesInv, TablesOK
<1>5. UsesFrom(remote', subscribes', link')
  <2>1. \A j \in Ids : subscribes'[j] # NoSub => UsedBy(j, subscribes'[j].tx)
    BY <1>1, <1>3, <1>4 DEF UsesFrom
  <2>2. \A s \in Services : \A p \in remote'[s] : p \in Ids \X Chans /\ UsedBy(p[1], p[2])
    BY <1>1, <1>3 DEF UsesFrom
  <2>3. \A s \in Services : \A k \in DOMAIN link'[s] :
            link'[s][k] # Fault => UsedBy(link'[s][k].id, link'[s][k].src)
    BY <1>1, <1>2, <1>3 DEF UsesFrom
  <2> QED
    BY <2>1, <2>2, <2>3 DEF UsesFrom
<1>6. TxKnown'
  BY <1>1, <1>4 DEF TxKnown
<1> QED
  BY <1>5, <1>6, NoNewUse

\* Whatever ends the task forgets every use.
LEMMA TerminateUses ==
  ASSUME NEW how, Terminate(how)
  PROVE  KeepsUses /\ TxKnown'
<1>1. /\ Queued' = {}
      /\ \A i \in Ids : subscribes'[i] = NoSub
      /\ \A s \in Services : remote'[s] = {} /\ InLink(s)' = {}
  BY DEF Terminate, Queued, InLink
<1>2. \A i \in Ids : \A c \in Chans : ~UsedBy(i, c)'
  BY <1>1 DEF UsedBy
<1> QED
  BY <1>1, <1>2 DEF KeepsUses, TxKnown

\* A command moves from the queue to the table and the upstream.
LEMMA RegisterUses ==
  ASSUME RestOK, TablesInv, TxKnown, NEW m \in SubscribeCommand, m \in Queued,
         NEW ks, NEW rest, \A k \in DOMAIN rest : rest[k] \in Queued,
         Register(m, ks, rest)
  PROVE  KeepsUses /\ TxKnown'
<1>1. CASE m.service \in subscribes[m.id].services
  BY <1>1, TerminateUses DEF Register
<1>2. CASE m.service \notin subscribes[m.id].services
  <2> DEFINE entry == [services |-> subscribes[m.id].services \cup {m.service},
                       tx |-> IF subscribes[m.id] = NoSub THEN m.tx ELSE subscribes[m.id].tx]
  <2>0. m.op = "Subscribe" /\ m.service \in Services /\ m.id \in Ids /\ m.tx \in Chans
    BY DEF SubscribeCommand
  <2>1. subscribes \in [Ids -> SubscribeInfo]
    BY DEF TablesInv, TablesOK
  <2>2. /\ subscribes' = [subscribes EXCEPT ![m.id] = entry]
        /\ remote' = [remote EXCEPT ![m.service] = remote[m.service] \cup {<<m.id, m.tx>>}]
        /\ busy' = Idle /\ commands' = rest /\ link' = link
    BY <1>2, <2>0, <2>1 DEF Register, Enter, RestOK
  <2>3. UsedBy(m.id, m.tx)
    BY <2>0 DEF UsedBy
  <2>4. UsesFrom(remote, subscribes, link)
    BY PresentUses
  <2>5. entry.tx \in Chans /\ UsedBy(m.id, entry.tx)
    BY <2>0, <2>3, <2>4 DEF TxKnown, UsesFrom
  <2>6. UsesFrom(remote', subscribes', link')
    <3>1. \A j \in Ids : subscribes'[j] # NoSub => UsedBy(j, subscribes'[j].tx)
      <4> HIDE DEF entry
      <4> QED
        BY <2>0, <2>1, <2>2, <2>4, <2>5 DEF UsesFrom
    <3>2. \A s \in Services : \A p \in remote'[s] : p \in Ids \X Chans /\ UsedBy(p[1], p[2])
      <4>1. \A s \in Services : \A p \in remote'[s] : p \in remote[s] \/ p = <<m.id, m.tx>>
        BY <2>2 DEF RestOK
      <4> QED
        BY <2>0, <2>3, <2>4, <4>1 DEF UsesFrom
    <3> QED
      BY <2>2, <2>4, <3>1, <3>2 DEF UsesFrom
  <2>7. \A q \in Queued' : q \in Queued
    BY <2>2 DEF Queued
  <2>8. TxKnown'
    BY <2>0, <2>1, <2>2, <2>5 DEF TxKnown
  <2> QED
    BY <2>6, <2>7, <2>8, NoNewUse
<1> QED
  BY <1>1, <1>2

-----------------------------------------------------------------------------
(* Every action of the controller keeps the ids apart.                      *)

\* The one action that brings a use: its id is unused, as the callers promise.
LEMMA SubscribeUses ==
  ASSUME ~SharedIds, RestOK, TablesInv, OneUser, TxKnown,
         NEW c \in Chans, NEW i \in Ids, NEW order \in Orders, Subscribe(c, i, order)
  PROVE  OneUser' /\ TxKnown'
<1>1. Unused(i) /\ UNCHANGED <<busy, subscribes, link, remote>>
  BY DEF Subscribe, taskVars, tableVars, wireVars
<1>2. \A d \in Chans : ~UsedBy(i, d)
  BY <1>1 DEF Unused, UsedBy, InLink
<1>3. ASSUME NEW q \in Queued'
      PROVE  q \in Queued \/ (q.id = i /\ q.tx = c)
  <2> DEFINE burst == [k \in DOMAIN order |-> [op |-> "Subscribe",
                          service |-> order[k], id |-> i, tx |-> c]]
  <2>1. commands' = commands \/ commands' = commands \o burst
    BY DEF Subscribe
  <2>2. PICK n \in Nat : n >= 1 /\ order \in [1..n -> Services]
    BY OrdersType
  <2>3. burst \in Seq(Command) /\ \A k \in DOMAIN burst : burst[k].id = i /\ burst[k].tx = c
    <3>1. \A k \in 1..n : burst[k] \in Command
      BY <2>2 DEF Command, SubscribeCommand
    <3>2. burst = [k \in 1..n |-> burst[k]]
      BY <2>2
    <3> QED
      BY <2>2, <3>1, <3>2
  <2>4. commands \in Seq(Command)
    BY DEF RestOK
  <2> HIDE DEF burst
  <2>5. \A k \in DOMAIN (commands \o burst) :
            \/ k \in DOMAIN commands /\ (commands \o burst)[k] = commands[k]
            \/ \E j \in DOMAIN burst : (commands \o burst)[k] = burst[j]
    <3> TAKE k \in DOMAIN (commands \o burst)
    <3>1. k \in 1..(Len(commands) + Len(burst))
      BY <2>3, <2>4
    <3>2. CASE k <= Len(commands)
      BY <2>3, <2>4, <3>1, <3>2
    <3>3. CASE k > Len(commands)
      <4>1. k - Len(commands) \in DOMAIN burst
        BY <2>3, <2>4, <3>1, <3>3
      <4>2. (commands \o burst)[k] = burst[k - Len(commands)]
        BY <2>3, <2>4, <3>1, <3>3
      <4> QED
        BY <4>1, <4>2
    <3> QED
      BY <2>4, <3>1, <3>2, <3>3
  <2>6. CASE \E k \in DOMAIN commands' : q = commands'[k]
    <3>1. PICK k \in DOMAIN commands' : q = commands'[k]
      BY <2>6
    <3>2. ASSUME k \in DOMAIN commands, q = commands[k]
          PROVE  q \in Queued
      BY <3>2 DEF Queued
    <3>3. ASSUME NEW j \in DOMAIN burst, q = burst[j]
          PROVE  q.id = i /\ q.tx = c
      BY <2>3, <3>3
    <3>4. \/ k \in DOMAIN commands /\ q = commands[k]
          \/ \E j \in DOMAIN burst : q = burst[j]
      BY <2>1, <2>5, <3>1
    <3> QED
      BY <3>2, <3>3, <3>4
  <2>7. CASE busy' # Idle /\ q = busy'.cmd
    BY <1>1, <2>7 DEF Queued
  <2> QED
    BY <1>3, <2>6, <2>7 DEF Queued
<1>4. ASSUME NEW j \in Ids, NEW d \in Chans, UsedBy(j, d)'
      PROVE  UsedBy(j, d) \/ (j = i /\ d = c)
  BY <1>1, <1>3, <1>4 DEF UsedBy, InLink
<1>5. OneUser'
  BY <1>2, <1>4 DEF OneUser
<1>6. TxKnown'
  BY <1>1 DEF TxKnown
<1> QED
  BY <1>5, <1>6

LEMMA CallersUses ==
  ASSUME ~SharedIds, RestOK, TablesInv, OneUser, TxKnown, Callers
  PROVE  OneUser' /\ TxKnown'
<1>1. ASSUME NEW i \in Ids, Stop(i)
      PROVE  OneUser' /\ TxKnown'
  <2>1. commands \in Seq(Command)
    BY DEF RestOK
  <2>2. commands' = Append(commands, [op |-> "Stop", id |-> i])
        /\ UNCHANGED <<busy, subscribes, link, remote>>
    BY <1>1 DEF Stop, taskVars, tableVars, wireVars
  <2>3. \A m \in Queued' : m \in Queued \/ m = [op |-> "Stop", id |-> i]
    BY <2>1, <2>2 DEF Queued
  <2>4. \A m \in Queued' : m.op = "Subscribe" => m \in Queued
    BY <2>3
  <2> QED
    BY <2>2, <2>4, PresentUses, NoNewUse, KeepsApart DEF TxKnown
<1>2. CASE DropHandle \/ \E c \in Chans : Receive(c) \/ DropReceiver(c)
  <2>1. UNCHANGED <<commands, busy, subscribes, link, remote>>
    BY <1>2 DEF DropHandle, Receive, DropReceiver, taskVars, tableVars, wireVars
  <2>2. Queued' = Queued
    BY <2>1 DEF Queued
  <2> QED
    BY <2>1, <2>2, PresentUses, NoNewUse, KeepsApart DEF TxKnown
<1> QED
  BY <1>1, <1>2, SubscribeUses DEF Callers

LEMMA TaskUses ==
  ASSUME RestOK, TablesInv, TxKnown, TakeCommand \/ Handshake
  PROVE  KeepsUses /\ TxKnown'
<1>0. ASSUME commands # <<>>
      PROVE  /\ Head(commands) \in Queued
             /\ \A k \in DOMAIN Tail(commands) : Tail(commands)[k] \in Queued
  <2>1. commands \in Seq(Command)
    BY DEF RestOK
  <2>2. Head(commands) = commands[1] /\ 1 \in DOMAIN commands
    BY <1>0, <2>1
  <2>3. \A k \in DOMAIN Tail(commands) :
            k + 1 \in DOMAIN commands /\ Tail(commands)[k] = commands[k + 1]
    BY <1>0, <2>1
  <2> QED
    BY <2>2, <2>3 DEF Queued
<1>1. CASE CommandJoin
  <2>1. Head(commands) \in SubscribeCommand /\ commands # <<>>
    BY <1>1, HeadCommand DEF CommandJoin
  <2> QED
    BY <1>0, <1>1, <2>1, RegisterUses DEF CommandJoin
<1>2. CASE CommandConnect
  <2>1. /\ UNCHANGED <<subscribes, link, remote>> /\ commands # <<>>
        /\ commands' = Tail(commands) /\ busy'.cmd = Head(commands)
    BY <1>2 DEF CommandConnect, tableVars, wireVars
  <2>2. \A m \in Queued' : m \in Queued
    BY <1>0, <2>1 DEF Queued
  <2> QED
    BY <2>1, <2>2, PresentUses, NoNewUse DEF TxKnown
<1>3. CASE CommandStop
  <2>1. /\ commands # <<>> /\ commands' = Tail(commands) /\ busy' = busy /\ busy = Idle
        /\ Head(commands).id \in Ids /\ FinishSubscribe(Head(commands).id, link)
    BY <1>3, HeadCommand DEF CommandStop, taskVars, Ready
  <2>2. \A m \in Queued' : m \in Queued
    BY <1>0, <2>1 DEF Queued
  <2> QED
    BY <2>1, <2>2, FinishUses
<1>4. CASE CommandsClosed
  BY <1>4, TerminateUses DEF CommandsClosed
<1>5. CASE SendInit
  <2>1. /\ UNCHANGED <<commands, subscribes, link, remote>>
        /\ busy' # Idle /\ busy'.cmd = busy.cmd /\ busy # Idle
    BY <1>5, ConnectingCommand DEF SendInit, tableVars, wireVars, Connecting, Idle
  <2>2. Queued' = Queued
    BY <2>1 DEF Queued
  <2> QED
    BY <2>1, <2>2, PresentUses, NoNewUse DEF TxKnown
<1>6. CASE ConnectionAck
  <2>1. busy.cmd \in SubscribeCommand /\ busy # Idle
    BY <1>6, ConnectingCommand DEF ConnectionAck, Connecting, Idle
  <2>2. busy.cmd \in Queued /\ \A k \in DOMAIN commands : commands[k] \in Queued
    BY <2>1 DEF Queued
  <2> QED
    BY <1>6, <2>1, <2>2, RegisterUses DEF ConnectionAck
<1>7. ASSUME NEW phase, ConnectFailed(phase)
      PROVE  KeepsUses /\ TxKnown'
  <2>1. UNCHANGED <<commands, subscribes, link, remote>> /\ busy' = Idle
    BY <1>7 DEF ConnectFailed, tableVars, wireVars
  <2>2. \A m \in Queued' : m \in Queued
    BY <2>1 DEF Queued
  <2> QED
    BY <2>1, <2>2, PresentUses, NoNewUse DEF TxKnown
<1> QED
  BY <1>1, <1>2, <1>3, <1>4, <1>5, <1>6, <1>7 DEF TakeCommand, Handshake

LEMMA EventUses ==
  ASSUME RestOK, TablesInv, TxKnown, Event
  PROVE  KeepsUses /\ TxKnown'
<1>1. PICK s \in Services : EventData(s) \/ EventComplete(s) \/ EventFault(s)
  BY DEF Event
<1> DEFINE m == Head(link[s])
<1>2. CASE EventFault(s)
  BY <1>2, TerminateUses DEF EventFault
<1>3. CASE EventData(s) \/ EventComplete(s)
  <2>1. link[s] # <<>> /\ m.kind \in {"Data", "Complete"} /\ m \in Message
    BY <1>3, PoppedType DEF EventData, EventComplete
  <2>2. m.id \in Ids
    BY <2>1 DEF Message, Fault
  <2>3. Queued' = Queued
    BY <1>3 DEF EventData, EventComplete, Queued, taskVars
  <2>4. CASE FinishSubscribe(m.id, Popped(s))
    BY <2>1, <2>2, <2>3, <2>4, FinishUses
  <2>5. CASE link' = Popped(s) /\ UNCHANGED <<tableVars, remote>>
    <3>1. link[s] \in Seq(Message)
      BY DEF RestOK
    <3>2. \A k \in DOMAIN Tail(link[s]) :
              k + 1 \in DOMAIN link[s] /\ Tail(link[s])[k] = link[s][k + 1]
      BY <2>1, <3>1
    <3>3. \A t \in Services : \A k \in DOMAIN link'[t] :
              \E j \in DOMAIN link[t] : link'[t][k] = link[t][j]
      BY <2>5, <3>2 DEF Popped, RestOK
    <3>4. UsesFrom(remote', subscribes', link')
      BY <2>5, <3>3, PresentUses DEF UsesFrom, tableVars
    <3> QED
      BY <2>3, <2>5, <3>4, NoNewUse DEF TxKnown, tableVars
  <2> QED
    BY <1>3, <2>4, <2>5 DEF EventData, EventComplete
<1> QED
  BY <1>1, <1>2, <1>3

\* An upstream speaks only for the subscriptions it is running.
LEMMA UpstreamsUses ==
  ASSUME RestOK, TxKnown, Upstreams
  PROVE  KeepsUses /\ TxKnown'
<1>1. UNCHANGED <<commands, busy, subscribes>>
  BY DEF Upstreams, UpstreamData, UpstreamComplete, UpstreamFault, taskVars, tableVars
<1>2. Queued' = Queued
  BY <1>1 DEF Queued
<1>3. UsesFrom(remote, subscribes, link)
  BY PresentUses
<1>4. ASSUME NEW s \in Services, NEW m \in Message,
             link' = [link EXCEPT ![s] = Append(@, m)],
             m # Fault => UsedBy(m.id, m.src),
             \A t \in Services : remote'[t] \subseteq remote[t]
      PROVE  UsesFrom(remote', subscribes', link')
  <2>1. link[s] \in Seq(Message)
    BY DEF RestOK
  <2>2. \A k \in DOMAIN Append(link[s], m) :
            \/ k \in DOMAIN link[s] /\ Append(link[s], m)[k] = link[s][k]
            \/ Append(link[s], m)[k] = m
    BY <2>1
  <2>3. \A t \in Services : \A k \in DOMAIN link'[t] :
            \/ k \in DOMAIN link[t] /\ link'[t][k] = link[t][k]
            \/ link'[t][k] = m
    BY <1>4, <2>2 DEF RestOK
  <2> QED
    BY <1>1, <1>3, <1>4, <2>3 DEF UsesFrom
<1>5. ASSUME NEW s \in Services, NEW p \in Ids \X Chans,
             UpstreamData(s, p) \/ UpstreamComplete(s, p)
      PROVE  UsesFrom(remote', subscribes', link')
  <2>1. UsedBy(p[1], p[2])
    BY <1>3, <1>5 DEF UpstreamData, UpstreamComplete, UsesFrom
  <2>2. \A t \in Services : remote'[t] \subseteq remote[t]
    BY <1>5 DEF UpstreamData, UpstreamComplete, RestOK
  <2>3. ASSUME NEW kind \in {"Data", "Complete"},
               link' = [link EXCEPT ![s] =
                            Append(@, [kind |-> kind, id |-> p[1], src |-> p[2]])]
        PROVE  UsesFrom(remote', subscribes', link')
    <3> DEFINE m == [kind |-> kind, id |-> p[1], src |-> p[2]]
    <3>1. m \in Message /\ m.id = p[1] /\ m.src = p[2]
      BY DEF Message
    <3> HIDE DEF m
    <3>2. link' = [link EXCEPT ![s] = Append(@, m)]
      BY <2>3 DEF m
    <3> QED
      BY <1>4, <2>1, <2>2, <3>1, <3>2
  <2> QED
    BY <1>5, <2>3 DEF UpstreamData, UpstreamComplete
<1>6. ASSUME NEW s \in Services, UpstreamFault(s)
      PROVE  UsesFrom(remote', subscribes', link')
  <2>1. \A t \in Services : remote'[t] \subseteq remote[t]
    BY <1>6 DEF UpstreamFault, RestOK
  <2> QED
    BY <1>4, <1>6, <2>1 DEF UpstreamFault, Message
<1>7. UsesFrom(remote', subscribes', link')
  BY <1>5, <1>6 DEF Upstreams
<1> QED
  BY <1>1, <1>2, <1>7, NoNewUse DEF TxKnown

-----------------------------------------------------------------------------
\* A response is put only in the inbox of a channel that its id is used by.
LEMMA Delivered ==
  ASSUME RestOK, NEW s \in Services, EventData(s), NEW c \in Chans, inbox'[c] # inbox[c]
  PROVE  \E i \in Ids, d \in Chans :
            UsedBy(i, c) /\ UsedBy(i, d) /\ inbox'[c] = Append(inbox[c], d)
<1> DEFINE m == Head(link[s])
           tx == subscribes[m.id].tx
<1>1. link[s] # <<>> /\ m.kind = "Data" /\ inbox' # inbox
  BY DEF EventData
<1>2. inbox' = [d \in Chans |-> IF d = tx THEN Append(inbox[d], m.src) ELSE inbox[d]]
  BY <1>1 DEF EventData
<1>3. m \in Message
  BY <1>1, PoppedType
<1>4. m.id \in Ids /\ m.src \in Chans /\ m # Fault
  BY <1>1, <1>3 DEF Message, Fault
<1>5. UsedBy(m.id, m.src)
  <2>1. link[s] \in Seq(Message)
    BY DEF RestOK
  <2>2. m = link[s][1] /\ 1 \in DOMAIN link[s]
    BY <1>1, <2>1
  <2> QED
    BY <1>4, <2>2, PresentUses DEF UsesFrom
<1>6. tx = c
  BY <1>2
<1>7. UsedBy(m.id, c)
  BY <1>6, ChansAssumption DEF UsedBy, NoSub
<1> HIDE DEF m, tx
<1> QED
  BY <1>2, <1>4, <1>5, <1>6, <1>7

\* A oneshot that is answered is the only one to change.
LEMMA PutReply ==
  ASSUME NEW r \in [Chans -> [Services -> Reply]], NEW c \in Chans, NEW s \in Services,
         NEW v, NEW d \in Chans, NEW t \in Services
  PROVE  [r EXCEPT ![c][s] = v][d][t] \in {r[d][t], v}
<1>1. CASE c = d /\ s = t
  BY <1>1
<1>2. CASE ~(c = d /\ s = t)
  BY <1>2
<1> QED
  BY <1>1, <1>2

\* With ids of their own, the callers' ids are never confused: the invariant
\* that OkIsRegistered rests on.
THEOREM OwnIdsInvariance ==
  ASSUME ~SharedIds
  PROVE  Spec => []OwnInv
<1>1. Init => OwnInv
  <2>1. Init => \A i \in Ids : \A c \in Chans : ~UsedBy(i, c)
    BY DEF Init, UsedBy, Queued, InLink
  <2> QED
    BY <2>1 DEF OwnInv, OneUser, TxKnown, Init
<1>2. IInv /\ OwnInv /\ [Next]_vars => OwnInv'
  <2> SUFFICES ASSUME RestOK, TablesInv, OwnInv, [Next]_vars PROVE OwnInv'
    BY IInvParts
  <2> USE DEF OwnInv
  <2>1. CASE Next
    BY <2>1, CallersUses, TaskUses, EventUses, UpstreamsUses, KeepsApart DEF Next
  <2>2. CASE UNCHANGED vars
    BY <2>2 DEF OneUser, UsedBy, TxKnown, Queued, InLink, vars, taskVars,
                tableVars, callerVars, wireVars
  <2> QED
    BY <2>1, <2>2
<1> QED
  BY Invariance, <1>1, <1>2, PTL DEF Spec

\* With ids that are not shared, a caller that is told Ok has its own tx in
\* the table at that moment.
THEOREM OkMeansRegistered ==
  ASSUME ~SharedIds
  PROVE  Spec => OkIsRegistered
<1>1. ASSUME RestOK, TablesInv, OneUser, TxKnown, Next,
             NEW c \in Chans, NEW s \in Services,
             reply[c][s] = "pending", reply'[c][s] = "ok"
      PROVE  \E i \in Ids : subscribes'[i].tx = c
  <2>1. ASSUME NEW m \in SubscribeCommand, m \in Queued, NEW ks, NEW rest,
               Register(m, ks, rest)
        PROVE  \E i \in Ids : subscribes'[i].tx = c
    <3>0. m.op = "Subscribe" /\ m.id \in Ids /\ m.tx \in Chans /\ m.service \in Services
      BY DEF SubscribeCommand
    <3>1. m.service \notin subscribes[m.id].services
      BY <1>1, <2>1 DEF Register, Terminate, RestOK
    <3>2. /\ reply' = Answered(reply, m.tx, m.service, "ok")
          /\ subscribes' = [subscribes EXCEPT ![m.id] =
                [services |-> @.services \cup {m.service},
                 tx |-> IF @ = NoSub THEN m.tx ELSE @.tx]]
      BY <2>1, <3>1 DEF Register, Enter
    <3>3. m.tx = c
      BY <1>1, <3>0, <3>2 DEF Answered, RestOK
    <3>4. subscribes[m.id] # NoSub => subscribes[m.id].tx = m.tx
      <4>1. UsedBy(m.id, m.tx)
        BY <2>1, <3>0 DEF UsedBy
      <4>2. subscribes[m.id] # NoSub =>
                subscribes[m.id].tx \in Chans /\ UsedBy(m.id, subscribes[m.id].tx)
        BY <1>1, <3>0 DEF TxKnown, UsedBy
      <4> QED
        BY <1>1, <3>0, <4>1, <4>2 DEF OneUser
    <3>5. subscribes'[m.id].tx = c
      BY <1>1, <3>0, <3>2, <3>3, <3>4 DEF TablesInv, TablesOK
    <3> QED
      BY <3>0, <3>5
  <2>2. CASE CommandJoin
    <3>1. Head(commands) \in SubscribeCommand /\ commands # <<>> /\ commands \in Seq(Command)
      BY <1>1, <2>2, HeadCommand DEF CommandJoin, RestOK
    <3>2. Head(commands) = commands[1] /\ 1 \in DOMAIN commands
      BY <3>1
    <3>3. Head(commands) \in Queued
      BY <3>2 DEF Queued
    <3> QED
      BY <2>1, <2>2, <3>1, <3>3 DEF CommandJoin
  <2>3. CASE ConnectionAck
    <3>1. busy.cmd \in SubscribeCommand /\ busy # Idle
      BY <1>1, <2>3, ConnectingCommand DEF ConnectionAck, Connecting, Idle
    <3> QED
      BY <2>1, <2>3, <3>1 DEF ConnectionAck, Queued
  <2>4. CASE CommandConnect \/ CommandStop \/ SendInit \/ Upstreams
             \/ (\E t \in Services : EventData(t) \/ EventComplete(t))
    <3>1. reply' = reply
      BY <2>4 DEF CommandConnect, CommandStop, SendInit, Upstreams, UpstreamData,
                  UpstreamComplete, UpstreamFault, EventData, EventComplete, callerVars
    <3> QED
      BY <1>1, <3>1
  <2>5. CASE CommandsClosed \/ \E t \in Services : EventFault(t)
    BY <1>1, <2>5 DEF CommandsClosed, EventFault, Terminate
  <2>6. CASE ConnectFailed("dial") \/ ConnectFailed("ack")
    <3>1. busy.cmd \in SubscribeCommand
      BY <1>1, <2>6, ConnectingCommand DEF ConnectFailed
    <3>2. reply' = reply \/ reply' = [reply EXCEPT ![busy.cmd.tx][busy.cmd.service] = "err"]
      BY <2>6 DEF ConnectFailed, Answered
    <3>3. reply \in [Chans -> [Services -> Reply]]
      BY <1>1 DEF RestOK
    <3>4. reply'[c][s] \in {reply[c][s], "err"}
      BY <3>1, <3>2, <3>3, PutReply DEF SubscribeCommand
    <3> QED
      BY <1>1, <3>4
  <2>7. CASE Callers
    <3>1. ASSUME NEW d \in Chans, NEW i \in Ids, NEW order \in Orders, Subscribe(d, i, order)
          PROVE  FALSE
      <4> DEFINE first == [r \in Services |->
                     IF \E k \in DOMAIN order : order[k] = r THEN "pending" ELSE "none"]
      <4>1. first[s] # "ok"
        OBVIOUS
      <4>2. PICK n \in Nat : n >= 1 /\ order \in [1..n -> Services]
        BY OrdersType
      <4>3. order[1] \in Services
        BY <4>2
      <4>4. reply' = [reply EXCEPT ![d] = first] \/ reply' = [reply EXCEPT ![d][order[1]] = "dropped"]
        BY <3>1 DEF Subscribe
      <4> HIDE DEF first
      <4>5. reply'[c][s] = reply[c][s] \/ reply'[c][s] = first[s] \/ reply'[c][s] = "dropped"
        <5>1. reply \in [Chans -> [Services -> Reply]]
          BY <1>1 DEF RestOK
        <5>2. [reply EXCEPT ![d] = first][c][s] \in {reply[c][s], first[s]}
          BY <5>1
        <5>3. [reply EXCEPT ![d][order[1]] = "dropped"][c][s] \in {reply[c][s], "dropped"}
          BY <4>3, <5>1, PutReply
        <5> QED
          BY <4>4, <5>2, <5>3
      <4> QED
        BY <1>1, <4>1, <4>5
    <3>2. CASE DropHandle
      BY <1>1, <3>2 DEF DropHandle
    <3>3. ASSUME NEW d \in Chans, DropReceiver(d) PROVE FALSE
      BY <1>1, <3>3 DEF DropReceiver, RestOK
    <3>4. CASE (\E i \in Ids : Stop(i)) \/ \E d \in Chans : Receive(d)
      BY <1>1, <3>4 DEF Stop, Receive, callerVars
    <3> QED
      BY <2>7, <3>1, <3>2, <3>3, <3>4 DEF Callers
  <2> QED
    BY <1>1, <2>2, <2>3, <2>4, <2>5, <2>6, <2>7 DEF Next, TakeCommand, Handshake, Event
<1>2. IInv /\ OwnInv /\ [Next]_vars =>
        [\A c \in Chans : (\E s \in Services : reply[c][s] = "pending" /\ reply'[c][s] = "ok")
            => \E i \in Ids : subscribes'[i].tx = c]_vars
  BY <1>1, IInvParts DEF OwnInv
<1> QED
  BY Invariance, OwnIdsInvariance, <1>2, PTL DEF Spec, OkIsRegistered

-----------------------------------------------------------------------------
(* How the task works through its commands, whatever the ids.               *)

\* The commands that are not done, the one in the handshake first.
Line == IF busy = Idle THEN commands ELSE <<busy.cmd>> \o commands

\* An id may be finished by what an upstream sends.
LineKept ==
    /\ Line' = Line
    /\ task' = task
    /\ subscribes' = subscribes \/ \E i \in Ids : subscribes' = [subscribes EXCEPT ![i] = NoSub]

HeadDone == Line # <<>> /\ Line' = Tail(Line) /\ task' = task

HeadStopped ==
    /\ HeadDone
    /\ Head(Line).op = "Stop"
    /\ subscribes' = [subscribes EXCEPT ![Head(Line).id] = NoSub]

HeadRefused == HeadDone /\ Head(Line).op = "Subscribe" /\ subscribes' = subscribes

HeadEntered ==
    /\ HeadDone
    /\ Head(Line).op = "Subscribe"
    /\ subscribes' = [subscribes EXCEPT ![Head(Line).id] =
            [services |-> @.services \cup {Head(Line).service},
             tx |-> IF @ = NoSub THEN Head(Line).tx ELSE @.tx]]

\* It panics only on a Subscribe of an id to a service that it has already.
TaskOver ==
    /\ task' # "running"
    /\ Line' = <<>>
    /\ \A i \in Ids : subscribes'[i] = NoSub
    /\ task' = "panicked" =>
           /\ Line # <<>>
           /\ Head(Line).op = "Subscribe"
           /\ Head(Line).service \in subscribes[Head(Line).id].services

LineStep == LineKept \/ HeadStopped \/ HeadRefused \/ HeadEntered \/ TaskOver

LEMMA ConsCommand ==
  ASSUME NEW m \in Command, NEW cs \in Seq(Command)
  PROVE  /\ <<m>> \o cs \in Seq(Command) /\ <<m>> \o cs # <<>>
         /\ Head(<<m>> \o cs) = m /\ Tail(<<m>> \o cs) = cs
<1>1. <<m>> \in Seq(Command) /\ Len(<<m>>) = 1
  OBVIOUS
<1>2. /\ <<m>> \o cs \in Seq(Command) /\ Len(<<m>> \o cs) = 1 + Len(cs)
      /\ (<<m>> \o cs)[1] = m
  BY <1>1
<1>3. Tail(<<m>> \o cs) \in Seq(Command) /\ Len(Tail(<<m>> \o cs)) = Len(cs)
  BY <1>2
<1>4. \A k \in 1..Len(cs) : Tail(<<m>> \o cs)[k] = cs[k]
  BY <1>1, <1>2
<1> QED
  BY <1>2, <1>3, <1>4

LEMMA LineType ==
  ASSUME RestOK
  PROVE  /\ Line \in Seq(Command)
         /\ Queued = {Line[k] : k \in DOMAIN Line}
<1>1. CASE busy = Idle
  BY <1>1 DEF RestOK, Line, Queued
<1>2. CASE busy # Idle
  <2>1. busy.cmd \in Command /\ commands \in Seq(Command)
    BY <1>2 DEF RestOK, Connecting, Command
  <2>2. Line = <<busy.cmd>> \o commands
    BY <1>2 DEF Line
  <2>3. Line \in Seq(Command) /\ Head(Line) = busy.cmd /\ Tail(Line) = commands /\ Line # <<>>
    BY <2>1, <2>2, ConsCommand
  <2>4. /\ Line[1] = busy.cmd /\ 1 \in DOMAIN Line
        /\ \A k \in DOMAIN commands : k + 1 \in DOMAIN Line /\ Line[k + 1] = commands[k]
    BY <2>1, <2>3
  <2>5. \A k \in DOMAIN Line :
            k = 1 \/ (k - 1 \in DOMAIN commands /\ Line[k] = commands[k - 1])
    BY <2>1, <2>3, <2>4
  <2>6. {Line[k] : k \in DOMAIN Line} = {busy.cmd} \cup {commands[k] : k \in DOMAIN commands}
    BY <2>4, <2>5
  <2> QED
    BY <1>2, <2>3, <2>6 DEF Queued
<1> QED
  BY <1>1, <1>2

\* In the handshake the line is the command of it, then the queue.
LEMMA LineBusy ==
  ASSUME RestOK, busy.phase \in {"dial", "ack"}
  PROVE  /\ busy # Idle /\ Line # <<>>
         /\ Head(Line) = busy.cmd /\ Tail(Line) = commands
         /\ busy.cmd \in SubscribeCommand /\ busy.cmd.op = "Subscribe"
<1>1. busy # Idle /\ busy.cmd \in SubscribeCommand
  BY ConnectingCommand DEF Idle
<1>2. busy.cmd \in Command /\ commands \in Seq(Command)
  BY <1>1 DEF RestOK, Command
<1> QED
  BY <1>1, <1>2, ConsCommand DEF Line, SubscribeCommand

LEMMA TerminateLine ==
  ASSUME NEW how \in {"ended", "panicked"}, Terminate(how),
         how = "panicked" =>
           /\ Line # <<>>
           /\ Head(Line).op = "Subscribe"
           /\ Head(Line).service \in subscribes[Head(Line).id].services
  PROVE  TaskOver
BY DEF Terminate, TaskOver, Line

LEMMA RegisterLine ==
  ASSUME Line # <<>>, Head(Line).op = "Subscribe", NEW ks, Register(Head(Line), ks, Tail(Line))
  PROVE  LineStep
<1>1. CASE Head(Line).service \in subscribes[Head(Line).id].services
  BY <1>1, TerminateLine DEF Register, LineStep
<1>2. CASE Head(Line).service \notin subscribes[Head(Line).id].services
  <2>1. busy' = Idle /\ commands' = Tail(Line) /\ task' = task
    BY <1>2 DEF Register, Enter
  <2>2. Line' = Tail(Line)
    BY <2>1 DEF Line
  <2> QED
    BY <1>2, <2>1, <2>2 DEF Register, Enter, LineStep, HeadEntered, HeadDone
<1> QED
  BY <1>1, <1>2

\* Every step of the task and of the upstreams does one of five things to the
\* line: it leaves it, takes its head, which was a Stop, is refused or is
\* entered in the table, or ends it.
LEMMA LineSteps ==
  ASSUME RestOK, TablesInv, TakeCommand \/ Handshake \/ Event \/ Upstreams
  PROVE  LineStep
<1>1. CASE CommandJoin
  <2>1. Line = commands /\ commands # <<>> /\ Head(commands).op = "Subscribe"
        /\ Register(Head(commands), upstream, Tail(commands))
    BY <1>1 DEF CommandJoin, Ready, Line
  <2> QED
    BY <2>1, RegisterLine
<1>2. CASE CommandConnect
  <2>1. /\ Line = commands /\ commands # <<>> /\ subscribes' = subscribes /\ task' = task
        /\ busy' = [phase |-> "dial", cmd |-> Head(commands)] /\ commands' = Tail(commands)
    BY <1>2 DEF CommandConnect, Ready, Line, tableVars
  <2>2. Line' = <<Head(commands)>> \o Tail(commands)
    BY <2>1 DEF Line, Idle
  <2>3. commands \in Seq(Command)
    BY DEF RestOK
  <2>4. <<Head(commands)>> \o Tail(commands) = commands
    BY <2>1, <2>3
  <2> QED
    BY <2>1, <2>2, <2>4 DEF LineStep, LineKept
<1>3. CASE CommandStop
  <2>1. /\ Line = commands /\ commands # <<>> /\ Head(commands).op = "Stop"
        /\ commands' = Tail(commands) /\ busy' = busy /\ busy = Idle /\ task' = task
        /\ subscribes' = [subscribes EXCEPT ![Head(commands).id] = NoSub]
    BY <1>3 DEF CommandStop, Ready, Line, taskVars, FinishSubscribe, Finish
  <2> QED
    BY <2>1 DEF Line, LineStep, HeadStopped, HeadDone
<1>4. CASE CommandsClosed
  BY <1>4, TerminateLine DEF CommandsClosed, LineStep
<1>5. CASE SendInit
  <2>1. /\ UNCHANGED <<commands, subscribes, task>>
        /\ busy' # Idle /\ busy'.cmd = busy.cmd /\ busy # Idle
    BY <1>5, ConnectingCommand DEF SendInit, tableVars, Connecting, Idle
  <2> QED
    BY <2>1 DEF Line, LineStep, LineKept
<1>6. CASE ConnectionAck
  BY <1>6, LineBusy, RegisterLine DEF ConnectionAck
<1>7. CASE ConnectFailed("dial") \/ ConnectFailed("ack")
  <2>1. /\ busy.phase \in {"dial", "ack"} /\ busy' = Idle
        /\ UNCHANGED <<commands, subscribes, task>>
    BY <1>7 DEF ConnectFailed, tableVars
  <2> QED
    BY <2>1, LineBusy DEF Line, LineStep, HeadRefused, HeadDone
<1>8. ASSUME NEW s \in Services, EventData(s) \/ EventComplete(s)
      PROVE  LineStep
  <2>1. link[s] # <<>> /\ Head(link[s]).kind \in {"Data", "Complete"} /\ Head(link[s]) \in Message
    BY <1>8, PoppedType DEF EventData, EventComplete
  <2>2. Head(link[s]).id \in Ids
    BY <2>1 DEF Message, Fault
  <2>3. Line' = Line /\ task' = task
    BY <1>8 DEF EventData, EventComplete, Line, taskVars
  <2>4. \/ subscribes' = subscribes
        \/ subscribes' = [subscribes EXCEPT ![Head(link[s]).id] = NoSub]
    BY <1>8 DEF EventData, EventComplete, FinishSubscribe, Finish, tableVars
  <2> QED
    BY <2>2, <2>3, <2>4 DEF LineStep, LineKept
<1>9. ASSUME NEW s \in Services, EventFault(s)
      PROVE  LineStep
  BY <1>9, TerminateLine DEF EventFault, LineStep
<1>10. CASE Upstreams
  BY <1>10 DEF Upstreams, UpstreamData, UpstreamComplete, UpstreamFault, taskVars, tableVars,
               Line, LineStep, LineKept
<1> QED
  BY <1>1, <1>2, <1>3, <1>4, <1>5, <1>6, <1>7, <1>8, <1>9, <1>10
     DEF TakeCommand, Handshake, Event

=============================================================================

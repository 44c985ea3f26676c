---------------------------- MODULE HostActions ----------------------------
(***************************************************************************)
(* How actions get from the server to the agents on the nodes: one         *)
(* buffered channel per host in the map hostActions, filled by the deploy  *)
(* step of a story (workers/node/deploy/execute.go) and by the handler of  *)
(* PUT /key (main.go), drained by the websocket handlers of the agents     *)
(* that connected (main.go, /probe/:host), and executed by the agent       *)
(* (probe/main.go: NerthusConnector, ActionHandler).                       *)
(*                                                                         *)
(* External: the websocket, a queue per connection that a broken           *)
(* connection empties, and the maps (each call is one step).  An action is *)
(* a list of keys or a configuration; the latter bears its number in the   *)
(* order of the sends and, as history, the channel it was sent to.         *)
(* The responses of the agents, which the server only logs, are left out.  *)
(***************************************************************************)
EXTENDS Naturals, FiniteSets, SequencesExt

CONSTANTS
  Host,        \* names of nodes
  Key,         \* public keys
  Conn,        \* websocket handlers
  Putter,      \* handlers of PUT /key
  Deployer,    \* workers executing the deploy step
  Cap,         \* capacity of a host's channel, 10 in the code
  MaxConfigs,  \* bound on the configurations sent
  MaxFaults    \* how often each fault may strike

FaultKind ==
  { "drop",      \* a connection breaks
    "disk",      \* the agent cannot write the file of authorized keys
    "restart" }  \* the server stops and starts again

ASSUME HostActionsAssumption ==
  /\ Cap \in Nat \ {0}
  /\ MaxConfigs \in Nat
  /\ MaxFaults \in [FaultKind -> Nat]

VARIABLES
  keys,        \* keyMap, on disk
  hostActions, \* [Host -> its channel], 0 when it has none
  buf,         \* the channels: a sequence of sequences of actions
  conn,        \* [Conn -> websocket handler]
  wire,        \* [Conn -> actions on their way to the agent]
  putter,      \* [Putter -> pc, the key list to send and the channels left]
  deployer,    \* [Deployer -> pc and channel]
  authorized,  \* [Host -> keys in the node's authorized_keys]
  received,    \* [Host -> configurations its agent received]
  sent,        \* number of configurations sent
  faults

nodeVars == <<authorized, received>>
vars == <<keys, hostActions, buf, conn, wire, putter, deployer, nodeVars, sent,
          faults>>

KeyList(K)    == [kind |-> "keys", keys |-> K, n |-> 0, via |-> 0]
Config(n, ch) == [kind |-> "config", keys |-> {}, n |-> n, via |-> ch]
Action == [kind : {"keys", "config"}, keys : SUBSET Key, n : Nat, via : Nat]

ConnClosed ==
  [pc |-> "closed", host |-> "none", ch |-> 0, act |-> KeyList({}), alive |-> FALSE]
PutterIdle   == [pc |-> "idle", keys |-> {}, todo |-> {}]
DeployerIdle == [pc |-> "idle", ch |-> 0]

Spend(k) == faults[k] > 0 /\ faults' = [faults EXCEPT ![k] = @ - 1]

Init ==
  /\ keys = {}
  /\ hostActions = [h \in Host |-> 0]
  /\ buf = <<>>
  /\ conn = [c \in Conn |-> ConnClosed]
  /\ wire = [c \in Conn |-> <<>>]
  /\ putter = [p \in Putter |-> PutterIdle]
  /\ deployer = [d \in Deployer |-> DeployerIdle]
  /\ authorized = [h \in Host |-> {}]
  /\ received = [h \in Host |-> <<>>]
  /\ sent = 0
  /\ faults = MaxFaults

(* make(chan message.Action, 10), stored as the channel of h. *)
NewChannel(h) ==
  /\ buf' = Append(buf, <<>>)
  /\ hostActions' = [hostActions EXCEPT ![h] = Len(buf) + 1]

-----------------------------------------------------------------------------
(* The deploy step of a story.                                             *)

(* GetOrInit *)
DeployGet(d, h) ==
  /\ deployer[d].pc = "idle"
  /\ sent < MaxConfigs
  /\ IF hostActions[h] = 0 THEN NewChannel(h) ELSE UNCHANGED <<buf, hostActions>>
  /\ deployer' = [deployer EXCEPT ![d] = [pc |-> "send", ch |-> hostActions'[h]]]
  /\ UNCHANGED <<keys, conn, wire, putter, nodeVars, sent, faults>>

(* Mutant: the send does not block.                                        *)
DeploySendUnbounded(d) ==
  LET ch == deployer[d].ch IN
  /\ deployer[d].pc = "send"
  /\ sent < MaxConfigs
  /\ sent' = sent + 1
  /\ buf' = [buf EXCEPT ![ch] = Append(@, Config(sent', ch))]
  /\ deployer' = [deployer EXCEPT ![d] = DeployerIdle]
  /\ UNCHANGED <<keys, hostActions, conn, wire, putter, nodeVars, faults>>

(* The send blocks while the channel is full. *)
DeploySend(d) ==
  LET ch == deployer[d].ch IN
  /\ deployer[d].pc = "send"
  /\ sent < MaxConfigs
  /\ Len(buf[ch]) < Cap
  /\ sent' = sent + 1
  /\ buf' = [buf EXCEPT ![ch] = Append(@, Config(sent', ch))]
  /\ deployer' = [deployer EXCEPT ![d] = DeployerIdle]
  /\ UNCHANGED <<keys, hostActions, conn, wire, putter, nodeVars, faults>>

-----------------------------------------------------------------------------
(* PUT /key/:user/:name: the key is stored, all keys are read, and the     *)
(* list is sent to the channels of all hosts that have one by then.        *)

PutKey(p, k) ==
  /\ putter[p].pc = "idle"
  /\ k \notin keys
  /\ keys' = keys \cup {k}
  /\ putter' = [putter EXCEPT ![p].pc = "read"]
  /\ UNCHANGED <<hostActions, buf, conn, wire, deployer, nodeVars, sent, faults>>

PutRead(p) ==
  /\ putter[p].pc = "read"
  /\ putter' = [putter EXCEPT ![p].pc = "hosts", ![p].keys = keys]
  /\ UNCHANGED <<keys, hostActions, buf, conn, wire, deployer, nodeVars, sent, faults>>

PutHosts(p) ==
  /\ putter[p].pc = "hosts"
  /\ putter' = [putter EXCEPT ![p].pc = "send",
                              ![p].todo = {hostActions[h] : h \in Host} \ {0}]
  /\ UNCHANGED <<keys, hostActions, buf, conn, wire, deployer, nodeVars, sent, faults>>

(* The channels in any order, each send blocking while its channel is full. *)
PutSend(p) ==
  /\ putter[p].pc = "send"
  /\ \/ \E ch \in putter[p].todo :
          /\ Len(buf[ch]) < Cap
          /\ buf' = [buf EXCEPT ![ch] = Append(@, KeyList(putter[p].keys))]
          /\ putter' = [putter EXCEPT ![p].todo = @ \ {ch}]
     \/ /\ putter[p].todo = {}
        /\ putter' = [putter EXCEPT ![p] = PutterIdle]
        /\ UNCHANGED buf
  /\ UNCHANGED <<keys, hostActions, conn, wire, deployer, nodeVars, sent, faults>>

-----------------------------------------------------------------------------
(* The websocket handler of /probe/:host.                                  *)

(* The handler has written its action, to a connection that works or not. *)
Written(c, pc) == conn' = [conn EXCEPT ![c].pc = pc, ![c].act = KeyList({})]

Alive(h) == \E c \in Conn : conn[c].alive /\ conn[c].host = h

(* The agent of h, which has no connection it knows to work, connects. *)
ConnOpen(c, h) ==
  /\ conn[c].pc = "closed"
  /\ ~Alive(h)
  /\ conn' = [conn EXCEPT ![c] =
       [ConnClosed EXCEPT !.pc = "read", !.host = h, !.alive = TRUE]]
  /\ wire' = [wire EXCEPT ![c] = <<>>]
  /\ UNCHANGED <<keys, hostActions, buf, putter, deployer, nodeVars, sent, faults>>

(* Mutant: an agent that connects is sent no keys, but those put later.    *)
ConnReadNone(c) ==
  /\ conn[c].pc = "read"
  /\ conn' = [conn EXCEPT ![c].pc = "get"]
  /\ UNCHANGED <<keys, hostActions, buf, wire, putter, deployer, nodeVars, sent, faults>>

ConnRead(c) ==
  /\ conn[c].pc = "read"
  /\ conn' = [conn EXCEPT ![c].pc = "first", ![c].act = KeyList(keys)]
  /\ UNCHANGED <<keys, hostActions, buf, wire, putter, deployer, nodeVars, sent, faults>>

(* What is written to a broken connection is lost, noticed or not. *)
Transmit(c) ==
  wire' = IF conn[c].alive THEN [wire EXCEPT ![c] = Append(@, conn[c].act)] ELSE wire

ConnFirst(c) ==
  /\ conn[c].pc = "first"
  /\ Transmit(c)
  /\ \/ Written(c, "get")
     \/ ~conn[c].alive /\ conn' = [conn EXCEPT ![c] = ConnClosed]
  /\ UNCHANGED <<keys, hostActions, buf, putter, deployer, nodeVars, sent, faults>>

(* hostActions.Get ... *)
ConnGet(c) ==
  LET ch == hostActions[conn[c].host] IN
  /\ conn[c].pc = "get"
  /\ conn' = [conn EXCEPT ![c].pc = IF ch = 0 THEN "set" ELSE "serve", ![c].ch = ch]
  /\ UNCHANGED <<keys, hostActions, buf, wire, putter, deployer, nodeVars, sent, faults>>

(* ... and, when it found none, Set: whatever is in the map by now. *)
ConnSet(c) ==
  /\ conn[c].pc = "set"
  /\ NewChannel(conn[c].host)
  /\ conn' = [conn EXCEPT ![c].pc = "serve", ![c].ch = Len(buf) + 1]
  /\ UNCHANGED <<keys, wire, putter, deployer, nodeVars, sent, faults>>

ConnTake(c) ==
  LET ch == conn[c].ch IN
  /\ conn[c].pc = "serve"
  /\ buf[ch] # <<>>
  /\ conn' = [conn EXCEPT ![c].pc = "write", ![c].act = Head(buf[ch])]
  /\ buf' = [buf EXCEPT ![ch] = Tail(@)]
  /\ UNCHANGED <<keys, hostActions, wire, putter, deployer, nodeVars, sent, faults>>

(* Mutant: an action that could not be written goes back to the channel.   *)
ConnWriteRequeue(c) ==
  /\ conn[c].pc = "write"
  /\ Written(c, "serve")
  /\ Transmit(c)
  /\ buf' = IF conn[c].alive THEN buf
            ELSE [buf EXCEPT ![conn[c].ch] = Append(@, conn[c].act)]
  /\ UNCHANGED <<keys, hostActions, putter, deployer, nodeVars, sent, faults>>

(* Mutant: the handler writes one action and stays.                        *)
ConnWriteOnce(c) ==
  /\ conn[c].pc = "write"
  /\ Written(c, "closed")
  /\ Transmit(c)
  /\ UNCHANGED <<keys, hostActions, buf, putter, deployer, nodeVars, sent, faults>>

(* An action that could not be written is logged and gone. *)
ConnWrite(c) ==
  /\ conn[c].pc = "write"
  /\ Written(c, "serve")
  /\ Transmit(c)
  /\ UNCHANGED <<keys, hostActions, buf, putter, deployer, nodeVars, sent, faults>>

(* The handler notices that its connection is gone. *)
ConnEnd(c) ==
  /\ conn[c].pc \in {"serve", "write"}
  /\ ~conn[c].alive
  /\ conn' = [conn EXCEPT ![c] = ConnClosed]
  /\ UNCHANGED <<keys, hostActions, buf, wire, putter, deployer, nodeVars, sent, faults>>

ConnStep(c) ==
  \/ ConnRead(c) \/ ConnFirst(c) \/ ConnGet(c) \/ ConnSet(c)
  \/ ConnTake(c) \/ ConnWrite(c) \/ ConnEnd(c)

(* A connection breaks; its handler may find out much later. *)
Drop(c) ==
  /\ conn[c].alive
  /\ Spend("drop")
  /\ conn' = [conn EXCEPT ![c].alive = FALSE]
  /\ wire' = [wire EXCEPT ![c] = <<>>]
  /\ UNCHANGED <<keys, hostActions, buf, putter, deployer, nodeVars, sent>>

-----------------------------------------------------------------------------
(* The agent.                                                              *)

(* The file is truncated and written. *)
Authorize(h, a) == authorized' = [authorized EXCEPT ![h] = a.keys]

NodeReceive(c) ==
  LET h == conn[c].host
      a == Head(wire[c]) IN
  /\ conn[c].alive
  /\ wire[c] # <<>>
  /\ wire' = [wire EXCEPT ![c] = Tail(@)]
  /\ IF a.kind = "keys"
     THEN Authorize(h, a) /\ UNCHANGED received
     ELSE /\ received' = [received EXCEPT ![h] = Append(@, a)]
          /\ UNCHANGED authorized
  /\ UNCHANGED <<keys, hostActions, buf, conn, putter, deployer, sent, faults>>

(* The file is truncated, and the write fails. *)
NodeWriteFails(c) ==
  /\ conn[c].alive
  /\ wire[c] # <<>>
  /\ Head(wire[c]).kind = "keys"
  /\ Spend("disk")
  /\ wire' = [wire EXCEPT ![c] = Tail(@)]
  /\ authorized' = [authorized EXCEPT ![conn[c].host] = {}]
  /\ UNCHANGED <<keys, hostActions, buf, conn, putter, deployer, received, sent>>

(* The server stops and starts again: the keys are on disk, the channels   *)
(* and what is in them are not.                                            *)
Restart ==
  /\ Spend("restart")
  /\ hostActions' = [h \in Host |-> 0]
  /\ buf' = <<>>
  /\ conn' = [c \in Conn |-> ConnClosed]
  /\ wire' = [c \in Conn |-> <<>>]
  /\ putter' = [p \in Putter |-> PutterIdle]
  /\ deployer' = [d \in Deployer |-> DeployerIdle]
  /\ UNCHANGED <<keys, nodeVars, sent>>

(* The handlers of connections that are closed are alike, any one will do. *)
Closed     == {c \in Conn : conn[c].pc = "closed"}
Connecting == IF Closed = {} THEN {} ELSE {CHOOSE c \in Closed : TRUE}
Connect(h) == \E c \in Connecting : ConnOpen(c, h)
PutStep(p) == PutRead(p) \/ PutHosts(p) \/ PutSend(p)

Next ==
  \/ \E d \in Deployer, h \in Host : DeployGet(d, h)
  \/ \E d \in Deployer : DeploySend(d)
  \/ \E p \in Putter, k \in Key : PutKey(p, k)
  \/ \E p \in Putter : PutStep(p)
  \/ \E h \in Host : Connect(h)
  \/ \E c \in Conn : ConnStep(c) \/ NodeReceive(c) \/ Drop(c) \/ NodeWriteFails(c)
  \/ Restart

Spec == Init /\ [][Next]_vars

(* Handlers and workers keep running, the agents keep reading and connect  *)
(* when they have no connection.  No key and no configuration has to come. *)
Fairness ==
  /\ \A d \in Deployer : WF_vars(DeploySend(d))
  /\ \A p \in Putter : WF_vars(PutStep(p))
  /\ \A h \in Host : WF_vars(Connect(h))
  /\ \A c \in Conn : WF_vars(ConnStep(c)) /\ WF_vars(NodeReceive(c))

FairSpec == Spec /\ Fairness

-----------------------------------------------------------------------------

TypeOK ==
  /\ keys \subseteq Key
  /\ hostActions \in [Host -> 0 .. Len(buf)]
  /\ \A i \in DOMAIN buf : buf[i] \in Seq(Action) /\ Len(buf[i]) <= Cap
  /\ \A c \in Conn :
       /\ conn[c].pc \in {"closed", "read", "first", "get", "set", "serve", "write"}
       /\ conn[c].pc \in {"serve", "write"} => conn[c].ch \in DOMAIN buf
       /\ conn[c].act \in Action
       /\ wire[c] \in Seq(Action)
       /\ wire[c] # <<>> => conn[c].alive
  /\ \A p \in Putter : putter[p].todo \subseteq DOMAIN buf
  /\ \A d \in Deployer : deployer[d].pc = "send" => deployer[d].ch \in DOMAIN buf
  /\ authorized \in [Host -> SUBSET Key]
  /\ sent \in 0 .. MaxConfigs
  /\ faults \in [FaultKind -> Nat]

(* Configurations may get lost on the way, but an agent never receives one *)
(* twice, and none after a newer one, though several handlers, some of     *)
(* them of broken connections, drain the same channel.  Only deploy steps  *)
(* that send at the same time get two exchanged, and only through two      *)
(* channels, one of which has replaced the other (main.go:426).            *)
Ahead(a, b) ==
  \/ a.n < b.n
  \/ a.n # b.n /\ a.via # b.via /\ \E d, e \in Deployer : d # e

NotReordered ==
  \A h \in Host : \A i, j \in DOMAIN received[h] :
    i < j => Ahead(received[h][i], received[h][j])

(* A node whose agent is connected and whose handler drains the channel    *)
(* that is in the map.                                                     *)
Served(h) ==
  \E c \in Conn : /\ conn[c].host = h /\ conn[c].alive
                  /\ conn[c].pc \in {"serve", "write"}
                  /\ conn[c].ch = hostActions[h]

(* A key put while a node is served gets to that node and stays there, as  *)
(* long as nothing breaks and keys are put one after the other.  A node    *)
(* that has no connection, or lost its file to a full disk before, gets    *)
(* the keys when it connects, unless something breaks again.               *)
FaultsLeft == faults["drop"] + faults["disk"] + faults["restart"]
Broken     == faults # MaxFaults

PutReaches ==
  \A h \in Host, k \in Key :
    /\ [](Served(h) /\ k \notin keys =>
            [](k \in keys => <>Broken \/ <>[](k \in authorized[h])))
    /\ \A n \in 0 .. MaxFaults["drop"] + MaxFaults["disk"] + MaxFaults["restart"] :
         FaultsLeft = n /\ k \in keys /\ ~Alive(h)
           ~> FaultsLeft < n \/ [](k \in authorized[h])

Channels == {hostActions[h] : h \in Host}

(* The agent's handler drains a channel, and another one is in the map:    *)
(* Set has replaced it (main.go:430), for the handler of a connection that *)
(* broke, or over one that GetOrInit had put there.                        *)
Replaced ==
  \E c \in Conn : /\ conn[c].alive /\ conn[c].pc \in {"serve", "write"}
                  /\ conn[c].ch # hostActions[conn[c].host]

(* A deploy step and a PUT of a key come back, a full channel being        *)
(* drained, though connections break and the server restarts; they wait    *)
(* for ever only when Set has replaced a channel.                          *)
SendersReturn ==
  /\ \A d \in Deployer :
       deployer[d].pc = "send"
         ~> \/ deployer[d].pc = "idle" \/ deployer[d].ch \notin Channels
            \/ Replaced
  /\ \A p \in Putter :
       putter[p].pc # "idle"
         ~> \/ putter[p].pc = "idle" \/ ~(putter[p].todo \subseteq Channels)
            \/ Replaced
=============================================================================

------------------------- MODULE HostActionsProofs -------------------------
(***************************************************************************)
(* Proofs about the actions on their way from the server to the agents,    *)
(* for any number of hosts, keys, handlers, deploy steps and               *)
(* configurations, channels of any capacity and any bound on the faults.   *)
(***************************************************************************)
EXTENDS HostActions, TLAPS

USE HostActionsAssumption

-----------------------------------------------------------------------------
(* The inductive invariant.                                                *)

ConnType ==
  [pc : {"closed", "read", "first", "get", "set", "serve", "write"},
   host : Host \cup {"none"}, ch : Nat, act : Action, alive : BOOLEAN]

Types ==
  /\ keys \in SUBSET Key
  /\ buf \in Seq(Seq(Action))
  /\ hostActions \in [Host -> Nat]
  /\ conn \in [Conn -> ConnType]
  /\ wire \in [Conn -> Seq(Action)]
  /\ putter \in [Putter -> [pc : {"idle", "read", "hosts", "send"},
                            keys : SUBSET Key, todo : SUBSET Nat]]
  /\ deployer \in [Deployer -> [pc : {"idle", "send"}, ch : Nat]]
  /\ authorized \in [Host -> SUBSET Key]
  /\ received \in [Host -> Seq(Action)]
  /\ sent \in 0 .. MaxConfigs
  /\ faults \in [FaultKind -> Nat]

(* Whoever knows a channel knows one that is there.                        *)
Serving(c) == conn[c].pc \in {"serve", "write"}

Known ==
  /\ \A h \in Host : hostActions[h] = 0 \/ hostActions[h] \in DOMAIN buf
  /\ \A c \in Conn :
       /\ Serving(c) => conn[c].ch \in DOMAIN buf
       /\ conn[c].pc # "closed" => conn[c].host \in Host
       /\ conn[c].alive => conn[c].pc # "closed"
       /\ wire[c] # <<>> => conn[c].alive
  /\ \A p \in Putter : putter[p].todo \subseteq DOMAIN buf
  /\ \A d \in Deployer : deployer[d].pc = "send" => deployer[d].ch \in DOMAIN buf

Bounded == \A i \in DOMAIN buf : Len(buf[i]) <= Cap

IsConfig(a) == a.kind = "config"

(* A host has one connection that works, a channel in the map is drained   *)
(* for its own host only, and what a handler writes first are keys.        *)
AliveAt(c, h) == conn[c].alive /\ conn[c].host = h

Owned ==
  /\ \A c, d \in Conn : \A h \in Host : AliveAt(c, h) /\ AliveAt(d, h) => c = d
  /\ \A g, h \in Host : hostActions[g] = hostActions[h] /\ hostActions[g] # 0 => g = h
  /\ \A c \in Conn, h \in Host :
       Serving(c) /\ conn[c].ch = hostActions[h] => conn[c].host = h
  /\ \A c \in Conn : conn[c].pc = "first" => ~IsConfig(conn[c].act)

(* The configurations among some actions, on a connection, of a host.      *)
Configs(s)  == {s[i] : i \in {j \in DOMAIN s : IsConfig(s[j])}}
One(a)      == {x \in {a} : IsConfig(x)}

Holding(c) == {x \in One(conn[c].act) : conn[c].pc = "write"}

(* What has left the channels and reached h, or still may.                 *)
Past(h) ==
  Configs(received[h])
    \cup UNION {Configs(wire[c]) \cup Holding(c) : c \in {d \in Conn : AliveAt(d, h)}}

InOrder(s) ==
  \A i, j \in DOMAIN s :
    i < j /\ IsConfig(s[i]) /\ IsConfig(s[j]) => Ahead(s[i], s[j])

Increasing(s) ==
  \A i, j \in DOMAIN s : i < j /\ IsConfig(s[i]) /\ IsConfig(s[j]) => s[i].n < s[j].n

(* From the agent back to its handler.                                     *)
Lines ==
  /\ \A h \in Host : InOrder(received[h]) /\ \A i \in DOMAIN received[h] : IsConfig(received[h][i])
  /\ \A c \in Conn : InOrder(wire[c])
  /\ \A c \in Conn, h \in Host : AliveAt(c, h) =>
       /\ \A x \in Configs(received[h]), y \in Configs(wire[c]) \cup Holding(c) : Ahead(x, y)
       /\ \A x \in Configs(wire[c]), y \in Holding(c) : Ahead(x, y)

(* From there to the channels.  A configuration is in one place, and       *)
(* behind those of its channel that have left it.                          *)
Numbered ==
  /\ \A h \in Host : \A x \in Past(h) : x.n <= sent
  /\ \A ch \in DOMAIN buf : \A y \in Configs(buf[ch]) : y.n <= sent /\ y.via = ch

Apart ==
  /\ \A ch \in DOMAIN buf : Increasing(buf[ch])
  /\ \A g, ch \in DOMAIN buf : g # ch =>
       \A x \in Configs(buf[g]), y \in Configs(buf[ch]) : x.n # y.n
  /\ \A h \in Host, ch \in DOMAIN buf : \A x \in Past(h), y \in Configs(buf[ch]) :
       x.n # y.n /\ (x.via = ch => x.n < y.n)

(* A single deploy step sends to the channel that is in the map when it    *)
(* begins: what the channel before it held is older.                       *)
Sole == ~ \E d, e \in Deployer : d # e

Drains(c, h) == AliveAt(c, h) /\ Serving(c)

OneSender ==
  Sole =>
    /\ \A h \in Host, ch \in DOMAIN buf :
         ch = hostActions[h] \/ (\E c \in Conn : Drains(c, h) /\ ch = conn[c].ch) =>
           \A x \in Past(h), y \in Configs(buf[ch]) : x.n < y.n
    /\ \A h \in Host, c \in Conn :
         Drains(c, h) /\ conn[c].ch # hostActions[h] /\ hostActions[h] # 0 =>
           /\ \A x \in Configs(buf[conn[c].ch]), y \in Configs(buf[hostActions[h]]) :
                x.n < y.n
           /\ \A d \in Deployer :
                deployer[d].pc = "send" /\ deployer[d].ch = conn[c].ch =>
                  Configs(buf[hostActions[h]]) = {}

IInv ==
  Types /\ Known /\ Bounded /\ Owned /\ Lines /\ Numbered /\ Apart /\ OneSender

-----------------------------------------------------------------------------
(* What the operations on sequences do to the configurations in them.      *)

(* A connection is opened by one of the handlers.                          *)
LEMMA ConnectOpens ==
  ASSUME NEW h \in Host, Connect(h)
  PROVE  \E c \in Conn : ConnOpen(c, h)
<1>1. Connecting \subseteq Closed
  BY DEF Connecting
<1>. QED BY <1>1 DEF Connect, Closed


LEMMA ActionFacts ==
  /\ \A K \in SUBSET Key : KeyList(K) \in Action /\ ~IsConfig(KeyList(K))
  /\ \A n, ch \in Nat : Config(n, ch) \in Action /\ IsConfig(Config(n, ch))
  /\ \A n, ch : Config(n, ch).n = n /\ Config(n, ch).via = ch
  BY DEF KeyList, Config, Action, IsConfig

LEMMA ConfigsEmpty ==
  Configs(<<>>) = {} /\ InOrder(<<>>) /\ Increasing(<<>>)
  BY DEF Configs, InOrder, Increasing

LEMMA ConfigsMember ==
  ASSUME NEW s
  PROVE  \A x : x \in Configs(s) <=> \E i \in DOMAIN s : s[i] = x /\ IsConfig(x)
<1>1. ASSUME NEW x, x \in Configs(s)
      PROVE  \E i \in DOMAIN s : s[i] = x /\ IsConfig(x)
  BY <1>1 DEF Configs
<1>2. ASSUME NEW x, NEW i \in DOMAIN s, s[i] = x, IsConfig(x)
      PROVE  x \in Configs(s)
  <2>1. i \in {j \in DOMAIN s : IsConfig(s[j])}
    BY <1>2
  <2>. QED
    BY <1>2, <2>1 DEF Configs
<1>. QED
  BY <1>1, <1>2

LEMMA ConfigsType ==
  ASSUME NEW s \in Seq(Action), NEW x \in Configs(s)
  PROVE  x \in Action /\ IsConfig(x) /\ x.n \in Nat
<1>1. PICK i \in DOMAIN s : s[i] = x /\ IsConfig(x)
  BY ConfigsMember
<1>2. s[i] \in Action
  OBVIOUS
<1>. QED
  BY <1>1, <1>2 DEF Action

LEMMA Appended ==
  ASSUME NEW s \in Seq(Action), NEW a \in Action
  PROVE  /\ Append(s, a) \in Seq(Action)
         /\ DOMAIN Append(s, a) = DOMAIN s \cup {Len(s) + 1}
         /\ \A i \in DOMAIN s : i < Len(s) + 1 /\ Append(s, a)[i] = s[i]
         /\ Append(s, a)[Len(s) + 1] = a
         /\ DOMAIN s \subseteq Nat /\ Len(s) \in Nat
  OBVIOUS

LEMMA ConfigsAppend ==
  ASSUME NEW s \in Seq(Action), NEW a \in Action
  PROVE  Configs(Append(s, a)) = Configs(s) \cup One(a)
<1>. DEFINE t == Append(s, a)
<1>1. t \in Seq(Action) /\ DOMAIN t = DOMAIN s \cup {Len(s) + 1}
      /\ (\A i \in DOMAIN s : t[i] = s[i]) /\ t[Len(s) + 1] = a
  BY Appended
<1>. HIDE DEF t
<1>2. \A x : x \in Configs(s) => x \in Configs(t)
  BY <1>1, ConfigsMember
<1>5. IsConfig(a) => a \in Configs(t)
  BY <1>1, ConfigsMember
<1>6. ASSUME NEW x \in Configs(t)
      PROVE  x \in Configs(s) \/ (x = a /\ IsConfig(a))
  <2>1. PICK i \in DOMAIN t : t[i] = x /\ IsConfig(x)
    BY ConfigsMember
  <2>2. CASE i \in DOMAIN s
    BY <1>1, <2>1, <2>2, ConfigsMember
  <2>. QED
    BY <1>1, <2>1, <2>2
<1>3. Configs(t) \subseteq Configs(s) \cup One(a)
  BY <1>6 DEF One
<1>4. Configs(s) \cup One(a) \subseteq Configs(t)
  BY <1>2, <1>5 DEF One
<1>. QED
  BY <1>3, <1>4 DEF t

LEMMA OrderAppend ==
  ASSUME NEW s \in Seq(Action), NEW a \in Action
  PROVE  /\ InOrder(s) /\ (IsConfig(a) => \A x \in Configs(s) : Ahead(x, a))
              => InOrder(Append(s, a))
         /\ Increasing(s) /\ (IsConfig(a) => \A x \in Configs(s) : x.n < a.n)
              => Increasing(Append(s, a))
<1>. DEFINE t == Append(s, a)
<1>1. t \in Seq(Action) /\ DOMAIN t = DOMAIN s \cup {Len(s) + 1}
      /\ (\A i \in DOMAIN s : i < Len(s) + 1 /\ t[i] = s[i]) /\ t[Len(s) + 1] = a
      /\ DOMAIN s \subseteq Nat /\ Len(s) \in Nat
  BY Appended
<1>. HIDE DEF t
<1>2. \A i \in DOMAIN s : IsConfig(s[i]) => s[i] \in Configs(s)
  BY DEF Configs
<1>3. \A i, j \in DOMAIN t : i < j => i \in DOMAIN s
  BY <1>1
<1>4. InOrder(s) /\ (IsConfig(a) => \A x \in Configs(s) : Ahead(x, a)) => InOrder(t)
  BY <1>1, <1>2, <1>3 DEF InOrder
<1>5. Increasing(s) /\ (IsConfig(a) => \A x \in Configs(s) : x.n < a.n) => Increasing(t)
  BY <1>1, <1>2, <1>3 DEF Increasing
<1>. QED
  BY <1>4, <1>5 DEF t

LEMMA Tailed ==
  ASSUME NEW s \in Seq(Action), s # <<>>
  PROVE  /\ Tail(s) \in Seq(Action) /\ Head(s) \in Action
         /\ Len(Tail(s)) = Len(s) - 1 /\ 1 \in DOMAIN s /\ s[1] = Head(s)
         /\ \A i \in DOMAIN Tail(s) :
              i \in Nat /\ i + 1 \in DOMAIN s /\ 1 < i + 1 /\ Tail(s)[i] = s[i + 1]
         /\ \A i \in DOMAIN s : i = 1 \/ \E j \in DOMAIN Tail(s) : i = j + 1
<1>1. Len(s) \in Nat \ {0} /\ DOMAIN s = 1 .. Len(s)
  OBVIOUS
<1>2. /\ Tail(s) \in Seq(Action) /\ Head(s) \in Action /\ s[1] = Head(s)
      /\ Len(Tail(s)) = Len(s) - 1 /\ DOMAIN Tail(s) = 1 .. Len(s) - 1
      /\ \A i \in 1 .. Len(s) - 1 : Tail(s)[i] = s[i + 1]
  OBVIOUS
<1>3. \A i \in DOMAIN s : i = 1 \/ (i - 1 \in DOMAIN Tail(s) /\ i = (i - 1) + 1)
  BY <1>1, <1>2
<1>. QED
  BY <1>1, <1>2, <1>3

LEMMA ConfigsTail ==
  ASSUME NEW s \in Seq(Action), s # <<>>
  PROVE  /\ Configs(s) = Configs(Tail(s)) \cup One(Head(s))
         /\ InOrder(s) => /\ InOrder(Tail(s))
                          /\ IsConfig(Head(s)) =>
                               \A x \in Configs(Tail(s)) : Ahead(Head(s), x)
         /\ Increasing(s) => /\ Increasing(Tail(s))
                             /\ IsConfig(Head(s)) =>
                                  \A x \in Configs(Tail(s)) : Head(s).n < x.n
<1>. DEFINE t == Tail(s)
<1>1. /\ 1 \in DOMAIN s /\ s[1] = Head(s)
      /\ \A i \in DOMAIN t :
           i \in Nat /\ i + 1 \in DOMAIN s /\ 1 < i + 1 /\ t[i] = s[i + 1]
      /\ \A i \in DOMAIN s : i = 1 \/ \E j \in DOMAIN t : i = j + 1
  BY Tailed
<1>. HIDE DEF t
<1>2. \A x : x \in Configs(t) => x \in Configs(s)
  BY <1>1, ConfigsMember
<1>7. IsConfig(Head(s)) => Head(s) \in Configs(s)
  BY <1>1, ConfigsMember
<1>8. ASSUME NEW x \in Configs(s)
      PROVE  x \in Configs(t) \/ (x = Head(s) /\ IsConfig(Head(s)))
  <2>1. PICK i \in DOMAIN s : s[i] = x /\ IsConfig(x)
    BY ConfigsMember
  <2>2. CASE \E j \in DOMAIN t : i = j + 1
    <3>1. PICK j \in DOMAIN t : i = j + 1
      BY <2>2
    <3>2. t[j] = x
      BY <1>1, <2>1, <3>1
    <3>. QED
      BY <2>1, <3>1, <3>2, ConfigsMember
  <2>. QED
    BY <1>1, <2>1, <2>2
<1>6. Configs(s) = Configs(t) \cup One(Head(s))
  <2>1. Configs(s) \subseteq Configs(t) \cup One(Head(s))
    BY <1>8 DEF One
  <2>2. Configs(t) \cup One(Head(s)) \subseteq Configs(s)
    BY <1>2, <1>7 DEF One
  <2>. QED BY <2>1, <2>2
<1>3. \A x \in Configs(t) : \E i \in DOMAIN t : x = s[i + 1] /\ IsConfig(s[i + 1])
  BY <1>1, ConfigsMember
<1>4. InOrder(s) => InOrder(t) /\ (IsConfig(Head(s)) => \A x \in Configs(t) : Ahead(Head(s), x))
  <2>1. InOrder(s) => InOrder(t)
    BY <1>1 DEF InOrder
  <2>2. InOrder(s) => (IsConfig(Head(s)) => \A x \in Configs(t) : Ahead(Head(s), x))
    BY <1>1, <1>3 DEF InOrder
  <2>. QED BY <2>1, <2>2
<1>5. Increasing(s) => Increasing(t) /\ (IsConfig(Head(s)) => \A x \in Configs(t) : Head(s).n < x.n)
  <2>1. Increasing(s) => Increasing(t)
    BY <1>1 DEF Increasing
  <2>2. Increasing(s) => (IsConfig(Head(s)) => \A x \in Configs(t) : Head(s).n < x.n)
    BY <1>1, <1>3 DEF Increasing
  <2>. QED BY <2>1, <2>2
<1>. QED
  BY <1>4, <1>5, <1>6 DEF t

-----------------------------------------------------------------------------
(* Types, and what is known of the channels.                               *)

LEMMA ClosedType == ConnClosed \in ConnType /\ ~ConnClosed.alive /\ ConnClosed.pc = "closed"
  BY ActionFacts DEF ConnClosed, ConnType, KeyList, Action

LEMMA InitIInv == Init => IInv
<1> SUFFICES ASSUME Init PROVE IInv
  OBVIOUS
<1>1. Types
  <2>1. conn \in [Conn -> ConnType]
    BY ClosedType DEF Init
  <2>2. /\ keys \in SUBSET Key /\ buf \in Seq(Seq(Action))
        /\ hostActions \in [Host -> Nat] /\ wire \in [Conn -> Seq(Action)]
        /\ authorized \in [Host -> SUBSET Key] /\ received \in [Host -> Seq(Action)]
        /\ sent \in 0 .. MaxConfigs /\ faults \in [FaultKind -> Nat]
    BY DEF Init
  <2>3. /\ putter \in [Putter -> [pc : {"idle", "read", "hosts", "send"},
                                  keys : SUBSET Key, todo : SUBSET Nat]]
        /\ deployer \in [Deployer -> [pc : {"idle", "send"}, ch : Nat]]
    BY DEF Init, PutterIdle, DeployerIdle
  <2>. QED
    BY <2>1, <2>2, <2>3 DEF Types
<1>2. Known /\ Owned
  BY ClosedType DEF Init, Known, Owned, Serving, AliveAt, PutterIdle, DeployerIdle
<1>3. DOMAIN buf = {}
  BY DEF Init
<1>4. \A h \in Host : Past(h) = {} /\ \A c \in Conn : ~AliveAt(c, h)
  BY ClosedType, ConfigsEmpty DEF Init, AliveAt, Past
<1>5. Lines
  <2>1. \A h \in Host : received[h] = <<>>
    BY DEF Init
  <2>2. \A c \in Conn : wire[c] = <<>>
    BY DEF Init
  <2>. QED
    BY <1>4, <2>1, <2>2, ConfigsEmpty DEF Lines
<1>6. Bounded /\ Numbered /\ Apart /\ OneSender
  BY <1>3, <1>4 DEF Bounded, Numbered, Apart, OneSender, Drains
<1>. QED
  BY <1>1, <1>2, <1>5, <1>6 DEF IInv

(* A new channel is empty, and nobody knows it but the map.                *)
LEMMA ChannelMade ==
  ASSUME Types, NEW h \in Host, NewChannel(h)
  PROVE  /\ buf' \in Seq(Seq(Action)) /\ hostActions' \in [Host -> Nat]
         /\ Len(buf) + 1 \notin DOMAIN buf
         /\ DOMAIN buf' = DOMAIN buf \cup {Len(buf) + 1}
         /\ \A i \in DOMAIN buf : buf'[i] = buf[i]
         /\ buf'[Len(buf) + 1] = <<>>
         /\ hostActions' = [hostActions EXCEPT ![h] = Len(buf) + 1]
         /\ Len(buf) \in Nat /\ 0 \notin DOMAIN buf
  BY DEF Types, NewChannel

LEMMA ChannelFilled ==
  ASSUME Types, NEW ch \in DOMAIN buf, NEW s \in Seq(Action),
         buf' = [buf EXCEPT ![ch] = s]
  PROVE  /\ buf' \in Seq(Seq(Action)) /\ DOMAIN buf' = DOMAIN buf
         /\ \A i \in DOMAIN buf : i # ch => buf'[i] = buf[i]
         /\ buf'[ch] = s
  BY DEF Types

LEMMA ChannelFacts ==
  ASSUME Types
  PROVE  /\ \A i \in DOMAIN buf : buf[i] \in Seq(Action) /\ Len(buf[i]) \in Nat
         /\ DOMAIN buf \subseteq Nat \ {0}
         /\ Len(buf) \in Nat /\ Len(buf) + 1 \notin DOMAIN buf
  BY DEF Types


LEMMA SpendType ==
  ASSUME Types, NEW k \in FaultKind, Spend(k)
  PROVE  faults' \in [FaultKind -> Nat]
  BY DEF Types, Spend

Sound == Types /\ Known /\ Bounded

LEMMA DeploySound ==
  ASSUME Sound, NEW d \in Deployer, (\E h \in Host : DeployGet(d, h)) \/ DeploySend(d)
  PROVE  Sound'
<1> USE DEF Sound
<1>1. ASSUME NEW h \in Host, DeployGet(d, h) PROVE Sound'
  <2>1. CASE hostActions[h] = 0
    <3>1. NewChannel(h)
      BY <1>1, <2>1 DEF DeployGet
    <3>2. Types'
      BY <1>1, <3>1, ChannelMade DEF DeployGet, Types, nodeVars
    <3>3. DOMAIN buf \subseteq DOMAIN buf' /\ Len(buf) + 1 \in DOMAIN buf'
          /\ hostActions'[h] = Len(buf) + 1
          /\ \A g \in Host : g # h => hostActions'[g] = hostActions[g]
      BY <3>1, ChannelMade DEF Types
    <3>4. Known'
      BY <1>1, <3>3 DEF DeployGet, Known, Serving, Types
    <3>5. Bounded'
      BY <3>1, ChannelMade DEF Bounded
    <3>. QED BY <3>2, <3>4, <3>5
  <2>2. CASE hostActions[h] # 0
    <3>1. UNCHANGED <<buf, hostActions>>
      BY <1>1, <2>2 DEF DeployGet
    <3>2. Types'
      BY <1>1, <3>1 DEF DeployGet, Types, nodeVars
    <3>3. Known' /\ Bounded'
      BY <1>1, <2>2, <3>1 DEF DeployGet, Known, Bounded, Serving, Types
    <3>. QED BY <3>2, <3>3
  <2>. QED BY <2>1, <2>2
<1>2. ASSUME DeploySend(d) PROVE Sound'
  <2>. DEFINE ch == deployer[d].ch
             a  == Config(sent', ch)
  <2>1. ch \in DOMAIN buf /\ ch \in Nat /\ sent' = sent + 1 /\ sent' \in Nat
        /\ Len(buf[ch]) < Cap /\ sent' \in 0 .. MaxConfigs
    BY <1>2 DEF DeploySend, Known, Types
  <2>2. a \in Action /\ buf[ch] \in Seq(Action)
    BY <2>1, ActionFacts, ChannelFacts
  <2>3. /\ Append(buf[ch], a) \in Seq(Action)
        /\ Len(Append(buf[ch], a)) = Len(buf[ch]) + 1
    BY <2>2
  <2>4. buf' = [buf EXCEPT ![ch] = Append(buf[ch], a)]
    BY <1>2, <2>1 DEF DeploySend
  <2>. HIDE DEF a
  <2>5. /\ buf' \in Seq(Seq(Action)) /\ DOMAIN buf' = DOMAIN buf
        /\ \A i \in DOMAIN buf : i # ch => buf'[i] = buf[i]
        /\ buf'[ch] = Append(buf[ch], a)
    BY <2>1, <2>3, <2>4, ChannelFilled
  <2>6. Types'
    BY <1>2, <2>1, <2>5 DEF DeploySend, Types, DeployerIdle, nodeVars
  <2>7. Known'
    BY <1>2, <2>5 DEF DeploySend, Known, Serving, DeployerIdle, Types
  <2>8. Bounded'
    <3>1. Len(buf'[ch]) <= Cap
      BY <2>1, <2>3, <2>5, ChannelFacts
    <3>. QED BY <2>5, <3>1 DEF Bounded
  <2>. QED BY <2>6, <2>7, <2>8
<1>. QED BY <1>1, <1>2

LEMMA PutSound ==
  ASSUME Sound, NEW p \in Putter, (\E k \in Key : PutKey(p, k)) \/ PutStep(p)
  PROVE  Sound'
<1> USE DEF Sound
<1>1. ASSUME NEW k \in Key, PutKey(p, k) PROVE Sound'
  <2>1. Types'
    BY <1>1 DEF PutKey, Types, nodeVars
  <2>2. Known'
    BY <1>1 DEF PutKey, Types, Known, Serving, nodeVars
  <2>3. Bounded'
    BY <1>1 DEF PutKey, Bounded
  <2>. QED BY <2>1, <2>2, <2>3
<1>2. CASE PutRead(p)
  <2>1. Types'
    BY ZenonT(30), <1>2 DEF PutRead, Types, nodeVars
  <2>2. Known'
    BY <1>2 DEF PutRead, Types, Known, Serving, nodeVars
  <2>3. Bounded'
    BY <1>2 DEF PutRead, Bounded
  <2>. QED BY <2>1, <2>2, <2>3
<1>3. CASE PutHosts(p)
  <2>1. {hostActions[h] : h \in Host} \ {0} \subseteq DOMAIN buf
    BY DEF Known
  <2>2. {hostActions[h] : h \in Host} \ {0} \in SUBSET Nat
    BY DEF Types
  <2>3. Types'
    BY ZenonT(30), <1>3, <2>2 DEF PutHosts, Types, nodeVars
  <2>4. Known'
    BY <1>3, <2>1 DEF PutHosts, Types, Known, Serving, nodeVars
  <2>5. Bounded'
    BY <1>3 DEF PutHosts, Bounded
  <2>. QED BY <2>3, <2>4, <2>5
<1>4. ASSUME NEW ch \in putter[p].todo, putter[p].pc = "send", Len(buf[ch]) < Cap,
             buf' = [buf EXCEPT ![ch] = Append(@, KeyList(putter[p].keys))],
             putter' = [putter EXCEPT ![p].todo = @ \ {ch}],
             UNCHANGED <<keys, hostActions, conn, wire, deployer, nodeVars, sent, faults>>
      PROVE  Sound'
  <2>. DEFINE a == KeyList(putter[p].keys)
  <2>1. ch \in DOMAIN buf
    BY DEF Known
  <2>2. a \in Action /\ buf[ch] \in Seq(Action)
    BY <2>1, ActionFacts, ChannelFacts DEF Types
  <2>3. /\ Append(buf[ch], a) \in Seq(Action)
        /\ Len(Append(buf[ch], a)) = Len(buf[ch]) + 1
    BY <2>2
  <2>4. buf' = [buf EXCEPT ![ch] = Append(buf[ch], a)]
    BY <1>4, <2>1
  <2>. HIDE DEF a
  <2>5. /\ buf' \in Seq(Seq(Action)) /\ DOMAIN buf' = DOMAIN buf
        /\ \A i \in DOMAIN buf : i # ch => buf'[i] = buf[i]
        /\ buf'[ch] = Append(buf[ch], a)
    BY <2>1, <2>3, <2>4, ChannelFilled
  <2>6. Types'
    BY ZenonT(30), <1>4, <2>5 DEF Types, nodeVars
  <2>7. Known'
    BY <1>4, <2>5 DEF Known, Serving, Types
  <2>8. Bounded'
    <3>1. Len(buf'[ch]) <= Cap
      BY <1>4, <2>1, <2>3, <2>5, ChannelFacts
    <3>. QED BY <2>5, <3>1 DEF Bounded
  <2>. QED BY <2>6, <2>7, <2>8
<1>5. CASE /\ putter' = [putter EXCEPT ![p] = PutterIdle]
           /\ UNCHANGED <<buf, keys, hostActions, conn, wire, deployer, nodeVars, sent,
                          faults>>
  <2>1. Types'
    BY <1>5 DEF PutterIdle, Types, nodeVars
  <2>2. Known'
    BY <1>5 DEF PutterIdle, Types, Known, Serving, nodeVars
  <2>3. Bounded'
    BY <1>5 DEF Bounded
  <2>. QED BY <2>1, <2>2, <2>3
<1>. QED BY <1>1, <1>2, <1>3, <1>4, <1>5 DEF PutStep, PutSend


(* A step of the handler c, of its connection or of the agent at its end.  *)
LEMMA ConnChanged ==
  ASSUME Sound, NEW c \in Conn, NEW r \in ConnType, NEW w \in Seq(Action),
         conn' = [conn EXCEPT ![c] = r], wire' = [wire EXCEPT ![c] = w],
         r.pc \in {"serve", "write"} => r.ch \in DOMAIN buf,
         r.pc # "closed" => r.host \in Host,
         r.alive => r.pc # "closed",
         w # <<>> => r.alive,
         authorized' \in [Host -> SUBSET Key], received' \in [Host -> Seq(Action)],
         faults' \in [FaultKind -> Nat],
         UNCHANGED <<keys, hostActions, buf, putter, deployer, sent>>
  PROVE  Sound'
<1> USE DEF Sound
<1>1. Types'
  BY DEF Types
<1>2. Known'
  <2>1. \A d \in Conn : /\ conn'[d] = IF d = c THEN r ELSE conn[d]
                        /\ wire'[d] = IF d = c THEN w ELSE wire[d]
    BY DEF Types
  <2>. QED
    BY <2>1 DEF Known, Serving
<1>3. Bounded'
  BY DEF Bounded
<1>. QED BY <1>1, <1>2, <1>3

LEMMA ConnSound ==
  ASSUME Sound, NEW c \in Conn,
         \/ \E h \in Host : ConnOpen(c, h)
         \/ ConnRead(c) \/ ConnFirst(c) \/ ConnGet(c) \/ ConnWrite(c) \/ ConnEnd(c)
         \/ NodeReceive(c) \/ Drop(c) \/ NodeWriteFails(c)
  PROVE  Sound'
<1> USE DEF Sound
<1> DEFINE C == conn[c]
<1>1. C \in ConnType /\ wire[c] \in Seq(Action) /\ KeyList({}) \in Action
      /\ Append(wire[c], C.act) \in Seq(Action)
  BY ActionFacts DEF Types, ConnType
<1>2. wire[c] # <<>> => Tail(wire[c]) \in Seq(Action) /\ Head(wire[c]) \in Action
  BY <1>1
<1>3. conn = [conn EXCEPT ![c] = C] /\ wire = [wire EXCEPT ![c] = wire[c]]
  BY DEF Types
<1>4. /\ Serving(c) => C.ch \in DOMAIN buf
      /\ C.pc # "closed" => C.host \in Host
      /\ C.alive => C.pc # "closed"
      /\ wire[c] # <<>> => C.alive
  BY DEF Known
<1>5. /\ authorized \in [Host -> SUBSET Key] /\ received \in [Host -> Seq(Action)]
      /\ faults \in [FaultKind -> Nat]
  BY DEF Types
<1>6. ASSUME NEW h \in Host, ConnOpen(c, h) PROVE Sound'
  <2>. DEFINE r == [ConnClosed EXCEPT !.pc = "read", !.host = h, !.alive = TRUE]
  <2>1. r \in ConnType /\ r.pc = "read" /\ r.host = h
    BY ClosedType DEF ConnType, ConnClosed
  <2>2. conn' = [conn EXCEPT ![c] = r] /\ wire' = [wire EXCEPT ![c] = <<>>]
    BY <1>6 DEF ConnOpen
  <2>3. <<>> \in Seq(Action)
    OBVIOUS
  <2>. HIDE DEF r
  <2>. QED
    BY <1>5, <1>6, <2>1, <2>2, <2>3, ConnChanged DEF ConnOpen, nodeVars
<1>7. CASE ConnRead(c)
  <2>. DEFINE r == [C EXCEPT !.pc = "first", !.act = KeyList(keys)]
  <2>1. r \in ConnType /\ r.pc = "first" /\ r.host = C.host /\ r.alive = C.alive
    BY <1>1, ActionFacts DEF Types, ConnType
  <2>2. conn' = [conn EXCEPT ![c] = r] /\ C.pc = "read"
    BY <1>7 DEF ConnRead
  <2>. HIDE DEF r
  <2>. QED
    BY <1>1, <1>3, <1>4, <1>5, <1>7, <2>1, <2>2, ConnChanged DEF ConnRead, nodeVars
<1>8. ASSUME NEW pc \in {"get", "serve"}, Written(c, pc), Transmit(c), C.pc \in {"first", "write"},
             pc = "serve" => C.ch \in DOMAIN buf,
             UNCHANGED <<keys, hostActions, buf, putter, deployer, nodeVars, sent, faults>>
      PROVE  Sound'
  <2>. DEFINE r == [C EXCEPT !.pc = pc, !.act = KeyList({})]
              w == IF C.alive THEN Append(wire[c], C.act) ELSE wire[c]
  <2>1. r \in ConnType /\ r.pc = pc /\ r.host = C.host /\ r.alive = C.alive /\ r.ch = C.ch
    BY <1>1 DEF ConnType
  <2>2. conn' = [conn EXCEPT ![c] = r]
    BY <1>8 DEF Written
  <2>5. wire' = [wire EXCEPT ![c] = w]
    BY <1>3, <1>8 DEF Transmit
  <2>3. w \in Seq(Action) /\ (w # <<>> => C.alive)
    BY <1>1, <1>4
  <2>4. C.pc # "closed" /\ pc # "closed"
    BY <1>8
  <2>. HIDE DEF r, w, C
  <2>6. /\ r.pc \in {"serve", "write"} => r.ch \in DOMAIN buf
        /\ r.pc # "closed" => r.host \in Host
        /\ r.alive => r.pc # "closed"
        /\ w # <<>> => r.alive
    BY <1>4, <1>8, <2>1, <2>3, <2>4
  <2>7. /\ authorized' \in [Host -> SUBSET Key] /\ received' \in [Host -> Seq(Action)]
        /\ faults' \in [FaultKind -> Nat]
        /\ UNCHANGED <<keys, hostActions, buf, putter, deployer, sent>>
    BY <1>5, <1>8 DEF nodeVars
  <2>. QED
    BY <2>1, <2>2, <2>3, <2>5, <2>6, <2>7, ConnChanged
<1>9. CASE /\ conn' = [conn EXCEPT ![c] = ConnClosed] /\ ~C.alive /\ wire' = wire
           /\ UNCHANGED <<keys, hostActions, buf, putter, deployer, nodeVars, sent, faults>>
  BY <1>1, <1>3, <1>4, <1>5, <1>9, ClosedType, ConnChanged DEF nodeVars
<1>10. CASE ConnFirst(c)
  BY <1>8, <1>9, <1>10 DEF ConnFirst, Transmit
<1>11. CASE ConnGet(c)
  <2>. DEFINE ch == hostActions[C.host]
              r  == [C EXCEPT !.pc = IF ch = 0 THEN "set" ELSE "serve", !.ch = ch]
  <2>1. C.host \in Host /\ ch \in Nat /\ (ch # 0 => ch \in DOMAIN buf) /\ C.pc = "get"
    BY <1>4, <1>11 DEF ConnGet, Types, Known
  <2>2. r \in ConnType /\ r.host = C.host /\ r.alive = C.alive /\ r.ch = ch
        /\ r.pc = IF ch = 0 THEN "set" ELSE "serve"
    BY <1>1, <2>1 DEF ConnType
  <2>3. conn' = [conn EXCEPT ![c] = r] /\ wire' = [wire EXCEPT ![c] = wire[c]]
    BY <1>3, <1>11 DEF ConnGet
  <2>4. /\ authorized' \in [Host -> SUBSET Key] /\ received' \in [Host -> Seq(Action)]
        /\ faults' \in [FaultKind -> Nat]
        /\ UNCHANGED <<keys, hostActions, buf, putter, deployer, sent>>
    BY <1>5, <1>11 DEF ConnGet, nodeVars
  <2>. HIDE DEF r, ch, C
  <2>5. /\ r.pc \in {"serve", "write"} => r.ch \in DOMAIN buf
        /\ r.pc # "closed" /\ r.host \in Host
        /\ wire[c] # <<>> => r.alive
    BY <1>4, <2>1, <2>2
  <2>. QED
    BY <1>1, <2>2, <2>3, <2>4, <2>5, ConnChanged
<1>12. CASE ConnWrite(c)
  BY <1>4, <1>8, <1>12 DEF ConnWrite, Serving
<1>13. CASE ConnEnd(c)
  BY <1>9, <1>13 DEF ConnEnd
<1>14. CASE Drop(c)
  <2>. DEFINE r == [C EXCEPT !.alive = FALSE]
  <2>1. r \in ConnType /\ r.pc = C.pc /\ r.host = C.host /\ ~r.alive /\ r.ch = C.ch
    BY <1>1 DEF ConnType
  <2>2. conn' = [conn EXCEPT ![c] = r] /\ wire' = [wire EXCEPT ![c] = <<>>]
    BY <1>14 DEF Drop
  <2>3. faults' \in [FaultKind -> Nat]
    BY <1>14, SpendType DEF Drop, FaultKind
  <2>4. <<>> \in Seq(Action)
    OBVIOUS
  <2>. HIDE DEF r
  <2>. QED
    BY <1>4, <1>5, <1>14, <2>1, <2>2, <2>3, <2>4, ConnChanged DEF Drop, nodeVars, Serving
<1>15. ASSUME C.alive, wire[c] # <<>>, wire' = [wire EXCEPT ![c] = Tail(@)], conn' = conn,
              authorized' \in [Host -> SUBSET Key], received' \in [Host -> Seq(Action)],
              faults' \in [FaultKind -> Nat],
              UNCHANGED <<keys, hostActions, buf, putter, deployer, sent>>
       PROVE  Sound'
  <2>1. wire' = [wire EXCEPT ![c] = Tail(wire[c])] /\ conn' = [conn EXCEPT ![c] = C]
    BY <1>3, <1>15
  <2>. QED
    BY <1>1, <1>2, <1>4, <1>15, <2>1, ConnChanged DEF Serving
<1>16. CASE NodeReceive(c)
  <2>1. C.host \in Host /\ Head(wire[c]) \in Action /\ Head(wire[c]).keys \in SUBSET Key
    BY <1>2, <1>4, <1>16 DEF NodeReceive, Action
  <2>2. [authorized EXCEPT ![C.host] = Head(wire[c]).keys] \in [Host -> SUBSET Key]
    BY <1>5, <2>1
  <2>3. [received EXCEPT ![C.host] = Append(@, Head(wire[c]))] \in [Host -> Seq(Action)]
    BY <1>5, <2>1
  <2>4. authorized' \in [Host -> SUBSET Key] /\ received' \in [Host -> Seq(Action)]
    BY <1>5, <1>16, <2>2, <2>3 DEF NodeReceive, Authorize
  <2>. QED
    BY <1>5, <1>15, <1>16, <2>4 DEF NodeReceive
<1>17. CASE NodeWriteFails(c)
  <2>1. authorized' \in [Host -> SUBSET Key] /\ received' \in [Host -> Seq(Action)]
    BY <1>5, <1>17 DEF NodeWriteFails
  <2>2. faults' \in [FaultKind -> Nat]
    BY <1>17, SpendType DEF NodeWriteFails, FaultKind
  <2>. QED
    BY <1>15, <1>17, <2>1, <2>2 DEF NodeWriteFails
<1>. QED
  BY <1>6, <1>7, <1>10, <1>11, <1>12, <1>13, <1>14, <1>16, <1>17

LEMMA ConnSetSound ==
  ASSUME Sound, NEW c \in Conn, ConnSet(c)
  PROVE  Sound'
<1> USE DEF Sound
<1>. DEFINE h == conn[c].host
            r == [conn[c] EXCEPT !.pc = "serve", !.ch = Len(buf) + 1]
<1>1. h \in Host /\ NewChannel(h) /\ conn[c] \in ConnType
  BY DEF ConnSet, Known, Types
<1>2. /\ buf' \in Seq(Seq(Action)) /\ hostActions' \in [Host -> Nat]
      /\ DOMAIN buf' = DOMAIN buf \cup {Len(buf) + 1}
      /\ \A i \in DOMAIN buf : buf'[i] = buf[i]
      /\ buf'[Len(buf) + 1] = <<>>
      /\ hostActions' = [hostActions EXCEPT ![h] = Len(buf) + 1]
      /\ Len(buf) \in Nat
  BY <1>1, ChannelMade
<1>3. r \in ConnType /\ r.pc = "serve" /\ r.host = h /\ r.alive = conn[c].alive
      /\ r.ch = Len(buf) + 1
  BY <1>1, <1>2 DEF ConnType
<1>4. conn' = [conn EXCEPT ![c] = r]
  BY DEF ConnSet
<1>. HIDE DEF r, h
<1>5. Types'
  <2>1. UNCHANGED <<keys, wire, putter, deployer, nodeVars, sent, faults>>
    BY DEF ConnSet
  <2>2. conn' \in [Conn -> ConnType]
    BY <1>3, <1>4 DEF Types
  <2>. QED
    BY <1>2, <2>1, <2>2 DEF Types, nodeVars
<1>6. Known'
  <2>1. \A d \in Conn : conn'[d] = IF d = c THEN r ELSE conn[d]
    BY <1>4 DEF Types
  <2>2. \A g \in Host : hostActions'[g] = IF g = h THEN Len(buf) + 1 ELSE hostActions[g]
    BY <1>2 DEF Types
  <2>3. UNCHANGED <<wire, putter, deployer>> /\ conn[c].pc = "set"
    BY DEF ConnSet
  <2>. QED
    BY <1>1, <1>2, <1>3, <2>1, <2>2, <2>3 DEF Known, Serving
<1>7. Bounded'
  BY <1>2 DEF Bounded
<1>. QED BY <1>5, <1>6, <1>7

LEMMA ConnTakeSound ==
  ASSUME Sound, NEW c \in Conn, ConnTake(c)
  PROVE  Sound'
<1> USE DEF Sound
<1>. DEFINE ch == conn[c].ch
            t  == Tail(buf[ch])
            r  == [conn[c] EXCEPT !.pc = "write", !.act = Head(buf[ch])]
<1>1. ch \in DOMAIN buf /\ conn[c] \in ConnType /\ buf[ch] # <<>> /\ buf[ch] \in Seq(Action)
  BY ChannelFacts DEF ConnTake, Known, Types, Serving
<1>2. t \in Seq(Action) /\ Len(t) = Len(buf[ch]) - 1 /\ Head(buf[ch]) \in Action
  BY <1>1, Tailed
<1>3. r \in ConnType /\ r.pc = "write" /\ r.host = conn[c].host
      /\ r.alive = conn[c].alive /\ r.ch = ch
  BY <1>1, <1>2 DEF ConnType
<1>4. conn' = [conn EXCEPT ![c] = r] /\ buf' = [buf EXCEPT ![ch] = t]
      /\ conn[c].pc = "serve"
      /\ UNCHANGED <<keys, hostActions, wire, putter, deployer, nodeVars, sent, faults>>
  BY <1>1 DEF ConnTake
<1>. HIDE DEF r, t, ch
<1>5. /\ buf' \in Seq(Seq(Action)) /\ DOMAIN buf' = DOMAIN buf
      /\ \A i \in DOMAIN buf : i # ch => buf'[i] = buf[i]
      /\ buf'[ch] = t
  BY <1>1, <1>2, <1>4, ChannelFilled
<1>6. Types'
  BY <1>3, <1>4, <1>5 DEF Types, nodeVars
<1>7. Known'
  <2>1. \A d \in Conn : conn'[d] = IF d = c THEN r ELSE conn[d]
    BY <1>4 DEF Types
  <2>. QED
    BY <1>1, <1>3, <1>4, <1>5, <2>1 DEF Known, Serving
<1>8. Bounded'
  <2>1. Len(buf'[ch]) <= Cap
    BY <1>1, <1>2, <1>5, ChannelFacts DEF Bounded
  <2>. QED BY <1>5, <2>1 DEF Bounded
<1>. QED BY <1>6, <1>7, <1>8

LEMMA RestartSound ==
  ASSUME Sound, Restart
  PROVE  Sound'
<1> USE DEF Sound
<1>1. faults' \in [FaultKind -> Nat]
  BY SpendType DEF Restart, FaultKind
<1>2. conn' \in [Conn -> ConnType]
  BY ClosedType DEF Restart
<1>3. /\ putter' \in [Putter -> [pc : {"idle", "read", "hosts", "send"},
                                 keys : SUBSET Key, todo : SUBSET Nat]]
      /\ deployer' \in [Deployer -> [pc : {"idle", "send"}, ch : Nat]]
  BY DEF Restart, PutterIdle, DeployerIdle
<1>4. Types'
  BY <1>1, <1>2, <1>3 DEF Restart, Types, nodeVars
<1>5. Known'
  BY ClosedType DEF Restart, Known, Serving, PutterIdle, DeployerIdle
<1>6. Bounded'
  BY DEF Restart, Bounded
<1>. QED BY <1>4, <1>5, <1>6

LEMMA StepSound ==
  ASSUME Sound, [Next]_vars
  PROVE  Sound'
<1>1. CASE Next
  <2>1. ASSUME NEW c \in Conn, ConnStep(c) \/ NodeReceive(c) \/ Drop(c) \/ NodeWriteFails(c)
        PROVE  Sound'
    BY <2>1, ConnSound, ConnSetSound, ConnTakeSound DEF ConnStep
  <2>. QED
    BY <1>1, <2>1, DeploySound, PutSound, ConnSound, RestartSound, ConnectOpens DEF Next
<1>2. CASE UNCHANGED vars
  <2>1. Types'
    BY <1>2 DEF Sound, vars, nodeVars, Types
  <2>2. Known' /\ Bounded'
    BY <1>2 DEF Sound, vars, nodeVars, Known, Bounded, Serving
  <2>. QED BY <2>1, <2>2 DEF Sound
<1>. QED BY <1>1, <1>2

-----------------------------------------------------------------------------
(* Handlers and the hosts they serve.                                      *)

(* No connection comes to life, and a handler finds its channel in the     *)
(* map.                                                                    *)
LEMMA OwnedKept ==
  ASSUME Sound, Owned, hostActions' = hostActions,
         \A c \in Conn :
           /\ \A h \in Host : AliveAt(c, h)' => AliveAt(c, h)
           /\ Serving(c)' =>
                /\ conn'[c].host \in Host
                /\ \/ conn'[c].ch = hostActions[conn'[c].host] /\ conn'[c].ch # 0
                   \/ Serving(c) /\ conn'[c].ch = conn[c].ch /\ conn'[c].host = conn[c].host
           /\ conn'[c].pc = "first" => ~IsConfig(conn'[c].act)
  PROVE  Owned'
<1>1. \A c, d \in Conn : \A h \in Host : (AliveAt(c, h) /\ AliveAt(d, h) => c = d)'
  BY DEF Owned
<1>2. \A g, h \in Host : (hostActions[g] = hostActions[h] /\ hostActions[g] # 0 => g = h)'
  BY DEF Owned
<1>3. \A c \in Conn, h \in Host :
        (Serving(c) /\ conn[c].ch = hostActions[h] => conn[c].host = h)'
  BY <1>2 DEF Owned
<1>. QED
  BY <1>1, <1>2, <1>3 DEF Owned

(* A channel is made, for a deploy step or for the handler c.              *)
LEMMA OwnedNew ==
  ASSUME Sound, Owned, NEW h \in Host, NewChannel(h),
         \A c \in Conn :
           /\ \A g \in Host : AliveAt(c, g)' => AliveAt(c, g)
           /\ Serving(c)' =>
                \/ conn'[c].ch = Len(buf) + 1 /\ conn'[c].host = h
                \/ Serving(c) /\ conn'[c].ch = conn[c].ch /\ conn'[c].host = conn[c].host
           /\ conn'[c].pc = "first" => ~IsConfig(conn'[c].act)
  PROVE  Owned'
<1>. DEFINE n == Len(buf) + 1
<1>1. /\ n \notin DOMAIN buf /\ n # 0
      /\ \A g \in Host : hostActions'[g] = IF g = h THEN n ELSE hostActions[g]
  BY ChannelMade DEF Sound, Types
<1>2. /\ \A g \in Host : hostActions[g] # n
      /\ \A c \in Conn : Serving(c) => conn[c].ch # n
  BY <1>1 DEF Sound, Known
<1>. HIDE DEF n
<1>3. \A c, d \in Conn : \A g \in Host : (AliveAt(c, g) /\ AliveAt(d, g) => c = d)'
  BY DEF Owned
<1>4. \A f, g \in Host : (hostActions[f] = hostActions[g] /\ hostActions[f] # 0 => f = g)'
  BY <1>1, <1>2 DEF Owned
<1>5. \A c \in Conn, g \in Host :
        (Serving(c) /\ conn[c].ch = hostActions[g] => conn[c].host = g)'
  BY <1>1, <1>2 DEF Owned, n
<1>. QED
  BY <1>3, <1>4, <1>5 DEF Owned

(* What becomes of the handlers, per step.                                 *)
LEMMA ConnOf ==
  ASSUME Sound, NEW c \in Conn, NEW r, conn' = [conn EXCEPT ![c] = r]
  PROVE  \A d \in Conn : conn'[d] = IF d = c THEN r ELSE conn[d]
  BY DEF Sound, Types

LEMMA OwnedStep ==
  ASSUME Sound, Owned, Next
  PROVE  Owned'
<1>1. ASSUME NEW d \in Deployer, NEW h \in Host, DeployGet(d, h)
      PROVE  Owned'
  <2>1. UNCHANGED conn
    BY <1>1 DEF DeployGet
  <2>2. CASE hostActions[h] = 0
    BY <1>1, <2>1, <2>2, OwnedNew DEF DeployGet, AliveAt, Serving, Owned
  <2>3. CASE hostActions[h] # 0
    BY <1>1, <2>1, <2>3 DEF DeployGet, Owned, AliveAt, Serving
  <2>. QED BY <2>2, <2>3
<1>2. ASSUME UNCHANGED <<conn, hostActions>>
      PROVE  Owned'
  BY <1>2 DEF Owned, AliveAt, Serving
<1>3. ASSUME NEW d \in Deployer, DeploySend(d)
      PROVE  Owned'
  BY <1>2, <1>3 DEF DeploySend
<1>4. ASSUME NEW p \in Putter, (\E k \in Key : PutKey(p, k)) \/ PutStep(p)
      PROVE  Owned'
  BY <1>2, <1>4 DEF PutKey, PutStep, PutRead, PutHosts, PutSend
<1>5. ASSUME NEW c \in Conn, NEW h \in Host, ConnOpen(c, h)
      PROVE  Owned'
  <2>. DEFINE r == [ConnClosed EXCEPT !.pc = "read", !.host = h, !.alive = TRUE]
  <2>1. conn' = [conn EXCEPT ![c] = r] /\ hostActions' = hostActions
        /\ \A d \in Conn : ~AliveAt(d, h)
    BY <1>5 DEF ConnOpen, Alive, AliveAt
  <2>2. r.pc = "read" /\ r.host = h
    BY DEF ConnClosed
  <2>. HIDE DEF r
  <2>3. \A d \in Conn : conn'[d] = IF d = c THEN r ELSE conn[d]
    BY <2>1, ConnOf
  <2>. QED
    BY <2>1, <2>2, <2>3 DEF Owned, AliveAt, Serving
<1>6. ASSUME NEW c \in Conn, ConnSet(c)
      PROVE  Owned'
  <2>. DEFINE h == conn[c].host
              r == [conn[c] EXCEPT !.pc = "serve", !.ch = Len(buf) + 1]
  <2>1. h \in Host /\ NewChannel(h) /\ conn[c] \in ConnType
        /\ conn' = [conn EXCEPT ![c] = r]
    BY <1>6 DEF ConnSet, Sound, Known, Types
  <2>2. r.pc = "serve" /\ r.host = h /\ r.alive = conn[c].alive /\ r.ch = Len(buf) + 1
    BY <2>1 DEF ConnType
  <2>. HIDE DEF r
  <2>3. \A d \in Conn : conn'[d] = IF d = c THEN r ELSE conn[d]
    BY <2>1, ConnOf
  <2>. QED
    BY <2>1, <2>2, <2>3, OwnedNew DEF Owned, AliveAt, Serving
<1>7. ASSUME NEW c \in Conn, NEW r, conn' = [conn EXCEPT ![c] = r],
             hostActions' = hostActions,
             r.alive => conn[c].alive /\ r.host = conn[c].host,
             r.pc \in {"serve", "write"} =>
               /\ r.host \in Host
               /\ \/ r.ch = hostActions[r.host] /\ r.ch # 0
                  \/ Serving(c) /\ r.ch = conn[c].ch /\ r.host = conn[c].host,
             r.pc = "first" => ~IsConfig(r.act)
      PROVE  Owned'
  <2>1. \A d \in Conn : conn'[d] = IF d = c THEN r ELSE conn[d]
    BY ZenonT(30), <1>7, ConnOf
  <2>2. \A d \in Conn : Serving(d) => conn[d].host \in Host
    BY DEF Sound, Known, Serving
  <2>. QED
    BY <1>7, <2>1, <2>2, OwnedKept DEF Owned, AliveAt, Serving
<1>8. ASSUME NEW c \in Conn,
             ConnRead(c) \/ ConnFirst(c) \/ ConnGet(c) \/ ConnTake(c) \/ ConnWrite(c)
               \/ ConnEnd(c) \/ Drop(c)
      PROVE  Owned'
  <2>. DEFINE C == conn[c]
  <2>1. C \in ConnType /\ (Serving(c) => C.host \in Host)
    BY DEF Sound, Types, Known, Serving
  <2>2. CASE ConnRead(c)
    <3>. DEFINE r == [C EXCEPT !.pc = "first", !.act = KeyList(keys)]
    <3>1. r.pc = "first" /\ r.host = C.host /\ r.alive = C.alive /\ ~IsConfig(r.act)
      BY <2>1, ActionFacts DEF ConnType, Sound, Types
    <3>2. conn' = [conn EXCEPT ![c] = r] /\ hostActions' = hostActions
      BY <2>2 DEF ConnRead
    <3>. HIDE DEF r
    <3>. QED
      BY <1>7, <3>1, <3>2
  <2>3. ASSUME NEW pc \in {"get", "serve"}, Written(c, pc), pc = "serve" => Serving(c),
               hostActions' = hostActions
        PROVE  Owned'
    <3>. DEFINE r == [C EXCEPT !.pc = pc, !.act = KeyList({})]
    <3>1. r.pc = pc /\ r.host = C.host /\ r.alive = C.alive /\ r.ch = C.ch
      BY <2>1 DEF ConnType
    <3>2. conn' = [conn EXCEPT ![c] = r]
      BY <2>3 DEF Written
    <3>. HIDE DEF r
    <3>. QED
      BY <1>7, <2>1, <2>3, <3>1, <3>2
  <2>4. CASE conn' = [conn EXCEPT ![c] = ConnClosed] /\ hostActions' = hostActions
    BY <1>7, <2>4, ClosedType
  <2>5. CASE ConnFirst(c)
    BY <2>3, <2>4, <2>5 DEF ConnFirst
  <2>6. CASE ConnGet(c)
    <3>. DEFINE ch == hostActions[C.host]
                r  == [C EXCEPT !.pc = IF ch = 0 THEN "set" ELSE "serve", !.ch = ch]
    <3>1. r.pc = (IF ch = 0 THEN "set" ELSE "serve") /\ r.host = C.host
          /\ r.alive = C.alive /\ r.ch = ch
      BY <2>1 DEF ConnType
    <3>2. conn' = [conn EXCEPT ![c] = r] /\ hostActions' = hostActions /\ C.host \in Host
      BY <2>6 DEF ConnGet, Sound, Known
    <3>. HIDE DEF r
    <3>. QED
      BY <1>7, <3>1, <3>2
  <2>7. CASE ConnTake(c)
    <3>. DEFINE r == [C EXCEPT !.pc = "write", !.act = Head(buf[C.ch])]
    <3>1. r.pc = "write" /\ r.host = C.host /\ r.alive = C.alive /\ r.ch = C.ch
      BY <2>1 DEF ConnType
    <3>2. conn' = [conn EXCEPT ![c] = r] /\ hostActions' = hostActions /\ Serving(c)
      BY <2>7 DEF ConnTake, Serving
    <3>. HIDE DEF r
    <3>. QED
      BY <1>7, <2>1, <3>1, <3>2
  <2>8. CASE ConnWrite(c)
    BY <2>3, <2>8 DEF ConnWrite, Serving
  <2>9. CASE ConnEnd(c)
    BY <2>4, <2>9 DEF ConnEnd
  <2>10. CASE Drop(c)
    <3>. DEFINE r == [C EXCEPT !.alive = FALSE]
    <3>1. r.pc = C.pc /\ r.host = C.host /\ ~r.alive /\ r.ch = C.ch /\ r.act = C.act
      BY <2>1 DEF ConnType
    <3>2. conn' = [conn EXCEPT ![c] = r] /\ hostActions' = hostActions
      BY <2>10 DEF Drop
    <3>3. C.pc = "first" => ~IsConfig(C.act)
      BY DEF Owned
    <3>. HIDE DEF r
    <3>. QED
      BY <1>7, <2>1, <3>1, <3>2, <3>3 DEF Serving
  <2>. QED
    BY <1>8, <2>2, <2>5, <2>6, <2>7, <2>8, <2>9, <2>10
<1>9. ASSUME NEW c \in Conn, NodeReceive(c) \/ NodeWriteFails(c)
      PROVE  Owned'
  BY <1>2, <1>9 DEF NodeReceive, NodeWriteFails
<1>10. CASE Restart
  BY <1>10, ClosedType DEF Restart, Owned, AliveAt, Serving
<1>. QED
  BY <1>1, <1>3, <1>4, <1>5, <1>6, <1>8, <1>9, <1>10, ConnectOpens DEF Next, ConnStep

-----------------------------------------------------------------------------
(* From the handlers to the agents.                                        *)

LEMMA PastMember ==
  ASSUME NEW h \in Host
  PROVE  /\ Configs(received[h]) \subseteq Past(h)
         /\ \A c \in Conn : AliveAt(c, h) => Configs(wire[c]) \cup Holding(c) \subseteq Past(h)
         /\ \A x \in Past(h) :
              \/ x \in Configs(received[h])
              \/ \E c \in Conn : AliveAt(c, h) /\ x \in Configs(wire[c]) \cup Holding(c)
  BY DEF Past

LEMMA PastNext ==
  ASSUME NEW h \in Host, NEW S,
         Configs(received'[h]) \subseteq S,
         \A c \in Conn : AliveAt(c, h)' => Configs(wire'[c]) \cup Holding(c)' \subseteq S
  PROVE  Past(h)' \subseteq S
  BY DEF Past

(* A connection on which nothing moves, or nothing is.                     *)
LineStep(c) ==
  \/ /\ Configs(wire'[c]) = {} /\ InOrder(wire'[c])
     /\ Holding(c)' = {} \/ \A h \in Host : ~AliveAt(c, h)'
  \/ /\ \A h \in Host : AliveAt(c, h)' => AliveAt(c, h)
     /\ wire'[c] = wire[c]
     /\ Holding(c)' \subseteq Holding(c)

Forward == Lines' /\ \A h \in Host : Past(h)' \subseteq Past(h)

LEMMA LinesKept ==
  ASSUME Lines, received' = received, \A c \in Conn : LineStep(c)
  PROVE  Forward
<1>1. \A h \in Host : Past(h)' \subseteq Past(h)
  <2> TAKE h \in Host
  <2>1. Configs(received'[h]) \subseteq Past(h)
    BY PastMember
  <2>2. \A c \in Conn : AliveAt(c, h)' => Configs(wire'[c]) \cup Holding(c)' \subseteq Past(h)
    BY PastMember DEF LineStep
  <2>. QED
    BY <2>1, <2>2, PastNext
<1>2. \A h \in Host : (InOrder(received[h]) /\ \A i \in DOMAIN received[h] : IsConfig(received[h][i]))'
  BY DEF Lines
<1>3. \A c \in Conn : InOrder(wire'[c])
  BY DEF Lines, LineStep
<1>4. ASSUME NEW c \in Conn, NEW h \in Host, AliveAt(c, h)'
      PROVE  /\ \A x \in Configs(received'[h]), y \in Configs(wire'[c]) \cup Holding(c)' :
                  Ahead(x, y)
             /\ \A x \in Configs(wire'[c]), y \in Holding(c)' : Ahead(x, y)
  <2>1. CASE Configs(wire'[c]) = {} /\ Holding(c)' = {}
    BY <2>1
  <2>2. CASE AliveAt(c, h) /\ wire'[c] = wire[c] /\ Holding(c)' \subseteq Holding(c)
    BY <2>2 DEF Lines
  <2>. QED
    BY <1>4, <2>1, <2>2 DEF LineStep
<1>5. Lines'
  BY <1>2, <1>3, <1>4 DEF Lines
<1>. QED
  BY <1>1, <1>5 DEF Forward

(* The handler writes its action.                                          *)
LEMMA WriteForward ==
  ASSUME Sound, Owned, Lines, NEW c \in Conn, NEW pc \in {"get", "serve"},
         Written(c, pc), Transmit(c), conn[c].pc \in {"first", "write"},
         received' = received
  PROVE  Forward
<1>. DEFINE a == conn[c].act
            w == IF conn[c].alive THEN Append(wire[c], a) ELSE wire[c]
            r == [conn[c] EXCEPT !.pc = pc, !.act = KeyList({})]
<1>1. conn[c] \in ConnType /\ a \in Action /\ wire[c] \in Seq(Action)
  BY DEF Sound, Types, ConnType
<1>2. r.pc = pc /\ r.host = conn[c].host /\ r.alive = conn[c].alive
  BY <1>1 DEF ConnType
<1>3. One(a) \subseteq Holding(c)
  BY DEF Owned, One, Holding
<1>14. conn' = [conn EXCEPT ![c] = r]
  BY DEF Written
<1>. HIDE DEF r
<1>4. \A d \in Conn : conn'[d] = IF d = c THEN r ELSE conn[d]
  BY ZenonT(30), <1>14, ConnOf
<1>5. \A d \in Conn : wire'[d] = IF d = c THEN w ELSE wire[d]
  BY DEF Transmit, Sound, Types
<1>6. /\ \A d \in Conn, h \in Host : AliveAt(d, h)' <=> AliveAt(d, h)
      /\ \A d \in Conn : d # c => Holding(d)' = Holding(d)
      /\ Holding(c)' = {}
  BY <1>2, <1>4 DEF AliveAt, Holding
<1>7. Configs(Append(wire[c], a)) \subseteq Configs(wire[c]) \cup Holding(c)
  BY <1>1, <1>3, ConfigsAppend
<1>8. CASE ~conn[c].alive
  <2>1. \A d \in Conn : LineStep(d)
    BY <1>5, <1>6, <1>8 DEF LineStep
  <2>. QED
    BY <2>1, LinesKept
<1>9. CASE conn[c].alive
  <2>1. wire'[c] = Append(wire[c], a) /\ \A d \in Conn : d # c => wire'[d] = wire[d]
    BY <1>5, <1>9
  <2>. HIDE DEF w, a
  <2>2. Configs(wire'[c]) \subseteq Configs(wire[c]) \cup Holding(c)
    BY <1>7, <2>1
  <2>3. \A h \in Host : Past(h)' \subseteq Past(h)
    <3> TAKE h \in Host
    <3>1. Configs(received'[h]) \subseteq Past(h)
      BY PastMember
    <3>2. \A d \in Conn : AliveAt(d, h)' => Configs(wire'[d]) \cup Holding(d)' \subseteq Past(h)
      BY <1>6, <2>1, <2>2, PastMember
    <3>. QED
      BY <3>1, <3>2, PastNext
  <2>4. \A h \in Host : (InOrder(received[h]) /\ \A i \in DOMAIN received[h] : IsConfig(received[h][i]))'
    BY DEF Lines
  <2>5. InOrder(wire'[c])
    <3>1. \E h \in Host : AliveAt(c, h)
      BY <1>9 DEF AliveAt, Sound, Known
    <3>2. \A x \in Configs(wire[c]), y \in Holding(c) : Ahead(x, y)
      BY <3>1 DEF Lines
    <3>3. IsConfig(a) => \A x \in Configs(wire[c]) : Ahead(x, a)
      BY <1>3, <3>2 DEF One
    <3>. QED
      BY <1>1, <2>1, <3>3, OrderAppend DEF Lines
  <2>6. \A d \in Conn : InOrder(wire'[d])
    BY <2>1, <2>5 DEF Lines
  <2>7. ASSUME NEW d \in Conn, NEW h \in Host, AliveAt(d, h)'
        PROVE  /\ \A x \in Configs(received'[h]), y \in Configs(wire'[d]) \cup Holding(d)' :
                    Ahead(x, y)
               /\ \A x \in Configs(wire'[d]), y \in Holding(d)' : Ahead(x, y)
    BY <1>6, <2>1, <2>2, <2>7 DEF Lines
  <2>8. Lines'
    BY <2>4, <2>6, <2>7 DEF Lines
  <2>. QED
    BY <2>3, <2>8 DEF Forward
<1>. QED
  BY <1>8, <1>9

(* The agent takes the first action off its connection: a configuration it *)
(* has received, or keys, which it writes or not.                          *)
LEMMA ReceiveForward ==
  ASSUME Sound, Owned, Lines, NEW c \in Conn, conn[c].alive, wire[c] # <<>>,
         wire' = [wire EXCEPT ![c] = Tail(@)], conn' = conn,
         IF IsConfig(Head(wire[c]))
         THEN received' = [received EXCEPT ![conn[c].host] = Append(@, Head(wire[c]))]
         ELSE received' = received
  PROVE  Forward
<1>. DEFINE a == Head(wire[c])
            t == Tail(wire[c])
            h == conn[c].host
<1>1. h \in Host /\ AliveAt(c, h) /\ wire[c] \in Seq(Action) /\ received[h] \in Seq(Action)
      /\ a \in Action
  BY DEF Sound, Known, Types, AliveAt
<1>2. /\ Configs(wire[c]) = Configs(t) \cup One(a)
      /\ InOrder(t) /\ (IsConfig(a) => \A x \in Configs(t) : Ahead(a, x))
  BY <1>1, ConfigsTail DEF Lines
<1>3. \A d \in Conn : wire'[d] = IF d = c THEN t ELSE wire[d]
  BY DEF Sound, Types
<1>4. /\ \A d \in Conn, g \in Host : AliveAt(d, g)' <=> AliveAt(d, g)
      /\ \A d \in Conn : Holding(d)' = Holding(d)
  BY DEF AliveAt, Holding
<1>5. \A d \in Conn, g \in Host : AliveAt(d, g) /\ g = h => d = c
  BY <1>1 DEF Owned
<1>6. One(a) \subseteq Configs(wire[c]) /\ (IsConfig(a) => a \in Configs(wire[c]))
  BY <1>2 DEF One
<1>7. \A g \in Host : g # h => received'[g] = received[g]
  BY DEF Sound, Types
<1>8. /\ Configs(received'[h]) \subseteq Configs(received[h]) \cup One(a)
      /\ InOrder(received'[h]) /\ \A i \in DOMAIN received'[h] : IsConfig(received'[h][i])
  <2>1. CASE IsConfig(a)
    <3>1. received'[h] = Append(received[h], a)
      BY <1>1, <2>1 DEF Sound, Types
    <3>2. \A x \in Configs(received[h]) : Ahead(x, a)
      BY <1>1, <1>6, <2>1 DEF Lines
    <3>3. InOrder(received'[h])
      BY <1>1, <3>1, <3>2, OrderAppend DEF Lines
    <3>4. \A i \in DOMAIN received'[h] : IsConfig(received'[h][i])
      BY <1>1, <2>1, <3>1, Appended DEF Lines
    <3>. QED
      BY <1>1, <3>1, <3>3, <3>4, ConfigsAppend
  <2>2. CASE ~IsConfig(a)
    BY <1>1, <2>2 DEF Lines
  <2>. QED BY <2>1, <2>2
<1>. HIDE DEF a, t, h
<1>9. \A g \in Host : Past(g)' \subseteq Past(g)
  <2> TAKE g \in Host
  <2>1. Configs(received'[g]) \subseteq Past(g)
    BY <1>1, <1>6, <1>7, <1>8, PastMember
  <2>2. \A d \in Conn : AliveAt(d, g)' => Configs(wire'[d]) \cup Holding(d)' \subseteq Past(g)
    BY <1>2, <1>3, <1>4, PastMember
  <2>. QED
    BY <2>1, <2>2, PastNext
<1>10. \A g \in Host : (InOrder(received[g]) /\ \A i \in DOMAIN received[g] : IsConfig(received[g][i]))'
  BY <1>7, <1>8 DEF Lines
<1>11. \A d \in Conn : InOrder(wire'[d])
  BY <1>2, <1>3 DEF Lines
<1>12. ASSUME NEW d \in Conn, NEW g \in Host, AliveAt(d, g)'
       PROVE  /\ \A x \in Configs(received'[g]), y \in Configs(wire'[d]) \cup Holding(d)' :
                   Ahead(x, y)
              /\ \A x \in Configs(wire'[d]), y \in Holding(d)' : Ahead(x, y)
  <2>1. AliveAt(d, g)
    BY <1>4, <1>12
  <2>2. CASE g = h
    <3>1. d = c
      BY <1>5, <2>1, <2>2
    <3>2. /\ \A x \in Configs(received[h]), y \in Configs(wire[c]) \cup Holding(c) : Ahead(x, y)
          /\ \A x \in Configs(wire[c]), y \in Holding(c) : Ahead(x, y)
      BY <1>1 DEF Lines
    <3>3. \A x \in One(a), y \in Configs(t) \cup Holding(c) : Ahead(x, y)
      BY <1>2, <1>6, <3>2 DEF One
    <3>. QED
      BY <1>2, <1>3, <1>4, <1>8, <2>2, <3>1, <3>2, <3>3
  <2>3. CASE g # h
    <3>1. d # c
      BY <1>1, <2>1, <2>3 DEF AliveAt
    <3>. QED
      BY <1>3, <1>4, <1>7, <2>1, <2>3, <3>1 DEF Lines
  <2>. QED BY <2>2, <2>3
<1>13. Lines'
  BY <1>10, <1>11, <1>12 DEF Lines
<1>. QED
  BY <1>9, <1>13 DEF Forward

(* Every step but the handler's taking an action from its channel.         *)
LEMMA ForwardStep ==
  ASSUME Sound, Owned, Lines, Next, \A c \in Conn : ~ConnTake(c)
  PROVE  Forward
<1>1. ASSUME UNCHANGED <<conn, wire, received>>
      PROVE  Forward
  BY <1>1, LinesKept DEF LineStep, AliveAt, Holding
<1>2. ASSUME NEW d \in Deployer, (\E h \in Host : DeployGet(d, h)) \/ DeploySend(d)
      PROVE  Forward
  BY <1>1, <1>2 DEF DeployGet, DeploySend, nodeVars
<1>3. ASSUME NEW p \in Putter, (\E k \in Key : PutKey(p, k)) \/ PutStep(p)
      PROVE  Forward
  BY <1>1, <1>3 DEF PutKey, PutStep, PutRead, PutHosts, PutSend, nodeVars
<1>4. ASSUME NEW c \in Conn, NEW r, NEW w, conn' = [conn EXCEPT ![c] = r],
             wire' = [wire EXCEPT ![c] = w], received' = received, r.pc # "write",
             \/ w = <<>>
             \/ w = wire[c] /\ (r.alive => conn[c].alive /\ r.host = conn[c].host)
      PROVE  Forward
  <2>1. \A d \in Conn : /\ conn'[d] = IF d = c THEN r ELSE conn[d]
                        /\ wire'[d] = IF d = c THEN w ELSE wire[d]
    BY <1>4 DEF Sound, Types
  <2>2. LineStep(c)
    BY <1>4, <2>1, ConfigsEmpty DEF LineStep, AliveAt, Holding
  <2>3. \A d \in Conn : d # c => LineStep(d)
    BY <2>1 DEF LineStep, AliveAt, Holding
  <2>. QED
    BY <1>4, <2>2, <2>3, LinesKept
<1>5. ASSUME NEW c \in Conn, NEW h \in Host, ConnOpen(c, h)
      PROVE  Forward
  <2>. DEFINE r == [ConnClosed EXCEPT !.pc = "read", !.host = h, !.alive = TRUE]
  <2>1. conn' = [conn EXCEPT ![c] = r] /\ r.pc = "read"
    BY <1>5 DEF ConnOpen, ConnClosed
  <2>2. wire' = [wire EXCEPT ![c] = <<>>] /\ received' = received
    BY <1>5 DEF ConnOpen, nodeVars
  <2>. HIDE DEF r
  <2>. QED
    BY <1>4, <2>1, <2>2
<1>6. wire = [c \in Conn |-> wire[c]] /\ \A c \in Conn : conn[c] \in ConnType
  BY DEF Sound, Types
<1>7. ASSUME NEW c \in Conn, ConnRead(c) \/ ConnGet(c) \/ ConnSet(c)
      PROVE  Forward
  <2>1. wire' = [wire EXCEPT ![c] = wire[c]] /\ received' = received
    BY <1>6, <1>7 DEF ConnRead, ConnGet, ConnSet, nodeVars
  <2>2. ASSUME NEW pc, NEW ch, NEW a, pc # "write",
               conn' = [conn EXCEPT ![c].pc = pc, ![c].ch = ch, ![c].act = a]
        PROVE  Forward
    <3>. DEFINE r == [conn[c] EXCEPT !.pc = pc, !.ch = ch, !.act = a]
    <3>1. r.pc = pc /\ r.alive = conn[c].alive /\ r.host = conn[c].host
      BY <1>6 DEF ConnType
    <3>2. conn' = [conn EXCEPT ![c] = r]
      BY <2>2
    <3>. HIDE DEF r
    <3>. QED
      BY <1>4, <2>1, <2>2, <3>1, <3>2
  <2>3. CASE ConnRead(c)
    <3>1. conn' = [conn EXCEPT ![c].pc = "first", ![c].ch = conn[c].ch, ![c].act = KeyList(keys)]
      BY <1>6, <2>3 DEF ConnRead, ConnType, Sound, Types
    <3>. QED BY <2>2, <3>1
  <2>4. CASE ConnGet(c)
    <3>. DEFINE ch == hostActions[conn[c].host]
                pc == IF ch = 0 THEN "set" ELSE "serve"
    <3>1. conn' = [conn EXCEPT ![c].pc = pc, ![c].ch = ch, ![c].act = conn[c].act]
      BY ZenonT(90), <1>6, <2>4 DEF ConnGet, ConnType, Sound, Types
    <3>. HIDE DEF ch
    <3>2. pc # "write"
      OBVIOUS
    <3>. QED BY <2>2, <3>1, <3>2
  <2>5. CASE ConnSet(c)
    <3>1. conn' = [conn EXCEPT ![c].pc = "serve", ![c].ch = Len(buf) + 1,
                               ![c].act = conn[c].act]
      BY ZenonT(30), <1>6, <2>5 DEF ConnSet, ConnType, Sound, Types
    <3>. QED BY <2>2, <3>1
  <2>. QED BY <1>7, <2>3, <2>4, <2>5
<1>8. ASSUME NEW c \in Conn,
             \/ ConnEnd(c)
             \/ ConnFirst(c) /\ conn' = [conn EXCEPT ![c] = ConnClosed] /\ ~conn[c].alive
      PROVE  Forward
  <2>1. wire' = [wire EXCEPT ![c] = wire[c]] /\ received' = received
        /\ conn' = [conn EXCEPT ![c] = ConnClosed]
    BY <1>6, <1>8 DEF ConnEnd, ConnFirst, Transmit, nodeVars
  <2>. QED
    BY <1>4, <2>1, ClosedType
<1>9. ASSUME NEW c \in Conn, ConnFirst(c) \/ ConnWrite(c)
      PROVE  Forward
  BY <1>8, <1>9, WriteForward DEF ConnFirst, ConnWrite, nodeVars
<1>10. ASSUME NEW c \in Conn, Drop(c)
       PROVE  Forward
  <2>. DEFINE r == [conn[c] EXCEPT !.alive = FALSE]
  <2>1. r.pc = conn[c].pc /\ ~r.alive /\ r.act = conn[c].act
    BY <1>6 DEF ConnType
  <2>2. conn' = [conn EXCEPT ![c] = r] /\ wire' = [wire EXCEPT ![c] = <<>>]
        /\ received' = received
    BY <1>10 DEF Drop, nodeVars
  <2>. HIDE DEF r
  <2>3. \A d \in Conn : /\ conn'[d] = IF d = c THEN r ELSE conn[d]
                        /\ wire'[d] = IF d = c THEN <<>> ELSE wire[d]
    BY <2>2 DEF Sound, Types
  <2>4. \A d \in Conn : LineStep(d)
    BY <2>1, <2>3, ConfigsEmpty DEF LineStep, AliveAt, Holding
  <2>. QED
    BY <2>2, <2>4, LinesKept
<1>11. ASSUME NEW c \in Conn, NodeReceive(c) \/ NodeWriteFails(c)
       PROVE  Forward
  <2>1. wire[c] # <<>> => Head(wire[c]) \in Action
    BY DEF Sound, Types
  <2>. QED
    BY <1>11, <2>1, ReceiveForward DEF NodeReceive, NodeWriteFails, IsConfig, Action
<1>12. CASE Restart
  <2>1. \A c \in Conn : LineStep(c)
    BY <1>12, ClosedType, ConfigsEmpty DEF Restart, LineStep, AliveAt, Holding
  <2>. QED
    BY <1>12, <2>1, LinesKept DEF Restart, nodeVars
<1>. QED
  BY <1>2, <1>3, <1>5, <1>7, <1>8, <1>9, <1>10, <1>11, <1>12, ConnectOpens DEF Next, ConnStep

-----------------------------------------------------------------------------
(* From the deploy steps to the handlers.                                  *)

LEMMA NumberTypes ==
  ASSUME Types
  PROVE  /\ \A h \in Host : \A x \in Past(h) : x \in Action /\ IsConfig(x) /\ x.n \in Nat
         /\ \A ch \in DOMAIN buf : \A x \in Configs(buf[ch]) : IsConfig(x) /\ x.n \in Nat
<1>1. \A ch \in DOMAIN buf : \A x \in Configs(buf[ch]) : IsConfig(x) /\ x.n \in Nat
  BY ConfigsType DEF Types
<1>2. ASSUME NEW h \in Host, NEW x \in Past(h)
      PROVE  x \in Action /\ IsConfig(x) /\ x.n \in Nat
  <2>1. CASE x \in Configs(received[h])
    BY <2>1, ConfigsType DEF Types
  <2>2. CASE \E c \in Conn : AliveAt(c, h) /\ x \in Configs(wire[c]) \cup Holding(c)
    <3>1. PICK c \in Conn : x \in Configs(wire[c]) \cup Holding(c)
      BY <2>2
    <3>2. CASE x \in Configs(wire[c])
      BY <3>2, ConfigsType DEF Types
    <3>3. CASE x \in Holding(c)
      BY <3>3 DEF Holding, One, Types, ConnType, Action
    <3>. QED BY <3>1, <3>2, <3>3
  <2>. QED BY <2>1, <2>2, PastMember
<1>. QED BY <1>1, <1>2

(* Nothing is sent, and nothing appears in a channel.                      *)
BufStep ==
  \A ch \in DOMAIN buf' :
    /\ Increasing(buf'[ch])
    /\ \/ Configs(buf'[ch]) = {}
       \/ ch \in DOMAIN buf /\ Configs(buf'[ch]) \subseteq Configs(buf[ch])

LEMMA ChannelsKept ==
  ASSUME Numbered, Apart, BufStep, sent' = sent,
         \A h \in Host : Past(h)' \subseteq Past(h)
  PROVE  Numbered' /\ Apart'
<1>1. Numbered'
  BY DEF Numbered, BufStep
<1>2. Apart'
  <2>1. \A ch \in DOMAIN buf' : Increasing(buf'[ch])
    BY DEF BufStep
  <2>2. \A g, ch \in DOMAIN buf' : g # ch =>
          \A x \in Configs(buf'[g]), y \in Configs(buf'[ch]) : x.n # y.n
    BY DEF BufStep, Apart
  <2>3. \A h \in Host, ch \in DOMAIN buf' : \A x \in Past(h)', y \in Configs(buf'[ch]) :
          x.n # y.n /\ (x.via = ch => x.n < y.n)
    BY DEF BufStep, Apart
  <2>. QED BY <2>1, <2>2, <2>3 DEF Apart
<1>. QED BY <1>1, <1>2

(* Who begins to use a channel finds it in the map, and what is put there  *)
(* is empty.                                                               *)
MapStep ==
  /\ \A h \in Host : \/ hostActions'[h] = hostActions[h]
                     \/ hostActions'[h] = 0
                     \/ Configs(buf'[hostActions'[h]]) = {}
  /\ \A c \in Conn, h \in Host : Drains(c, h)' =>
       \/ conn'[c].ch = hostActions'[h]
       \/ Drains(c, h) /\ conn'[c].ch = conn[c].ch
  /\ \A d \in Deployer : deployer'[d].pc = "send" =>
       \/ \E h \in Host : deployer'[d].ch = hostActions'[h]
       \/ deployer'[d] = deployer[d]

LEMMA SenderKept ==
  ASSUME Sound', Owned', OneSender, BufStep, MapStep,
         \A h \in Host : Past(h)' \subseteq Past(h)
  PROVE  OneSender'
<1> SUFFICES ASSUME Sole
             PROVE  OneSender'
  BY DEF OneSender, Sole
<1>1. \A g \in DOMAIN buf' : g # 0
  BY DEF Sound, Types
<1>2. ASSUME NEW h \in Host, NEW ch \in DOMAIN buf',
             ch = hostActions'[h] \/ (\E c \in Conn : Drains(c, h)' /\ ch = conn'[c].ch),
             NEW x \in Past(h)', NEW y \in Configs(buf'[ch])
      PROVE  x.n < y.n
  <2>1. x \in Past(h) /\ ch \in DOMAIN buf /\ y \in Configs(buf[ch])
    BY <1>2 DEF BufStep
  <2>2. ch = hostActions[h] \/ (\E c \in Conn : Drains(c, h) /\ ch = conn[c].ch)
    BY <1>1, <1>2 DEF MapStep
  <2>. QED
    BY <2>1, <2>2 DEF OneSender
<1>3. ASSUME NEW h \in Host, NEW c \in Conn,
             Drains(c, h)', conn'[c].ch # hostActions'[h], hostActions'[h] # 0
      PROVE  /\ \A x \in Configs(buf'[conn'[c].ch]), y \in Configs(buf'[hostActions'[h]]) :
                  x.n < y.n
             /\ \A d \in Deployer :
                  deployer'[d].pc = "send" /\ deployer'[d].ch = conn'[c].ch =>
                    Configs(buf'[hostActions'[h]]) = {}
  <2>1. Drains(c, h) /\ conn'[c].ch = conn[c].ch
    BY <1>3 DEF MapStep
  <2>2. conn'[c].ch \in DOMAIN buf' /\ hostActions'[h] \in DOMAIN buf'
    BY <1>3 DEF Sound, Known, Drains
  <2>3. CASE Configs(buf'[hostActions'[h]]) = {}
    BY <2>3
  <2>4. CASE hostActions'[h] = hostActions[h] /\ Configs(buf'[hostActions'[h]]) # {}
    <3>1. /\ \A x \in Configs(buf[conn[c].ch]), y \in Configs(buf[hostActions[h]]) : x.n < y.n
          /\ \A d \in Deployer :
               deployer[d].pc = "send" /\ deployer[d].ch = conn[c].ch =>
                 Configs(buf[hostActions[h]]) = {}
      BY <1>3, <2>1, <2>4 DEF OneSender
    <3>2. Configs(buf'[hostActions'[h]]) \subseteq Configs(buf[hostActions[h]])
      BY <2>2, <2>4 DEF BufStep
    <3>3. Configs(buf'[conn'[c].ch]) \subseteq Configs(buf[conn[c].ch])
      BY <2>1, <2>2 DEF BufStep
    <3>4. ASSUME NEW d \in Deployer, deployer'[d].pc = "send", deployer'[d].ch = conn'[c].ch
          PROVE  FALSE
      <4>1. ASSUME NEW g \in Host, deployer'[d].ch = hostActions'[g]
            PROVE  FALSE
        <5>1. Serving(c)' /\ conn'[c].ch = hostActions'[g] /\ conn'[c].host = h
          BY <1>3, <3>4, <4>1 DEF Drains, AliveAt
        <5>2. g = h
          BY <5>1 DEF Owned
        <5>. QED BY <1>3, <5>1, <5>2
      <4>. QED
        BY <2>1, <2>4, <3>1, <3>2, <3>4, <4>1 DEF MapStep
    <3>. QED
      BY <3>1, <3>2, <3>3, <3>4
  <2>. QED
    BY <1>3, <2>3, <2>4, <2>2, <1>1 DEF MapStep
<1>. QED
  BY <1>2, <1>3 DEF OneSender, Sole

LEMMA ChannelsStep ==
  ASSUME Sound, Owned, Apart, Next,
         \A c \in Conn : ~ConnTake(c), \A d \in Deployer : ~DeploySend(d)
  PROVE  BufStep /\ MapStep /\ sent' = sent
<1>1. ASSUME buf' = buf PROVE BufStep
  BY <1>1 DEF BufStep, Apart
<1>2. ASSUME NEW h \in Host, NewChannel(h) PROVE BufStep
  <2>1. /\ DOMAIN buf' = DOMAIN buf \cup {Len(buf) + 1}
        /\ \A i \in DOMAIN buf : buf'[i] = buf[i]
        /\ buf'[Len(buf) + 1] = <<>>
    BY <1>2, ChannelMade DEF Sound
  <2>. QED
    BY <2>1, ConfigsEmpty DEF BufStep, Apart
<1>3. ASSUME NEW h \in Host, NewChannel(h)
      PROVE  /\ \A g \in Host : g # h => hostActions'[g] = hostActions[g]
             /\ hostActions'[h] = Len(buf) + 1 /\ Configs(buf'[hostActions'[h]]) = {}
  BY <1>3, ChannelMade, ConfigsEmpty DEF Sound, Types
<1>4. ASSUME hostActions' = hostActions, conn' = conn, deployer' = deployer
      PROVE  MapStep
  BY <1>4 DEF MapStep, Drains, AliveAt, Serving
<1>5. ASSUME NEW d \in Deployer, NEW h \in Host, DeployGet(d, h)
      PROVE  BufStep /\ MapStep /\ sent' = sent
  <2>1. conn' = conn /\ sent' = sent
        /\ deployer' = [deployer EXCEPT ![d] = [pc |-> "send", ch |-> hostActions'[h]]]
    BY <1>5 DEF DeployGet
  <2>2. \A e \in Deployer : e # d => deployer'[e] = deployer[e]
    BY <2>1 DEF Sound, Types
  <2>3. deployer'[d].ch = hostActions'[h]
    BY <2>1 DEF Sound, Types
  <2>4. \A c \in Conn, g \in Host : Drains(c, g)' => Drains(c, g) /\ conn'[c].ch = conn[c].ch
    BY <2>1 DEF Drains, AliveAt, Serving
  <2>5. CASE hostActions[h] = 0
    <3>1. NewChannel(h)
      BY <1>5, <2>5 DEF DeployGet
    <3>. QED
      BY <1>2, <1>3, <2>1, <2>2, <2>3, <2>4, <3>1 DEF MapStep
  <2>6. CASE hostActions[h] # 0
    <3>1. UNCHANGED <<buf, hostActions>>
      BY <1>5, <2>6 DEF DeployGet
    <3>. QED
      BY <1>1, <2>1, <2>2, <2>3, <2>4, <3>1 DEF MapStep
  <2>. QED BY <2>5, <2>6
<1>6. ASSUME NEW p \in Putter, (\E k \in Key : PutKey(p, k)) \/ PutStep(p)
      PROVE  BufStep /\ MapStep /\ sent' = sent
  <2>1. hostActions' = hostActions /\ conn' = conn /\ deployer' = deployer /\ sent' = sent
    BY <1>6 DEF PutKey, PutStep, PutRead, PutHosts, PutSend
  <2>2. ASSUME NEW ch \in putter[p].todo,
               buf' = [buf EXCEPT ![ch] = Append(@, KeyList(putter[p].keys))]
        PROVE  BufStep
    <3>. DEFINE a == KeyList(putter[p].keys)
    <3>1. ch \in DOMAIN buf /\ buf[ch] \in Seq(Action)
      BY ChannelFacts DEF Sound, Known
    <3>2. a \in Action /\ ~IsConfig(a)
      BY ActionFacts DEF Sound, Types
    <3>3. buf' = [buf EXCEPT ![ch] = Append(buf[ch], a)]
      BY <2>2, <3>1
    <3>. HIDE DEF a
    <3>4. /\ DOMAIN buf' = DOMAIN buf
          /\ \A i \in DOMAIN buf : i # ch => buf'[i] = buf[i]
          /\ buf'[ch] = Append(buf[ch], a)
      BY <3>1, <3>2, <3>3, Appended, ChannelFilled DEF Sound
    <3>5. One(a) = {}
      BY <3>2 DEF One
    <3>6. Configs(buf'[ch]) = Configs(buf[ch]) \cup One(a)
      BY <3>1, <3>2, <3>4, ConfigsAppend
    <3>7. Increasing(buf'[ch])
      BY <3>1, <3>2, <3>4, OrderAppend DEF Apart
    <3>. QED
      BY <3>4, <3>5, <3>6, <3>7 DEF BufStep, Apart
  <2>3. BufStep
    BY <1>1, <1>6, <2>2 DEF PutKey, PutStep, PutRead, PutHosts, PutSend
  <2>. QED BY <1>4, <2>1, <2>3
<1>7. ASSUME NEW c \in Conn, NEW r, conn' = [conn EXCEPT ![c] = r],
             UNCHANGED <<hostActions, buf, deployer, sent>>,
             r.alive /\ r.pc \in {"serve", "write"} =>
               \/ r.ch = hostActions[r.host]
               \/ conn[c].alive /\ r.host = conn[c].host /\ Serving(c) /\ r.ch = conn[c].ch
      PROVE  BufStep /\ MapStep /\ sent' = sent
  <2>1. \A d \in Conn : conn'[d] = IF d = c THEN r ELSE conn[d]
    BY ZenonT(30), <1>7, ConnOf
  <2>2. MapStep
    BY <1>7, <2>1 DEF MapStep, Drains, AliveAt, Serving
  <2>. QED BY <1>1, <1>7, <2>2
<1>8. \A c \in Conn : conn[c] \in ConnType
  BY DEF Sound, Types
<1>9. ASSUME NEW c \in Conn, NEW h \in Host, ConnOpen(c, h)
      PROVE  BufStep /\ MapStep /\ sent' = sent
  <2>. DEFINE r == [ConnClosed EXCEPT !.pc = "read", !.host = h, !.alive = TRUE]
  <2>1. conn' = [conn EXCEPT ![c] = r] /\ UNCHANGED <<hostActions, buf, deployer, sent>>
        /\ r.pc = "read"
    BY <1>9 DEF ConnOpen, ConnClosed
  <2>. HIDE DEF r
  <2>. QED BY <1>7, <2>1
<1>10. ASSUME NEW c \in Conn, ConnSet(c)
       PROVE  BufStep /\ MapStep /\ sent' = sent
  <2>. DEFINE h == conn[c].host
              r == [conn[c] EXCEPT !.pc = "serve", !.ch = Len(buf) + 1]
  <2>1. h \in Host /\ NewChannel(h) /\ conn' = [conn EXCEPT ![c] = r]
        /\ UNCHANGED <<deployer, sent>>
    BY <1>10 DEF ConnSet, Sound, Known
  <2>2. r.host = h /\ r.ch = Len(buf) + 1
    BY <1>8 DEF ConnType
  <2>. HIDE DEF r
  <2>3. \A d \in Conn : conn'[d] = IF d = c THEN r ELSE conn[d]
    BY <2>1, ConnOf
  <2>4. MapStep
    BY <1>3, <2>1, <2>2, <2>3 DEF MapStep, Drains, AliveAt, Serving
  <2>. QED BY <1>2, <2>1, <2>4
<1>11. ASSUME NEW c \in Conn,
              ConnRead(c) \/ ConnFirst(c) \/ ConnGet(c) \/ ConnWrite(c) \/ ConnEnd(c) \/ Drop(c)
       PROVE  BufStep /\ MapStep /\ sent' = sent
  <2>. DEFINE C == conn[c]
  <2>0. UNCHANGED <<hostActions, buf, deployer, sent>>
    BY <1>11 DEF ConnRead, ConnFirst, ConnGet, ConnWrite, ConnEnd, Drop
  <2>1. ASSUME NEW pc, NEW a, Serving(c) \/ pc \notin {"serve", "write"},
               conn' = [conn EXCEPT ![c].pc = pc, ![c].act = a]
        PROVE  BufStep /\ MapStep /\ sent' = sent
    <3>. DEFINE r == [C EXCEPT !.pc = pc, !.act = a]
    <3>1. r.pc = pc /\ r.host = C.host /\ r.alive = C.alive /\ r.ch = C.ch
      BY <1>8 DEF ConnType
    <3>2. conn' = [conn EXCEPT ![c] = r]
      BY <2>1
    <3>. HIDE DEF r
    <3>. QED BY <1>7, <2>0, <2>1, <3>1, <3>2
  <2>2. CASE conn' = [conn EXCEPT ![c] = ConnClosed]
    BY <1>7, <2>0, <2>2, ClosedType
  <2>3. CASE ConnRead(c)
    <3>1. conn' = [conn EXCEPT ![c].pc = "first", ![c].act = KeyList(keys)]
      BY <2>3 DEF ConnRead
    <3>2. "first" \notin {"serve", "write"}
      OBVIOUS
    <3>. QED BY <2>1, <3>1, <3>2, Zenon
  <2>4. CASE ConnFirst(c)
    <3>1. Written(c, "get") \/ conn' = [conn EXCEPT ![c] = ConnClosed]
      BY <2>4 DEF ConnFirst
    <3>. QED BY SMTT(30), <2>1, <2>2, <3>1 DEF Written
  <2>5. CASE ConnGet(c)
    <3>. DEFINE ch == hostActions[C.host]
                r  == [C EXCEPT !.pc = IF ch = 0 THEN "set" ELSE "serve", !.ch = ch]
    <3>1. r.host = C.host /\ r.ch = ch
      BY <1>8 DEF ConnType
    <3>2. conn' = [conn EXCEPT ![c] = r]
      BY <2>5 DEF ConnGet
    <3>. HIDE DEF r
    <3>. QED BY <1>7, <2>0, <3>1, <3>2
  <2>6. CASE ConnWrite(c)
    <3>1. Written(c, "serve") /\ Serving(c)
      BY <2>6 DEF ConnWrite, Serving
    <3>. QED BY <2>1, <3>1 DEF Written
  <2>7. CASE ConnEnd(c)
    BY <2>2, <2>7 DEF ConnEnd
  <2>8. CASE Drop(c)
    <3>. DEFINE r == [C EXCEPT !.alive = FALSE]
    <3>1. ~r.alive
      BY <1>8 DEF ConnType
    <3>2. conn' = [conn EXCEPT ![c] = r]
      BY <2>8 DEF Drop
    <3>. HIDE DEF r
    <3>. QED BY <1>7, <2>0, <3>1, <3>2
  <2>. QED BY <1>11, <2>3, <2>4, <2>5, <2>6, <2>7, <2>8
<1>12. ASSUME NEW c \in Conn, NodeReceive(c) \/ NodeWriteFails(c)
       PROVE  BufStep /\ MapStep /\ sent' = sent
  BY <1>1, <1>4, <1>12 DEF NodeReceive, NodeWriteFails
<1>13. CASE Restart
  BY <1>13, ClosedType DEF Restart, BufStep, MapStep, Drains, AliveAt, DeployerIdle
<1>. QED
  BY <1>5, <1>6, <1>9, <1>10, <1>11, <1>12, <1>13, ConnectOpens DEF Next, ConnStep

(* A configuration is sent: behind all others.                             *)
LEMMA SendStep ==
  ASSUME Sound, Numbered, Apart, OneSender, NEW d \in Deployer, DeploySend(d),
         \A h \in Host : Past(h)' \subseteq Past(h)
  PROVE  Numbered' /\ Apart' /\ OneSender'
<1>. DEFINE ch == deployer[d].ch
            a  == Config(sent', ch)
<1>1. ch \in DOMAIN buf /\ ch \in Nat /\ sent \in Nat /\ sent' = sent + 1
      /\ UNCHANGED <<hostActions, conn>> /\ deployer[d].pc = "send"
      /\ deployer' = [deployer EXCEPT ![d] = DeployerIdle]
  BY DEF DeploySend, Sound, Known, Types
<1>2. a \in Action /\ IsConfig(a) /\ a.n = sent + 1 /\ a.via = ch /\ buf[ch] \in Seq(Action)
  BY <1>1, ActionFacts, ChannelFacts DEF Sound
<1>3. buf' = [buf EXCEPT ![ch] = Append(buf[ch], a)]
  BY <1>1 DEF DeploySend
<1>. HIDE DEF a
<1>4. /\ DOMAIN buf' = DOMAIN buf
      /\ \A i \in DOMAIN buf : i # ch => buf'[i] = buf[i]
      /\ buf'[ch] = Append(buf[ch], a)
  BY <1>1, <1>2, <1>3, Appended, ChannelFilled DEF Sound
<1>5. One(a) = {a}
  BY <1>2 DEF One
<1>6. Configs(buf'[ch]) = Configs(buf[ch]) \cup {a}
  BY <1>2, <1>4, <1>5, ConfigsAppend
<1>7. /\ \A h \in Host : \A x \in Past(h)' : x \in Past(h) /\ x.n <= sent /\ x.n \in Nat
      /\ \A g \in DOMAIN buf : \A x \in Configs(buf[g]) :
           x.n <= sent /\ x.n \in Nat /\ x.via = g
  BY NumberTypes DEF Sound, Numbered
<1>8. /\ \A h \in Host : \A x \in Past(h)' : x.n < a.n
      /\ \A g \in DOMAIN buf : \A x \in Configs(buf[g]) : x.n < a.n /\ a.n \in Nat
  BY <1>1, <1>2, <1>7
<1>. HIDE DEF ch
<1>12. \A g \in DOMAIN buf : \A y \in Configs(buf'[g]) : y \in Configs(buf[g]) \/ (g = ch /\ y = a)
  BY <1>4, <1>6
<1>9. Numbered'
  <2>1. \A h \in Host : \A x \in Past(h)' : x.n <= sent'
    BY <1>1, <1>7
  <2>2. \A g \in DOMAIN buf' : \A y \in Configs(buf'[g]) : y.n <= sent' /\ y.via = g
    <3>1. \A n \in Nat : n <= sent => n <= sent'
      BY <1>1
    <3>2. a.n <= sent' /\ a.via = ch
      BY <1>1, <1>2
    <3>. QED BY <1>4, <1>7, <1>12, <3>1, <3>2
  <2>. QED BY <2>1, <2>2 DEF Numbered
<1>10. Apart'
  <2>1. Increasing(buf'[ch])
    BY <1>1, <1>2, <1>4, <1>8, OrderAppend DEF Apart
  <2>2. \A g \in DOMAIN buf' : Increasing(buf'[g])
    BY <1>4, <2>1 DEF Apart
  <2>3. \A g, i \in DOMAIN buf' : g # i =>
          \A x \in Configs(buf'[g]), y \in Configs(buf'[i]) : x.n # y.n
    <3> SUFFICES ASSUME NEW g \in DOMAIN buf, NEW i \in DOMAIN buf, g # i,
                        NEW x \in Configs(buf'[g]), NEW y \in Configs(buf'[i])
                 PROVE  x.n # y.n
      BY <1>4
    <3>1. CASE x \in Configs(buf[g]) /\ y \in Configs(buf[i])
      BY <3>1 DEF Apart
    <3>2. CASE x = a /\ y \in Configs(buf[i])
      BY <1>8, <3>2, <1>7
    <3>3. CASE y = a /\ x \in Configs(buf[g])
      BY <1>8, <3>3, <1>7
    <3>. QED BY <1>12, <3>1, <3>2, <3>3
  <2>4. \A h \in Host, g \in DOMAIN buf' : \A x \in Past(h)', y \in Configs(buf'[g]) :
          x.n # y.n /\ (x.via = g => x.n < y.n)
    <3> SUFFICES ASSUME NEW h \in Host, NEW g \in DOMAIN buf,
                        NEW x \in Past(h)', NEW y \in Configs(buf'[g])
                 PROVE  x.n # y.n /\ (x.via = g => x.n < y.n)
      BY <1>4
    <3>1. CASE y \in Configs(buf[g])
      BY <1>7, <3>1 DEF Apart
    <3>2. CASE y = a
      BY <1>1, <1>2, <1>7, <1>8, <3>2
    <3>. QED BY <1>12, <3>1, <3>2
  <2>. QED BY <2>2, <2>3, <2>4 DEF Apart
<1>11. OneSender'
  <2> SUFFICES ASSUME Sole
               PROVE  OneSender'
    BY DEF OneSender, Sole
  <2>1. \A e \in Deployer : e = d /\ deployer'[e].pc = "idle"
    BY <1>1 DEF Sole, Sound, Types, DeployerIdle
  <2>2. \A c \in Conn, h \in Host : Drains(c, h)' <=> Drains(c, h)
    BY <1>1 DEF Drains, AliveAt, Serving
  <2>3. ASSUME NEW h \in Host, NEW g \in DOMAIN buf',
               g = hostActions'[h] \/ (\E c \in Conn : Drains(c, h)' /\ g = conn'[c].ch),
               NEW x \in Past(h)', NEW y \in Configs(buf'[g])
        PROVE  x.n < y.n
    <3>1. g = hostActions[h] \/ (\E c \in Conn : Drains(c, h) /\ g = conn[c].ch)
      BY <1>1, <2>2, <2>3
    <3>2. CASE y \in Configs(buf[g])
      BY <1>4, <1>7, <3>1, <3>2 DEF OneSender
    <3>3. CASE y = a
      BY <1>8, <3>3
    <3>. QED BY <1>4, <1>12, <3>2, <3>3
  <2>4. ASSUME NEW h \in Host, NEW c \in Conn,
               Drains(c, h)', conn'[c].ch # hostActions'[h], hostActions'[h] # 0
        PROVE  /\ \A x \in Configs(buf'[conn'[c].ch]), y \in Configs(buf'[hostActions'[h]]) :
                    x.n < y.n
               /\ \A e \in Deployer :
                    deployer'[e].pc = "send" /\ deployer'[e].ch = conn'[c].ch =>
                      Configs(buf'[hostActions'[h]]) = {}
    <3>. DEFINE o == conn[c].ch
                m == hostActions[h]
    <3>1. Drains(c, h) /\ o # m /\ m # 0 /\ o \in DOMAIN buf /\ m \in DOMAIN buf
          /\ conn'[c].ch = o /\ hostActions'[h] = m
      BY <1>1, <2>2, <2>4 DEF Sound, Known, Drains
    <3>2. /\ \A x \in Configs(buf[o]), y \in Configs(buf[m]) : x.n < y.n
          /\ ch = o => Configs(buf[m]) = {}
      BY <1>1, <3>1 DEF OneSender, ch
    <3>. HIDE DEF o, m
    <3>3. CASE ch = o
      <4>1. Configs(buf'[m]) = {}
        BY <1>4, <3>1, <3>2, <3>3
      <4>. QED BY <2>1, <3>1, <4>1
    <3>4. CASE ch # o
      <4>1. buf'[o] = buf[o]
        BY <1>4, <3>1, <3>4
      <4>2. \A x \in Configs(buf[o]), y \in Configs(buf'[m]) : x.n < y.n
        BY <1>4, <1>6, <1>8, <3>1, <3>2
      <4>. QED BY <2>1, <3>1, <4>1, <4>2
    <3>. QED BY <3>3, <3>4
  <2>. QED BY <2>3, <2>4 DEF OneSender, Sole
<1>. QED BY <1>9, <1>10, <1>11

(* A handler takes the oldest action of its channel: newer than what its   *)
(* host was sent through this channel, and, when a single deploy step      *)
(* sends, than whatever it was sent.                                       *)
LEMMA TakeStep ==
  ASSUME Sound, Owned, Lines, Numbered, Apart, OneSender, NEW c \in Conn, ConnTake(c)
  PROVE  Lines' /\ Numbered' /\ Apart' /\ OneSender'
<1>. DEFINE ch == conn[c].ch
            a  == Head(buf[ch])
            t  == Tail(buf[ch])
            r  == [conn[c] EXCEPT !.pc = "write", !.act = a]
<1>1. ch \in DOMAIN buf /\ conn[c] \in ConnType /\ buf[ch] # <<>> /\ buf[ch] \in Seq(Action)
      /\ conn[c].pc = "serve"
  BY ChannelFacts DEF ConnTake, Sound, Known, Types, Serving
<1>2. r.pc = "write" /\ r.host = conn[c].host /\ r.alive = conn[c].alive
      /\ r.ch = ch /\ r.act = a
  BY <1>1 DEF ConnType
<1>3. /\ conn' = [conn EXCEPT ![c] = r] /\ buf' = [buf EXCEPT ![ch] = t]
      /\ UNCHANGED <<hostActions, wire, deployer, received, sent>>
  BY <1>1 DEF ConnTake, nodeVars
<1>4. /\ Configs(buf[ch]) = Configs(t) \cup One(a)
      /\ Increasing(t) /\ (IsConfig(a) => \A y \in Configs(t) : a.n < y.n)
  BY <1>1, ConfigsTail DEF Apart
<1>5. t \in Seq(Action)
  BY <1>1, Tailed
<1>. HIDE DEF r, t, a
<1>6. /\ DOMAIN buf' = DOMAIN buf
      /\ \A i \in DOMAIN buf : i # ch => buf'[i] = buf[i]
      /\ buf'[ch] = t
  BY <1>1, <1>3, <1>5, ChannelFilled DEF Sound
<1>7. \A d \in Conn : conn'[d] = IF d = c THEN r ELSE conn[d]
  BY <1>3, ConnOf
<1>8. /\ \A d \in Conn, h \in Host : AliveAt(d, h)' <=> AliveAt(d, h)
      /\ \A d \in Conn, h \in Host : Drains(d, h)' <=> Drains(d, h)
      /\ \A d \in Conn : conn'[d].ch = conn[d].ch
      /\ \A d \in Conn : d # c => Holding(d)' = Holding(d)
      /\ Holding(c)' = One(a) /\ Holding(c) = {}
  BY <1>1, <1>2, <1>7 DEF AliveAt, Drains, Serving, Holding, One
<1>. HIDE DEF ch
<1>9. \A g \in DOMAIN buf : Configs(buf'[g]) \subseteq Configs(buf[g]) /\ Increasing(buf'[g])
  BY <1>4, <1>6 DEF Apart
<1>10. IsConfig(a) => a \in Configs(buf[ch])
  BY <1>4 DEF One
<1>11. \A h \in Host : \A x \in Past(h)' :
         x \in Past(h) \/ (x = a /\ IsConfig(a) /\ Drains(c, h))
  <2> TAKE h \in Host
  <2>. DEFINE S == Past(h) \cup {x \in One(a) : Drains(c, h)}
  <2>1. Configs(received'[h]) \subseteq S
    BY <1>3, PastMember
  <2>2. \A d \in Conn : AliveAt(d, h)' => Configs(wire'[d]) \cup Holding(d)' \subseteq S
    BY <1>1, <1>3, <1>8, PastMember DEF Drains, Serving
  <2>3. Past(h)' \subseteq S
    <3>. HIDE DEF S
    <3>. QED BY <2>1, <2>2, PastNext
  <2>. QED BY <2>3 DEF One
<1>12. ASSUME NEW h \in Host, Drains(c, h), IsConfig(a)
       PROVE  /\ \A y \in Configs(buf'[ch]) : a.n < y.n
              /\ \A g \in DOMAIN buf : g # ch => \A y \in Configs(buf'[g]) : a.n # y.n
              /\ a.via = ch
              /\ \A x \in Past(h) : Ahead(x, a)
  <2>1. \A y \in Configs(buf'[ch]) : a.n < y.n
    BY <1>4, <1>6, <1>12
  <2>2. \A g \in DOMAIN buf : g # ch => \A y \in Configs(buf'[g]) : a.n # y.n
    BY <1>1, <1>9, <1>10, <1>12 DEF Apart
  <2>3. a.via = ch
    BY <1>1, <1>10, <1>12 DEF Numbered
  <2>4. ASSUME NEW x \in Past(h) PROVE Ahead(x, a)
    <3>1. x.n # a.n /\ (x.via = ch => x.n < a.n)
      BY <1>1, <1>10, <1>12 DEF Apart
    <3>2. CASE Sole
      <4>1. x.n < a.n
        BY <1>1, <1>10, <1>12, <3>2 DEF OneSender, ch
      <4>. QED BY <4>1 DEF Ahead
    <3>3. CASE ~Sole
      BY <2>3, <3>1, <3>3 DEF Sole, Ahead
    <3>. QED BY <3>2, <3>3
  <2>. QED BY <2>1, <2>2, <2>3, <2>4
<1>13. Lines'
  <2>1. \A h \in Host : (InOrder(received[h]) /\ \A i \in DOMAIN received[h] : IsConfig(received[h][i]))'
    BY <1>3 DEF Lines
  <2>2. \A d \in Conn : InOrder(wire'[d])
    BY <1>3 DEF Lines
  <2>3. ASSUME NEW d \in Conn, NEW h \in Host, AliveAt(d, h)'
        PROVE  /\ \A x \in Configs(received'[h]), y \in Configs(wire'[d]) \cup Holding(d)' :
                    Ahead(x, y)
               /\ \A x \in Configs(wire'[d]), y \in Holding(d)' : Ahead(x, y)
    <3>1. AliveAt(d, h) /\ received'[h] = received[h] /\ wire'[d] = wire[d]
      BY <1>3, <1>8, <2>3
    <3>2. CASE d # c
      BY <1>8, <3>1, <3>2 DEF Lines
    <3>3. CASE d = c
      <4>1. Drains(c, h)
        BY <1>1, <3>1, <3>3 DEF Drains, Serving
      <4>2. Configs(received[h]) \subseteq Past(h) /\ Configs(wire[c]) \subseteq Past(h)
        BY <3>1, <3>3, PastMember
      <4>3. \A y \in Holding(c)' : y = a /\ IsConfig(a)
        BY <1>8 DEF One
      <4>4. \A x \in Configs(received[h]), y \in Configs(wire[c]) : Ahead(x, y)
        BY <3>1, <3>3 DEF Lines
      <4>. QED BY <1>12, <3>1, <3>3, <4>1, <4>2, <4>3, <4>4
    <3>. QED BY <3>2, <3>3
  <2>. QED BY <2>1, <2>2, <2>3 DEF Lines
<1>14. Numbered'
  <2>1. \A h \in Host : \A x \in Past(h)' : x.n <= sent'
    BY <1>1, <1>3, <1>10, <1>11 DEF Numbered
  <2>2. \A g \in DOMAIN buf' : \A y \in Configs(buf'[g]) : y.n <= sent' /\ y.via = g
    BY <1>3, <1>6, <1>9 DEF Numbered
  <2>. QED BY <2>1, <2>2 DEF Numbered
<1>15. Apart'
  <2>1. \A g \in DOMAIN buf' : Increasing(buf'[g])
    BY <1>6, <1>9
  <2>2. \A g, i \in DOMAIN buf' : g # i =>
          \A x \in Configs(buf'[g]), y \in Configs(buf'[i]) : x.n # y.n
    BY <1>6, <1>9 DEF Apart
  <2>3. ASSUME NEW h \in Host, NEW g \in DOMAIN buf', NEW x \in Past(h)',
               NEW y \in Configs(buf'[g])
        PROVE  x.n # y.n /\ (x.via = g => x.n < y.n)
    <3>1. CASE x \in Past(h)
      BY <1>6, <1>9, <3>1 DEF Apart
    <3>2. CASE x = a /\ IsConfig(a) /\ Drains(c, h)
      <4>1. CASE g = ch
        <5>1. a.n < y.n /\ a.n \in Nat /\ y.n \in Nat
          BY <1>1, <1>9, <1>10, <1>12, <3>2, <4>1, NumberTypes DEF Sound
        <5>. QED BY <3>2, <5>1
      <4>2. CASE g # ch
        BY <1>6, <1>12, <3>2, <4>2
      <4>. QED BY <4>1, <4>2
    <3>. QED BY <1>11, <3>1, <3>2
  <2>. QED BY <2>1, <2>2, <2>3 DEF Apart
<1>16. OneSender'
  <2> SUFFICES ASSUME Sole
               PROVE  OneSender'
    BY DEF OneSender, Sole
  <2>1. ASSUME NEW h \in Host, NEW g \in DOMAIN buf',
               g = hostActions'[h] \/ (\E d \in Conn : Drains(d, h)' /\ g = conn'[d].ch),
               NEW x \in Past(h)', NEW y \in Configs(buf'[g])
        PROVE  x.n < y.n
    <3>1. g = hostActions[h] \/ (\E d \in Conn : Drains(d, h) /\ g = conn[d].ch)
      BY <1>3, <1>8, <2>1
    <3>2. g \in DOMAIN buf /\ y \in Configs(buf[g])
      BY <1>6, <1>9
    <3>3. CASE x \in Past(h)
      BY <3>1, <3>2, <3>3 DEF OneSender
    <3>4. CASE x = a /\ IsConfig(a) /\ Drains(c, h)
      <4>1. CASE g = ch
        BY <1>12, <3>4, <4>1
      <4>2. CASE g = hostActions[h] /\ g # ch
        <5>1. g # 0
          BY <3>2, ChannelFacts DEF Sound
        <5>. QED
          BY <1>10, <3>2, <3>4, <4>2, <5>1 DEF OneSender, ch
      <4>3. ASSUME NEW d \in Conn, Drains(d, h), g = conn[d].ch
            PROVE  g = ch
        BY <3>4, <4>3 DEF Owned, Drains, ch
      <4>. QED BY <3>1, <4>1, <4>2, <4>3
    <3>. QED BY <1>11, <3>3, <3>4
  <2>2. ASSUME NEW h \in Host, NEW d \in Conn,
               Drains(d, h)', conn'[d].ch # hostActions'[h], hostActions'[h] # 0
        PROVE  /\ \A x \in Configs(buf'[conn'[d].ch]), y \in Configs(buf'[hostActions'[h]]) :
                    x.n < y.n
               /\ \A e \in Deployer :
                    deployer'[e].pc = "send" /\ deployer'[e].ch = conn'[d].ch =>
                      Configs(buf'[hostActions'[h]]) = {}
    <3>1. Drains(d, h) /\ conn'[d].ch = conn[d].ch /\ hostActions' = hostActions
          /\ deployer' = deployer
      BY <1>3, <1>8, <2>2
    <3>2. conn[d].ch \in DOMAIN buf /\ hostActions[h] \in DOMAIN buf
      BY <2>2, <3>1 DEF Sound, Known, Drains
    <3>3. /\ \A x \in Configs(buf[conn[d].ch]), y \in Configs(buf[hostActions[h]]) : x.n < y.n
          /\ \A e \in Deployer :
               deployer[e].pc = "send" /\ deployer[e].ch = conn[d].ch =>
                 Configs(buf[hostActions[h]]) = {}
      BY <2>2, <3>1 DEF OneSender
    <3>4. /\ Configs(buf'[conn[d].ch]) \subseteq Configs(buf[conn[d].ch])
          /\ Configs(buf'[hostActions[h]]) \subseteq Configs(buf[hostActions[h]])
      BY <1>9, <3>2
    <3>. QED BY <3>1, <3>3, <3>4
  <2>. QED BY <2>1, <2>2 DEF OneSender, Sole
<1>. QED BY <1>13, <1>14, <1>15, <1>16

-----------------------------------------------------------------------------
(* The theorems.                                                           *)

LEMMA StepIInv ==
  ASSUME IInv, [Next]_vars
  PROVE  IInv'
<1>. USE DEF IInv
<1>1. Sound /\ Sound'
  BY StepSound DEF Sound
<1>2. CASE Next
  <2>1. Owned'
    BY <1>1, <1>2, OwnedStep
  <2>2. ASSUME NEW c \in Conn, ConnTake(c)
        PROVE  Lines' /\ Numbered' /\ Apart' /\ OneSender'
    BY <1>1, <2>2, TakeStep
  <2>3. ASSUME \A c \in Conn : ~ConnTake(c)
        PROVE  Lines' /\ Numbered' /\ Apart' /\ OneSender'
    <3>1. Forward
      BY <1>1, <1>2, <2>3, ForwardStep
    <3>2. ASSUME NEW d \in Deployer, DeploySend(d)
          PROVE  Lines' /\ Numbered' /\ Apart' /\ OneSender'
      BY <1>1, <3>1, <3>2, SendStep DEF Forward
    <3>3. ASSUME \A d \in Deployer : ~DeploySend(d)
          PROVE  Lines' /\ Numbered' /\ Apart' /\ OneSender'
      BY <1>1, <1>2, <2>1, <2>3, <3>1, <3>3, ChannelsStep, ChannelsKept, SenderKept
         DEF Forward
    <3>. QED BY <3>2, <3>3
  <2>. QED BY <1>1, <2>1, <2>2, <2>3 DEF Sound
<1>3. CASE UNCHANGED vars
  <2>. USE <1>3 DEF vars, nodeVars
  <2>1. Owned'
    BY DEF Owned, AliveAt, Serving
  <2>2. Forward
    BY LinesKept DEF LineStep, AliveAt, Holding
  <2>3. BufStep /\ MapStep /\ sent' = sent
    BY DEF BufStep, MapStep, Apart, Drains, AliveAt, Serving
  <2>. QED
    BY <1>1, <2>1, <2>2, <2>3, ChannelsKept, SenderKept DEF Forward, Sound
<1>. QED BY <1>2, <1>3

(* The invariant holds in every state the system reaches.                  *)
THEOREM Invariance == Spec => []IInv
BY InitIInv, StepIInv, PTL DEF Spec

(* Whatever deploy steps, PUTs of keys, handlers and agents do, and        *)
(* whatever breaks: nobody sends to or reads from a channel that does not  *)
(* exist, no channel holds more than its capacity, and nothing is on its   *)
(* way on a connection that is broken (main.go:423, execute.go:58).        *)
THEOREM TypeCorrect == Spec => []TypeOK
<1>1. IInv => TypeOK
  <2> SUFFICES ASSUME IInv PROVE TypeOK
    OBVIOUS
  <2>1. /\ keys \subseteq Key
        /\ authorized \in [Host -> SUBSET Key]
        /\ sent \in 0 .. MaxConfigs
        /\ faults \in [FaultKind -> Nat]
    BY DEF IInv, Types
  <2>2. hostActions \in [Host -> 0 .. Len(buf)]
    <3>1. DOMAIN buf = 1 .. Len(buf) /\ Len(buf) \in Nat
      BY DEF IInv, Types
    <3>2. \A h \in Host : hostActions[h] = 0 \/ hostActions[h] \in 1 .. Len(buf)
      BY <3>1 DEF IInv, Known
    <3>3. \A h \in Host : hostActions[h] \in 0 .. Len(buf)
      BY <3>1, <3>2
    <3>. QED BY <3>3 DEF IInv, Types
  <2>3. \A i \in DOMAIN buf : buf[i] \in Seq(Action) /\ Len(buf[i]) <= Cap
    BY ChannelFacts DEF IInv, Bounded
  <2>4. \A c \in Conn :
          /\ conn[c].pc \in {"closed", "read", "first", "get", "set", "serve", "write"}
          /\ conn[c].pc \in {"serve", "write"} => conn[c].ch \in DOMAIN buf
          /\ conn[c].act \in Action
          /\ wire[c] \in Seq(Action)
          /\ wire[c] # <<>> => conn[c].alive
    BY DEF IInv, Types, Known, ConnType, Serving
  <2>5. /\ \A p \in Putter : putter[p].todo \subseteq DOMAIN buf
        /\ \A d \in Deployer : deployer[d].pc = "send" => deployer[d].ch \in DOMAIN buf
    BY DEF IInv, Known
  <2>. QED BY <2>1, <2>2, <2>3, <2>4, <2>5 DEF TypeOK
<1>. QED BY <1>1, Invariance, PTL

(* An agent never receives a configuration twice, nor one after a newer    *)
(* one of the same channel, however many handlers, of connections that     *)
(* broke too, drain the channels of its host; and when a single deploy     *)
(* step sends, none after a newer one at all (main.go:423-473).            *)
THEOREM InOrderDelivery == Spec => []NotReordered
<1>1. IInv => NotReordered
  BY DEF IInv, Lines, InOrder, NotReordered
<1>. QED BY <1>1, Invariance, PTL

=============================================================================

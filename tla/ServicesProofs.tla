--------------------------- MODULE ServicesProofs ---------------------------
(***************************************************************************)
(* Theorems about the services of moonshell that ask further what they are *)
(* told of: the network, for any connections and access points, and the    *)
(* players, for any players and tracks; and about the services together.   *)
(***************************************************************************)
EXTENDS BusProofs

-----------------------------------------------------------------------------
(* The network.                                                            *)

Links == [state : BOOLEAN, primary : Conns \cup {Nothing}, wifi : BOOLEAN,
          specific : Aps \cup {Nothing}, ssid : Aps \cup {Nothing}, strength : 0 .. 2]
SoundLinks ==
    {m \in Links : /\ m.state = (m.primary # Nothing)
                   /\ m.ssid = Nothing \/ m.ssid = m.specific
                   /\ m.specific = Nothing => m.strength = 0}

RootQueries == [scope : {"root"}, path : {Nothing}]
ConnQueries == [scope : {"conn"}, path : Conns]
ApQueries   == [scope : {"ap"}, path : Aps]
Queries     == RootQueries \cup ConnQueries \cup ApQueries

RootProps == {p \in [state : BOOLEAN, primary : Conns \cup {Nothing}] : p.state = (p.primary # Nothing)}
ConnProps == [wifi : BOOLEAN, specific : Aps \cup {Nothing}]

OwnerSignals == [kind : {"signal"}, scope : {"owner"}, new : BOOLEAN]
RootSignals  == [kind : {"signal"}, scope : {"root"}, path : {Nothing}, props : RootProps]
ConnSignals  == {msg \in [kind : {"signal"}, scope : {"conn"}, path : Conns, props : ConnProps] :
                    msg.props.wifi = (msg.path \in Wifi)}
ApSignals    == [kind : {"signal"}, scope : {"ap"}, path : Aps, props : [strength : Strengths]]
RootReplies  == [kind : {"reply"}, query : RootQueries, ok : BOOLEAN, props : RootProps]
ConnReplies  == {msg \in [kind : {"reply"}, query : ConnQueries, ok : BOOLEAN, props : ConnProps] :
                    msg.props.wifi = (msg.query.path \in Wifi)}
ApReplies    == {msg \in [kind : {"reply"}, query : ApQueries, ok : BOOLEAN,
                          props : [ssid : Aps, strength : Strengths]] : msg.props.ssid = msg.query.path}
LinkSignals  == OwnerSignals \cup RootSignals \cup ConnSignals \cup ApSignals
LinkReplies  == RootReplies \cup ConnReplies \cup ApReplies
LinkMsgs     == LinkSignals \cup LinkReplies
LinkAccs     == [model : SoundLinks, asks : Seq(Queries)]

\* A message tells the properties of an object of the chain.
Tells(msg, scope, path) ==
    \/ msg.kind = "signal" /\ msg.scope = scope /\ msg.path = path
    \/ msg.kind = "reply" /\ msg.ok /\ msg.query = Query(scope, path)
Owns(msg) == msg.kind = "signal" /\ msg.scope = "owner"

RootTold(msg) == Tells(msg, "root", Nothing)
ConnTold(msg, c) == Tells(msg, "conn", c)
ApTold(msg, a) == Tells(msg, "ap", a)

\* Queries are told apart by their scope and path.
LEMMA QueryFacts ==
    /\ Root \in Queries /\ Root \in RootQueries
    /\ \A c \in Conns : Query("conn", c) \in Queries /\ Query("conn", c) \in ConnQueries
    /\ \A a \in Aps : Query("ap", a) \in Queries /\ Query("ap", a) \in ApQueries
    /\ \A q \in RootQueries : q.scope = "root" /\ q.path = Nothing /\ q = Root
    /\ \A q \in ConnQueries : q.scope = "conn" /\ q.path \in Conns /\ q = Query("conn", q.path)
    /\ \A q \in ApQueries : q.scope = "ap" /\ q.path \in Aps /\ q = Query("ap", q.path)
    /\ \A s, p, u, r : Query(s, p) = Query(u, r) <=> s = u /\ p = r
  <1>1. \A s, p : Query(s, p).scope = s /\ Query(s, p).path = p
    BY DEF Query
  <1>2. Root \in RootQueries /\ (\A c \in Conns : Query("conn", c) \in ConnQueries)
        /\ (\A a \in Aps : Query("ap", a) \in ApQueries)
    BY DEF Query, Root, RootQueries, ConnQueries, ApQueries
  <1>3. \A q \in RootQueries : q.scope = "root" /\ q.path = Nothing /\ q = Root
    BY DEF Query, Root, RootQueries
  <1>4. \A q \in ConnQueries : q.scope = "conn" /\ q.path \in Conns /\ q = Query("conn", q.path)
    BY DEF Query, ConnQueries
  <1>5. \A q \in ApQueries : q.scope = "ap" /\ q.path \in Aps /\ q = Query("ap", q.path)
    BY DEF Query, ApQueries
  <1>6. \A s, p, u, r : Query(s, p) = Query(u, r) <=> s = u /\ p = r
    BY <1>1
  <1> QED
    BY <1>2, <1>3, <1>4, <1>5, <1>6 DEF Queries

\* What a message is, by what it tells.
LEMMA MsgFacts ==
    ASSUME NEW msg \in LinkMsgs
    PROVE  /\ msg.kind \in {"signal", "reply"}
           /\ Owns(msg) => msg.new \in BOOLEAN /\ msg.kind = "signal"
           /\ RootTold(msg) => msg.props \in RootProps
           /\ \A c : ConnTold(msg, c) => c \in Conns /\ msg.props \in ConnProps /\ msg.props.wifi = (c \in Wifi)
           /\ \A a : ApTold(msg, a) => /\ a \in Aps /\ msg.props.strength \in Strengths
                                       /\ msg.kind = "signal" => "ssid" \notin DOMAIN msg.props
                                       /\ msg.kind = "reply" => "ssid" \in DOMAIN msg.props /\ msg.props.ssid = a
  <1> USE QueryFacts
  <1>1. CASE msg \in OwnerSignals
    BY <1>1 DEF OwnerSignals, Owns, RootTold, ConnTold, ApTold, Tells
  <1>2. CASE msg \in RootSignals
    BY <1>2 DEF RootSignals, Owns, RootTold, ConnTold, ApTold, Tells
  <1>3. CASE msg \in ConnSignals
    BY <1>3 DEF ConnSignals, Owns, RootTold, ConnTold, ApTold, Tells
  <1>4. CASE msg \in ApSignals
    BY <1>4 DEF ApSignals, Owns, RootTold, ConnTold, ApTold, Tells
  <1>5. CASE msg \in RootReplies
    <2>1. msg.kind = "reply" /\ msg.query = Root /\ msg.props \in RootProps
      BY <1>5 DEF RootReplies
    <2> QED
      BY <2>1 DEF Owns, RootTold, ConnTold, ApTold, Tells, Root
  <1>6. CASE msg \in ConnReplies
    <2>1. /\ msg.kind = "reply" /\ msg.query \in ConnQueries /\ msg.props \in ConnProps
          /\ msg.props.wifi = (msg.query.path \in Wifi)
      BY <1>6 DEF ConnReplies
    <2>2. \A s, p : msg.query = Query(s, p) => s = "conn" /\ p = msg.query.path /\ p \in Conns
      BY <2>1
    <2> QED
      BY <2>1, <2>2 DEF Owns, RootTold, ConnTold, ApTold, Tells
  <1>7. CASE msg \in ApReplies
    <2>1. /\ msg.kind = "reply" /\ msg.query \in ApQueries /\ msg.props \in [ssid : Aps, strength : Strengths]
          /\ msg.props.ssid = msg.query.path
      BY <1>7 DEF ApReplies
    <2>2. \A s, p : msg.query = Query(s, p) => s = "ap" /\ p = msg.query.path /\ p \in Aps
      BY <2>1
    <2>3. "ssid" \in DOMAIN msg.props /\ msg.props.strength \in Strengths
      BY <2>1
    <2> QED
      BY <2>1, <2>2, <2>3 DEF Owns, RootTold, ConnTold, ApTold, Tells
  <1> QED
    BY <1>1, <1>2, <1>3, <1>4, <1>5, <1>6, <1>7 DEF LinkMsgs, LinkSignals, LinkReplies

\* A message that tells nothing of a link of the chain.
Ignored(m, msg) ==
    ~Owns(msg) /\ ~RootTold(msg) /\ ~ConnTold(msg, m.primary) /\ ~ApTold(msg, m.specific)

\* What a message does, by what it tells.
LEMMA HandledAs ==
    ASSUME NEW acc \in LinkAccs, NEW msg \in LinkMsgs
    PROVE  \/ Owns(msg) /\ OnMessage(acc, msg)
                             = [model |-> Chain0, asks |-> acc.asks \o IF msg.new THEN <<Root>> ELSE <<>>]
           \/ RootTold(msg) /\ OnMessage(acc, msg) = ApplyRoot(acc, msg.props)
           \/ ConnTold(msg, acc.model.primary) /\ OnMessage(acc, msg) = ApplyConn(acc, msg.props)
           \/ ApTold(msg, acc.model.specific) /\ OnMessage(acc, msg) = ApplyAp(acc, msg.props)
           \/ Ignored(acc.model, msg) /\ OnMessage(acc, msg) = acc
  <1> USE QueryFacts
  <1>1. CASE Owns(msg)
    BY <1>1 DEF Owns, OnMessage, OnSignal
  <1>2. CASE msg.kind = "signal" /\ ~Owns(msg)
    <2>1. msg.scope \in {"root", "conn", "ap"} /\ (msg.scope = "root" => msg.path = Nothing)
      <3>1. msg \notin OwnerSignals /\ msg \notin LinkReplies
        BY <1>2 DEF Owns, OwnerSignals, LinkReplies, RootReplies, ConnReplies, ApReplies
      <3>2. CASE msg \in RootSignals
        BY <3>2 DEF RootSignals
      <3>3. CASE msg \in ConnSignals
        BY <3>3 DEF ConnSignals
      <3>4. CASE msg \in ApSignals
        BY <3>4 DEF ApSignals
      <3> QED
        BY <3>1, <3>2, <3>3, <3>4 DEF LinkMsgs, LinkSignals
    <2>2. OnMessage(acc, msg) = IF Current(acc.model, msg.scope, msg.path)
                                THEN ApplyMap(acc, msg.scope, msg.props) ELSE acc
      BY <1>2 DEF Owns, OnMessage, OnSignal
    <2>3. CASE msg.scope = "root"
      BY <1>2, <2>1, <2>2, <2>3 DEF Current, ApplyMap, RootTold, Tells
    <2>4. CASE msg.scope = "conn"
      BY <1>2, <2>2, <2>4 DEF Current, ApplyMap, RootTold, ConnTold, ApTold, Tells, Ignored
    <2>5. CASE msg.scope = "ap"
      BY <1>2, <2>2, <2>5 DEF Current, ApplyMap, RootTold, ConnTold, ApTold, Tells, Ignored
    <2> QED
      BY <2>1, <2>3, <2>4, <2>5
  <1>3. CASE msg.kind = "reply"
    <2>1. msg.query \in Queries
      <3>1. msg \notin LinkSignals
        BY <1>3 DEF LinkSignals, OwnerSignals, RootSignals, ConnSignals, ApSignals
      <3>2. CASE msg \in RootReplies
        BY <3>2 DEF RootReplies, Queries
      <3>3. CASE msg \in ConnReplies
        BY <3>3 DEF ConnReplies, Queries
      <3>4. CASE msg \in ApReplies
        BY <3>4 DEF ApReplies, Queries
      <3> QED
        BY <3>1, <3>2, <3>3, <3>4 DEF LinkMsgs, LinkReplies
    <2>2. OnMessage(acc, msg) = IF msg.ok /\ Current(acc.model, msg.query.scope, msg.query.path)
                                THEN ApplyMap(acc, msg.query.scope, msg.props) ELSE acc
      BY <1>3 DEF OnMessage, OnReply
    <2>3. CASE ~msg.ok
      BY <1>3, <2>2, <2>3 DEF Ignored, Owns, RootTold, ConnTold, ApTold, Tells
    <2>4. CASE msg.ok /\ msg.query \in RootQueries
      BY <1>3, <2>2, <2>4 DEF Current, ApplyMap, RootTold, Tells, Root
    <2>5. CASE msg.ok /\ msg.query \in ConnQueries
      <3>1. msg.query.scope = "conn" /\ msg.query = Query("conn", msg.query.path)
        BY <2>5
      <3> QED
        BY <1>3, <2>2, <2>5, <3>1 DEF Current, ApplyMap, RootTold, ConnTold, ApTold, Tells, Ignored, Owns
    <2>6. CASE msg.ok /\ msg.query \in ApQueries
      <3>1. msg.query.scope = "ap" /\ msg.query = Query("ap", msg.query.path)
        BY <2>6
      <3> QED
        BY <1>3, <2>2, <2>6, <3>1 DEF Current, ApplyMap, RootTold, ConnTold, ApTold, Tells, Ignored, Owns
    <2> QED
      BY <2>1, <2>3, <2>4, <2>5, <2>6 DEF Queries
  <1> QED
    BY <1>1, <1>2, <1>3, MsgFacts

\* The empty chain is one.
LEMMA Chain0Type == Chain0 \in SoundLinks
  <1>1. PICK n : n = Chain0
    OBVIOUS
  <1>2. n \in Links
    BY <1>1 DEF Chain0, Links
  <1>3. n.state = FALSE /\ n.primary = Nothing /\ n.specific = Nothing /\ n.ssid = Nothing /\ n.strength = 0
    BY <1>1 DEF Chain0
  <1> QED
    BY <1>1, <1>2, <1>3 DEF SoundLinks

\* What is asked for are queries.
LEMMA AskType ==
    ASSUME NEW asks \in Seq(Queries)
    PROVE  /\ asks \o <<Root>> \in Seq(Queries) /\ asks \o <<>> \in Seq(Queries)
           /\ \A b : \A p \in Conns \cup {Nothing} : asks \o Ask("conn", p, b) \in Seq(Queries)
           /\ \A b : \A p \in Aps \cup {Nothing} : asks \o Ask("ap", p, b) \in Seq(Queries)
  <1>1. \A q \in Queries : <<q>> \in Seq(Queries)
    OBVIOUS
  <1>2. <<>> \in Seq(Queries)
    OBVIOUS
  <1>3. \A b : \A p \in Conns \cup {Nothing} : Ask("conn", p, b) \in Seq(Queries)
    BY <1>1, <1>2, QueryFacts DEF Ask
  <1>4. \A b : \A p \in Aps \cup {Nothing} : Ask("ap", p, b) \in Seq(Queries)
    BY <1>1, <1>2, QueryFacts DEF Ask
  <1>5. \A more \in Seq(Queries) : asks \o more \in Seq(Queries)
    OBVIOUS
  <1> QED
    BY <1>1, <1>2, <1>3, <1>4, <1>5, QueryFacts

\* The root's answer leaves a chain.
LEMMA RootType ==
    ASSUME NEW acc \in LinkAccs, NEW props \in RootProps
    PROVE  ApplyRoot(acc, props) \in LinkAccs
  <1>1. PICK m \in SoundLinks : m = acc.model
    BY DEF LinkAccs
  <1>2. PICK asks \in Seq(Queries) : asks = acc.asks \o Ask("conn", props.primary, m.primary)
    <2>1. props.primary \in Conns \cup {Nothing} /\ acc.asks \in Seq(Queries)
      BY DEF RootProps, LinkAccs
    <2> QED
      BY <2>1, AskType
  <1>3. PICK n : n = IF props.primary = m.primary THEN [m EXCEPT !.state = props.state]
                     ELSE [Chain0 EXCEPT !.state = props.state, !.primary = props.primary]
    OBVIOUS
  <1>4. n \in SoundLinks
    <2>1. m \in Links /\ m.ssid \in {Nothing, m.specific} /\ (m.specific = Nothing => m.strength = 0)
          /\ m.state = (m.primary # Nothing)
      BY DEF SoundLinks
    <2>2. props.state \in BOOLEAN /\ props.primary \in Conns \cup {Nothing} /\ props.state = (props.primary # Nothing)
      BY DEF RootProps
    <2>3. CASE props.primary = m.primary
      <3>1. n = [m EXCEPT !.state = props.state]
        BY <1>3, <2>3
      <3> QED
        BY <2>1, <2>2, <2>3, <3>1 DEF SoundLinks, Links
    <2>4. CASE props.primary # m.primary
      <3>1. n = [Chain0 EXCEPT !.state = props.state, !.primary = props.primary]
        BY <1>3, <2>4
      <3>2. n \in Links
        <4>1. PICK state \in BOOLEAN : state = props.state
          BY <2>2
        <4>2. PICK primary \in Conns \cup {Nothing} : primary = props.primary
          BY <2>2
        <4>3. n = [state |-> state, primary |-> primary, wifi |-> FALSE, specific |-> Nothing,
                   ssid |-> Nothing, strength |-> 0]
          BY <3>1, <4>1, <4>2 DEF Chain0
        <4> QED
          BY <4>3 DEF Links
      <3>3. n.state = props.state /\ n.primary = props.primary
            /\ n.specific = Nothing /\ n.ssid = Nothing /\ n.strength = 0
        BY <3>1 DEF Chain0
      <3> QED
        BY <2>2, <3>2, <3>3 DEF SoundLinks
    <2> QED
      BY <2>3, <2>4
  <1>5. ApplyRoot(acc, props) = [model |-> n, asks |-> asks]
    BY <1>1, <1>2, <1>3 DEF ApplyRoot
  <1> QED
    BY <1>2, <1>4, <1>5 DEF LinkAccs

\* A connection's answer leaves a chain.
LEMMA ConnType ==
    ASSUME NEW acc \in LinkAccs, NEW props \in ConnProps
    PROVE  ApplyConn(acc, props) \in LinkAccs
  <1>0. PICK old \in SoundLinks : old = acc.model
    BY DEF LinkAccs
  <1>1. PICK m : m = [old EXCEPT !.wifi = props.wifi]
    OBVIOUS
  <1>2. m \in SoundLinks /\ m.specific = old.specific
    <2>1. props.wifi \in BOOLEAN
      BY DEF ConnProps
    <2> QED
      BY <1>1, <2>1 DEF SoundLinks, Links
  <1>3. PICK asks \in Seq(Queries) : asks = acc.asks \o Ask("ap", props.specific, m.specific)
    <2>1. props.specific \in Aps \cup {Nothing} /\ acc.asks \in Seq(Queries)
      BY DEF ConnProps, LinkAccs
    <2> QED
      BY <2>1, AskType
  <1>4. PICK n : n = IF props.specific = m.specific THEN m
                     ELSE [m EXCEPT !.specific = props.specific, !.ssid = Nothing, !.strength = 0]
    OBVIOUS
  <1>5. n \in SoundLinks
    <2>1. props.specific \in Aps \cup {Nothing}
      BY DEF ConnProps
    <2>2. CASE props.specific = m.specific
      BY <1>2, <1>4, <2>2
    <2>3. CASE props.specific # m.specific
      <3>1. n = [m EXCEPT !.specific = props.specific, !.ssid = Nothing, !.strength = 0] /\ m \in Links
            /\ m.state = (m.primary # Nothing)
        BY <1>2, <1>4, <2>3 DEF SoundLinks
      <3>2. n \in Links
        <4>1. PICK specific \in Aps \cup {Nothing} : specific = props.specific
          BY <2>1
        <4>2. n = [state |-> m.state, primary |-> m.primary, wifi |-> m.wifi, specific |-> specific,
                   ssid |-> Nothing, strength |-> 0]
          BY <3>1, <4>1 DEF Links
        <4> QED
          BY <3>1, <4>2 DEF Links
      <3>3. n.state = m.state /\ n.primary = m.primary /\ n.ssid = Nothing /\ n.strength = 0
        BY <3>1 DEF Links
      <3> QED
        BY <3>1, <3>2, <3>3 DEF SoundLinks
    <2> QED
      BY <2>2, <2>3
  <1>6. ApplyConn(acc, props) = [model |-> n, asks |-> asks]
    BY <1>0, <1>1, <1>3, <1>4 DEF ApplyConn
  <1> QED
    BY <1>3, <1>5, <1>6 DEF LinkAccs

\* What an access point says of itself is kept next to what is known.
LEMMA ApResult ==
    ASSUME NEW acc \in LinkAccs, NEW msg \in LinkMsgs, ApTold(msg, acc.model.specific)
    PROVE  LET after == ApplyAp(acc, msg.props)
           IN  /\ after \in LinkAccs /\ after.asks = acc.asks
               /\ after.model.primary = acc.model.primary /\ after.model.wifi = acc.model.wifi
               /\ after.model.specific = acc.model.specific
               /\ after.model.strength = msg.props.strength
               /\ after.model.ssid = IF msg.kind = "reply" THEN acc.model.specific ELSE acc.model.ssid
  <1>1. PICK m \in SoundLinks : m = acc.model
    BY DEF LinkAccs
  <1>2. PICK asks \in Seq(Queries) : asks = acc.asks
    BY DEF LinkAccs
  <1>3. acc = [model |-> m, asks |-> asks]
    BY <1>1, <1>2 DEF LinkAccs
  <1>4. PICK ssid : ssid = IF "ssid" \in DOMAIN msg.props THEN msg.props.ssid ELSE m.ssid
    OBVIOUS
  <1>5. PICK n : n = [m EXCEPT !.ssid = ssid, !.strength = msg.props.strength]
    OBVIOUS
  <1>6. m.specific \in Aps /\ msg.props.strength \in 1 .. 2 /\ msg.kind \in {"signal", "reply"}
        /\ ssid = IF msg.kind = "reply" THEN m.specific ELSE m.ssid
    BY <1>1, <1>4, MsgFacts DEF Strengths
  <1>7. n \in Links /\ n.ssid = ssid /\ n.strength = msg.props.strength /\ n.specific = m.specific
        /\ n.primary = m.primary /\ n.wifi = m.wifi /\ n.state = m.state
    <2>1. m \in Links /\ ssid \in Aps \cup {Nothing} /\ msg.props.strength \in 0 .. 2
      BY <1>6 DEF SoundLinks, Links
    <2>2. PICK strength \in 0 .. 2 : strength = msg.props.strength
      BY <2>1
    <2>3. n = [m EXCEPT !.ssid = ssid, !.strength = strength]
      BY <1>5, <2>2
    <2>4. n \in Links
      BY <2>1, <2>3 DEF Links
    <2>5. n.ssid = ssid /\ n.strength = strength /\ n.specific = m.specific
          /\ n.primary = m.primary /\ n.wifi = m.wifi /\ n.state = m.state
      BY <2>1, <2>3 DEF Links
    <2> QED
      BY <2>2, <2>4, <2>5
  <1>8. n \in SoundLinks
    <2>1. m.specific # Nothing
      BY <1>6, ChainAssumption
    <2> QED
      BY <1>6, <1>7, <2>1 DEF SoundLinks
  <1>9. ApplyAp(acc, msg.props) = [model |-> n, asks |-> asks]
    BY <1>3, <1>4, <1>5 DEF ApplyAp
  <1> QED
    BY <1>1, <1>2, <1>6, <1>7, <1>8, <1>9 DEF LinkAccs

\* A message leaves a chain, and more to ask.
LEMMA LinkType ==
    ASSUME NEW acc \in LinkAccs, NEW call \in LinkMsgs
    PROVE  OnMessage(acc, call) \in LinkAccs
  <1>1. CASE Owns(call) /\ OnMessage(acc, call)
                             = [model |-> Chain0, asks |-> acc.asks \o IF call.new THEN <<Root>> ELSE <<>>]
    <2>1. acc.asks \in Seq(Queries)
      BY DEF LinkAccs
    <2>2. PICK asks : asks = acc.asks \o IF call.new THEN <<Root>> ELSE <<>>
      OBVIOUS
    <2>3. asks \in Seq(Queries)
      BY <2>1, <2>2, AskType
    <2> QED
      BY <1>1, <2>2, <2>3, Chain0Type DEF LinkAccs
  <1>2. CASE RootTold(call) /\ OnMessage(acc, call) = ApplyRoot(acc, call.props)
    <2>1. call.props \in RootProps
      BY <1>2, MsgFacts
    <2> QED
      BY <1>2, <2>1, RootType
  <1>3. CASE ConnTold(call, acc.model.primary) /\ OnMessage(acc, call) = ApplyConn(acc, call.props)
    <2>1. call.props \in ConnProps
      BY <1>3, MsgFacts
    <2> QED
      BY <1>3, <2>1, ConnType
  <1>4. CASE ApTold(call, acc.model.specific) /\ OnMessage(acc, call) = ApplyAp(acc, call.props)
    <2>1. ApplyAp(acc, call.props) \in LinkAccs
      BY <1>4, ApResult
    <2> QED
      BY <1>4, <2>1
  <1> QED
    BY <1>1, <1>2, <1>3, <1>4, HandledAs

\* The results along a batch of messages.
LEMMA LinksRun ==
    ASSUME NEW base \in LinkAccs, NEW s \in Seq(LinkMsgs)
    PROVE  \E run \in [0 .. Len(s) -> LinkAccs] :
              /\ run[0] = base /\ run[Len(s)] = FoldLeft(OnMessage, base, s)
              /\ \A n \in 1 .. Len(s) : run[n] = OnMessage(run[n - 1], s[n])
  <1>1. PICK r : r = FoldLeft(OnMessage, base, s)
    OBVIOUS
  <1>2. PICK it : /\ it = CHOOSE g : g = [t \in SUBSET DOMAIN s |->
                                IF t = {} THEN base ELSE OnMessage(g[t \ {Max(t)}], s[Max(t)])]
                  /\ r = it[DOMAIN s]
    BY <1>1 DEF FoldLeft, MapThenFoldSet
  <1>3. PICK F : F = [p \in LinkAccs \X LinkMsgs |-> OnMessage(p[1], p[2])]
    OBVIOUS
  <1>4. F \in [LinkAccs \X LinkMsgs -> LinkAccs]
        /\ \A a \in LinkAccs, m \in LinkMsgs : F[<<a, m>>] = OnMessage(a, m)
    BY <1>3, LinkType
  <1>5. PICK jt \in [SUBSET (1 .. Len(s)) -> LinkAccs] : IsFold(jt, base, F, s, Len(s))
    BY <1>4, FoldExists
  <1>6. Len(s) \in Nat /\ DOMAIN s = 1 .. Len(s) /\ \A n \in 1 .. Len(s) : s[n] \in LinkMsgs
    OBVIOUS
  <1>7. ASSUME NEW t \in SUBSET (1 .. Len(s)), t # {}
        PROVE  F[<<jt[t \ {Max(t)}], s[Max(t)]>>] = OnMessage(jt[t \ {Max(t)}], s[Max(t)])
    <2>1. Max(t) \in 1 .. Len(s)
      BY <1>6, <1>7, MaxLemma
    <2>2. jt[t \ {Max(t)}] \in LinkAccs
      OBVIOUS
    <2> QED
      BY <1>4, <1>6, <2>1, <2>2
  <1>8. jt = [t \in SUBSET DOMAIN s |-> IF t = {} THEN base ELSE OnMessage(jt[t \ {Max(t)}], s[Max(t)])]
    BY <1>5, <1>6, <1>7 DEF IsFold
  <1>9. it = [t \in SUBSET DOMAIN s |-> IF t = {} THEN base ELSE OnMessage(it[t \ {Max(t)}], s[Max(t)])]
    BY <1>2, <1>8
  <1>10. it[{}] = base
    BY <1>9
  <1>11. ASSUME NEW n \in 1 .. Len(s), it[1 .. n - 1] \in LinkAccs
         PROVE  it[1 .. n] = F[<<it[1 .. n - 1], s[n]>>]
    <2>1. 1 .. n # {} /\ Max(1 .. n) = n /\ (1 .. n) \ {n} = 1 .. n - 1 /\ 1 .. n \in SUBSET DOMAIN s
      BY <1>6, MaxUpto
    <2>2. it[1 .. n] = OnMessage(it[1 .. n - 1], s[n])
      BY <1>9, <2>1
    <2> QED
      BY <1>4, <1>6, <1>11, <2>2
  <1>12. PICK run : Run(run, LinkAccs, F, base, s) /\ run[Len(s)] = it[1 .. Len(s)]
    <2>1. Applies(it, LinkAccs, F, s)
      BY <1>11 DEF Applies
    <2>2. F \in [LinkAccs \X LinkMsgs -> LinkAccs]
      BY <1>4
    <2>3. Along(it[1 .. Len(s)], LinkAccs, F, base, s)
      BY <1>10, <2>1, <2>2, FoldRun
    <2> QED
      BY <2>3 DEF Along
  <1>13. run[0] = base /\ run \in [0 .. Len(s) -> LinkAccs]
    BY <1>12 DEF Run
  <1>14. \A n \in 1 .. Len(s) : run[n] = OnMessage(run[n - 1], s[n])
    <2>1. ASSUME NEW n \in 1 .. Len(s)
          PROVE  run[n] = OnMessage(run[n - 1], s[n])
      <3>1. n - 1 \in 0 .. Len(s)
        BY <1>6
      <3>2. run[n - 1] \in LinkAccs
        BY <1>13, <3>1
      <3>3. run[n] = F[<<run[n - 1], s[n]>>]
        BY <1>12 DEF Run
      <3> QED
        BY <1>4, <1>6, <3>2, <3>3
    <2> QED
      BY <2>1
  <1> QED
    BY <1>1, <1>2, <1>6, <1>12, <1>13, <1>14

\* What a message does away with: a primary connection p, its access point a, the
\* strength of a; and what it answers.
MovesBy(msg, p) ==
    msg.kind = "signal" /\ (msg.scope = "owner" \/ (msg.scope = "root" /\ msg.props.primary # p))
RoamsBy(msg, p, a) ==
    msg.kind = "signal" /\ msg.scope = "conn" /\ msg.path = p /\ msg.props.specific # a
FadesBy(msg, a)  == msg.kind = "signal" /\ msg.scope = "ap" /\ msg.path = a
AnsweredBy(msg, q) == msg.kind = "reply" /\ msg.ok /\ msg.query = q

\* The same of a set of messages, which are those still to be handled.
Moves(R, p)     == \E msg \in R : MovesBy(msg, p)
RoamsIn(R, p, a)  == \E msg \in R : RoamsBy(msg, p, a)
Fades(R, a)     == \E msg \in R : FadesBy(msg, a)
Open(R, Q, q)   == q \in Q \/ \E msg \in R : AnsweredBy(msg, q)

\* The primary connection, as NetworkManager has it while it runs.
Primary == IF world.up THEN world.primary ELSE Nothing

\* What has been said is so, or said to be otherwise later on.
RootSaid(p, R)    == p = Primary \/ Moves(R, p)
ConnSaid(p, a, R) == p = Primary => a = world.specific \/ Moves(R, p) \/ RoamsIn(R, p, a)
ApSaid(a, s, R)   == s = world.strength[a] \/ Fades(R, a)

SaidTrue(msg, R) ==
    /\ Owns(msg) /\ ~msg.new => RootSaid(Nothing, R)
    /\ RootTold(msg) => RootSaid(msg.props.primary, R)
    /\ \A c \in Conns : ConnTold(msg, c) => RootSaid(c, R) /\ ConnSaid(c, msg.props.specific, R)
    /\ \A a \in Aps : ApTold(msg, a) => ApSaid(a, msg.props.strength, R)

\* What the model holds is so, or will be said to be otherwise, or is not known and
\* will be answered.  Q are the queries under way.
RootHeld(m, R, Q) == RootSaid(m.primary, R) \/ (m.primary = Nothing /\ Open(R, Q, Root))
OnPrimary(m)      == m.primary = Primary /\ Primary # Nothing
WifiHeld(m, R, Q) ==
    OnPrimary(m) => \/ Moves(R, m.primary) \/ m.wifi = (m.primary \in Wifi)
                    \/ Open(R, Q, Query("conn", m.primary))
ConnHeld(m, R, Q) ==
    OnPrimary(m) => \/ Moves(R, m.primary) \/ RoamsIn(R, m.primary, m.specific)
                    \/ m.specific = world.specific
                    \/ m.specific = Nothing /\ Open(R, Q, Query("conn", m.primary))
OnAp(m) == OnPrimary(m) /\ m.specific = world.specific /\ m.specific # Nothing
SsidHeld(m, R, Q) ==
    OnAp(m) => \/ Moves(R, m.primary) \/ RoamsIn(R, m.primary, m.specific)
               \/ m.ssid = m.specific \/ Open(R, Q, Query("ap", m.specific))
StrengthHeld(m, R, Q) ==
    OnAp(m) => \/ Moves(R, m.primary) \/ RoamsIn(R, m.primary, m.specific)
               \/ m.strength = world.strength[m.specific] \/ Fades(R, m.specific)
               \/ Open(R, Q, Query("ap", m.specific))

LinkHeld(m, R, Q) ==
    /\ RootHeld(m, R, Q) /\ WifiHeld(m, R, Q) /\ ConnHeld(m, R, Q)
    /\ SsidHeld(m, R, Q) /\ StrengthHeld(m, R, Q)

\* What more messages do.
LEMMA MoreMsgs ==
    ASSUME NEW R, NEW msg, NEW Q
    PROVE  /\ \A p : Moves(R \cup {msg}, p) <=> Moves(R, p) \/ MovesBy(msg, p)
           /\ \A p, a : RoamsIn(R \cup {msg}, p, a) <=> RoamsIn(R, p, a) \/ RoamsBy(msg, p, a)
           /\ \A a : Fades(R \cup {msg}, a) <=> Fades(R, a) \/ FadesBy(msg, a)
           /\ \A q : Open(R \cup {msg}, Q, q) <=> Open(R, Q, q) \/ AnsweredBy(msg, q)
  <1>1. \A p : Moves(R \cup {msg}, p) <=> Moves(R, p) \/ MovesBy(msg, p)
    BY DEF Moves
  <1>2. \A p, a : RoamsIn(R \cup {msg}, p, a) <=> RoamsIn(R, p, a) \/ RoamsBy(msg, p, a)
    BY DEF RoamsIn
  <1>3. \A a : Fades(R \cup {msg}, a) <=> Fades(R, a) \/ FadesBy(msg, a)
    BY DEF Fades
  <1>4. \A q : Open(R \cup {msg}, Q, q) <=> Open(R, Q, q) \/ AnsweredBy(msg, q)
    BY DEF Open
  <1> QED
    BY <1>1, <1>2, <1>3, <1>4

\* Which message does what.
LEMMA WhichMsg ==
    ASSUME NEW msg \in LinkMsgs
    PROVE  /\ \A p : MovesBy(msg, p) => Owns(msg) \/ (RootTold(msg) /\ msg.props.primary # p)
           /\ \A p, a : RoamsBy(msg, p, a) => ConnTold(msg, p) /\ msg.props.specific # a /\ ~Owns(msg)
           /\ \A a : FadesBy(msg, a) => ApTold(msg, a) /\ ~Owns(msg)
           /\ AnsweredBy(msg, Root) => RootTold(msg)
           /\ \A p : AnsweredBy(msg, Query("conn", p)) => ConnTold(msg, p)
           /\ \A p : AnsweredBy(msg, Query("ap", p)) => ApTold(msg, p) /\ msg.kind = "reply"
           /\ Owns(msg) => ~RootTold(msg) /\ (\A p : ~ConnTold(msg, p)) /\ (\A p : ~ApTold(msg, p))
           /\ RootTold(msg) => (\A p : ~ConnTold(msg, p)) /\ (\A p : ~ApTold(msg, p))
           /\ \A p, a : ConnTold(msg, p) => ~ApTold(msg, a)
  <1> USE QueryFacts DEF Owns, RootTold, ConnTold, ApTold, Tells
  <1>1. \A p : MovesBy(msg, p) => Owns(msg) \/ (RootTold(msg) /\ msg.props.primary # p)
    <2>1. ASSUME msg.kind = "signal", msg.scope = "root"
          PROVE  msg.path = Nothing
      <3>1. msg \notin OwnerSignals /\ msg \notin ConnSignals /\ msg \notin ApSignals /\ msg \notin LinkReplies
        BY <2>1 DEF OwnerSignals, ConnSignals, ApSignals, LinkReplies, RootReplies, ConnReplies, ApReplies
      <3>2. msg \in RootSignals
        BY <3>1 DEF LinkMsgs, LinkSignals
      <3> QED
        BY <3>2 DEF RootSignals
    <2> QED
      BY <2>1 DEF MovesBy
  <1>2. \A p, a : RoamsBy(msg, p, a) => ConnTold(msg, p) /\ msg.props.specific # a /\ ~Owns(msg)
    BY DEF RoamsBy
  <1>3. \A a : FadesBy(msg, a) => ApTold(msg, a) /\ ~Owns(msg)
    BY DEF FadesBy
  <1>4. AnsweredBy(msg, Root) => RootTold(msg)
    BY DEF AnsweredBy, Root
  <1>5. /\ \A p : AnsweredBy(msg, Query("conn", p)) => ConnTold(msg, p)
        /\ \A p : AnsweredBy(msg, Query("ap", p)) => ApTold(msg, p) /\ msg.kind = "reply"
    BY DEF AnsweredBy
  <1>6. /\ Owns(msg) => ~RootTold(msg) /\ (\A p : ~ConnTold(msg, p)) /\ (\A p : ~ApTold(msg, p))
        /\ RootTold(msg) => (\A p : ~ConnTold(msg, p)) /\ (\A p : ~ApTold(msg, p))
        /\ \A p, a : ConnTold(msg, p) => ~ApTold(msg, a)
    OBVIOUS
  <1> QED
    BY <1>1, <1>2, <1>3, <1>4, <1>5, <1>6

\* Fewer answers, and fewer queries, leave less; the rest only grows.
LEMMA HeldGrows ==
    ASSUME NEW R, NEW P, NEW Q,
           \A msg \in R : msg \in P \/ msg.kind # "signal"
    PROVE  /\ \A p : (Moves(R, p) => Moves(P, p)) /\ (RootSaid(p, R) => RootSaid(p, P))
           /\ \A p, a : (RoamsIn(R, p, a) => RoamsIn(P, p, a)) /\ (ConnSaid(p, a, R) => ConnSaid(p, a, P))
           /\ \A a : Fades(R, a) => Fades(P, a)
           /\ \A a, s : ApSaid(a, s, R) => ApSaid(a, s, P)
           /\ \A msg : SaidTrue(msg, R) => SaidTrue(msg, P)
  <1>1. \A p : Moves(R, p) => Moves(P, p)
    BY DEF Moves, MovesBy
  <1>2. \A p, a : RoamsIn(R, p, a) => RoamsIn(P, p, a)
    BY DEF RoamsIn, RoamsBy
  <1>3. \A a : Fades(R, a) => Fades(P, a)
    BY DEF Fades, FadesBy
  <1>4. \A p : RootSaid(p, R) => RootSaid(p, P)
    BY <1>1 DEF RootSaid
  <1>5. \A p, a : ConnSaid(p, a, R) => ConnSaid(p, a, P)
    BY <1>1, <1>2 DEF ConnSaid
  <1>6. \A a, s : ApSaid(a, s, R) => ApSaid(a, s, P)
    BY <1>3 DEF ApSaid
  <1>7. \A msg : SaidTrue(msg, R) => SaidTrue(msg, P)
    BY <1>4, <1>5, <1>6 DEF SaidTrue
  <1> QED
    BY <1>1, <1>2, <1>3, <1>4, <1>5, <1>6, <1>7

\* What is held while a message is to come is held once it was handled.
LEMMA LinkHeldOn ==
    ASSUME NEW acc \in LinkAccs, NEW msg \in LinkMsgs, NEW R, NEW Q, SaidTrue(msg, R),
           LinkHeld(acc.model, R \cup {msg}, Q \cup ToSet(acc.asks))
    PROVE  LinkHeld(OnMessage(acc, msg).model, R, Q \cup ToSet(OnMessage(acc, msg).asks))
  <1>1. PICK m \in SoundLinks : m = acc.model
    BY DEF LinkAccs
  <1>2. PICK n : n = OnMessage(acc, msg).model
    OBVIOUS
  <1>3. PICK before : before = Q \cup ToSet(acc.asks)
    OBVIOUS
  <1>4. PICK after : after = Q \cup ToSet(OnMessage(acc, msg).asks)
    OBVIOUS
  <1>5. /\ RootHeld(m, R \cup {msg}, before) /\ WifiHeld(m, R \cup {msg}, before) /\ ConnHeld(m, R \cup {msg}, before)
        /\ SsidHeld(m, R \cup {msg}, before) /\ StrengthHeld(m, R \cup {msg}, before)
    BY <1>1, <1>3 DEF LinkHeld
  <1>6. acc.asks \in Seq(Queries) /\ Nothing \notin Conns /\ Nothing \notin Aps
    BY ChainAssumption DEF LinkAccs
  <1>7. SUFFICES /\ RootHeld(n, R, after) /\ WifiHeld(n, R, after) /\ ConnHeld(n, R, after)
                 /\ SsidHeld(n, R, after) /\ StrengthHeld(n, R, after)
    BY <1>2, <1>4 DEF LinkHeld
  <1>8. ASSUME NEW more \in Seq(Queries), OnMessage(acc, msg).asks = acc.asks \o more
        PROVE  after = before \cup ToSet(more)
    BY <1>3, <1>4, <1>6, <1>8, ToSetConcat
  <1>9. \A q : before \subseteq after /\ Open(R, before, q) => Open(R, after, q)
    BY DEF Open
  <1>10. CASE /\ Owns(msg)
              /\ OnMessage(acc, msg) = [model |-> Chain0, asks |-> acc.asks \o IF msg.new THEN <<Root>> ELSE <<>>]
    <2>1. n.primary = Nothing /\ n.specific = Nothing
      BY <1>2, <1>10 DEF Chain0
    <2>2. msg.new => Root \in after
      <3>1. ASSUME msg.new
            PROVE  Root \in after
        <4>1. OnMessage(acc, msg).asks = acc.asks \o <<Root>> /\ <<Root>> \in Seq(Queries)
          BY <1>10, <3>1, QueryFacts
        <4> QED
          BY <1>8, <4>1, ToSetOne
      <3> QED
        BY <3>1
    <2>3. RootHeld(n, R, after)
      BY <1>10, <2>1, <2>2 DEF RootHeld, SaidTrue, Open
    <2>4. ~OnPrimary(n) /\ ~OnAp(n)
      BY <2>1 DEF OnPrimary, OnAp
    <2> QED
      BY <2>3, <2>4 DEF WifiHeld, ConnHeld, SsidHeld, StrengthHeld
  <1>11. CASE RootTold(msg) /\ OnMessage(acc, msg) = ApplyRoot(acc, msg.props)
    <2>1. PICK p \in Conns \cup {Nothing} : p = msg.props.primary
      BY <1>11, MsgFacts DEF RootProps
    <2>2. RootSaid(p, R) /\ ~MovesBy(msg, p) /\ ~AnsweredBy(msg, Query("conn", p))
          /\ \A a : ~RoamsBy(msg, p, a) /\ ~FadesBy(msg, a) /\ ~AnsweredBy(msg, Query("ap", a))
      BY <1>11, <2>1, WhichMsg DEF SaidTrue
    <2>3m. PICK more : more = Ask("conn", p, m.primary)
      OBVIOUS
    <2>3o. PICK asks : asks = acc.asks \o more
      OBVIOUS
    <2>3. OnMessage(acc, msg)
            = [model |-> IF p = m.primary THEN [m EXCEPT !.state = msg.props.state]
                         ELSE [Chain0 EXCEPT !.state = msg.props.state, !.primary = p],
               asks |-> asks]
      BY <2>3m, <2>3o, <1>1, <1>11, <2>1 DEF ApplyRoot
    <2>3n. OnMessage(acc, msg).asks = acc.asks \o more
      BY <2>3, <2>3o
    <2>4. CASE p = m.primary
      <3>1. n.primary = p /\ n.wifi = m.wifi /\ n.specific = m.specific /\ n.ssid = m.ssid /\ n.strength = m.strength
        BY <1>2, <2>3, <2>4 DEF SoundLinks, Links
      <3>2. before \subseteq after
        <4>1. more = <<>> /\ more \in Seq(Queries)
          BY <2>3m, <2>4 DEF Ask
        <4> QED
          BY <1>8, <2>3n, <4>1
      <3>3. (OnPrimary(n) <=> OnPrimary(m)) /\ (OnAp(n) <=> OnAp(m))
        BY <2>4, <3>1 DEF OnPrimary, OnAp
      <3>4. RootHeld(n, R, after)
        BY <2>2, <3>1 DEF RootHeld
      <3>5. WifiHeld(n, R, after) /\ ConnHeld(n, R, after)
        BY <1>5, <1>9, <2>2, <2>4, <3>1, <3>2, <3>3, MoreMsgs DEF WifiHeld, ConnHeld
      <3>6. SsidHeld(n, R, after) /\ StrengthHeld(n, R, after)
        BY <1>5, <1>9, <2>2, <2>4, <3>1, <3>2, <3>3, MoreMsgs DEF SsidHeld, StrengthHeld
      <3> QED
        BY <3>4, <3>5, <3>6
    <2>5. CASE p # m.primary
      <3>1. n.primary = p /\ n.specific = Nothing
        <4>1. n = [Chain0 EXCEPT !.state = msg.props.state, !.primary = p]
          BY <1>2, <2>3, <2>5
        <4>2. n = [state |-> msg.props.state, primary |-> p, wifi |-> FALSE, specific |-> Nothing,
                   ssid |-> Nothing, strength |-> 0]
          BY <4>1 DEF Chain0
        <4> QED
          BY <4>2
      <3>2. p # Nothing => Query("conn", p) \in after
        <4>1. ASSUME p # Nothing
              PROVE  Query("conn", p) \in after
          <5>1. PICK q \in Queries : q = Query("conn", p)
            BY <4>1, QueryFacts
          <5>2. more = <<q>> /\ more \in Seq(Queries)
            BY <2>5, <2>3m, <4>1, <5>1 DEF Ask
          <5>3. after = before \cup ToSet(more)
            BY <1>8, <2>3n, <5>2
          <5> QED
            BY <5>1, <5>2, <5>3, ToSetOne
        <4> QED
          BY <4>1
      <3>3. RootHeld(n, R, after)
        BY <2>2, <3>1 DEF RootHeld
      <3>4. WifiHeld(n, R, after) /\ ConnHeld(n, R, after)
        BY <3>1, <3>2 DEF WifiHeld, ConnHeld, OnPrimary, Open
      <3>5. ~OnAp(n)
        BY <3>1 DEF OnAp
      <3> QED
        BY <3>3, <3>4, <3>5 DEF SsidHeld, StrengthHeld
    <2> QED
      BY <2>4, <2>5
  <1>12. CASE ConnTold(msg, m.primary) /\ OnMessage(acc, msg) = ApplyConn(acc, msg.props)
    <2>1. PICK a \in Aps \cup {Nothing} : a = msg.props.specific
      BY <1>12, MsgFacts DEF ConnProps
    <2>2. m.primary \in Conns /\ msg.props.wifi = (m.primary \in Wifi) /\ msg.props.wifi \in BOOLEAN
      BY <1>12, MsgFacts DEF ConnProps
    <2>3. /\ RootSaid(m.primary, R) /\ ConnSaid(m.primary, a, R)
          /\ ~MovesBy(msg, m.primary) /\ ~RoamsBy(msg, m.primary, a)
          /\ \A x : ~FadesBy(msg, x) /\ ~AnsweredBy(msg, Query("ap", x))
      BY <1>12, <2>1, <2>2, WhichMsg DEF SaidTrue
    <2>4. PICK w : w = [m EXCEPT !.wifi = msg.props.wifi]
      OBVIOUS
    <2>5. /\ w.primary = m.primary /\ w.wifi = msg.props.wifi /\ w.specific = m.specific
          /\ w.ssid = m.ssid /\ w.strength = m.strength
      BY <2>4 DEF SoundLinks, Links
    <2>6m. PICK more : more = Ask("ap", a, m.specific)
      OBVIOUS
    <2>6o. PICK asks : asks = acc.asks \o more
      OBVIOUS
    <2>6. OnMessage(acc, msg)
            = [model |-> IF a = m.specific THEN w
                         ELSE [w EXCEPT !.specific = a, !.ssid = Nothing, !.strength = 0],
               asks |-> asks]
      BY <2>6m, <2>6o, <1>1, <1>12, <2>1, <2>4, <2>5 DEF ApplyConn
    <2>6n. OnMessage(acc, msg).asks = acc.asks \o more
      BY <2>6, <2>6o
    <2>7. n.primary = m.primary /\ n.wifi = msg.props.wifi /\ n.specific = a
      <3>1. CASE a = m.specific
        BY <1>2, <2>5, <2>6, <3>1
      <3>2. CASE a # m.specific
        <4>1. n = [w EXCEPT !.specific = a, !.ssid = Nothing, !.strength = 0]
          BY <1>2, <2>6, <3>2
        <4>2. w \in Links
          BY <2>2, <2>4 DEF SoundLinks, Links
        <4> QED
          BY <2>5, <4>1, <4>2 DEF Links
      <3> QED
        BY <3>1, <3>2
    <2>8. RootHeld(n, R, after)
      BY <2>3, <2>7 DEF RootHeld
    <2>9. WifiHeld(n, R, after) /\ ConnHeld(n, R, after)
      BY <2>2, <2>3, <2>7 DEF WifiHeld, ConnHeld, ConnSaid, OnPrimary
    <2>10. CASE a = m.specific
      <3>1. n.ssid = m.ssid /\ n.strength = m.strength
        BY <1>2, <2>5, <2>6, <2>10
      <3>2. before \subseteq after
        <4>1. more = <<>> /\ more \in Seq(Queries)
          BY <2>6m, <2>10 DEF Ask
        <4> QED
          BY <1>8, <2>6n, <4>1
      <3>3. OnAp(n) <=> OnAp(m)
        BY <2>7, <2>10 DEF OnPrimary, OnAp
      <3>4. SsidHeld(n, R, after) /\ StrengthHeld(n, R, after)
        BY <1>5, <1>9, <2>3, <2>7, <2>10, <3>1, <3>2, <3>3, MoreMsgs DEF SsidHeld, StrengthHeld
      <3> QED
        BY <2>8, <2>9, <3>4
    <2>11. CASE a # m.specific
      <3>1. a # Nothing => Query("ap", a) \in after
        <4>1. ASSUME a # Nothing
              PROVE  Query("ap", a) \in after
          <5>1. PICK q \in Queries : q = Query("ap", a)
            BY <4>1, QueryFacts
          <5>2. more = <<q>> /\ more \in Seq(Queries)
            BY <2>11, <2>6m, <4>1, <5>1 DEF Ask
          <5>3. after = before \cup ToSet(more)
            BY <1>8, <2>6n, <5>2
          <5> QED
            BY <5>1, <5>2, <5>3, ToSetOne
        <4> QED
          BY <4>1
      <3>2. SsidHeld(n, R, after) /\ StrengthHeld(n, R, after)
        BY <2>7, <3>1 DEF SsidHeld, StrengthHeld, OnAp, Open
      <3> QED
        BY <2>8, <2>9, <3>2
    <2> QED
      BY <2>10, <2>11
  <1>13. ASSUME ~Owns(msg), ~RootTold(msg), ~ConnTold(msg, m.primary), n.primary = m.primary, n.wifi = m.wifi,
                n.specific = m.specific, after = before
         PROVE  RootHeld(n, R, after) /\ WifiHeld(n, R, after) /\ ConnHeld(n, R, after)
    <2>1. /\ ~MovesBy(msg, m.primary) /\ ~RoamsBy(msg, m.primary, m.specific) /\ ~AnsweredBy(msg, Root)
          /\ ~AnsweredBy(msg, Query("conn", m.primary))
      BY <1>13, WhichMsg
    <2>2. RootHeld(n, R, after)
      BY <1>5, <1>13, <2>1, MoreMsgs DEF RootHeld, RootSaid
    <2>3. OnPrimary(n) <=> OnPrimary(m)
      BY <1>13 DEF OnPrimary
    <2>4. WifiHeld(n, R, after) /\ ConnHeld(n, R, after)
      BY <1>5, <1>13, <2>1, <2>3, MoreMsgs DEF WifiHeld, ConnHeld
    <2> QED
      BY <2>2, <2>4
  <1>14. CASE ApTold(msg, m.specific) /\ OnMessage(acc, msg) = ApplyAp(acc, msg.props)
    <2>1. /\ OnMessage(acc, msg).asks = acc.asks
          /\ n.primary = m.primary /\ n.wifi = m.wifi /\ n.specific = m.specific
          /\ n.strength = msg.props.strength
          /\ n.ssid = IF msg.kind = "reply" THEN m.specific ELSE m.ssid
      BY <1>1, <1>2, <1>14, ApResult
    <2>2. after = before
      BY <1>3, <1>4, <2>1
    <2>3. m.specific \in Aps
      BY <1>14, MsgFacts
    <2>4. ApSaid(m.specific, msg.props.strength, R)
      BY <1>14, <2>3 DEF SaidTrue
    <2>5. ~Owns(msg) /\ ~RootTold(msg) /\ ~ConnTold(msg, m.primary)
      BY <1>14, WhichMsg
    <2>6. RootHeld(n, R, after) /\ WifiHeld(n, R, after) /\ ConnHeld(n, R, after)
      BY <1>13, <2>1, <2>2, <2>5
    <2>7. StrengthHeld(n, R, after)
      BY <2>1, <2>4 DEF StrengthHeld, OnAp, ApSaid
    <2>8. SsidHeld(n, R, after)
      <3>1. CASE msg.kind = "reply"
        BY <2>1, <3>1 DEF SsidHeld
      <3>2. CASE msg.kind # "reply"
        <4>1. ~MovesBy(msg, m.primary) /\ ~RoamsBy(msg, m.primary, m.specific)
              /\ ~AnsweredBy(msg, Query("ap", m.specific))
          BY <2>5, <3>2, WhichMsg
        <4>2. OnAp(n) <=> OnAp(m)
          BY <2>1 DEF OnAp, OnPrimary
        <4> QED
          BY <1>5, <2>1, <2>2, <3>2, <4>1, <4>2, MoreMsgs DEF SsidHeld
      <3> QED
        BY <3>1, <3>2
    <2> QED
      BY <2>6, <2>7, <2>8
  <1>15. CASE Ignored(m, msg) /\ OnMessage(acc, msg) = acc
    <2>1. n = m /\ after = before
      BY <1>1, <1>2, <1>3, <1>4, <1>15
    <2>2. ~Owns(msg) /\ ~RootTold(msg) /\ ~ConnTold(msg, m.primary) /\ ~ApTold(msg, m.specific)
      BY <1>15 DEF Ignored
    <2>3. /\ ~MovesBy(msg, m.primary) /\ ~RoamsBy(msg, m.primary, m.specific)
          /\ ~FadesBy(msg, m.specific) /\ ~AnsweredBy(msg, Query("ap", m.specific))
      BY <2>2, WhichMsg
    <2>4. SsidHeld(n, R, after) /\ StrengthHeld(n, R, after)
      BY <1>5, <2>1, <2>3, MoreMsgs DEF SsidHeld, StrengthHeld
    <2> QED
      BY <1>13, <2>1, <2>2, <2>4
  <1> QED
    BY <1>1, <1>10, <1>11, <1>12, <1>14, <1>15, HandledAs

-----------------------------------------------------------------------------
\* What a change of the network, said by x, leaves of what was said or held.
SaidOn(R, x) ==
    /\ \A p : RootSaid(p, R) => RootSaid(p, R \cup {x})'
    /\ \A p, a : RootSaid(p, R) /\ ConnSaid(p, a, R) => ConnSaid(p, a, R \cup {x})'
    /\ \A a \in Aps : \A s : ApSaid(a, s, R) => ApSaid(a, s, R \cup {x})'

\* What was said stays said when the world changes and tells of it.
LEMMA SaidStays ==
    ASSUME NEW R, NEW x, SaidOn(R, x)
    PROVE  \A msg : SaidTrue(msg, R) => SaidTrue(msg, R \cup {x})'
  <1>1. \A p : RootSaid(p, R) => RootSaid(p, R \cup {x})'
    BY DEF SaidOn
  <1>2. \A p, a : RootSaid(p, R) /\ ConnSaid(p, a, R) => ConnSaid(p, a, R \cup {x})'
    BY DEF SaidOn
  <1>3. \A a \in Aps : \A s : ApSaid(a, s, R) => ApSaid(a, s, R \cup {x})'
    BY DEF SaidOn
  <1>4. ASSUME NEW msg, SaidTrue(msg, R)
        PROVE  SaidTrue(msg, R \cup {x})'
    <2>1. (Owns(msg) /\ ~msg.new => RootSaid(Nothing, R \cup {x}))'
      BY <1>1, <1>4 DEF SaidTrue, Owns
    <2>2. (RootTold(msg) => RootSaid(msg.props.primary, R \cup {x}))'
      BY <1>1, <1>4 DEF SaidTrue, RootTold, Tells
    <2>3. ASSUME NEW c \in Conns, ConnTold(msg, c)
          PROVE  (RootSaid(c, R \cup {x}) /\ ConnSaid(c, msg.props.specific, R \cup {x}))'
      <3>1. RootSaid(c, R) /\ ConnSaid(c, msg.props.specific, R)
        BY <1>4, <2>3 DEF SaidTrue
      <3> QED
        BY <1>1, <1>2, <3>1
    <2>4. ASSUME NEW a \in Aps, ApTold(msg, a)
          PROVE  ApSaid(a, msg.props.strength, R \cup {x})'
      <3>1. ApSaid(a, msg.props.strength, R)
        BY <1>4, <2>4 DEF SaidTrue
      <3> QED
        BY <1>3, <3>1
    <2> QED
      BY <2>1, <2>2, <2>3, <2>4 DEF SaidTrue, ConnTold, ApTold, Tells, Query
  <1> QED
    BY <1>4

\* The model, whatever it is.
HeldOn(R, x) == \A m, Q : LinkHeld(m, R, Q) => LinkHeld(m, R \cup {x}, Q)'

\* A new primary connection.
LEMMA ConnectionSaid ==
    ASSUME world.up, NEW to \in Networks, to.up, to.primary # world.primary, to.strength = world.strength,
           world' = to, NEW x \in RootSignals, x.props.primary = to.primary, NEW R
    PROVE  SaidOn(R, x) /\ HeldOn(R, x) /\ SaidTrue(x, {})'
  <1>1. Primary = world.primary /\ Primary' = to.primary
    BY DEF Primary
  <1>2. /\ x \in LinkMsgs /\ RootTold(x) /\ ~Owns(x) /\ (\A p : MovesBy(x, p) <=> p # to.primary)
    BY DEF LinkMsgs, LinkSignals, RootSignals, RootTold, Tells, Owns, MovesBy
  <1>3. \A p : Moves(R \cup {x}, p) <=> Moves(R, p) \/ p # to.primary
    BY <1>2, MoreMsgs
  <1>4. \A p : RootSaid(p, R \cup {x})'
    <2>1. ASSUME NEW p
          PROVE  p = to.primary \/ Moves(R \cup {x}, p)
      BY <1>3
    <2> QED
      BY <1>1, <2>1 DEF RootSaid, Moves, MovesBy
  <1>5. \A p : RootSaid(p, R) /\ p = to.primary => Moves(R \cup {x}, p)
    BY <1>1, <1>3 DEF RootSaid
  <1>6. \A p, a : RootSaid(p, R) => ConnSaid(p, a, R \cup {x})'
    <2>1. ASSUME NEW p, NEW a, RootSaid(p, R), p = to.primary
          PROVE  Moves(R \cup {x}, p)
      BY <1>5, <2>1
    <2> QED
      BY <1>1, <2>1 DEF ConnSaid, Moves, MovesBy
  <1>7. \A a, s : ApSaid(a, s, R) => ApSaid(a, s, R \cup {x})'
    BY DEF ApSaid, Fades, FadesBy
  <1>8. SaidOn(R, x)
    BY <1>4, <1>6, <1>7 DEF SaidOn
  <1>9. SaidTrue(x, {})'
    <2>1. RootSaid(x.props.primary, {})'
      BY <1>1 DEF RootSaid
    <2> QED
      BY <1>2, <2>1, WhichMsg DEF SaidTrue, Owns, RootTold, ConnTold, ApTold, Tells, Query
  <1>10. ASSUME NEW m, NEW Q, LinkHeld(m, R, Q)
         PROVE  LinkHeld(m, R \cup {x}, Q)'
    <2>1. RootHeld(m, R \cup {x}, Q)'
      BY <1>4 DEF RootHeld
    <2>2. ASSUME OnPrimary(m)'
          PROVE  Moves(R \cup {x}, m.primary)
      <3>1. m.primary = to.primary /\ m.primary # Nothing
        BY <1>1, <2>2 DEF OnPrimary
      <3>2. RootSaid(m.primary, R)
        BY <1>10, <3>1 DEF LinkHeld, RootHeld
      <3> QED
        BY <1>5, <3>1, <3>2
    <2>3. (OnPrimary(m) => Moves(R \cup {x}, m.primary))'
      BY <2>2 DEF Moves, MovesBy
    <2>4. WifiHeld(m, R \cup {x}, Q)' /\ ConnHeld(m, R \cup {x}, Q)'
      BY <2>3 DEF WifiHeld, ConnHeld
    <2>5. SsidHeld(m, R \cup {x}, Q)' /\ StrengthHeld(m, R \cup {x}, Q)'
      BY <2>3 DEF SsidHeld, StrengthHeld, OnAp
    <2> QED
      BY <2>1, <2>4, <2>5 DEF LinkHeld
  <1> QED
    BY <1>8, <1>9, <1>10 DEF HeldOn

\* NetworkManager stops or starts.
LEMMA OwnerSaid ==
    ASSUME NEW to \in Networks, to.strength = world.strength,
           world' = to, NEW x \in OwnerSignals, x.new = to.up, NEW R
    PROVE  SaidOn(R, x) /\ HeldOn(R, x) /\ SaidTrue(x, {})'
  <1>1. ~to.up => Primary' = Nothing
    BY DEF Primary
  <1>2. /\ x \in LinkMsgs /\ Owns(x) /\ (\A p : MovesBy(x, p))
    BY DEF LinkMsgs, LinkSignals, OwnerSignals, Owns, MovesBy
  <1>3. \A p : Moves(R \cup {x}, p)'
    <2>1. \A p : Moves(R \cup {x}, p)
      BY <1>2, MoreMsgs
    <2> QED
      BY <2>1 DEF Moves, MovesBy
  <1>4. \A p : RootSaid(p, R \cup {x})'
    BY <1>3 DEF RootSaid
  <1>6. \A p, a : ConnSaid(p, a, R \cup {x})'
    BY <1>3 DEF ConnSaid
  <1>7. \A a, s : ApSaid(a, s, R) => ApSaid(a, s, R \cup {x})'
    BY DEF ApSaid, Fades, FadesBy
  <1>8. SaidOn(R, x)
    BY <1>4, <1>6, <1>7 DEF SaidOn
  <1>9. SaidTrue(x, {})'
    <2>1. (~x.new => RootSaid(Nothing, {}))'
      BY <1>1 DEF RootSaid
    <2>2. ~RootTold(x) /\ (\A p : ~ConnTold(x, p)) /\ (\A p : ~ApTold(x, p))
      BY <1>2, WhichMsg
    <2> QED
      BY <2>1, <2>2 DEF SaidTrue, RootTold, ConnTold, ApTold, Tells, Query
  <1>10. ASSUME NEW m, NEW Q, LinkHeld(m, R, Q)
         PROVE  LinkHeld(m, R \cup {x}, Q)'
    <2>1. RootHeld(m, R \cup {x}, Q)'
      BY <1>4 DEF RootHeld
    <2>3. Moves(R \cup {x}, m.primary)'
      BY <1>3
    <2>4. WifiHeld(m, R \cup {x}, Q)' /\ ConnHeld(m, R \cup {x}, Q)'
      BY <2>3 DEF WifiHeld, ConnHeld
    <2>5. SsidHeld(m, R \cup {x}, Q)' /\ StrengthHeld(m, R \cup {x}, Q)'
      BY <2>3 DEF SsidHeld, StrengthHeld, OnAp
    <2> QED
      BY <2>1, <2>4, <2>5 DEF LinkHeld
  <1> QED
    BY <1>8, <1>9, <1>10 DEF HeldOn

\* The primary connection is at another access point.
LEMMA RoamSaid ==
    ASSUME world \in Networks, world.up, world.primary \in Wifi, NEW a \in Aps \cup {Nothing}, a # world.specific,
           world' = [world EXCEPT !.specific = a],
           NEW x \in ConnSignals, x.path = world.primary, x.props.specific = a, NEW R
    PROVE  SaidOn(R, x) /\ HeldOn(R, x) /\ SaidTrue(x, {})'
  <1>0. world'.up = world.up /\ world'.primary = world.primary /\ world'.specific = a
        /\ world'.strength = world.strength
    BY DEF Networks
  <1>1. Primary = world.primary /\ Primary' = world.primary /\ Primary # Nothing
    BY <1>0, ChainAssumption DEF Primary
  <1>2. /\ x \in LinkMsgs /\ ConnTold(x, Primary) /\ ~Owns(x)
        /\ (\A p : ~MovesBy(x, p)) /\ (\A b : RoamsBy(x, Primary, b) <=> b # a)
        /\ (\A p : ConnTold(x, p) => p = Primary)
        /\ (\A q : ~AnsweredBy(x, q)) /\ (\A p : ~FadesBy(x, p)) /\ ~RootTold(x)
    BY <1>1 DEF LinkMsgs, LinkSignals, ConnSignals, RootTold, ConnTold, Tells, Owns, MovesBy, RoamsBy, AnsweredBy, FadesBy
  <1>3. /\ \A p : Moves(R \cup {x}, p) <=> Moves(R, p)
        /\ \A b : RoamsIn(R \cup {x}, Primary, b) <=> RoamsIn(R, Primary, b) \/ b # a
        /\ \A p : Fades(R \cup {x}, p) <=> Fades(R, p)
        /\ \A Q, q : Open(R \cup {x}, Q, q) <=> Open(R, Q, q)
    BY <1>2, MoreMsgs
  <1>4. \A p : RootSaid(p, R) => RootSaid(p, R \cup {x})'
    <2>1. ASSUME NEW p, RootSaid(p, R)
          PROVE  p = world.primary \/ Moves(R \cup {x}, p)
      BY <1>1, <1>3, <2>1 DEF RootSaid
    <2> QED
      BY <1>1, <2>1 DEF RootSaid, Moves, MovesBy
  <1>6. \A p, b : ConnSaid(p, b, R \cup {x})'
    <2>1. ASSUME NEW p, NEW b, p = world.primary
          PROVE  b = a \/ RoamsIn(R \cup {x}, p, b)
      BY <1>1, <1>3, <2>1
    <2> QED
      BY <1>0, <1>1, <2>1 DEF ConnSaid, RoamsIn, RoamsBy
  <1>7. \A c, s : ApSaid(c, s, R) => ApSaid(c, s, R \cup {x})'
    BY <1>0 DEF ApSaid, Fades, FadesBy
  <1>8. SaidOn(R, x)
    BY <1>4, <1>6, <1>7 DEF SaidOn
  <1>9. SaidTrue(x, {})'
    <2>1. RootSaid(Primary, {})' /\ (\A p : ConnSaid(p, x.props.specific, {})')
      BY <1>0, <1>1 DEF RootSaid, ConnSaid
    <2>2. \A p : ~ApTold(x, p)
      BY <1>2, WhichMsg
    <2>3. \A p \in Conns : ConnTold(x, p) => p = Primary'
      BY <1>1, <1>2
    <2> QED
      BY <1>2, <2>1, <2>2, <2>3 DEF SaidTrue, Owns, RootTold, ConnTold, ApTold, Tells, Query
  <1>10. ASSUME NEW m, NEW Q, LinkHeld(m, R, Q)
         PROVE  LinkHeld(m, R \cup {x}, Q)'
    <2>1. RootHeld(m, R \cup {x}, Q)'
      <3>1. m.primary = world.primary \/ Moves(R \cup {x}, m.primary) \/ (m.primary = Nothing /\ Open(R \cup {x}, Q, Root))
        BY <1>1, <1>3, <1>10 DEF LinkHeld, RootHeld, RootSaid
      <3> QED
        BY <1>1, <3>1 DEF RootHeld, RootSaid, Moves, MovesBy, Open, AnsweredBy, Root, Query
    <2>2. WifiHeld(m, R \cup {x}, Q)'
      <3>1. m.primary = world.primary =>
               \/ Moves(R \cup {x}, m.primary) \/ m.wifi = (m.primary \in Wifi)
               \/ Open(R \cup {x}, Q, Query("conn", m.primary))
        BY <1>1, <1>3, <1>10 DEF LinkHeld, WifiHeld, OnPrimary
      <3> QED
        BY <1>1, <3>1 DEF WifiHeld, OnPrimary, Moves, MovesBy, Open, AnsweredBy, Query
    <2>3. (OnPrimary(m) => RoamsIn(R \cup {x}, m.primary, m.specific) \/ m.specific = world.specific)'
      <3>1. m.primary = world.primary => RoamsIn(R \cup {x}, m.primary, m.specific) \/ m.specific = a
        BY <1>1, <1>3
      <3> QED
        BY <1>0, <1>1, <3>1 DEF OnPrimary, RoamsIn, RoamsBy
    <2>4. ConnHeld(m, R \cup {x}, Q)'
      BY <2>3 DEF ConnHeld
    <2>5. (OnAp(m) => Moves(R \cup {x}, m.primary) \/ RoamsIn(R \cup {x}, m.primary, m.specific))'
      <3>1. m.primary = world.primary /\ m.specific = a /\ m.specific # Nothing =>
               Moves(R \cup {x}, m.primary) \/ RoamsIn(R \cup {x}, m.primary, m.specific)
        BY <1>1, <1>3, <1>10 DEF LinkHeld, ConnHeld, OnPrimary
      <3> QED
        BY <1>0, <1>1, <3>1 DEF OnAp, OnPrimary, Moves, MovesBy, RoamsIn, RoamsBy
    <2>6. SsidHeld(m, R \cup {x}, Q)' /\ StrengthHeld(m, R \cup {x}, Q)'
      BY <2>5 DEF SsidHeld, StrengthHeld
    <2> QED
      BY <2>1, <2>2, <2>4, <2>6 DEF LinkHeld
  <1> QED
    BY <1>8, <1>9, <1>10 DEF HeldOn

\* An access point is stronger or weaker.
LEMMA StrengthSaid ==
    ASSUME world \in Networks, NEW a \in Aps, NEW s \in Strengths,
           world' = [world EXCEPT !.strength[a] = s],
           NEW x \in ApSignals, x.path = a, x.props.strength = s, NEW R
    PROVE  SaidOn(R, x) /\ HeldOn(R, x) /\ SaidTrue(x, {})'
  <1>0. /\ world'.up = world.up /\ world'.primary = world.primary /\ world'.specific = world.specific
        /\ \A b \in Aps : world'.strength[b] = IF b = a THEN s ELSE world.strength[b]
    BY DEF Networks
  <1>1. Primary' = Primary
    BY <1>0 DEF Primary
  <1>2. /\ x \in LinkMsgs /\ ~Owns(x) /\ ~RootTold(x) /\ (\A p : ApTold(x, p) => p = a)
        /\ (\A p : ~MovesBy(x, p)) /\ (\A p, b : ~RoamsBy(x, p, b)) /\ FadesBy(x, a)
        /\ (\A q : ~AnsweredBy(x, q)) /\ \A p : ~ConnTold(x, p)
    BY DEF LinkMsgs, LinkSignals, ApSignals, RootTold, ConnTold, ApTold, Tells, Owns, MovesBy, RoamsBy, AnsweredBy, FadesBy
  <1>3. /\ \A p : Moves(R \cup {x}, p) <=> Moves(R, p)
        /\ \A p, b : RoamsIn(R \cup {x}, p, b) <=> RoamsIn(R, p, b)
        /\ \A p : Fades(R, p) \/ p = a => Fades(R \cup {x}, p)
        /\ \A Q, q : Open(R \cup {x}, Q, q) <=> Open(R, Q, q)
    BY <1>2, MoreMsgs
  <1>4. \A p : RootSaid(p, R) => RootSaid(p, R \cup {x})'
    <2>1. ASSUME NEW p, RootSaid(p, R)
          PROVE  p = Primary \/ Moves(R \cup {x}, p)
      BY <1>3, <2>1 DEF RootSaid
    <2> QED
      BY <1>1, <2>1 DEF RootSaid, Moves, MovesBy
  <1>6. \A p, b : ConnSaid(p, b, R) => ConnSaid(p, b, R \cup {x})'
    <2>1. ASSUME NEW p, NEW b, ConnSaid(p, b, R), p = Primary
          PROVE  b = world.specific \/ Moves(R \cup {x}, p) \/ RoamsIn(R \cup {x}, p, b)
      BY <1>3, <2>1 DEF ConnSaid
    <2> QED
      BY <1>0, <1>1, <2>1 DEF ConnSaid, Moves, MovesBy, RoamsIn, RoamsBy
  <1>7. \A b \in Aps : \A t : ApSaid(b, t, R) => ApSaid(b, t, R \cup {x})'
    <2>1. ASSUME NEW b \in Aps, NEW t, ApSaid(b, t, R)
          PROVE  t = world'.strength[b] \/ Fades(R \cup {x}, b)
      BY <1>0, <1>3, <2>1 DEF ApSaid
    <2> QED
      BY <2>1 DEF ApSaid, Fades, FadesBy
  <1>8. SaidOn(R, x)
    BY <1>4, <1>6, <1>7 DEF SaidOn
  <1>9. SaidTrue(x, {})'
    <2>1. ApSaid(a, x.props.strength, {})'
      BY <1>0 DEF ApSaid
    <2> QED
      BY <1>2, <2>1 DEF SaidTrue, Owns, RootTold, ConnTold, ApTold, Tells, Query
  <1>10. ASSUME NEW m, NEW Q, LinkHeld(m, R, Q)
         PROVE  LinkHeld(m, R \cup {x}, Q)'
    <2>0. (OnPrimary(m)' <=> OnPrimary(m)) /\ (OnAp(m)' <=> OnAp(m))
      BY <1>0, <1>1 DEF OnPrimary, OnAp
    <2>1. RootHeld(m, R \cup {x}, Q)'
      <3>1. m.primary = Primary \/ Moves(R \cup {x}, m.primary) \/ (m.primary = Nothing /\ Open(R \cup {x}, Q, Root))
        BY <1>3, <1>10 DEF LinkHeld, RootHeld, RootSaid
      <3> QED
        BY <1>1, <3>1 DEF RootHeld, RootSaid, Moves, MovesBy, Open, AnsweredBy, Root, Query
    <2>2. WifiHeld(m, R \cup {x}, Q)'
      <3>1. OnPrimary(m) => \/ Moves(R \cup {x}, m.primary) \/ m.wifi = (m.primary \in Wifi)
                            \/ Open(R \cup {x}, Q, Query("conn", m.primary))
        BY <1>3, <1>10 DEF LinkHeld, WifiHeld
      <3> QED
        BY <2>0, <3>1 DEF WifiHeld, Moves, MovesBy, Open, AnsweredBy, Query
    <2>3. ConnHeld(m, R \cup {x}, Q)'
      <3>1. OnPrimary(m) => \/ Moves(R \cup {x}, m.primary) \/ RoamsIn(R \cup {x}, m.primary, m.specific)
                            \/ m.specific = world.specific
                            \/ m.specific = Nothing /\ Open(R \cup {x}, Q, Query("conn", m.primary))
        BY <1>3, <1>10 DEF LinkHeld, ConnHeld
      <3> QED
        BY <1>0, <2>0, <3>1 DEF ConnHeld, Moves, MovesBy, RoamsIn, RoamsBy, Open, AnsweredBy, Query
    <2>4. SsidHeld(m, R \cup {x}, Q)'
      <3>1. OnAp(m) => \/ Moves(R \cup {x}, m.primary) \/ RoamsIn(R \cup {x}, m.primary, m.specific)
                       \/ m.ssid = m.specific \/ Open(R \cup {x}, Q, Query("ap", m.specific))
        BY <1>3, <1>10 DEF LinkHeld, SsidHeld
      <3> QED
        BY <2>0, <3>1 DEF SsidHeld, Moves, MovesBy, RoamsIn, RoamsBy, Open, AnsweredBy, Query
    <2>5. StrengthHeld(m, R \cup {x}, Q)'
      <3>1. OnAp(m) => \/ Moves(R \cup {x}, m.primary) \/ RoamsIn(R \cup {x}, m.primary, m.specific)
                       \/ m.strength = world'.strength[m.specific] \/ Fades(R \cup {x}, m.specific)
                       \/ Open(R \cup {x}, Q, Query("ap", m.specific))
        <4>1. OnAp(m) => m.specific \in Aps
          BY DEF OnAp, Networks
        <4> QED
          BY <1>0, <1>3, <1>10, <4>1 DEF LinkHeld, StrengthHeld
      <3> QED
        BY <2>0, <3>1 DEF StrengthHeld, Moves, MovesBy, RoamsIn, RoamsBy, Fades, FadesBy, Open, AnsweredBy, Query
    <2> QED
      BY <2>1, <2>2, <2>3, <2>4, <2>5 DEF LinkHeld
  <1> QED
    BY <1>8, <1>9, <1>10 DEF HeldOn

-----------------------------------------------------------------------------
AllSaid(s) == \A j \in 1 .. Len(s) : SaidTrue(s[j], Rest(s, j))

\* A message that comes after all others leaves what they say, and what is
\* held.
LEMMA SaidAfter ==
    ASSUME NEW s \in Seq(LinkMsgs), NEW x \in LinkMsgs, \A R : SaidOn(R, x) /\ HeldOn(R, x), SaidTrue(x, {})',
           NEW t, t = Append(s, x)
    PROVE  /\ AllSaid(s) => AllSaid(t)'
           /\ \A m, Q : LinkHeld(m, Rest(s, 0), Q) => LinkHeld(m, Rest(t, 0), Q)'
  <1>1. /\ Len(t) = Len(s) + 1 /\ Len(s) \in Nat /\ t[Len(s) + 1] = x
        /\ \A i \in 1 .. Len(s) : t[i] = s[i]
        /\ \A i \in 1 .. Len(t) : i \in 1 .. Len(s) \/ i = Len(s) + 1
    BY AppendFacts
  <1>2. /\ \A j \in 0 .. Len(s) : Rest(t, j) = Rest(s, j) \cup {x}
        /\ Rest(t, Len(s) + 1) = {}
    BY RestFacts
  <1>3. ASSUME AllSaid(s), NEW j \in 1 .. Len(t)
        PROVE  SaidTrue(t[j], Rest(t, j))'
    <2>1. CASE j \in 1 .. Len(s)
      <3>1. PICK R : R = Rest(s, j)
        OBVIOUS
      <3>2. PICK msg : msg = s[j]
        OBVIOUS
      <3>3. SaidTrue(msg, R) /\ t[j] = msg /\ j \in 0 .. Len(s)
        BY <1>1, <1>3, <2>1, <3>1, <3>2 DEF AllSaid
      <3>4. SaidTrue(msg, R \cup {x})'
        BY <3>3, SaidStays
      <3>5. Rest(t, j) = R \cup {x}
        BY <1>2, <3>1, <3>3
      <3> QED
        BY <3>3, <3>4, <3>5
    <2>2. CASE j = Len(s) + 1
      BY <1>1, <1>2, <2>2
    <2> QED
      BY <1>1, <2>1, <2>2
  <1>4. ASSUME NEW m, NEW Q, LinkHeld(m, Rest(s, 0), Q)
        PROVE  LinkHeld(m, Rest(t, 0), Q)'
    <2>1. PICK R : R = Rest(s, 0)
      OBVIOUS
    <2>2. LinkHeld(m, R \cup {x}, Q)'
      BY <1>4, <2>1 DEF HeldOn
    <2>3. Rest(t, 0) = R \cup {x}
      BY <1>1, <1>2, <2>1
    <2> QED
      BY <2>2, <2>3
  <1> QED
    BY <1>3, <1>4 DEF AllSaid

\* An answer to q, as NetworkManager gives it.
NmAnswer(x, q) ==
    /\ AnsweredBy(x, q) <=> Exists(q)
    /\ \A o : AnsweredBy(x, o) => o = q
    /\ q = Root => x.props.primary = world.primary
    /\ q \in ConnQueries => x.props.specific = world.specific
    /\ q \in ApQueries => x.props.strength = world.strength[q.path]

\* What was under way is answered.
LEMMA AnswerHolds ==
    ASSUME world \in Networks, NEW q \in Queries, NEW x \in LinkReplies, NmAnswer(x, q), NEW R, NEW Q, NEW P,
           Q \subseteq P \cup {q}, NEW m \in SoundLinks, LinkHeld(m, R, Q)
    PROVE  LinkHeld(m, R \cup {x}, P)
  <1>1. x \in LinkMsgs /\ x.kind = "reply"
    BY DEF LinkMsgs, LinkReplies, RootReplies, ConnReplies, ApReplies
  <1>2. \A o : Open(R, Q, o) => Open(R \cup {x}, P, o) \/ (o = q /\ ~Exists(q))
    <2>1. ASSUME NEW o, Open(R, Q, o)
          PROVE  Open(R \cup {x}, P, o) \/ (o = q /\ ~Exists(q))
      <3>1. CASE o \in P
        BY <3>1 DEF Open
      <3>2. CASE o = q
        BY <3>2 DEF Open, NmAnswer
      <3>3. CASE o \notin Q
        BY <2>1, <3>3 DEF Open
      <3> QED
        BY <3>1, <3>2, <3>3
    <2> QED
      BY <2>1
  <1>3. /\ \A p : Moves(R, p) => Moves(R \cup {x}, p)
        /\ \A p, a : RoamsIn(R, p, a) => RoamsIn(R \cup {x}, p, a)
        /\ \A a : Fades(R, a) => Fades(R \cup {x}, a)
    BY MoreMsgs
  <1>4. (Exists(q) <=> world.up /\ (q.scope = "conn" => q.path = world.primary))
        /\ (Primary # Nothing => world.up /\ Primary = world.primary)
    BY DEF Exists, Primary
  <1>5. Root.scope = "root" /\ \A p : /\ Query("conn", p).scope = "conn" /\ Query("conn", p).path = p
                                      /\ Query("ap", p).scope = "ap"
    BY DEF Root, Query
  <1>6. RootHeld(m, R \cup {x}, P)
    <2>1. RootSaid(m.primary, R) => RootSaid(m.primary, R \cup {x})
      BY <1>3 DEF RootSaid
    <2>2. ASSUME m.primary = Nothing, Root = q, ~Exists(q)
          PROVE  RootSaid(m.primary, R \cup {x})
      BY <1>4, <1>5, <2>2 DEF RootSaid, Primary
    <2> QED
      BY <1>2, <2>1, <2>2 DEF LinkHeld, RootHeld
  <1>7. \A o : OnPrimary(m) /\ o = q /\ ~Exists(q) => o # Query("conn", m.primary) /\ \A a : o # Query("ap", a)
    BY <1>4, <1>5 DEF OnPrimary
  <1>8. WifiHeld(m, R \cup {x}, P) /\ ConnHeld(m, R \cup {x}, P)
    BY <1>2, <1>3, <1>7 DEF LinkHeld, WifiHeld, ConnHeld
  <1>9. SsidHeld(m, R \cup {x}, P) /\ StrengthHeld(m, R \cup {x}, P)
    BY <1>2, <1>3, <1>7 DEF LinkHeld, SsidHeld, StrengthHeld, OnAp
  <1> QED
    BY <1>6, <1>8, <1>9 DEF LinkHeld

\* And the answer is true.
LEMMA AnswerTrue ==
    ASSUME world \in Networks, NEW q \in Queries, NEW x \in LinkReplies, NmAnswer(x, q)
    PROVE  SaidTrue(x, {})
  <1>1. x \in LinkMsgs /\ x.kind = "reply"
    BY DEF LinkMsgs, LinkReplies, RootReplies, ConnReplies, ApReplies
  <1>2. \A s, p : Tells(x, s, p) => AnsweredBy(x, Query(s, p)) /\ Query(s, p) = q /\ Exists(q)
    BY <1>1 DEF Tells, AnsweredBy, NmAnswer
  <1>3. RootTold(x) => RootSaid(x.props.primary, {})
    <2>1. ASSUME RootTold(x)
          PROVE  world.up /\ q = Root
      BY <1>2, <2>1 DEF RootTold, Root, Exists
    <2> QED
      BY <2>1 DEF NmAnswer, RootSaid, Primary
  <1>4. ASSUME NEW c \in Conns, ConnTold(x, c)
        PROVE  RootSaid(c, {}) /\ ConnSaid(c, x.props.specific, {})
    <2>1. q = Query("conn", c) /\ Exists(q)
      BY <1>2, <1>4 DEF ConnTold
    <2>2. q \in ConnQueries /\ q.scope = "conn" /\ q.path = c
      BY <2>1, QueryFacts DEF Query
    <2>3. world.up /\ c = world.primary
      BY <2>1, <2>2 DEF Exists
    <2> QED
      BY <2>2, <2>3 DEF NmAnswer, RootSaid, ConnSaid, Primary
  <1>5. ASSUME NEW a \in Aps, ApTold(x, a)
        PROVE  ApSaid(a, x.props.strength, {})
    <2>1. q = Query("ap", a)
      BY <1>2, <1>5 DEF ApTold
    <2>2. q \in ApQueries /\ q.path = a
      BY <2>1, QueryFacts DEF Query
    <2> QED
      BY <2>2 DEF NmAnswer, ApSaid
  <1> QED
    BY <1>1, <1>3, <1>4, <1>5 DEF SaidTrue, Owns

\* What an answer says is so, where nothing that is still to come says otherwise.
LEMMA Uncontradicted ==
    ASSUME NEW x \in LinkMsgs, x.kind = "reply", NEW R, R \subseteq LinkMsgs, SaidTrue(x, R),
           \A msg \in R : ~SaysOtherwise(msg, x)
    PROVE  SaidTrue(x, {})
  <1>1. ~Owns(x)
    BY DEF Owns
  <1>2. \A u, v : Tells(x, u, v) => x.query = Query(u, v) /\ x.query.scope = u /\ x.query.path = v
    BY DEF Tells, Query
  <1>3. RootTold(x) => RootSaid(x.props.primary, {})
    <2>1. ASSUME RootTold(x)
          PROVE  ~Moves(R, x.props.primary)
      <3>1. x.query.scope = "root"
        BY <1>2, <2>1 DEF RootTold
      <3> QED
        BY <3>1 DEF Moves, MovesBy, SaysOtherwise
    <2> QED
      BY <2>1 DEF SaidTrue, RootSaid
  <1>4. ASSUME NEW c \in Conns, ConnTold(x, c)
        PROVE  RootSaid(c, {}) /\ ConnSaid(c, x.props.specific, {})
    <2>1. x.query.scope = "conn" /\ x.query.path = c
      BY <1>2, <1>4 DEF ConnTold
    <2>2. ~Moves(R, c)
      BY <2>1 DEF Moves, MovesBy, SaysOtherwise
    <2>3. ~RoamsIn(R, c, x.props.specific)
      BY <2>1 DEF RoamsIn, RoamsBy, SaysOtherwise
    <2> QED
      BY <1>4, <2>2, <2>3 DEF SaidTrue, RootSaid, ConnSaid
  <1>5. ASSUME NEW a \in Aps, ApTold(x, a)
        PROVE  ApSaid(a, x.props.strength, {})
    <2>1. x.query.scope = "ap" /\ x.query.path = a
      BY <1>2, <1>5 DEF ApTold
    <2>2. ~Fades(R, a)
      BY <2>1 DEF Fades, FadesBy, SaysOtherwise
    <2> QED
      BY <1>5, <2>2 DEF SaidTrue, ApSaid
  <1> QED
    BY <1>1, <1>3, <1>4, <1>5 DEF SaidTrue

\* A batch in which no signal contradicts an earlier answer says the same when its
\* signals are handled first.
LEMMA SortedSaid ==
    ASSUME NEW s \in Seq(LinkMsgs), AllSaid(s), ~Contradicted(s)
    PROVE  AllSaid(Signals(s) \o Replies(s)) /\ Rest(Signals(s) \o Replies(s), 0) = Rest(s, 0)
  <1>1. PICK a : a = Signals(s)
    OBVIOUS
  <1>2. PICK b : b = Replies(s)
    OBVIOUS
  <1>3. PICK u : u = a \o b
    OBVIOUS
  <1>4. PICK k : k = {msg \in ToSet(s) : msg.kind = "signal"}
    OBVIOUS
  <1>5. PICK l : l = {msg \in ToSet(s) : msg.kind = "reply"}
    OBVIOUS
  <1>6. a = Retain(s, k) /\ b = Retain(s, l)
    BY <1>1, <1>2, <1>4, <1>5 DEF Signals, Replies, OfKind
  <1>7. a \in Seq(LinkMsgs) /\ b \in Seq(LinkMsgs)
    BY <1>6, RetainOrder
  <1>8. PICK f : Places(f, s, k, a)
    BY <1>6, RetainOrder
  <1>9. PICK g : Places(g, s, l, b)
    BY <1>6, RetainOrder
  <1>10. PICK n \in Nat, p \in Nat, q \in Nat : n = Len(s) /\ p = Len(a) /\ q = Len(b)
    BY <1>7
  <1>11. DOMAIN s = 1 .. n /\ \A i \in 1 .. n : s[i] \in LinkMsgs /\ s[i] \in ToSet(s)
    BY <1>10 DEF ToSet
  <1>12. \A i \in 1 .. n : s[i].kind \in {"signal", "reply"}
    BY <1>11, MsgFacts
  <1>13. /\ Len(u) = p + q /\ \A j \in 1 .. p : u[j] = a[j]
         /\ \A j \in 1 .. q : u[p + j] = b[j]
    <2>1. Len(u) = p + q /\ \A j \in 1 .. p + q : u[j] = IF j <= p THEN a[j] ELSE b[j - p]
      BY <1>3, <1>7, <1>10, ConcatProperties
    <2>2. ASSUME NEW j \in 1 .. q
          PROVE  u[p + j] = b[j]
      <3>1. p + j \in 1 .. p + q /\ ~(p + j <= p) /\ p + j - p = j
        OBVIOUS
      <3> QED
        BY <2>1, <3>1
    <2> QED
      BY <2>1, <2>2
  <1>14. /\ \A j \in 1 .. p : f[j] \in 1 .. n /\ a[j] = s[f[j]] /\ s[f[j]].kind = "signal"
         /\ \A j \in 1 .. q : g[j] \in 1 .. n /\ b[j] = s[g[j]] /\ s[g[j]].kind = "reply"
    BY <1>4, <1>5, <1>8, <1>9, <1>10 DEF Places
  <1>15. ASSUME NEW i \in 1 .. n
         PROVE  \/ s[i].kind = "signal" /\ \E m \in 1 .. p : f[m] = i
                \/ s[i].kind = "reply" /\ \E m \in 1 .. q : g[m] = i
    <2>1. CASE s[i].kind = "signal"
      BY <1>4, <1>8, <1>10, <1>11, <2>1 DEF Places
    <2>2. CASE s[i].kind = "reply"
      BY <1>5, <1>9, <1>10, <1>11, <2>2 DEF Places
    <2> QED
      BY <1>12, <2>1, <2>2
  <1>16. Rest(u, 0) = Rest(s, 0)
    <2>1. ASSUME NEW m \in 1 .. p + q
          PROVE  \E i \in 1 .. n : u[m] = s[i]
      <3>1. CASE m <= p
        <4>1. m \in 1 .. p
          BY <3>1
        <4> QED
          BY <1>13, <1>14, <4>1
      <3>2. CASE ~(m <= p)
        <4>1. m - p \in 1 .. q /\ p + (m - p) = m
          BY <3>2
        <4>2. PICK o \in 1 .. q : p + o = m
          BY <4>1
        <4>3. u[m] = b[o] /\ g[o] \in 1 .. n /\ b[o] = s[g[o]]
          BY <1>13, <1>14, <4>2
        <4> QED
          BY <4>3
      <3> QED
        BY <3>1, <3>2
    <2>2. ASSUME NEW i \in 1 .. n
          PROVE  \E m \in 1 .. p + q : u[m] = s[i]
      <3>1. CASE \E m \in 1 .. p : f[m] = i
        <4>1. PICK m \in 1 .. p : f[m] = i
          BY <3>1
        <4>2. m \in 1 .. p + q
          OBVIOUS
        <4> QED
          BY <1>13, <1>14, <4>1, <4>2
      <3>2. CASE \E m \in 1 .. q : g[m] = i
        <4>1. PICK m \in 1 .. q : g[m] = i
          BY <3>2
        <4>2. p + m \in 1 .. p + q
          OBVIOUS
        <4> QED
          BY <1>13, <1>14, <4>1, <4>2
      <3> QED
        BY <1>15, <3>1, <3>2
    <2>3. Rest(u, 0) = {u[m] : m \in 1 .. p + q} /\ Rest(s, 0) = {s[i] : i \in 1 .. n}
      BY <1>10, <1>13 DEF Rest
    <2> QED
      BY <2>1, <2>2, <2>3
  <1>17. ASSUME NEW i \in 1 .. n
         PROVE  SaidTrue(s[i], Rest(s, i)) /\ Rest(s, i) = {s[m] : m \in i + 1 .. n}
    BY <1>10 DEF AllSaid, Rest
  <1>18. ASSUME NEW j \in 1 .. p
         PROVE  SaidTrue(u[j], Rest(u, j))
    <2>1. u[j] = s[f[j]] /\ f[j] \in 1 .. n
      BY <1>13, <1>14
    <2>2. ASSUME NEW m \in f[j] + 1 .. n, s[m].kind = "signal"
          PROVE  s[m] \in Rest(u, j)
      <3>1. m \in 1 .. n /\ f[j] < m
        BY <2>1
      <3>2. PICK o \in 1 .. p : f[o] = m
        BY <1>15, <2>2, <3>1
      <3>3. ~(o < j) /\ o # j
        BY <1>8, <1>10, <1>14, <3>1, <3>2 DEF Places
      <3>4. o \in j + 1 .. p + q
        BY <3>3
      <3>5. u[o] = s[m]
        BY <1>13, <1>14, <3>2
      <3> QED
        BY <1>13, <3>4, <3>5 DEF Rest
    <2>3. \A msg \in Rest(s, f[j]) : msg \in Rest(u, j) \/ msg.kind # "signal"
      BY <1>17, <2>1, <2>2
    <2>4. SaidTrue(s[f[j]], Rest(s, f[j]))
      BY <1>17, <2>1
    <2> QED
      BY <2>1, <2>3, <2>4, HeldGrows
  <1>19. ASSUME NEW j \in 1 .. q
         PROVE  SaidTrue(u[p + j], Rest(u, p + j))
    <2>1. PICK i \in 1 .. n : i = g[j] /\ u[p + j] = s[i] /\ s[i].kind = "reply" /\ s[i] \in LinkMsgs
      BY <1>11, <1>13, <1>14
    <2>2. PICK R : R = Rest(s, i)
      OBVIOUS
    <2>3. R \subseteq LinkMsgs /\ SaidTrue(s[i], R)
      BY <1>11, <1>17, <2>2
    <2>4. \A msg \in R : ~SaysOtherwise(msg, s[i])
      <3>1. ASSUME NEW m \in i + 1 .. n
            PROVE  ~SaysOtherwise(s[m], s[i])
        BY <1>11 DEF Contradicted
      <3> QED
        BY <1>17, <2>2, <3>1
    <2>5. SaidTrue(s[i], {})
      BY <2>1, <2>3, <2>4, Uncontradicted
    <2> QED
      BY <2>1, <2>5, HeldGrows
  <1>20. ASSUME NEW j \in 1 .. p + q
         PROVE  SaidTrue(u[j], Rest(u, j))
    <2>1. CASE j <= p
      <3>1. j \in 1 .. p
        BY <2>1
      <3> QED
        BY <1>18, <3>1
    <2>2. CASE ~(j <= p)
      <3>1. j - p \in 1 .. q /\ p + (j - p) = j
        BY <2>2
      <3>2. PICK m \in 1 .. q : p + m = j
        BY <3>1
      <3> QED
        BY <1>19, <3>2
    <2> QED
      BY <2>1, <2>2
  <1>21. AllSaid(u)
    BY <1>13, <1>20 DEF AllSaid
  <1> QED
    BY <1>1, <1>2, <1>3, <1>16, <1>21

\* A wake-up that handles the messages in their order knows the network, or asks.
LEMMA WakeLinks ==
    ASSUME NEW m \in SoundLinks, NEW s \in Seq(LinkMsgs), AllSaid(s), NEW Q, LinkHeld(m, Rest(s, 0), Q)
    PROVE  LET after == FoldLeft(OnMessage, [model |-> m, asks |-> <<>>], s)
           IN  LinkHeld(after.model, {}, Q \cup ToSet(after.asks))
  <1>1. PICK base : base = [model |-> m, asks |-> <<>>]
    OBVIOUS
  <1>2. base \in LinkAccs /\ base.model = m /\ base.asks = <<>>
    BY <1>1 DEF LinkAccs
  <1>3. PICK run \in [0 .. Len(s) -> LinkAccs] :
              /\ run[0] = base /\ run[Len(s)] = FoldLeft(OnMessage, base, s)
              /\ \A n \in 1 .. Len(s) : run[n] = OnMessage(run[n - 1], s[n])
    BY <1>2, LinksRun
  <1> DEFINE Good(n) == LinkHeld(run[n].model, Rest(s, n), Q \cup ToSet(run[n].asks))
  <1>4. PICK G : G = {n \in 0 .. Len(s) : Good(n)}
    OBVIOUS
  <1>5. Len(s) \in Nat /\ 0 \in 0 .. Len(s) /\ Len(s) \in 0 .. Len(s)
        /\ \A n \in 1 .. Len(s) : s[n] \in LinkMsgs /\ n \in 0 .. Len(s) /\ n - 1 \in 0 .. Len(s)
    OBVIOUS
  <1>6. Good(0)
    <2>1. Q \cup ToSet(run[0].asks) = Q
      BY <1>2, <1>3, ToSetOne
    <2>2. run[0].model = m
      BY <1>2, <1>3
    <2> QED
      BY <2>1, <2>2
  <1>7. ASSUME NEW n \in 1 .. Len(s), Good(n - 1)
        PROVE  Good(n)
    <2>1. PICK acc \in LinkAccs : acc = run[n - 1]
      BY <1>5
    <2>2. PICK msg \in LinkMsgs : msg = s[n]
      BY <1>5
    <2>3. PICK R : R = Rest(s, n)
      OBVIOUS
    <2>4. LinkHeld(acc.model, R \cup {msg}, Q \cup ToSet(acc.asks))
      <3>1. Rest(s, n - 1) = R \cup {msg}
        BY <2>2, <2>3, RestFacts
      <3> QED
        BY <1>7, <2>1, <3>1
    <2>5. SaidTrue(msg, R)
      BY <2>2, <2>3 DEF AllSaid
    <2>6. LinkHeld(OnMessage(acc, msg).model, R, Q \cup ToSet(OnMessage(acc, msg).asks))
      BY <2>4, <2>5, LinkHeldOn
    <2>7. run[n] = OnMessage(acc, msg)
      BY <1>3, <2>1, <2>2
    <2> QED
      BY <2>3, <2>6, <2>7
  <1> HIDE DEF Good
  <1>8. G \in SUBSET (0 .. Len(s)) /\ 0 \in G /\ \A n \in 1 .. Len(s) : n - 1 \in G => n \in G
    BY <1>4, <1>5, <1>6, <1>7
  <1>9. G = 0 .. Len(s)
    BY <1>5, <1>8, Induction
  <1>10. Good(Len(s))
    BY <1>4, <1>5, <1>9
  <1>11. Rest(s, Len(s)) = {}
    BY RestFacts
  <1> QED
    BY <1>1, <1>3, <1>10, <1>11 DEF Good

-----------------------------------------------------------------------------
\* The network's own invariant.
NetworkTyped ==
    /\ world \in Networks /\ model \in SoundLinks
    /\ wire \in Seq(LinkMsgs) /\ held \in Seq(LinkMsgs) /\ asked \in Seq(Queries)
    /\ phase \in {"walking", "waiting"} => pending \in Seq(Queries)

NoReplies(s) == \A i \in 1 .. Len(s) : s[i].kind # "reply"
OneReply(s)  == \A i, j \in 1 .. Len(s) : s[i].kind = "reply" /\ s[j].kind = "reply" => i = j

\* Set-up waits for one reply at a time, and shows nothing.
NetworkPhases ==
    /\ phase = "new" => asked = <<>> /\ wire = <<>> /\ held = <<>> /\ model = Chain0
    /\ phase = "walking" => asked = <<>> /\ NoReplies(wire)
    /\ phase = "waiting" => /\ OneReply(wire)
                            /\ asked # <<>> => Len(asked) = 1 /\ NoReplies(wire)
    /\ phase \in {"new", "walking", "waiting"} => shown = Nothing /\ ~seed
    /\ phase = "on" => shown = NetworkSnapshot(model) \/ (shown = Nothing /\ seed)

\* What is asked for, or will be.
Sought == ToSet(asked) \cup IF phase = "on" THEN {} ELSE ToSet(pending)

NetworkTold ==
    phase \in {"walking", "waiting", "on"} =>
        AllSaid(Batch) /\ (~reordered => LinkHeld(model, Rest(Batch, 0), Sought))

NetworkIInv == NetworkTyped /\ NetworkPhases /\ NetworkTold

\* What has been told, of the batch to come.
LEMMA ToldFrom ==
    ASSUME NEW t, NEW m, NEW Q, Batch' = t, model' = m, Sought' = Q,
           AllSaid(t)', ~reordered' => LinkHeld(m, Rest(t, 0), Q)'
    PROVE  NetworkTold'
  <1>1. AllSaid(Batch)'
    BY DEF AllSaid, SaidTrue, RootSaid, ConnSaid, ApSaid, Primary
  <1>2. ASSUME ~reordered'
        PROVE  LinkHeld(model, Rest(Batch, 0), Sought)'
    <2>1. LinkHeld(m, Rest(t, 0), Q)'
      BY <1>2
    <2>2. /\ RootHeld(model, Rest(Batch, 0), Sought)'
      BY <2>1 DEF LinkHeld, RootHeld, RootSaid, Primary
    <2>3. WifiHeld(model, Rest(Batch, 0), Sought)'
      BY <2>1 DEF LinkHeld, WifiHeld, OnPrimary, Primary
    <2>4. ConnHeld(model, Rest(Batch, 0), Sought)'
      BY <2>1 DEF LinkHeld, ConnHeld, OnPrimary, Primary
    <2>5. SsidHeld(model, Rest(Batch, 0), Sought)'
      BY <2>1 DEF LinkHeld, SsidHeld, OnAp, OnPrimary, Primary
    <2>6. StrengthHeld(model, Rest(Batch, 0), Sought)'
      BY <2>1 DEF LinkHeld, StrengthHeld, OnAp, OnPrimary, Primary
    <2> QED
      BY <2>2, <2>3, <2>4, <2>5, <2>6 DEF LinkHeld
  <1> QED
    BY <1>1, <1>2 DEF NetworkTold

\* The world as it was.
LEMMA ToldStill ==
    ASSUME NEW t, NEW m, NEW Q, Batch' = t, model' = m, Sought' = Q, world' = world,
           AllSaid(t), ~reordered' => LinkHeld(m, Rest(t, 0), Q)
    PROVE  NetworkTold'
  <1>0. Primary' = Primary
    BY DEF Primary
  <1>1. AllSaid(t)'
    BY <1>0 DEF AllSaid, SaidTrue, RootSaid, ConnSaid, ApSaid
  <1>2. ASSUME ~reordered'
        PROVE  LinkHeld(m, Rest(t, 0), Q)'
    <2>1. LinkHeld(m, Rest(t, 0), Q)
      BY <1>2
    <2>2. RootHeld(m, Rest(t, 0), Q)'
      BY <1>0, <2>1 DEF LinkHeld, RootHeld, RootSaid
    <2>3. WifiHeld(m, Rest(t, 0), Q)'
      BY <1>0, <2>1 DEF LinkHeld, WifiHeld, OnPrimary
    <2>4. ConnHeld(m, Rest(t, 0), Q)'
      BY <1>0, <2>1 DEF LinkHeld, ConnHeld, OnPrimary
    <2>5. SsidHeld(m, Rest(t, 0), Q)'
      BY <1>0, <2>1 DEF LinkHeld, SsidHeld, OnAp, OnPrimary
    <2>6. StrengthHeld(m, Rest(t, 0), Q)'
      BY <1>0, <2>1 DEF LinkHeld, StrengthHeld, OnAp, OnPrimary
    <2> QED
      BY <2>2, <2>3, <2>4, <2>5, <2>6 DEF LinkHeld
  <1> QED
    BY <1>1, <1>2, ToldFrom

\* The empty batch.
LEMMA NothingSaid == AllSaid(<<>>) /\ Rest(<<>>, 0) = {}
  BY DEF AllSaid, Rest

\* The service starts with nothing said.
LEMMA NetworkStart == NetworkInit => NetworkIInv
  <1> SUFFICES ASSUME NetworkInit
               PROVE  NetworkIInv
    OBVIOUS
  <1>1. /\ phase = "new" /\ asked = <<>> /\ wire = <<>> /\ held = <<>> /\ shown = Nothing /\ seed = FALSE
        /\ world \in Networks /\ model = Chain0
    BY DEF NetworkInit, BusInit
  <1>2. NetworkTyped
    BY <1>1, Chain0Type DEF NetworkTyped
  <1> QED
    BY <1>1, <1>2 DEF NetworkIInv, NetworkPhases, NetworkTold

\* NetworkManager sends a signal.
LEMMA SignalStep ==
    ASSUME NetworkIInv, world' \in Networks, NEW x \in LinkSignals,
           \A R : SaidOn(R, x) /\ HeldOn(R, x), SaidTrue(x, {})', Emit(NetworkMatched, <<x>>),
           UNCHANGED <<asked, held, phase, model, pending, seed, shown, reordered>>
    PROVE  NetworkIInv'
  <1>1. /\ asked' = asked /\ held' = held /\ phase' = phase /\ model' = model /\ pending' = pending
        /\ seed' = seed /\ shown' = shown /\ reordered' = reordered
    OBVIOUS
  <1>2. /\ wire \in Seq(LinkMsgs) /\ held \in Seq(LinkMsgs) /\ asked \in Seq(Queries) /\ model \in SoundLinks
        /\ phase \in {"walking", "waiting"} => pending \in Seq(Queries)
    BY DEF NetworkIInv, NetworkTyped
  <1>3. x \in LinkMsgs /\ x.kind = "signal"
    BY DEF LinkMsgs, LinkSignals, OwnerSignals, RootSignals, ConnSignals, ApSignals
  <1>4. Sought' = Sought /\ NetworkSnapshot(model)' = NetworkSnapshot(model')
    BY <1>1 DEF Sought, NetworkSnapshot
  <1>5. CASE phase \notin {"walking", "waiting", "on"}
    <2>1. wire' = wire
      BY <1>5 DEF Emit, NetworkMatched
    <2>2. NetworkTyped'
      BY <1>1, <1>2, <2>1 DEF NetworkTyped
    <2>3. NetworkPhases'
      BY <1>1, <1>5, <2>1 DEF NetworkIInv, NetworkPhases
    <2> QED
      BY <1>1, <1>5, <2>2, <2>3 DEF NetworkIInv, NetworkTold
  <1>6. CASE phase \in {"walking", "waiting", "on"}
    <2>1. wire' = Append(wire, x)
      <3>1. wire' = wire \o <<x>>
        BY <1>6 DEF Emit, NetworkMatched
      <3> QED
        BY <1>2, <1>3, <3>1, AppendOne
    <2>2. PICK s : s = Batch
      OBVIOUS
    <2>3. PICK t : t = Append(s, x)
      OBVIOUS
    <2>4. Batch' = t /\ wire' \in Seq(LinkMsgs) /\ s \in Seq(LinkMsgs)
      BY <1>1, <1>2, <1>3, <2>1, <2>2, <2>3, AppendBatch, BatchLemma
    <2>5. PICK m : m = model
      OBVIOUS
    <2>6. PICK Q : Q = Sought
      OBVIOUS
    <2>7. AllSaid(s) /\ (~reordered => LinkHeld(m, Rest(s, 0), Q))
      BY <1>6, <2>2, <2>5, <2>6 DEF NetworkIInv, NetworkTold
    <2>8. AllSaid(t)' /\ (~reordered => LinkHeld(m, Rest(t, 0), Q)')
      BY <1>3, <2>3, <2>4, <2>7, SaidAfter
    <2>9. NetworkTold'
      BY <1>1, <1>4, <2>4, <2>5, <2>6, <2>8, ToldFrom
    <2>10. NetworkTyped'
      BY <1>1, <1>2, <2>4 DEF NetworkTyped
    <2>11. \A i \in 1 .. Len(wire') : wire'[i].kind = "reply" => i \in 1 .. Len(wire) /\ wire'[i] = wire[i]
      BY <1>2, <1>3, <2>1
    <2>12. /\ NoReplies(wire) => NoReplies(wire')
           /\ OneReply(wire) => OneReply(wire')
      BY <2>11 DEF NoReplies, OneReply
    <2>13. NetworkPhases'
      BY <1>1, <1>4, <1>6, <2>12 DEF NetworkIInv, NetworkPhases
    <2> QED
      BY <2>9, <2>10, <2>13 DEF NetworkIInv
  <1> QED
    BY <1>5, <1>6

\* What NetworkManager sends to a query.
Answering(q) ==
    [kind |-> "reply", query |-> q, ok |-> Exists(q),
     props |-> CASE q.scope = "root" -> [state |-> world.state, primary |-> world.primary]
                 [] q.scope = "conn" -> [wifi |-> q.path \in Wifi, specific |-> world.specific]
                 [] q.scope = "ap"   -> [ssid |-> q.path, strength |-> world.strength[q.path]]]

\* NetworkManager answers with what is.
LEMMA AnsweringLemma ==
    ASSUME world \in Networks, NEW q \in Queries
    PROVE  Answering(q) \in LinkReplies /\ NmAnswer(Answering(q), q)
  <1>1. PICK x : x = Answering(q)
    OBVIOUS
  <1>2. x.kind = "reply" /\ x.query = q /\ x.ok = Exists(q) /\ x.ok \in BOOLEAN
    BY <1>1 DEF Answering, Exists
  <1>3. AnsweredBy(x, q) <=> Exists(q)
    BY <1>2 DEF AnsweredBy
  <1>4. \A o : AnsweredBy(x, o) => o = q
    BY <1>2 DEF AnsweredBy
  <1>w. /\ world.state = (world.primary # Nothing) /\ world.state \in BOOLEAN
        /\ world.primary \in Conns \cup {Nothing} /\ world.specific \in Aps \cup {Nothing}
        /\ world.strength \in [Aps -> Strengths]
    BY DEF Networks
  <1>5. CASE q \in RootQueries
    <2>1. q.scope = "root" /\ q \notin ConnQueries /\ q \notin ApQueries
      BY <1>5 DEF RootQueries, ConnQueries, ApQueries
    <2>2. PICK p \in RootProps : p = [state |-> world.state, primary |-> world.primary]
      BY <1>w DEF RootProps
    <2>3. x = [kind |-> "reply", query |-> q, ok |-> Exists(q), props |-> p]
      BY <1>1, <2>1, <2>2 DEF Answering
    <2>4. Exists(q) \in BOOLEAN
      BY <1>2
    <2>5. x \in RootReplies
      BY <1>5, <2>2, <2>3, <2>4 DEF RootReplies
    <2>6. x.props.primary = world.primary
      BY <2>2, <2>3
    <2> QED
      BY <1>1, <1>3, <1>4, <2>1, <2>5, <2>6 DEF LinkReplies, NmAnswer
  <1>6. CASE q \in ConnQueries
    <2>1. q.scope = "conn" /\ q # Root /\ q \notin ApQueries /\ q.path \in Conns
      BY <1>6, QueryFacts DEF RootQueries, ConnQueries, ApQueries
    <2>8. PICK b : b = (q.path \in Wifi)
      OBVIOUS
    <2>9. b \in BOOLEAN
      BY <2>8
    <2>2. PICK p \in ConnProps : p = [wifi |-> b, specific |-> world.specific]
      BY <1>w, <2>9 DEF ConnProps
    <2>3. x = [kind |-> "reply", query |-> q, ok |-> Exists(q), props |-> p]
      BY <1>1, <2>1, <2>2, <2>8 DEF Answering
    <2>4. Exists(q) \in BOOLEAN
      BY <1>2
    <2>5. x \in [kind : {"reply"}, query : ConnQueries, ok : BOOLEAN, props : ConnProps]
      BY <1>6, <2>2, <2>3, <2>4
    <2>6. x.props.wifi = (x.query.path \in Wifi) /\ x.props.specific = world.specific
      BY <2>2, <2>3, <2>8
    <2>7. x \in ConnReplies
      BY <2>5, <2>6 DEF ConnReplies
    <2> QED
      BY <1>1, <1>3, <1>4, <2>1, <2>6, <2>7 DEF LinkReplies, NmAnswer
  <1>7. CASE q \in ApQueries
    <2>1. q.scope = "ap" /\ q # Root /\ q \notin ConnQueries /\ q.path \in Aps
      BY <1>7, QueryFacts DEF RootQueries, ConnQueries, ApQueries
    <2>2. PICK p \in [ssid : Aps, strength : Strengths] :
                 p = [ssid |-> q.path, strength |-> world.strength[q.path]]
      BY <1>w, <2>1
    <2>3. x = [kind |-> "reply", query |-> q, ok |-> Exists(q), props |-> p]
      BY <1>1, <2>1, <2>2 DEF Answering
    <2>4. Exists(q) \in BOOLEAN
      BY <1>2
    <2>5. x \in [kind : {"reply"}, query : ApQueries, ok : BOOLEAN, props : [ssid : Aps, strength : Strengths]]
      BY <1>7, <2>2, <2>3, <2>4
    <2>6. x.props.ssid = x.query.path /\ x.props.strength = world.strength[q.path]
      BY <2>2, <2>3
    <2>7. x \in ApReplies
      BY <2>5, <2>6 DEF ApReplies
    <2> QED
      BY <1>1, <1>3, <1>4, <2>1, <2>6, <2>7 DEF LinkReplies, NmAnswer
  <1> QED
    BY <1>5, <1>6, <1>7 DEF Queries

\* NetworkManager answers.
LEMMA AnswerStep ==
    ASSUME NetworkIInv, NmAnswers
    PROVE  NetworkIInv'
  <1>1. /\ held' = held /\ phase' = phase /\ model' = model /\ pending' = pending /\ world' = world
        /\ seed' = seed /\ shown' = shown /\ reordered' = reordered /\ asked # <<>> /\ asked' = Tail(asked)
    BY DEF NmAnswers
  <1>2. /\ wire \in Seq(LinkMsgs) /\ held \in Seq(LinkMsgs) /\ asked \in Seq(Queries) /\ model \in SoundLinks
        /\ phase \in {"walking", "waiting"} => pending \in Seq(Queries)
        /\ world \in Networks
    BY DEF NetworkIInv, NetworkTyped
  <1>3. PICK q : q = Head(asked)
    OBVIOUS
  <1>4. PICK x : x = Answering(q)
    OBVIOUS
  <1>5. /\ q \in Queries /\ asked' \in Seq(Queries) /\ ToSet(asked) = ToSet(asked') \cup {q}
        /\ Len(asked) = 1 => asked' = <<>>
    <2>1. q \in Queries /\ asked' \in Seq(Queries) /\ asked = <<q>> \o asked' /\ <<q>> \in Seq(Queries)
      BY <1>1, <1>2, <1>3
    <2>2. ToSet(<<q>> \o asked') = ToSet(<<q>>) \cup ToSet(asked')
      BY <2>1, ToSetConcat
    <2>3. Len(asked) = 1 => asked' = <<>>
      BY <1>1, <1>2
    <2> QED
      BY <2>1, <2>2, <2>3, ToSetOne
  <1>6. x \in LinkReplies /\ NmAnswer(x, q) /\ x \in LinkMsgs /\ x.kind = "reply"
    <2>1. x \in LinkReplies /\ NmAnswer(x, q)
      BY <1>2, <1>4, <1>5, AnsweringLemma
    <2> QED
      BY <2>1 DEF LinkMsgs, LinkReplies, RootReplies, ConnReplies, ApReplies
  <1>7. wire' = Append(wire, x)
    BY <1>3, <1>4 DEF NmAnswers, Answering
  <1>8. PICK s : s = Batch
    OBVIOUS
  <1>9. PICK t : t = Append(s, x)
    OBVIOUS
  <1>10. Batch' = t /\ wire' \in Seq(LinkMsgs) /\ s \in Seq(LinkMsgs)
    BY <1>1, <1>2, <1>6, <1>7, <1>8, <1>9, AppendBatch, BatchLemma
  <1>11. PICK m : m = model
    OBVIOUS
  <1>12. PICK P : P = Sought'
    OBVIOUS
  <1>13. ASSUME phase \in {"walking", "waiting", "on"}
         PROVE  NetworkTold'
    <2>1. AllSaid(s) /\ (~reordered => LinkHeld(m, Rest(s, 0), Sought))
      BY <1>8, <1>11, <1>13 DEF NetworkIInv, NetworkTold
    <2>2. Sought = P \cup {q}
      BY <1>1, <1>5, <1>12 DEF Sought
    <2>3. /\ Len(t) = Len(s) + 1 /\ Len(s) \in Nat /\ t[Len(s) + 1] = x
          /\ \A i \in 1 .. Len(s) : t[i] = s[i]
          /\ \A i \in 1 .. Len(t) : i \in 1 .. Len(s) \/ i = Len(s) + 1
      BY <1>6, <1>9, <1>10, AppendFacts
    <2>4. /\ \A j \in 0 .. Len(s) : Rest(t, j) = Rest(s, j) \cup {x}
          /\ Rest(t, Len(s) + 1) = {}
      BY <1>6, <1>9, <1>10, RestFacts
    <2>5. ASSUME NEW j \in 1 .. Len(t)
          PROVE  SaidTrue(t[j], Rest(t, j))
      <3>1. CASE j \in 1 .. Len(s)
        <4>1. SaidTrue(t[j], Rest(s, j)) /\ j \in 0 .. Len(s)
          BY <2>1, <2>3, <3>1 DEF AllSaid
        <4>2. \A msg \in Rest(s, j) : msg \in Rest(t, j) \/ msg.kind # "signal"
          BY <2>4, <4>1
        <4> QED
          BY <4>1, <4>2, HeldGrows
      <3>2. CASE j = Len(s) + 1
        BY <1>2, <1>5, <1>6, <2>3, <2>4, <3>2, AnswerTrue
      <3> QED
        BY <2>3, <3>1, <3>2
    <2>6. AllSaid(t)
      BY <2>5 DEF AllSaid
    <2>7. ASSUME ~reordered'
          PROVE  LinkHeld(m, Rest(t, 0), P)
      <3>1. LinkHeld(m, Rest(s, 0), P \cup {q})
        BY <1>1, <2>1, <2>2, <2>7
      <3>2. LinkHeld(m, Rest(s, 0) \cup {x}, P)
        <4>1. m \in SoundLinks
          BY <1>2, <1>11
        <4> QED
          BY <1>2, <1>5, <1>6, <3>1, <4>1, AnswerHolds
      <3>3. 0 \in 0 .. Len(s)
        BY <2>3
      <3> QED
        BY <2>4, <3>2, <3>3
    <2> QED
      BY <1>1, <1>10, <1>11, <1>12, <2>6, <2>7, ToldStill
  <1>14. NetworkTyped'
    BY <1>1, <1>2, <1>5, <1>10 DEF NetworkTyped
  <1>15. /\ \A i \in 1 .. Len(wire) : wire'[i] = wire[i]
         /\ \A i \in 1 .. Len(wire') : i \in 1 .. Len(wire) \/ i = Len(wire')
    BY <1>2, <1>6, <1>7
  <1>16. NoReplies(wire) => OneReply(wire')
    BY <1>15 DEF NoReplies, OneReply
  <1>17. NetworkPhases'
    <2>1. NetworkSnapshot(model)' = NetworkSnapshot(model')
      BY DEF NetworkSnapshot
    <2>2. phase \notin {"new", "walking"}
      BY <1>1 DEF NetworkIInv, NetworkPhases
    <2>3. phase = "waiting" => asked' = <<>> /\ OneReply(wire')
      BY <1>1, <1>5, <1>16 DEF NetworkIInv, NetworkPhases
    <2> QED
      BY <1>1, <2>1, <2>2, <2>3 DEF NetworkIInv, NetworkPhases
  <1>18. NetworkTold'
    <2>1. phase \notin {"walking", "waiting", "on"} => NetworkTold'
      BY <1>1 DEF NetworkTold
    <2> QED
      BY <1>13, <2>1
  <1> QED
    BY <1>14, <1>17, <1>18 DEF NetworkIInv

\* The rules are registered, and the walk along the chain begins.
LEMMA MatchStep ==
    ASSUME NetworkIInv, NetworkMatch
    PROVE  NetworkIInv'
  <1>1. /\ phase = "new" /\ phase' = "walking" /\ pending' = <<Root>> /\ world' = world /\ asked' = asked
        /\ wire' = wire /\ held' = held /\ model' = model /\ seed' = seed /\ shown' = shown
    BY DEF NetworkMatch
  <1>2. /\ asked = <<>> /\ wire = <<>> /\ held = <<>> /\ model = Chain0 /\ shown = Nothing /\ ~seed
    BY <1>1 DEF NetworkIInv, NetworkPhases
  <1>3. Batch' = <<>> /\ Sought' = {Root}
    <2>1. Batch' = <<>>
      BY <1>1, <1>2 DEF Batch
    <2>2. ToSet(asked') = {} /\ ToSet(pending') = {Root}
      BY <1>1, <1>2, ToSetOne
    <2> QED
      BY <1>1, <2>1, <2>2 DEF Sought
  <1>4. LinkHeld(Chain0, {}, {Root})
    <2>1. PICK m : m = Chain0
      OBVIOUS
    <2>2. m.primary = Nothing
      BY <2>1 DEF Chain0
    <2>3. Open({}, {Root}, Root)
      BY DEF Open
    <2>4. RootHeld(m, {}, {Root}) /\ ~OnPrimary(m) /\ ~OnAp(m)
      BY <2>2, <2>3 DEF RootHeld, OnPrimary, OnAp
    <2> QED
      BY <2>1, <2>4 DEF LinkHeld, WifiHeld, ConnHeld, SsidHeld, StrengthHeld
  <1>5. NetworkTold'
    <2>1. PICK m : m = Chain0
      OBVIOUS
    <2>2. LinkHeld(m, Rest(<<>>, 0), {Root}) /\ model' = m
      BY <1>1, <1>2, <1>4, <2>1, NothingSaid
    <2> QED
      BY <1>1, <1>3, <2>2, NothingSaid, ToldStill
  <1>6. <<Root>> \in Seq(Queries)
    BY QueryFacts
  <1>7. NetworkTyped'
    BY <1>1, <1>6 DEF NetworkIInv, NetworkTyped
  <1>8. NetworkPhases'
    <2>1. NoReplies(wire')
      BY <1>1, <1>2 DEF NoReplies
    <2> QED
      BY <1>1, <1>2, <2>1 DEF NetworkPhases
  <1> QED
    BY <1>5, <1>7, <1>8 DEF NetworkIInv

\* The walk asks for a link and waits.
LEMMA AskStep ==
    ASSUME NetworkIInv, WalkAsk
    PROVE  NetworkIInv'
  <1>1. /\ phase = "walking" /\ pending # <<>> /\ phase' = "waiting" /\ world' = world /\ asked' = <<Last(pending)>>
        /\ pending' = Front(pending) /\ reordered' = reordered
        /\ wire' = wire /\ held' = held /\ model' = model /\ seed' = seed /\ shown' = shown
    BY DEF WalkAsk
  <1>2. /\ asked = <<>> /\ NoReplies(wire) /\ pending \in Seq(Queries) /\ shown = Nothing /\ ~seed
    BY <1>1 DEF NetworkIInv, NetworkPhases, NetworkTyped
  <1>3. PICK last : last = Last(pending)
    OBVIOUS
  <1>4. PICK front : front = Front(pending)
    OBVIOUS
  <1>5. last \in Queries /\ front \in Seq(Queries) /\ ToSet(pending) = ToSet(front) \cup {last}
    <2>1. /\ Len(pending) \in Nat \ {0} /\ last = pending[Len(pending)]
          /\ front = SubSeq(pending, 1, Len(pending) - 1)
      BY <1>1, <1>2, <1>3, <1>4 DEF Last, Front
    <2>2. PICK n \in Nat : n = Len(pending) - 1
      BY <2>1
    <2>3. /\ last \in Queries /\ front \in Seq(Queries) /\ Len(front) = n
          /\ \A i \in 1 .. n : front[i] = pending[i]
      BY <1>2, <2>1, <2>2
    <2>4. DOMAIN pending = 1 .. n + 1 /\ DOMAIN front = 1 .. n
      BY <1>2, <2>1, <2>2, <2>3
    <2>5. 1 .. n + 1 = (1 .. n) \cup {n + 1} /\ last = pending[n + 1]
      BY <2>1, <2>2
    <2> QED
      BY <2>3, <2>4, <2>5 DEF ToSet
  <1>6. <<last>> \in Seq(Queries)
    BY <1>5
  <1>7. Sought' = Sought
    <2>1. ToSet(asked) = {} /\ ToSet(asked') = {last}
      BY <1>1, <1>2, <1>3, ToSetOne
    <2>2. ToSet(pending') = ToSet(front)
      BY <1>1, <1>4
    <2> QED
      BY <1>1, <1>5, <2>1, <2>2 DEF Sought
  <1>8. NetworkTold'
    <2>1. PICK t : t = Batch
      OBVIOUS
    <2>2. PICK m : m = model
      OBVIOUS
    <2>3. PICK Q : Q = Sought
      OBVIOUS
    <2>4. Batch' = t
      BY <1>1, <2>1 DEF Batch
    <2>5. AllSaid(t) /\ (~reordered => LinkHeld(m, Rest(t, 0), Q))
      BY <1>1, <2>1, <2>2, <2>3 DEF NetworkIInv, NetworkTold
    <2> QED
      BY <1>1, <1>7, <2>2, <2>3, <2>4, <2>5, ToldStill
  <1>9. NetworkTyped'
    BY <1>1, <1>3, <1>4, <1>5, <1>6 DEF NetworkIInv, NetworkTyped
  <1>10. NetworkPhases'
    <2>1. Len(asked') = 1
      BY <1>1
    <2>2. OneReply(wire') /\ NoReplies(wire')
      BY <1>1, <1>2 DEF NoReplies, OneReply
    <2> QED
      BY <1>1, <1>2, <2>1, <2>2 DEF NetworkPhases
  <1> QED
    BY <1>8, <1>9, <1>10 DEF NetworkIInv

\* Set-up reads a reply.
LEMMA ReplyStep ==
    ASSUME NetworkIInv, WalkReply
    PROVE  NetworkIInv'
  <1>1. /\ phase = "waiting" /\ phase' = "walking" /\ ReadReply /\ world' = world /\ asked' = asked
        /\ seed' = seed /\ shown' = shown /\ reordered' = reordered
    BY DEF WalkReply
  <1>2. /\ wire \in Seq(LinkMsgs) /\ held \in Seq(LinkMsgs) /\ asked \in Seq(Queries) /\ model \in SoundLinks
        /\ pending \in Seq(Queries) /\ world \in Networks /\ OneReply(wire) /\ shown = Nothing /\ ~seed
    BY <1>1 DEF NetworkIInv, NetworkTyped, NetworkPhases
  <1>3. PICK s : s = Batch
    OBVIOUS
  <1>4. PICK t : t = Batch'
    OBVIOUS
  <1>5. PICK k : k = Len(held) + FirstReply
    OBVIOUS
  <1>6. PICK x : x = wire[FirstReply]
    OBVIOUS
  <1>7. /\ wire' \in Seq(LinkMsgs) /\ held' \in Seq(LinkMsgs) /\ t \in Seq(LinkMsgs)
        /\ k \in 1 .. Len(s) /\ s[k] = x /\ Removed(t, s, k) /\ s \in Seq(LinkMsgs)
    BY <1>1, <1>2, <1>3, <1>4, <1>5, <1>6, ReplyRemoved, BatchLemma
  <1>8. FirstReply \in 1 .. Len(wire) /\ x \in LinkMsgs /\ x.kind = "reply"
    <2>1. FirstReply > 0
      BY <1>1 DEF ReadReply
    <2>2. FirstReply \in 1 .. Len(wire) /\ wire[FirstReply].kind = "reply"
      BY <1>2, <2>1, FirstReplyLemma
    <2> QED
      BY <1>2, <1>6, <2>2
  <1>9. asked = <<>>
    <2>1. ~NoReplies(wire)
      BY <1>6, <1>8 DEF NoReplies
    <2> QED
      BY <1>1, <2>1 DEF NetworkIInv, NetworkPhases
  <1>10. PICK acc : acc = [model |-> model, asks |-> pending]
    OBVIOUS
  <1>11. acc \in LinkAccs /\ acc.model = model /\ acc.asks = pending
    BY <1>2, <1>10 DEF LinkAccs
  <1>12. PICK after : after = OnMessage(acc, x)
    OBVIOUS
  <1>13. after \in LinkAccs /\ after.model \in SoundLinks /\ after.asks \in Seq(Queries)
    <2>1. after \in LinkAccs
      BY <1>8, <1>11, <1>12, LinkType
    <2> QED
      BY <2>1 DEF LinkAccs
  <1>14. model' = after.model /\ pending' = after.asks
    <2>1. after = OnReply(acc, x)
      BY <1>8, <1>12 DEF OnMessage
    <2> QED
      BY <1>6, <1>10, <2>1 DEF WalkReply
  <1>15. /\ Rest(s, 0) = Rest(t, 0) \cup {x} /\ Rest(s, k) \subseteq Rest(t, 0)
         /\ \A j \in 1 .. Len(t) : \E i \in 1 .. Len(s) :
               t[j] = s[i] /\ Rest(s, i) \subseteq Rest(t, j) \cup {x}
    BY <1>7, RestRemoved
  <1>16. AllSaid(s) /\ (~reordered => LinkHeld(model, Rest(s, 0), Sought))
    BY <1>1, <1>3 DEF NetworkIInv, NetworkTold
  <1>17. AllSaid(t)
    <2>1. ASSUME NEW j \in 1 .. Len(t)
          PROVE  SaidTrue(t[j], Rest(t, j))
      <3>1. PICK i \in 1 .. Len(s) : t[j] = s[i] /\ Rest(s, i) \subseteq Rest(t, j) \cup {x}
        BY <1>15
      <3>2. SaidTrue(t[j], Rest(s, i))
        BY <1>16, <3>1 DEF AllSaid
      <3>3. \A msg \in Rest(s, i) : msg \in Rest(t, j) \/ msg.kind # "signal"
        BY <1>8, <3>1
      <3> QED
        BY <3>2, <3>3, HeldGrows
    <2> QED
      BY <2>1 DEF AllSaid
  <1>18. SaidTrue(x, Rest(t, 0))
    <2>1. SaidTrue(x, Rest(s, k))
      BY <1>7, <1>16 DEF AllSaid
    <2>2. \A msg \in Rest(s, k) : msg \in Rest(t, 0) \/ msg.kind # "signal"
      BY <1>15
    <2> QED
      BY <2>1, <2>2, HeldGrows
  <1>19. ToSet(asked) = {}
    BY <1>9, ToSetOne
  <1>20. ASSUME ~reordered
         PROVE  LinkHeld(after.model, Rest(t, 0), ToSet(after.asks))
    <2>1. Sought = {} \cup ToSet(acc.asks)
      BY <1>1, <1>11, <1>19 DEF Sought
    <2>2. LinkHeld(acc.model, Rest(t, 0) \cup {x}, {} \cup ToSet(acc.asks))
      BY <1>11, <1>15, <1>16, <1>20, <2>1
    <2>3. LinkHeld(OnMessage(acc, x).model, Rest(t, 0), {} \cup ToSet(OnMessage(acc, x).asks))
      BY <1>8, <1>11, <1>18, <2>2, LinkHeldOn
    <2>4. {} \cup ToSet(after.asks) = ToSet(after.asks)
      OBVIOUS
    <2> QED
      BY <1>12, <2>3, <2>4
  <1>21. Sought' = ToSet(after.asks)
    BY <1>1, <1>14, <1>19 DEF Sought
  <1>22. NetworkTold'
    BY <1>1, <1>4, <1>14, <1>17, <1>20, <1>21, ToldStill
  <1>23. NetworkTyped'
    BY <1>1, <1>2, <1>7, <1>13, <1>14 DEF NetworkTyped
  <1>24. NoReplies(wire')
    <2>1. PICK f : f = FirstReply
      OBVIOUS
    <2>2. wire' = SubSeq(wire, f + 1, Len(wire)) /\ f \in 1 .. Len(wire) /\ wire[f].kind = "reply"
      BY <1>1, <1>6, <1>8, <2>1 DEF ReadReply
    <2>3. \A i \in 1 .. Len(wire') : i + f \in 1 .. Len(wire) /\ i + f # f /\ wire'[i] = wire[i + f]
      BY <1>2, <2>2
    <2> QED
      BY <1>2, <2>2, <2>3 DEF NoReplies, OneReply
  <1>25. NetworkPhases'
    BY <1>1, <1>2, <1>9, <1>24 DEF NetworkPhases
  <1> QED
    BY <1>22, <1>23, <1>25 DEF NetworkIInv

\* The walk ends, and the source takes over.
LEMMA StartedStep ==
    ASSUME NetworkIInv, NetworkStarted
    PROVE  NetworkIInv'
  <1>1. /\ phase = "walking" /\ pending = <<>> /\ phase' = "on" /\ seed' = TRUE /\ world' = world /\ asked' = asked
        /\ wire' = wire /\ held' = held /\ model' = model /\ shown' = shown /\ reordered' = reordered
    BY DEF NetworkStarted
  <1>2. asked = <<>> /\ shown = Nothing
    BY <1>1 DEF NetworkIInv, NetworkPhases
  <1>3. Sought' = Sought
    BY <1>1, <1>2, ToSetOne DEF Sought
  <1>4. NetworkTold'
    <2>1. PICK t : t = Batch
      OBVIOUS
    <2>2. PICK m : m = model
      OBVIOUS
    <2>3. PICK Q : Q = Sought
      OBVIOUS
    <2>4. Batch' = t
      BY <1>1, <2>1 DEF Batch
    <2>5. AllSaid(t) /\ (~reordered => LinkHeld(m, Rest(t, 0), Q))
      BY <1>1, <2>1, <2>2, <2>3 DEF NetworkIInv, NetworkTold
    <2> QED
      BY <1>1, <1>3, <2>2, <2>3, <2>4, <2>5, ToldStill
  <1>5. NetworkTyped'
    BY <1>1 DEF NetworkIInv, NetworkTyped
  <1>6. NetworkPhases'
    BY <1>1, <1>2 DEF NetworkPhases
  <1> QED
    BY <1>4, <1>5, <1>6 DEF NetworkIInv

\* A wake-up reads all there is.
LEMMA WakeStep ==
    ASSUME NetworkIInv, NetworkWake
    PROVE  NetworkIInv'
  <1>1. /\ phase = "on" /\ phase' = phase /\ wire' = <<>> /\ held' = <<>> /\ world' = world /\ seed' = seed
        /\ reordered' = (reordered \/ Contradicted(Batch))
    BY DEF NetworkWake, ReadAll
  <1>2. /\ wire \in Seq(LinkMsgs) /\ held \in Seq(LinkMsgs) /\ asked \in Seq(Queries) /\ model \in SoundLinks
        /\ world \in Networks
    BY DEF NetworkIInv, NetworkTyped
  <1>3. PICK s : s = Batch
    OBVIOUS
  <1>4. s \in Seq(LinkMsgs)
    BY <1>2, <1>3, BatchLemma
  <1>5. PICK u : u = Signals(s) \o Replies(s)
    OBVIOUS
  <1>6. u \in Seq(LinkMsgs)
    BY <1>4, <1>5, SortedType
  <1>7. PICK m : m = model
    OBVIOUS
  <1>8. PICK base : base = [model |-> m, asks |-> <<>>]
    OBVIOUS
  <1>9. PICK after : after = FoldLeft(OnMessage, base, u)
    OBVIOUS
  <1>10. after.model \in SoundLinks /\ after.asks \in Seq(Queries)
    <2>1. <<>> \in Seq(Queries)
      OBVIOUS
    <2>2. base \in LinkAccs
      BY <1>2, <1>7, <1>8, <2>1 DEF LinkAccs
    <2>3. after \in LinkAccs
      <3>1. PICK run \in [0 .. Len(u) -> LinkAccs] : run[Len(u)] = FoldLeft(OnMessage, base, u)
        BY <1>6, <2>2, LinksRun
      <3>2. Len(u) \in 0 .. Len(u)
        BY <1>6
      <3> QED
        BY <1>9, <3>1, <3>2
    <2> QED
      BY <2>3 DEF LinkAccs
  <1>11. /\ model' = after.model /\ asked' = asked \o after.asks
         /\ shown' = IF NetworkSnapshot(model') # NetworkSnapshot(model) THEN NetworkSnapshot(model') ELSE shown
    BY <1>3, <1>5, <1>7, <1>8, <1>9 DEF NetworkWake
  <1>12. /\ asked' \in Seq(Queries) /\ Sought' = ToSet(asked) \cup ToSet(after.asks)
    <2>1. asked' \in Seq(Queries) /\ ToSet(asked') = ToSet(asked) \cup ToSet(after.asks)
      BY <1>2, <1>10, <1>11, ConcatProperties, ToSetConcat
    <2> QED
      BY <1>1, <2>1 DEF Sought
  <1>13. Batch' = <<>>
    BY <1>1 DEF Batch
  <1>14. ASSUME ~reordered'
         PROVE  LinkHeld(after.model, {}, ToSet(asked) \cup ToSet(after.asks))
    <2>1. ~reordered /\ ~Contradicted(s)
      BY <1>1, <1>3, <1>14
    <2>2. Sought = ToSet(asked)
      BY <1>1 DEF Sought
    <2>3. AllSaid(s) /\ LinkHeld(m, Rest(s, 0), ToSet(asked))
      BY <1>1, <1>3, <1>7, <2>1, <2>2 DEF NetworkIInv, NetworkTold
    <2>4. AllSaid(u) /\ Rest(u, 0) = Rest(s, 0)
      BY <1>4, <1>5, <2>1, <2>3, SortedSaid
    <2>5. LinkHeld(m, Rest(u, 0), ToSet(asked))
      BY <2>3, <2>4
    <2>6. m \in SoundLinks
      BY <1>2, <1>7
    <2>7. LET end == FoldLeft(OnMessage, [model |-> m, asks |-> <<>>], u)
          IN  LinkHeld(end.model, {}, ToSet(asked) \cup ToSet(end.asks))
      BY <1>6, <2>4, <2>5, <2>6, WakeLinks
    <2> QED
      BY <1>8, <1>9, <2>7
  <1>15. NetworkTold'
    <2>1. PICK n : n = after.model
      OBVIOUS
    <2>2. PICK Q : Q = ToSet(asked) \cup ToSet(after.asks)
      OBVIOUS
    <2>3. ~reordered' => LinkHeld(n, Rest(<<>>, 0), Q)
      BY <1>14, <2>1, <2>2, NothingSaid
    <2> QED
      BY <1>1, <1>11, <1>12, <1>13, <2>1, <2>2, <2>3, NothingSaid, ToldStill
  <1>16. <<>> \in Seq(LinkMsgs)
    OBVIOUS
  <1>17. NetworkTyped'
    BY <1>1, <1>2, <1>10, <1>11, <1>12, <1>16 DEF NetworkTyped
  <1>18. NetworkPhases'
    <2>1. shown = NetworkSnapshot(model) \/ (shown = Nothing /\ seed)
      BY <1>1 DEF NetworkIInv, NetworkPhases
    <2>2. NetworkSnapshot(model)' = NetworkSnapshot(model')
      BY DEF NetworkSnapshot
    <2>3. shown' = NetworkSnapshot(model') \/ (shown' = Nothing /\ seed')
      BY <1>1, <1>11, <2>1
    <2> QED
      BY <1>1, <2>2, <2>3 DEF NetworkPhases
  <1> QED
    BY <1>15, <1>17, <1>18 DEF NetworkIInv

\* Off the bus.
LEMMA NoLinks ==
    ASSUME NetworkIInv, Hangup, phase' \in {"polling", "off"}, world' = world, model' = Chain0
    PROVE  NetworkIInv'
  <1>1. asked' = <<>> /\ wire' = <<>> /\ held' = <<>>
    BY DEF Hangup
  <1>2. <<>> \in Seq(LinkMsgs) /\ <<>> \in Seq(Queries)
    OBVIOUS
  <1>3. NetworkTyped'
    BY <1>1, <1>2, Chain0Type DEF NetworkIInv, NetworkTyped
  <1> QED
    BY <1>3 DEF NetworkIInv, NetworkPhases, NetworkTold

\* Each step of the service and of NetworkManager keeps the invariant.
LEMMA NetworkStep == NetworkIInv /\ [NetworkNext]_bus => NetworkIInv'
  <1> SUFFICES ASSUME NetworkIInv, [NetworkNext]_bus
               PROVE  NetworkIInv'
    OBVIOUS
  <1>0. world \in Networks
    BY DEF NetworkIInv, NetworkTyped
  <1>1. CASE ConnectionChanges
    <2>1. PICK to \in Networks :
             /\ to.up /\ to.primary # world.primary /\ to.strength = world.strength /\ world' = to
             /\ Emit(NetworkMatched, <<Signal("root", Nothing, [state |-> to.state, primary |-> to.primary])>>)
      BY <1>1 DEF ConnectionChanges
    <2>2. PICK x : x = Signal("root", Nothing, [state |-> to.state, primary |-> to.primary])
      OBVIOUS
    <2>3. x \in RootSignals /\ x.props.primary = to.primary
      BY <2>1, <2>2 DEF Signal, RootSignals, RootProps, Networks
    <2>4. world.up /\ x \in LinkSignals
      BY <1>1, <2>3 DEF ConnectionChanges, LinkSignals
    <2>5. \A R : SaidOn(R, x) /\ HeldOn(R, x) /\ SaidTrue(x, {})'
      BY <2>1, <2>3, <2>4, ConnectionSaid
    <2>6. UNCHANGED <<asked, held, phase, model, pending, seed, shown, reordered>>
      BY <1>1 DEF ConnectionChanges
    <2> QED
      BY <2>1, <2>2, <2>4, <2>5, <2>6, SignalStep
  <1>2. CASE Roams
    <2>1. PICK a \in (Aps \cup {Nothing}) \ {world.specific} :
             /\ world' = [world EXCEPT !.specific = a]
             /\ Emit(NetworkMatched, <<Signal("conn", world.primary, [wifi |-> TRUE, specific |-> a])>>)
      BY <1>2 DEF Roams
    <2>2. PICK x : x = Signal("conn", world.primary, [wifi |-> TRUE, specific |-> a])
      OBVIOUS
    <2>3. world.up /\ world.primary \in Wifi /\ world.primary \in Conns
      BY <1>2, ChainAssumption DEF Roams
    <2>4. x \in ConnSignals /\ x.path = world.primary /\ x.props.specific = a
      <3>1. PICK p \in ConnProps : p = [wifi |-> TRUE, specific |-> a]
        BY DEF ConnProps
      <3>2. x = [kind |-> "signal", scope |-> "conn", path |-> world.primary, props |-> p]
        BY <2>2, <3>1 DEF Signal
      <3>3. x.props.wifi = (x.path \in Wifi)
        BY <2>3, <3>1, <3>2
      <3> QED
        BY <2>3, <3>1, <3>2, <3>3 DEF ConnSignals
    <2>5. x \in LinkSignals
      BY <2>4 DEF LinkSignals
    <2>6. \A R : SaidOn(R, x) /\ HeldOn(R, x) /\ SaidTrue(x, {})'
      BY <1>0, <2>1, <2>3, <2>4, RoamSaid
    <2>7. UNCHANGED <<asked, held, phase, model, pending, seed, shown, reordered>>
      BY <1>2 DEF Roams
    <2>8. world' \in Networks
      BY <1>0, <2>1, <2>3 DEF Networks
    <2> QED
      BY <2>1, <2>2, <2>5, <2>6, <2>7, <2>8, SignalStep
  <1>3. CASE StrengthChanges
    <2>1. PICK a \in Aps, n \in Strengths :
             /\ world' = [world EXCEPT !.strength[a] = n]
             /\ Emit(NetworkMatched, <<Signal("ap", a, [strength |-> n])>>)
      BY <1>3 DEF StrengthChanges
    <2>2. PICK x : x = Signal("ap", a, [strength |-> n])
      OBVIOUS
    <2>3. x \in ApSignals /\ x.path = a /\ x.props.strength = n
      BY <2>2 DEF Signal, ApSignals
    <2>4. x \in LinkSignals
      BY <2>3 DEF LinkSignals
    <2>5. \A R : SaidOn(R, x) /\ HeldOn(R, x) /\ SaidTrue(x, {})'
      BY <1>0, <2>1, <2>3, StrengthSaid
    <2>6. UNCHANGED <<asked, held, phase, model, pending, seed, shown, reordered>>
      BY <1>3 DEF StrengthChanges
    <2>7. world' \in Networks
      BY <1>0, <2>1 DEF Networks
    <2> QED
      BY <2>1, <2>2, <2>4, <2>5, <2>6, <2>7, SignalStep
  <1>4. CASE OwnerChanges
    <2>1. PICK to \in Networks :
             /\ to.strength = world.strength /\ world' = to
             /\ Emit(NetworkMatched, <<[kind |-> "signal", scope |-> "owner", new |-> to.up]>>)
      BY <1>4 DEF OwnerChanges
    <2>2. PICK x : x = [kind |-> "signal", scope |-> "owner", new |-> to.up]
      OBVIOUS
    <2>3. x \in OwnerSignals /\ x.new = to.up
      BY <2>1, <2>2 DEF OwnerSignals, Networks
    <2>4. x \in LinkSignals
      BY <2>3 DEF LinkSignals
    <2>5. \A R : SaidOn(R, x) /\ HeldOn(R, x) /\ SaidTrue(x, {})'
      BY <2>1, <2>3, OwnerSaid
    <2>6. UNCHANGED <<asked, held, phase, model, pending, seed, shown, reordered>>
      BY <1>4 DEF OwnerChanges
    <2> QED
      BY <2>1, <2>2, <2>4, <2>5, <2>6, SignalStep
  <1>5. CASE LinkFallback
    BY <1>5, NoLinks DEF LinkFallback
  <1>6. CASE LinkBusLost
    BY <1>6, NoLinks DEF LinkBusLost
  <1>s. ASSUME world' = world, asked' = asked, wire' = wire, held' = held, phase' = phase, model' = model,
               pending' = pending, reordered' = reordered,
               phase \in {"new", "walking", "waiting"} => shown' = Nothing /\ ~seed',
               phase = "on" => shown' = NetworkSnapshot(model) \/ (shown' = Nothing /\ seed')
        PROVE  NetworkIInv'
    <2>1. NetworkTyped'
      BY <1>s DEF NetworkIInv, NetworkTyped
    <2>2. NetworkSnapshot(model)' = NetworkSnapshot(model)
      BY <1>s DEF NetworkSnapshot
    <2>3. NetworkPhases'
      BY <1>s, <2>2 DEF NetworkIInv, NetworkPhases
    <2>4. PICK t : t = Batch
      OBVIOUS
    <2>5. PICK m : m = model
      OBVIOUS
    <2>6. PICK Q : Q = Sought
      OBVIOUS
    <2>7. Batch' = t /\ Sought' = Q
      BY <1>s, <2>4, <2>6 DEF Batch, Sought
    <2>8. CASE phase \in {"walking", "waiting", "on"}
      <3>1. AllSaid(t) /\ (~reordered => LinkHeld(m, Rest(t, 0), Q))
        BY <2>4, <2>5, <2>6, <2>8 DEF NetworkIInv, NetworkTold
      <3>2. NetworkTold'
        BY <1>s, <2>5, <2>7, <3>1, ToldStill
      <3> QED
        BY <2>1, <2>3, <3>2 DEF NetworkIInv
    <2>9. CASE phase \notin {"walking", "waiting", "on"}
      BY <1>s, <2>1, <2>3, <2>9 DEF NetworkIInv, NetworkTold
    <2> QED
      BY <2>8, <2>9
  <1>7. CASE NetworkSeed
    <2>1. /\ seed /\ seed' = FALSE /\ shown' = NetworkSnapshot(model)
          /\ world' = world /\ asked' = asked /\ wire' = wire /\ held' = held /\ phase' = phase /\ model' = model
          /\ pending' = pending /\ reordered' = reordered
      BY <1>7 DEF NetworkSeed
    <2>2. phase \notin {"new", "walking", "waiting"}
      BY <2>1 DEF NetworkIInv, NetworkPhases
    <2> QED
      BY <1>s, <2>1, <2>2
  <1>8. CASE LinkPoll
    <2>1. /\ phase = "polling"
          /\ world' = world /\ asked' = asked /\ wire' = wire /\ held' = held /\ phase' = phase /\ model' = model
          /\ pending' = pending /\ reordered' = reordered
      BY <1>8 DEF LinkPoll
    <2> QED
      BY <1>s, <2>1
  <1>9. CASE UNCHANGED bus
    <2>1. /\ world' = world /\ asked' = asked /\ wire' = wire /\ held' = held /\ phase' = phase /\ model' = model
          /\ pending' = pending /\ reordered' = reordered /\ seed' = seed /\ shown' = shown
      BY <1>9 DEF bus
    <2>2. /\ phase \in {"new", "walking", "waiting"} => shown' = Nothing /\ ~seed'
          /\ phase = "on" => shown' = NetworkSnapshot(model) \/ (shown' = Nothing /\ seed')
      BY <2>1 DEF NetworkIInv, NetworkPhases
    <2> QED
      BY <1>s, <2>1, <2>2
  <1> QED
    BY <1>1, <1>2, <1>3, <1>4, <1>5, <1>6, <1>7, <1>8, <1>9, AnswerStep, MatchStep, AskStep, ReplyStep,
       StartedStep, WakeStep DEF NetworkNext

\* With nothing under way every link that is followed is true.
LEMMA NetworkHold == NetworkIInv => NetworkInv
  <1> SUFFICES ASSUME NetworkIInv
               PROVE  NetworkInv
    OBVIOUS
  <1>1. PICK m \in SoundLinks : m = model
    BY DEF NetworkIInv, NetworkTyped
  <1>2. /\ m.state = (m.primary # Nothing) /\ (m.ssid = Nothing \/ m.ssid = m.specific)
        /\ m.specific = Nothing => m.strength = 0
    BY DEF SoundLinks
  <1>3. NoForeignDetails
    <2> SUFFICES ASSUME phase = "on", shown # Nothing, shown.ssid # Nothing
                 PROVE  /\ shown.ssid = model.specific
                        /\ \/ reordered
                           \/ world.up /\ shown.ssid = world.specific
                           \/ \E sig \in ToSet(Batch) : Leaves(sig)
      BY DEF NoForeignDetails
    <2>1. shown = NetworkSnapshot(m)
      BY <1>1 DEF NetworkIInv, NetworkPhases
    <2>2. shown.ssid = IF m.state /\ m.wifi THEN m.ssid ELSE Nothing
      BY <2>1 DEF NetworkSnapshot
    <2>3. shown.ssid = m.specific /\ m.specific # Nothing /\ m.primary # Nothing
      BY <1>2, <2>2
    <2>4. ASSUME ~reordered
          PROVE  \/ world.up /\ shown.ssid = world.specific
                 \/ \E sig \in ToSet(Batch) : Leaves(sig)
      <3>1. PICK R : R = Rest(Batch, 0)
        OBVIOUS
      <3>2. PICK Q : Q = Sought
        OBVIOUS
      <3>3. LinkHeld(m, R, Q)
        BY <1>1, <2>4, <3>1, <3>2 DEF NetworkIInv, NetworkTold
      <3>4. wire \in Seq(LinkMsgs) /\ held \in Seq(LinkMsgs)
        BY DEF NetworkIInv, NetworkTyped
      <3>5. Batch \in Seq(LinkMsgs)
        BY <3>4, BatchLemma
      <3>6. R \subseteq ToSet(Batch)
        BY <3>1, <3>5 DEF Rest, ToSet
      <3>7. CASE Moves(R, m.primary) \/ RoamsIn(R, m.primary, m.specific)
        BY <1>1, <3>6, <3>7 DEF Moves, MovesBy, RoamsIn, RoamsBy, Leaves
      <3>8. CASE ~Moves(R, m.primary) /\ ~RoamsIn(R, m.primary, m.specific)
        <4>1. m.primary = Primary
          BY <2>3, <3>3, <3>8 DEF LinkHeld, RootHeld, RootSaid
        <4>2. OnPrimary(m) /\ world.up
          BY <2>3, <4>1 DEF OnPrimary, Primary
        <4>3. m.specific = world.specific
          BY <2>3, <3>3, <3>8, <4>2 DEF LinkHeld, ConnHeld
        <4> QED
          BY <2>3, <4>2, <4>3
      <3> QED
        BY <3>7, <3>8
    <2> QED
      BY <1>1, <2>3, <2>4
  <1>4. NetworkSettles
    <2>1. SUFFICES ASSUME phase = "on", Quiet, ~reordered
                   PROVE  shown = NetworkSnapshot(Truth)
      BY DEF NetworkSettles
    <2>2. wire = <<>> /\ asked = <<>> /\ held = <<>> /\ ~seed
      BY <2>1 DEF Quiet
    <2>3. Batch = <<>> /\ Sought = {}
      BY <2>1, <2>2, ToSetOne DEF Batch, Sought
    <2>4. LinkHeld(m, {}, {})
      <3>1. LinkHeld(m, Rest(<<>>, 0), {})
        BY <1>1, <2>1, <2>3 DEF NetworkIInv, NetworkTold
      <3> QED
        BY <3>1, NothingSaid
    <2>5. shown = NetworkSnapshot(m)
      BY <1>1, <2>1, <2>2 DEF NetworkIInv, NetworkPhases
    <2>6. /\ \A p : ~Moves({}, p)
          /\ \A p, a : ~RoamsIn({}, p, a)
          /\ \A a : ~Fades({}, a)
          /\ \A q : ~Open({}, {}, q)
      BY DEF Moves, RoamsIn, Fades, Open
    <2>7. m.primary = Primary
      BY <2>4, <2>6 DEF LinkHeld, RootHeld, RootSaid
    <2>8. world \in Networks
      BY DEF NetworkIInv, NetworkTyped
    <2>w. /\ world.state = (world.primary # Nothing) /\ world.up \in BOOLEAN
          /\ world.specific # Nothing => world.primary \in Wifi
      BY <2>8 DEF Networks
    <2>9. PICK n : n = Truth
      OBVIOUS
    <2>10. /\ n.state = (world.up /\ world.state) /\ n.wifi = (world.primary \in Wifi)
           /\ n.ssid = world.specific
           /\ n.strength = IF world.specific = Nothing THEN 0 ELSE world.strength[world.specific]
      BY <2>9 DEF Truth
    <2>11. m.state = n.state
      BY <1>2, <2>7, <2>10, <2>w DEF Primary
    <2>12. CASE Primary = Nothing
      <3>1. m.state = FALSE /\ n.state = FALSE
        BY <1>2, <2>7, <2>11, <2>12
      <3>2. NetworkSnapshot(m) = NetworkSnapshot(n)
        BY <3>1 DEF NetworkSnapshot
      <3> QED
        BY <2>5, <2>9, <3>2
    <2>13. CASE Primary # Nothing
      <3>1. world.up /\ Primary = world.primary /\ OnPrimary(m)
        BY <2>7, <2>13 DEF Primary, OnPrimary
      <3>2. m.wifi = n.wifi
        BY <2>4, <2>6, <2>7, <2>10, <3>1 DEF LinkHeld, WifiHeld
      <3>3. m.specific = world.specific
        BY <2>4, <2>6, <3>1 DEF LinkHeld, ConnHeld
      <3>4. m.specific # Nothing => m.ssid = m.specific /\ m.strength = world.strength[m.specific]
        BY <2>4, <2>6, <3>1, <3>3 DEF LinkHeld, SsidHeld, StrengthHeld, OnAp
      <3>5. m.ssid = n.ssid /\ m.strength = n.strength
        BY <1>2, <2>10, <3>3, <3>4
      <3>6. NetworkSnapshot(m) = NetworkSnapshot(n)
        BY <2>11, <3>2, <3>5 DEF NetworkSnapshot
      <3> QED
        BY <2>5, <2>9, <3>6
    <2> QED
      BY <2>12, <2>13
  <1> QED
    BY <1>3, <1>4 DEF NetworkInv

\* An SSID that is shown is that of the access point there is, or the signal that
\* says otherwise is unread; and with nothing under way the network is shown as
\* NetworkManager has it - unless a wake-up took a reply after a later signal that
\* contradicts it.
THEOREM NetworkTheorem == NetworkSpec => []NetworkInv
  <1>1. NetworkInit => NetworkIInv
    BY NetworkStart
  <1>2. NetworkIInv /\ [NetworkNext]_bus => NetworkIInv'
    BY NetworkStep
  <1>3. NetworkIInv => NetworkInv
    BY NetworkHold
  <1> QED
    BY <1>1, <1>2, <1>3, PTL DEF NetworkSpec

-----------------------------------------------------------------------------
(* The players.                                                            *)

\* Who has been on the bus; all that is known is known of those.
Known == {p \in Players : world[p].on # "off"}

Entries(K)  == [who : K, named : BOOLEAN, status : Statuses \cup {Nothing}, track : Tracks \cup {Nothing}, pos : {0, 1}]
Requests(K) == [what : {"all", "position"}, who : K]
PlayerProps == [status : Statuses] \cup [track : Tracks]
OwnerMsgs(K) == [kind : {"signal"}, what : {"owner"}, who : K, new : BOOLEAN]
PropsMsgs(K) == [kind : {"signal"}, what : {"props"}, who : K, props : PlayerProps]
SeekMsgs(K)  == [kind : {"signal"}, what : {"seeked"}, who : K, pos : {0, 1}]
PlayerReplies(K) == [kind : {"reply"}, who : K, ok : BOOLEAN, status : Statuses, track : Tracks, pos : {0, 1}]
PlayerSignals(K) == OwnerMsgs(K) \cup PropsMsgs(K) \cup SeekMsgs(K)
PlayerMsgs(K)    == PlayerSignals(K) \cup PlayerReplies(K)

MprisTyped ==
    /\ world \in [Players -> PlayerStates] /\ model \in Seq(Entries(Known))
    /\ wire \in Seq(PlayerMsgs(Known)) /\ held \in Seq(PlayerMsgs(Known)) /\ asked \in Seq(Requests(Known))
    /\ phase \in {"new", "matched", "naming", "on", "off"}
    /\ phase = "naming" => pending \in Seq(Players)
    /\ phase = "on" => pending \in Seq(Requests(Known))

OneEntry(m) == \A i, j \in 1 .. Len(m) : m[i].who = m[j].who => i = j

\* What is still to be heard of a player.
OwnerIn(R, p, new) == \E msg \in R : msg.kind = "signal" /\ msg.what = "owner" /\ msg.who = p /\ msg.new = new
StatusIn(R, p) == \E msg \in R : msg.kind = "signal" /\ msg.what = "props" /\ msg.who = p /\ "status" \in DOMAIN msg.props
TrackIn(R, p)  == \E msg \in R : msg.kind = "signal" /\ msg.what = "props" /\ msg.who = p /\ "track" \in DOMAIN msg.props
SeekIn(R, p)   == \E msg \in R : msg.kind = "signal" /\ msg.what = "seeked" /\ msg.who = p

\* What is said of a player that is v is so, or said to be otherwise later on.
StatusSo(p, v, status, R) == status = v.status \/ StatusIn(R, p)
TrackSo(p, v, track, R)   == track = v.track \/ TrackIn(R, p)
PosSo(p, v, pos, R)       == pos = v.pos \/ TrackIn(R, p) \/ SeekIn(R, p)

OwnerSo(msg, v, R) ==
    msg.what = "owner" => IF msg.new THEN v.on = "named" \/ OwnerIn(R, msg.who, FALSE) ELSE v.on = "gone"
PropsSo(msg, v, R) ==
    msg.what = "props" => /\ "status" \in DOMAIN msg.props => StatusSo(msg.who, v, msg.props.status, R)
                          /\ "track" \in DOMAIN msg.props => TrackSo(msg.who, v, msg.props.track, R)
SeekSo(msg, v, R) == msg.what = "seeked" => PosSo(msg.who, v, msg.pos, R)
ReplySo(msg, v, R) ==
    /\ ~msg.ok => v.on = "gone"
    /\ StatusSo(msg.who, v, msg.status, R) /\ TrackSo(msg.who, v, msg.track, R) /\ PosSo(msg.who, v, msg.pos, R)
MsgSo(msg, v, R) ==
    /\ msg.kind = "signal" => OwnerSo(msg, v, R) /\ PropsSo(msg, v, R) /\ SeekSo(msg, v, R)
    /\ msg.kind = "reply" => ReplySo(msg, v, R)
AllSo(s, w) == \A j \in 1 .. Len(s) : MsgSo(s[j], w[s[j].who], Rest(s, j))

\* What the model holds of a player that is v, with R to come and P under way.
Entry(m, p, e) == e.who = p /\ \E i \in 1 .. Len(m) : m[i] = e
NamesHeld(p, v, m, R) ==
    \A e : Entry(m, p, e) => /\ e.named => v.on = "named" \/ OwnerIn(R, p, FALSE)
                             /\ ~e.named => v.on # "named" \/ OwnerIn(R, p, TRUE)
ListHeld(p, v, m, R) == v.on = "named" => (\E e : Entry(m, p, e)) \/ OwnerIn(R, p, TRUE)
StateHeld(p, v, m, R, P) ==
    v.on \in {"here", "named"} => \A e : Entry(m, p, e) =>
        /\ StatusSo(p, v, e.status, R) \/ Request("all", p) \in P
        /\ TrackSo(p, v, e.track, R) \/ Request("all", p) \in P
        /\ PosSo(p, v, e.pos, R) \/ Request("all", p) \in P \/ Request("position", p) \in P

Held(p, v, m, R, P) == NamesHeld(p, v, m, R) /\ ListHeld(p, v, m, R) /\ StateHeld(p, v, m, R, P)

PlayersHeld ==
    /\ phase \in {"matched", "naming", "on"} => AllSo(Batch, world)
    /\ phase = "naming" => \A p \in Players :
          /\ NamesHeld(p, world[p], model, Rest(Batch, 0))
          /\ ListHeld(p, world[p], model, Rest(Batch, 0)) \/ p \in ToSet(pending)
    /\ phase = "on" /\ ~reordered => \A p \in Players :
          Held(p, world[p], model, Rest(Batch, 0), ToSet(pending))

MprisPhases ==
    /\ phase \in {"new", "matched"} => model = <<>>
    /\ phase = "new" => wire = <<>> /\ held = <<>> /\ asked = <<>>
    /\ phase \in {"new", "matched", "naming"} => shown = Nothing /\ ~seed
    /\ phase = "on" => shown = MprisSnapshot(model) \/ (shown = Nothing /\ seed)

MprisIInv == MprisTyped /\ OneEntry(model) /\ PlayersHeld /\ MprisPhases

PlayerAccs(K) == {acc \in [m : Seq(Entries(K)), asks : Seq(Requests(K))] : OneEntry(acc.m)}

\* A player is taken out, put last, and looked up.
LEMMA WithoutLemma ==
    ASSUME NEW E, NEW m \in Seq(E), NEW p
    PROVE  /\ Without(m, p) \in Seq(E)
           /\ \A q, e : Entry(Without(m, p), q, e) <=> q # p /\ Entry(m, q, e)
           /\ OneEntry(m) => OneEntry(Without(m, p))
  <1>1. PICK kept : kept = {q \in ToSet(m) : q.who # p}
    OBVIOUS
  <1>2. PICK t : t = Without(m, p)
    OBVIOUS
  <1>3. t \in Seq(E) /\ Len(t) \in Nat /\ \E pos : Places(pos, m, kept, t)
    <2>1. t = Retain(m, kept)
      BY <1>1, <1>2 DEF Without
    <2>2. t \in Seq(E) /\ \E pos : Places(pos, m, kept, t)
      BY <2>1, RetainOrder
    <2> QED
      BY <2>2
  <1>4. PICK pos : Places(pos, m, kept, t)
    BY <1>3
  <1>5. \A i \in 1 .. Len(m) : m[i] \in kept <=> m[i].who # p
    <2>1. DOMAIN m = 1 .. Len(m)
      OBVIOUS
    <2> QED
      BY <1>1, <2>1 DEF ToSet
  <1>6. /\ \A n \in 1 .. Len(t) : pos[n] \in 1 .. Len(m) /\ t[n] = m[pos[n]] /\ t[n].who # p
        /\ \A i \in 1 .. Len(m) : m[i].who # p => \E n \in 1 .. Len(t) : t[n] = m[i]
        /\ \A k, n \in 1 .. Len(t) : k < n => pos[k] < pos[n]
    BY <1>4, <1>5 DEF Places
  <1>7. ASSUME NEW q, NEW e, Entry(t, q, e)
        PROVE  q # p /\ Entry(m, q, e)
    <2>1. PICK n \in 1 .. Len(t) : t[n] = e
      BY <1>7 DEF Entry
    <2>2. e.who = q /\ e.who # p /\ pos[n] \in 1 .. Len(m) /\ m[pos[n]] = e
      BY <1>6, <1>7, <2>1 DEF Entry
    <2> QED
      BY <2>2 DEF Entry
  <1>8. ASSUME NEW q, NEW e, q # p, Entry(m, q, e)
        PROVE  Entry(t, q, e)
    <2>1. PICK i \in 1 .. Len(m) : m[i] = e /\ e.who = q
      BY <1>8 DEF Entry
    <2>2. PICK n \in 1 .. Len(t) : t[n] = m[i]
      BY <1>6, <1>8, <2>1
    <2> QED
      BY <2>1, <2>2 DEF Entry
  <1>9. OneEntry(m) => OneEntry(t)
    <2>1. ASSUME OneEntry(m), NEW i \in 1 .. Len(t), NEW j \in 1 .. Len(t), t[i].who = t[j].who
          PROVE  i = j
      <3>1. pos[i] = pos[j] /\ pos[i] \in 1 .. Len(m)
        BY <1>6, <2>1 DEF OneEntry
      <3>2. ~(i < j) /\ ~(j < i)
        BY <1>6, <3>1
      <3> QED
        BY <1>3, <3>2
    <2> QED
      BY <2>1 DEF OneEntry
  <1> QED
    BY <1>2, <1>3, <1>7, <1>8, <1>9

Puts(m, n, p, new) == \A q, e : Entry(n, q, e) <=> (q = p /\ e = new) \/ (q # p /\ Entry(m, q, e))

\* A player's entry is replaced and goes last; the others stay.
LEMMA PutLemma ==
    ASSUME NEW E, NEW m \in Seq(E), NEW p, NEW new \in E, new.who = p, NEW n, n = Append(Without(m, p), new)
    PROVE  n \in Seq(E) /\ Puts(m, n, p, new) /\ (OneEntry(m) => OneEntry(n))
  <1>1. PICK t : t = Without(m, p)
    OBVIOUS
  <1>2. /\ t \in Seq(E)
        /\ \A q, e : Entry(t, q, e) <=> q # p /\ Entry(m, q, e)
        /\ OneEntry(m) => OneEntry(t)
    BY <1>1, WithoutLemma
  <1>3. /\ n \in Seq(E) /\ Len(n) = Len(t) + 1 /\ Len(t) \in Nat
        /\ \A i \in 1 .. Len(t) : i \in 1 .. Len(t) + 1 /\ n[i] = t[i]
        /\ n[Len(t) + 1] = new
        /\ \A i \in 1 .. Len(t) + 1 : i \in 1 .. Len(t) \/ i = Len(t) + 1
    BY <1>1, <1>2, AppendFacts
  <1>4. Len(t) + 1 \in 1 .. Len(n)
    BY <1>3
  <1>5. ASSUME NEW q, NEW e, Entry(n, q, e)
        PROVE  (q = p /\ e = new) \/ (q # p /\ Entry(m, q, e))
    <2>1. PICK i \in 1 .. Len(n) : n[i] = e /\ e.who = q
      BY <1>5 DEF Entry
    <2>2. CASE i = Len(t) + 1
      BY <1>3, <2>1, <2>2
    <2>3. CASE i \in 1 .. Len(t)
      <3>1. Entry(t, q, e)
        BY <1>3, <2>1, <2>3 DEF Entry
      <3> QED
        BY <1>2, <3>1
    <2> QED
      BY <1>3, <2>1, <2>2, <2>3
  <1>6. Entry(n, p, new)
    BY <1>3, <1>4 DEF Entry
  <1>7. ASSUME NEW q, NEW e, q # p, Entry(m, q, e)
        PROVE  Entry(n, q, e)
    <2>1. Entry(t, q, e)
      BY <1>2, <1>7
    <2> QED
      BY <1>3, <2>1 DEF Entry
  <1>8. \A i \in 1 .. Len(t) : t[i].who # p
    <2>1. \A i \in 1 .. Len(t) : Entry(t, t[i].who, t[i])
      BY DEF Entry
    <2> QED
      BY <1>2, <2>1
  <1>9. ASSUME OneEntry(m), NEW i \in 1 .. Len(n), NEW j \in 1 .. Len(n), n[i].who = n[j].who
        PROVE  i = j
    <2>1. CASE i \in 1 .. Len(t) /\ j \in 1 .. Len(t)
      BY <1>2, <1>3, <1>9, <2>1 DEF OneEntry
    <2>2. CASE i = Len(t) + 1 /\ j \in 1 .. Len(t)
      BY <1>3, <1>8, <1>9, <2>2
    <2>3. CASE j = Len(t) + 1 /\ i \in 1 .. Len(t)
      BY <1>3, <1>8, <1>9, <2>3
    <2> QED
      BY <1>3, <2>1, <2>2, <2>3
  <1>10. OneEntry(m) => OneEntry(n)
    BY <1>9 DEF OneEntry
  <1> QED
    BY <1>3, <1>5, <1>6, <1>7, <1>10 DEF Puts

\* A player that is tracked has an entry, which is the one looked up.
LEMMA OfLemma ==
    ASSUME NEW E, NEW m \in Seq(E), NEW p
    PROVE  /\ p \in Tracked(m) <=> \E e : Entry(m, p, e)
           /\ p \in Tracked(m) => Entry(m, p, Of(m, p)) /\ Of(m, p) \in E
           /\ OneEntry(m) => \A e : Entry(m, p, e) => e = Of(m, p)
           /\ \A q, e : Entry(m, q, e) => e \in E
  <1>1. DOMAIN m = 1 .. Len(m) /\ \A i \in 1 .. Len(m) : m[i] \in E
    OBVIOUS
  <1>2. \A q, e : Entry(m, q, e) <=> e \in ToSet(m) /\ e.who = q
    BY <1>1 DEF Entry, ToSet
  <1>3. p \in Tracked(m) <=> \E e : Entry(m, p, e)
    BY <1>1 DEF Entry, Tracked
  <1>4. \A q, e : Entry(m, q, e) => e \in E
    BY <1>1 DEF Entry
  <1>5. p \in Tracked(m) => Entry(m, p, Of(m, p))
    <2>1. ASSUME p \in Tracked(m)
          PROVE  Of(m, p) \in ToSet(m) /\ Of(m, p).who = p
      <3>1. PICK e \in ToSet(m) : e.who = p
        BY <1>2, <1>3, <2>1
      <3> QED
        BY <3>1 DEF Of
    <2> QED
      BY <1>2, <2>1
  <1>6. ASSUME OneEntry(m), NEW e, Entry(m, p, e)
        PROVE  e = Of(m, p)
    <2>1. Entry(m, p, Of(m, p))
      BY <1>3, <1>5, <1>6
    <2>2. PICK i \in 1 .. Len(m) : m[i] = e /\ e.who = p
      BY <1>6 DEF Entry
    <2>3. PICK j \in 1 .. Len(m) : m[j] = Of(m, p) /\ Of(m, p).who = p
      BY <2>1 DEF Entry
    <2> QED
      BY <1>6, <2>2, <2>3 DEF OneEntry
  <1> QED
    BY <1>3, <1>4, <1>5, <1>6

-----------------------------------------------------------------------------
\* What a message makes of the entry of a player.
Updates(K, m, p, n) ==
    /\ n \in Seq(Entries(K)) /\ OneEntry(n)
    /\ \A q, e : q # p => (Entry(n, q, e) <=> Entry(m, q, e))
    /\ (\E e : Entry(m, p, e)) => (\E e : Entry(n, p, e))
PropsFor(props, old, e) ==
    /\ e.named = old.named
    /\ e.status = IF "status" \in DOMAIN props THEN props.status ELSE old.status
    /\ e.track = IF "track" \in DOMAIN props THEN props.track ELSE old.track
    /\ "track" \notin DOMAIN props => e.pos = old.pos
PosFor(pos, old, e) == e.named = old.named /\ e.status = old.status /\ e.track = old.track /\ e.pos = pos

\* Properties change the entry of their player, and no other.
LEMMA ApplyLemma ==
    ASSUME NEW K, NEW m \in Seq(Entries(K)), OneEntry(m), NEW p, NEW props,
           "status" \in DOMAIN props => props.status \in Statuses,
           "track" \in DOMAIN props => props.track \in Tracks
    PROVE  /\ Updates(K, m, p, ApplyPlayer(m, p, props))
           /\ \A e : Entry(ApplyPlayer(m, p, props), p, e) => \E old : Entry(m, p, old) /\ PropsFor(props, old, e)
  <1>1. PICK n : n = ApplyPlayer(m, p, props)
    OBVIOUS
  <1>2. CASE p \notin Tracked(m)
    <2>1. n = m
      BY <1>1, <1>2 DEF ApplyPlayer, Touch
    <2>2. \A e : ~Entry(m, p, e)
      BY <1>2, OfLemma
    <2> QED
      BY <1>1, <2>1, <2>2 DEF Updates
  <1>3. CASE p \in Tracked(m)
    <2>1. Entry(m, p, Of(m, p)) /\ Of(m, p) \in Entries(K)
      BY <1>3, OfLemma
    <2>2. PICK old \in Entries(K) : old = Of(m, p)
      BY <2>1
    <2>3. PICK status : status = IF "status" \in DOMAIN props THEN props.status ELSE old.status
      OBVIOUS
    <2>4. PICK track : track = IF "track" \in DOMAIN props THEN props.track ELSE old.track
      OBVIOUS
    <2>5. PICK pos : pos = IF "track" \in DOMAIN props THEN 0 ELSE old.pos
      OBVIOUS
    <2>6. PICK new : new = [old EXCEPT !.status = status, !.track = track, !.pos = pos]
      OBVIOUS
    <2>7. status \in Statuses \cup {Nothing} /\ track \in Tracks \cup {Nothing} /\ pos \in {0, 1}
      BY <2>3, <2>4, <2>5 DEF Entries
    <2>8. /\ new \in Entries(K) /\ new.who = old.who /\ new.named = old.named /\ new.status = status
          /\ new.track = track /\ new.pos = pos
      BY <2>6, <2>7 DEF Entries
    <2>9. n = Append(Without(m, p), new)
      <3>1. n = Touch(m, p, new)
        BY <1>1, <2>2, <2>3, <2>4, <2>5, <2>6 DEF ApplyPlayer
      <3> QED
        BY <1>3, <3>1 DEF Touch
    <2>10. new.who = p
      BY <2>1, <2>2, <2>8 DEF Entry
    <2>11. n \in Seq(Entries(K)) /\ Puts(m, n, p, new) /\ OneEntry(n)
      BY <2>8, <2>9, <2>10, PutLemma
    <2>12. Updates(K, m, p, n)
      BY <2>11 DEF Updates, Puts
    <2>13. PropsFor(props, old, new)
      BY <2>3, <2>4, <2>5, <2>8 DEF PropsFor
    <2> QED
      BY <1>1, <2>1, <2>2, <2>11, <2>12, <2>13 DEF Puts
  <1> QED
    BY <1>2, <1>3

\* A position changes the entry of its player, and no other.
LEMMA SeekLemma ==
    ASSUME NEW K, NEW m \in Seq(Entries(K)), OneEntry(m), NEW p, NEW pos \in {0, 1}
    PROVE  /\ Updates(K, m, p, SetPosition(m, p, pos))
           /\ \A e : Entry(SetPosition(m, p, pos), p, e) => \E old : Entry(m, p, old) /\ PosFor(pos, old, e)
  <1>1. PICK n : n = SetPosition(m, p, pos)
    OBVIOUS
  <1>2. CASE p \notin Tracked(m)
    <2>1. n = m
      BY <1>1, <1>2 DEF SetPosition, Touch
    <2>2. \A e : ~Entry(m, p, e)
      BY <1>2, OfLemma
    <2> QED
      BY <1>1, <2>1, <2>2 DEF Updates
  <1>3. CASE p \in Tracked(m)
    <2>1. Entry(m, p, Of(m, p)) /\ Of(m, p) \in Entries(K)
      BY <1>3, OfLemma
    <2>2. PICK old \in Entries(K) : old = Of(m, p)
      BY <2>1
    <2>6. PICK new : new = [old EXCEPT !.pos = pos]
      OBVIOUS
    <2>8. /\ new \in Entries(K) /\ new.who = old.who /\ new.named = old.named /\ new.status = old.status
          /\ new.track = old.track /\ new.pos = pos
      BY <2>6 DEF Entries
    <2>9. n = Append(Without(m, p), new)
      <3>1. n = Touch(m, p, new)
        BY <1>1, <2>2, <2>6 DEF SetPosition
      <3> QED
        BY <1>3, <3>1 DEF Touch
    <2>10. new.who = p
      BY <2>1, <2>2, <2>8 DEF Entry
    <2>11. n \in Seq(Entries(K)) /\ Puts(m, n, p, new) /\ OneEntry(n)
      BY <2>8, <2>9, <2>10, PutLemma
    <2>12. Updates(K, m, p, n)
      BY <2>11 DEF Updates, Puts
    <2>13. PosFor(pos, old, new)
      BY <2>8 DEF PosFor
    <2> QED
      BY <1>1, <2>1, <2>2, <2>11, <2>12, <2>13 DEF Puts
  <1> QED
    BY <1>2, <1>3

\* A player that is added, by its name or by a signal of its own.
LEMMA AddLemma ==
    ASSUME NEW K, NEW m \in Seq(Entries(K)), OneEntry(m), NEW p \in K, NEW named \in BOOLEAN
    PROVE  Updates(K, m, p, Add(m, p, named)) /\ Puts(m, Add(m, p, named), p, Added(p, named))
  <1>1. PICK n : n = Add(m, p, named)
    OBVIOUS
  <1>2. PICK new : new = Added(p, named)
    OBVIOUS
  <1>3. new \in Entries(K) /\ new.who = p
    BY <1>2 DEF Added, Entries
  <1>4. n = Append(Without(m, p), new)
    BY <1>1, <1>2 DEF Add
  <1>5. n \in Seq(Entries(K)) /\ Puts(m, n, p, new) /\ OneEntry(n)
    BY <1>3, <1>4, PutLemma
  <1>6. Updates(K, m, p, n)
    BY <1>5 DEF Updates, Puts
  <1> QED
    BY <1>1, <1>2, <1>5, <1>6

-----------------------------------------------------------------------------
\* A signal of a player.
OwnerTo(sig, new) ==
    IF sig.new THEN /\ \A e : Entry(new.m, sig.who, e) <=> e = Added(sig.who, TRUE)
                    /\ Request("all", sig.who) \in ToSet(new.asks)
    ELSE \A e : ~Entry(new.m, sig.who, e)
PropsTo(acc, sig, new) ==
    /\ \E e : Entry(new.m, sig.who, e)
    /\ IF \E e : Entry(acc.m, sig.who, e)
       THEN /\ \A e : Entry(new.m, sig.who, e) => \E old : Entry(acc.m, sig.who, old) /\ PropsFor(sig.props, old, e)
            /\ "track" \in DOMAIN sig.props => Request("position", sig.who) \in ToSet(new.asks)
       ELSE /\ \A e : Entry(new.m, sig.who, e) => e.named = FALSE
            /\ Request("all", sig.who) \in ToSet(new.asks)
SeekTo(acc, sig, new) ==
    /\ (\E e : Entry(acc.m, sig.who, e)) => (\E e : Entry(new.m, sig.who, e))
    /\ \A e : Entry(new.m, sig.who, e) => \E old : Entry(acc.m, sig.who, old) /\ PosFor(sig.pos, old, e)
SignalTo(K, acc, sig, new) ==
    /\ new \in PlayerAccs(K)
    /\ ToSet(acc.asks) \subseteq ToSet(new.asks)
    /\ \A q, e : q # sig.who => (Entry(new.m, q, e) <=> Entry(acc.m, q, e))
    /\ sig.what = "owner" => OwnerTo(sig, new)
    /\ sig.what = "props" => PropsTo(acc, sig, new)
    /\ sig.what = "seeked" => SeekTo(acc, sig, new)

\* One more is asked for.
LEMMA AsksMore ==
    ASSUME NEW S, NEW a \in Seq(S), NEW r \in S
    PROVE  /\ Append(a, r) \in Seq(S) /\ ToSet(Append(a, r)) = ToSet(a) \cup {r}
           /\ a \o <<r>> = Append(a, r) /\ a \o <<>> = a
  <1>1. a \o <<r>> = Append(a, r) /\ Append(a, r) \in Seq(S) /\ <<r>> \in Seq(S)
    BY AppendOne
  <1>2. ToSet(a \o <<r>>) = ToSet(a) \cup ToSet(<<r>>)
    BY <1>1, ToSetConcat
  <1>3. a \o <<>> = a
    BY ConcatEmptySeq
  <1> QED
    BY <1>1, <1>2, <1>3, ToSetOne

\* One more is asked for, or none.
LEMMA AsksPerhaps ==
    ASSUME NEW S, NEW a \in Seq(S), NEW r \in S, NEW b, b \in {<<>>, <<r>>}
    PROVE  a \o b \in Seq(S) /\ ToSet(a) \subseteq ToSet(a \o b) /\ (b = <<r>> => r \in ToSet(a \o b))
  <1>1. CASE b = <<>>
    <2>1. a \o b = a
      BY <1>1, AsksMore
    <2>2. b # <<r>>
      BY <1>1
    <2> QED
      BY <2>1, <2>2
  <1>2. CASE b = <<r>>
    <2>1. a \o b = Append(a, r) /\ Append(a, r) \in Seq(S) /\ ToSet(Append(a, r)) = ToSet(a) \cup {r}
      BY <1>2, AsksMore
    <2> QED
      BY <2>1
  <1> QED
    BY <1>1, <1>2

\* What the model makes of a change of owner.
LEMMA OwnerSignal ==
    ASSUME NEW K, NEW acc \in PlayerAccs(K), NEW sig \in OwnerMsgs(K)
    PROVE  SignalTo(K, acc, sig, OnMprisSignal(acc, sig))
  <1>1. PICK new : new = OnMprisSignal(acc, sig)
    OBVIOUS
  <1>2. PICK m \in Seq(Entries(K)) : m = acc.m /\ OneEntry(m)
    BY DEF PlayerAccs
  <1>3. PICK asks \in Seq(Requests(K)) : asks = acc.asks
    BY DEF PlayerAccs
  <1>4. acc = [m |-> m, asks |-> asks]
    BY <1>2, <1>3 DEF PlayerAccs
  <1>5. PICK p \in K : p = sig.who
    BY DEF OwnerMsgs
  <1>6. sig.what = "owner" /\ sig.new \in BOOLEAN
    BY DEF OwnerMsgs
  <1>7. CASE sig.new
    <2>1. PICK n : n = Add(m, p, TRUE)
      OBVIOUS
    <2>2. PICK more : more = Append(asks, Request("all", p))
      OBVIOUS
    <2>3. new = [m |-> n, asks |-> more]
      BY <1>1, <1>2, <1>3, <1>5, <1>6, <1>7, <2>1, <2>2 DEF OnMprisSignal
    <2>4. Updates(K, m, p, n) /\ Puts(m, n, p, Added(p, TRUE))
      BY <1>2, <2>1, AddLemma
    <2>5. Request("all", p) \in Requests(K)
      BY DEF Request, Requests
    <2>6. more \in Seq(Requests(K)) /\ ToSet(more) = ToSet(asks) \cup {Request("all", p)}
      BY <2>2, <2>5, AsksMore
    <2>7. new \in PlayerAccs(K) /\ new.m = n /\ new.asks = more
      BY <2>3, <2>4, <2>6 DEF PlayerAccs, Updates
    <2>8. \A q, e : q # p => (Entry(n, q, e) <=> Entry(m, q, e))
      BY <2>4 DEF Updates
    <2>9. \A e : Entry(n, p, e) <=> e = Added(p, TRUE)
      BY <2>4 DEF Puts
    <2>10. OwnerTo(sig, new)
      BY <1>5, <1>7, <2>6, <2>7, <2>9 DEF OwnerTo
    <2> QED
      BY <1>1, <1>2, <1>3, <1>5, <1>6, <2>6, <2>7, <2>8, <2>10 DEF SignalTo
  <1>8. CASE ~sig.new
    <2>1. PICK n : n = Without(m, p)
      OBVIOUS
    <2>2. new = [m |-> n, asks |-> asks]
      <3>1. new = [acc EXCEPT !.m = Without(acc.m, p)]
        BY <1>1, <1>5, <1>6, <1>8 DEF OnMprisSignal
      <3>2. n = Without(acc.m, p)
        BY <1>2, <2>1
      <3>3. new = [acc EXCEPT !.m = n]
        BY <3>1, <3>2
      <3> QED
        BY <1>4, <3>3
    <2>3. /\ n \in Seq(Entries(K)) /\ OneEntry(n)
          /\ \A q, e : Entry(n, q, e) <=> q # p /\ Entry(m, q, e)
      BY <1>2, <2>1, WithoutLemma
    <2>4. new \in PlayerAccs(K) /\ new.m = n /\ new.asks = asks
      BY <2>2, <2>3 DEF PlayerAccs
    <2>5. OwnerTo(sig, new)
      BY <1>5, <1>8, <2>3, <2>4 DEF OwnerTo
    <2> QED
      BY <1>1, <1>2, <1>3, <1>5, <1>6, <2>3, <2>4, <2>5 DEF SignalTo
  <1> QED
    BY <1>6, <1>7, <1>8

\* What the model makes of changed properties.
LEMMA PropsSignal ==
    ASSUME NEW K, NEW acc \in PlayerAccs(K), NEW sig \in PropsMsgs(K)
    PROVE  SignalTo(K, acc, sig, OnMprisSignal(acc, sig))
  <1>1. PICK new : new = OnMprisSignal(acc, sig)
    OBVIOUS
  <1>2. PICK m \in Seq(Entries(K)) : m = acc.m /\ OneEntry(m)
    BY DEF PlayerAccs
  <1>3. PICK asks \in Seq(Requests(K)) : asks = acc.asks
    BY DEF PlayerAccs
  <1>5. PICK p \in K : p = sig.who
    BY DEF PropsMsgs
  <1>6. sig.what = "props"
    BY DEF PropsMsgs
  <1>7. PICK props \in PlayerProps : props = sig.props
    BY DEF PropsMsgs
  <1>8. /\ "status" \in DOMAIN props => props.status \in Statuses
        /\ "track" \in DOMAIN props => props.track \in Tracks
    BY DEF PlayerProps
  <1>9. p \in Tracked(m) <=> \E e : Entry(m, p, e)
    BY OfLemma
  <1>10. PICK mid : mid = IF p \in Tracked(m) THEN m ELSE Add(m, p, FALSE)
    OBVIOUS
  <1>11. /\ Updates(K, m, p, mid)
         /\ p \in Tracked(m) => mid = m
         /\ p \notin Tracked(m) => \A e : Entry(mid, p, e) <=> e = Added(p, FALSE)
    <2>1. CASE p \in Tracked(m)
      BY <1>2, <1>10, <2>1 DEF Updates
    <2>2. CASE p \notin Tracked(m)
      <3>1. mid = Add(m, p, FALSE)
        BY <1>10, <2>2
      <3>2. Updates(K, m, p, mid) /\ Puts(m, mid, p, Added(p, FALSE))
        BY <1>2, <3>1, AddLemma
      <3> QED
        BY <2>2, <3>2 DEF Puts
    <2> QED
      BY <2>1, <2>2
  <1>12. mid \in Seq(Entries(K)) /\ OneEntry(mid) /\ (\E e : Entry(mid, p, e))
    BY <1>9, <1>11 DEF Updates
  <1>13. PICK n : n = ApplyPlayer(mid, p, props)
    OBVIOUS
  <1>14. /\ Updates(K, mid, p, n)
         /\ \A e : Entry(n, p, e) => \E old : Entry(mid, p, old) /\ PropsFor(props, old, e)
    BY <1>8, <1>12, <1>13, ApplyLemma
  <1>15. PICK a : a = IF p \in Tracked(m) THEN <<>> ELSE <<Request("all", p)>>
    OBVIOUS
  <1>16. PICK b : b = IF PositionStale(mid, p, props) THEN <<Request("position", p)>> ELSE <<>>
    OBVIOUS
  <1>17. PICK more : more = (asks \o a) \o b
    OBVIOUS
  <1>18. new = [m |-> n, asks |-> more]
    BY <1>1, <1>2, <1>3, <1>5, <1>6, <1>7, <1>10, <1>13, <1>15, <1>16, <1>17 DEF OnMprisSignal
  <1>19. Request("all", p) \in Requests(K) /\ Request("position", p) \in Requests(K)
    BY DEF Request, Requests
  <1>20. /\ asks \o a \in Seq(Requests(K)) /\ ToSet(asks) \subseteq ToSet(asks \o a)
         /\ p \notin Tracked(m) => Request("all", p) \in ToSet(asks \o a)
    <2>1. PICK r \in Requests(K) : r = Request("all", p)
      BY <1>19
    <2>2. a \in {<<>>, <<r>>} /\ (p \notin Tracked(m) => a = <<r>>)
      BY <1>15, <2>1
    <2> QED
      BY <2>1, <2>2, AsksPerhaps
  <1>21. /\ more \in Seq(Requests(K)) /\ ToSet(asks \o a) \subseteq ToSet(more)
         /\ PositionStale(mid, p, props) => Request("position", p) \in ToSet(more)
    <2>0. PICK am \in Seq(Requests(K)) : am = asks \o a
      BY <1>20
    <2>1. PICK r \in Requests(K) : r = Request("position", p)
      BY <1>19
    <2>2. b \in {<<>>, <<r>>} /\ (PositionStale(mid, p, props) => b = <<r>>)
      BY <1>16, <2>1
    <2>3. am \o b = more
      BY <1>17, <2>0
    <2> QED
      BY <2>0, <2>1, <2>2, <2>3, AsksPerhaps
  <1>22. new \in PlayerAccs(K) /\ new.m = n /\ new.asks = more
    BY <1>14, <1>18, <1>21 DEF PlayerAccs, Updates
  <1>23. "track" \in DOMAIN props => Request("position", p) \in ToSet(more)
    <2>1. p \in Tracked(mid)
      BY <1>12, OfLemma
    <2> QED
      BY <1>21, <2>1 DEF PositionStale
  <1>24. \A q, e : q # p => (Entry(n, q, e) <=> Entry(m, q, e))
    BY <1>11, <1>14 DEF Updates
  <1>25. \E e : Entry(n, p, e)
    BY <1>12, <1>14 DEF Updates
  <1>26. PropsTo(acc, sig, new)
    <2>1. CASE \E e : Entry(m, p, e)
      <3>1. mid = m
        BY <1>9, <1>11, <2>1
      <3> QED
        BY <1>2, <1>5, <1>7, <1>14, <1>22, <1>23, <1>25, <2>1, <3>1 DEF PropsTo
    <2>2. CASE ~\E e : Entry(m, p, e)
      <3>1. \A e : Entry(mid, p, e) => e.named = FALSE
        BY <1>9, <1>11, <2>2 DEF Added
      <3>2. \A e : Entry(n, p, e) => e.named = FALSE
        BY <1>14, <3>1 DEF PropsFor
      <3>3. Request("all", p) \in ToSet(more)
        BY <1>9, <1>20, <1>21, <2>2
      <3> QED
        BY <1>2, <1>5, <1>22, <1>25, <2>2, <3>2, <3>3 DEF PropsTo
    <2> QED
      BY <2>1, <2>2
  <1>27. ToSet(asks) \subseteq ToSet(more)
    BY <1>20, <1>21
  <1> QED
    BY <1>1, <1>2, <1>3, <1>5, <1>6, <1>22, <1>24, <1>26, <1>27 DEF SignalTo

\* What the model makes of a new position.
LEMMA SeekSignal ==
    ASSUME NEW K, NEW acc \in PlayerAccs(K), NEW sig \in SeekMsgs(K)
    PROVE  SignalTo(K, acc, sig, OnMprisSignal(acc, sig))
  <1>1. PICK new : new = OnMprisSignal(acc, sig)
    OBVIOUS
  <1>2. PICK m \in Seq(Entries(K)) : m = acc.m /\ OneEntry(m)
    BY DEF PlayerAccs
  <1>3. PICK asks \in Seq(Requests(K)) : asks = acc.asks
    BY DEF PlayerAccs
  <1>4. acc = [m |-> m, asks |-> asks]
    BY <1>2, <1>3 DEF PlayerAccs
  <1>5. PICK p \in K : p = sig.who
    BY DEF SeekMsgs
  <1>6. sig.what = "seeked" /\ sig.pos \in {0, 1}
    BY DEF SeekMsgs
  <1>7. PICK n : n = SetPosition(m, p, sig.pos)
    OBVIOUS
  <1>8. new = [m |-> n, asks |-> asks]
    <2>1. new = [acc EXCEPT !.m = SetPosition(acc.m, p, sig.pos)]
      BY <1>1, <1>5, <1>6 DEF OnMprisSignal
    <2>2. n = SetPosition(acc.m, p, sig.pos)
      BY <1>2, <1>7
    <2>3. new = [acc EXCEPT !.m = n]
      BY <2>1, <2>2
    <2> QED
      BY <1>4, <2>3
  <1>9. /\ Updates(K, m, p, n)
        /\ \A e : Entry(n, p, e) => \E old : Entry(m, p, old) /\ PosFor(sig.pos, old, e)
    BY <1>2, <1>6, <1>7, SeekLemma
  <1>10. new \in PlayerAccs(K) /\ new.m = n /\ new.asks = asks
    BY <1>8, <1>9 DEF PlayerAccs, Updates
  <1>11. SeekTo(acc, sig, new)
    BY <1>2, <1>5, <1>9, <1>10 DEF SeekTo, Updates
  <1>12. \A q, e : q # p => (Entry(n, q, e) <=> Entry(m, q, e))
    BY <1>9 DEF Updates
  <1> QED
    BY <1>1, <1>2, <1>3, <1>5, <1>6, <1>10, <1>11, <1>12 DEF SignalTo

\* What the model makes of any signal.
LEMMA SignalLemma ==
    ASSUME NEW K, NEW acc \in PlayerAccs(K), NEW sig \in PlayerSignals(K)
    PROVE  SignalTo(K, acc, sig, OnMprisSignal(acc, sig))
  BY OwnerSignal, PropsSignal, SeekSignal DEF PlayerSignals

-----------------------------------------------------------------------------
\* A reply of a player.
Answer(i) == RepliesOf(pending[i].who)[Rank(i)]

\* The answer to a request is a reply of the batch, of the player that was asked.
LEMMA AnswerFound ==
    ASSUME NEW M, Batch \in Seq(M), DOMAIN pending = 1 .. Len(pending), Len(pending) \in Nat,
           NEW i \in 1 .. Len(pending), IsAnswered(i)
    PROVE  /\ Answer(i).who = pending[i].who
           /\ \E j \in 1 .. Len(Replies(Batch)) : Replies(Batch)[j] = Answer(i)
  <1>1. PICK p : p = pending[i].who
    OBVIOUS
  <1>2. PICK s \in Seq(M) : s = Batch
    OBVIOUS
  <1>3. PICK r : r = Replies(s)
    OBVIOUS
  <1>4. r \in Seq(M)
    BY <1>3, RetainOrder DEF Replies, OfKind
  <1>5. PICK kept : kept = {reply \in ToSet(s) : reply.who = p}
    OBVIOUS
  <1>6. PICK t : t = Retain(r, kept)
    OBVIOUS
  <1>7. t = RepliesOf(p)
    BY <1>2, <1>3, <1>5, <1>6 DEF RepliesOf
  <1>8. /\ t \in Seq(M)
        /\ \A f : (\E n \in 1 .. Len(t) : t[n] = f) <=> f \in kept /\ \E j \in 1 .. Len(r) : r[j] = f
    BY <1>4, <1>6, RetainLemma
  <1>9. PICK same : same = {j \in 1 .. i : pending[j].who = pending[i].who}
    OBVIOUS
  <1>10. i \in Nat /\ i \in 1 .. i
    OBVIOUS
  <1>11. IsFiniteSet(same) /\ i \in same
    <2>1. IsFiniteSet(1 .. i)
      BY <1>10, FS_Interval
    <2>2. same \subseteq 1 .. i
      BY <1>9
    <2> QED
      BY <1>9, <1>10, <2>1, <2>2, FS_Subset
  <1>12. Cardinality(same) \in Nat /\ Cardinality(same) # 0
    BY <1>11, FS_CardinalityType, FS_EmptySet
  <1>13. Rank(i) = Cardinality(same)
    BY <1>9 DEF Rank
  <1>14. Rank(i) \in 1 .. Len(t)
    <2>1. Rank(i) <= Len(t)
      BY <1>1, <1>7 DEF IsAnswered
    <2>2. Len(t) \in Nat
      BY <1>8
    <2> QED
      BY <1>12, <1>13, <2>1, <2>2
  <1>15. Answer(i) = t[Rank(i)]
    BY <1>1, <1>7 DEF Answer
  <1>16. Answer(i) \in kept /\ \E j \in 1 .. Len(r) : r[j] = Answer(i)
    BY <1>8, <1>14, <1>15
  <1> QED
    BY <1>1, <1>2, <1>3, <1>5, <1>16

ReplyTo(K, acc, i, new) ==
    LET p == pending[i].who
    IN  /\ new \in PlayerAccs(K)
        /\ ToSet(acc.asks) \subseteq ToSet(new.asks)
        /\ \A q, e : q # p => (Entry(new.m, q, e) <=> Entry(acc.m, q, e))
        /\ (\E e : Entry(acc.m, p, e)) => (\E e : Entry(new.m, p, e))
        /\ IF ~IsAnswered(i) \/ ~Answer(i).ok THEN new = acc
           ELSE \A e : Entry(new.m, p, e) =>
                   \E old : /\ Entry(acc.m, p, old) /\ e.named = old.named
                            /\ pending[i].what = "position" => PosFor(Answer(i).pos, old, e)
                            /\ pending[i].what # "position" =>
                                  /\ e.status = Answer(i).status /\ e.track = Answer(i).track
                                  /\ Request("position", p) \in ToSet(new.asks)

\* What the model makes of an answer, if there is one yet.
LEMMA ReplyLemma ==
    ASSUME NEW K, pending \in Seq(Requests(K)), NEW acc \in PlayerAccs(K), NEW i \in 1 .. Len(pending),
           IsAnswered(i) => Answer(i) \in PlayerReplies(K)
    PROVE  ReplyTo(K, acc, i, OnMprisReply(acc, i))
  <1>1. PICK new : new = OnMprisReply(acc, i)
    OBVIOUS
  <1>2. PICK m \in Seq(Entries(K)) : m = acc.m /\ OneEntry(m)
    BY DEF PlayerAccs
  <1>3. PICK asks \in Seq(Requests(K)) : asks = acc.asks
    BY DEF PlayerAccs
  <1>4. acc = [m |-> m, asks |-> asks]
    BY <1>2, <1>3 DEF PlayerAccs
  <1>5. pending[i] \in Requests(K)
    OBVIOUS
  <1>6. PICK p \in K : p = pending[i].who
    BY <1>5 DEF Requests
  <1>7. CASE ~IsAnswered(i) \/ ~Answer(i).ok
    <2>1. new = acc
      BY <1>1, <1>7 DEF OnMprisReply, Answer
    <2> QED
      BY <1>1, <1>7, <2>1 DEF ReplyTo
  <1>8. CASE IsAnswered(i) /\ Answer(i).ok /\ pending[i].what = "position"
    <2>1. PICK reply \in PlayerReplies(K) : reply = Answer(i)
      BY <1>8
    <2>2. reply.pos \in {0, 1}
      BY DEF PlayerReplies
    <2>3. PICK n : n = SetPosition(m, p, reply.pos)
      OBVIOUS
    <2>4. new = [m |-> n, asks |-> asks]
      <3>1. new = [acc EXCEPT !.m = SetPosition(acc.m, p, reply.pos)]
        BY <1>1, <1>6, <1>8, <2>1 DEF OnMprisReply, Answer
      <3>2. n = SetPosition(acc.m, p, reply.pos)
        BY <1>2, <2>3
      <3>3. new = [acc EXCEPT !.m = n]
        BY <3>1, <3>2
      <3> QED
        BY <1>4, <3>3
    <2>5. /\ Updates(K, m, p, n)
          /\ \A e : Entry(n, p, e) => \E old : Entry(m, p, old) /\ PosFor(reply.pos, old, e)
      BY <1>2, <2>2, <2>3, SeekLemma
    <2>6. new \in PlayerAccs(K) /\ new.m = n /\ new.asks = asks
      BY <2>4, <2>5 DEF PlayerAccs, Updates
    <2>7. \A e : Entry(n, p, e) =>
             \E old : /\ Entry(m, p, old) /\ e.named = old.named
                      /\ pending[i].what = "position" => PosFor(Answer(i).pos, old, e)
                      /\ pending[i].what # "position" =>
                            /\ e.status = Answer(i).status /\ e.track = Answer(i).track
                            /\ Request("position", p) \in ToSet(new.asks)
      BY <1>8, <2>1, <2>5 DEF PosFor
    <2>8. /\ \A q, e : q # p => (Entry(n, q, e) <=> Entry(m, q, e))
          /\ (\E e : Entry(m, p, e)) => (\E e : Entry(n, p, e))
      BY <2>5 DEF Updates
    <2> QED
      BY <1>1, <1>2, <1>3, <1>6, <1>8, <2>6, <2>7, <2>8 DEF ReplyTo
  <1>9. CASE IsAnswered(i) /\ Answer(i).ok /\ pending[i].what # "position"
    <2>1. PICK reply \in PlayerReplies(K) : reply = Answer(i)
      BY <1>9
    <2>2. PICK props : props = [status |-> reply.status, track |-> reply.track]
      OBVIOUS
    <2>3. /\ "status" \in DOMAIN props /\ props.status = reply.status /\ reply.status \in Statuses
          /\ "track" \in DOMAIN props /\ props.track = reply.track /\ reply.track \in Tracks
      BY <2>2 DEF PlayerReplies
    <2>4. PICK n : n = ApplyPlayer(m, p, props)
      OBVIOUS
    <2>5. PICK b : b = IF PositionStale(m, p, props) THEN <<Request("position", p)>> ELSE <<>>
      OBVIOUS
    <2>6. PICK more : more = asks \o b
      OBVIOUS
    <2>7. new = [m |-> n, asks |-> more]
      BY <1>1, <1>2, <1>3, <1>6, <1>9, <2>1, <2>2, <2>4, <2>5, <2>6 DEF OnMprisReply, Answer
    <2>8. /\ Updates(K, m, p, n)
          /\ \A e : Entry(n, p, e) => \E old : Entry(m, p, old) /\ PropsFor(props, old, e)
      BY <1>2, <2>3, <2>4, ApplyLemma
    <2>9. PICK r \in Requests(K) : r = Request("position", p)
      BY DEF Request, Requests
    <2>10. b \in {<<>>, <<r>>} /\ (PositionStale(m, p, props) => b = <<r>>)
      BY <2>5, <2>9
    <2>11. /\ more \in Seq(Requests(K)) /\ ToSet(asks) \subseteq ToSet(more)
           /\ PositionStale(m, p, props) => Request("position", p) \in ToSet(more)
      BY <2>6, <2>9, <2>10, AsksPerhaps
    <2>12. new \in PlayerAccs(K) /\ new.m = n /\ new.asks = more
      BY <2>7, <2>8, <2>11 DEF PlayerAccs, Updates
    <2>13. ASSUME NEW e, Entry(n, p, e)
           PROVE  \E old : /\ Entry(m, p, old) /\ e.named = old.named
                           /\ pending[i].what = "position" => PosFor(Answer(i).pos, old, e)
                           /\ pending[i].what # "position" =>
                                 /\ e.status = Answer(i).status /\ e.track = Answer(i).track
                                 /\ Request("position", p) \in ToSet(new.asks)
      <3>1. PICK old : Entry(m, p, old) /\ PropsFor(props, old, e)
        BY <2>8, <2>13
      <3>2. e.named = old.named /\ e.status = reply.status /\ e.track = reply.track
        BY <2>3, <3>1 DEF PropsFor
      <3>3. p \in Tracked(m)
        BY <3>1, OfLemma
      <3>4. Request("position", p) \in ToSet(more)
        BY <2>3, <2>11, <3>3 DEF PositionStale
      <3> QED
        BY <1>9, <2>1, <2>12, <3>1, <3>2, <3>4
    <2>14. /\ \A q, e : q # p => (Entry(n, q, e) <=> Entry(m, q, e))
           /\ (\E e : Entry(m, p, e)) => (\E e : Entry(n, p, e))
      BY <2>8 DEF Updates
    <2> QED
      BY <1>1, <1>2, <1>3, <1>6, <1>9, <2>11, <2>12, <2>13, <2>14 DEF ReplyTo
  <1> QED
    BY <1>7, <1>8, <1>9

\* A signal leaves entries and requests.
LEMMA SignalType ==
    ASSUME NEW K
    PROVE  \A acc \in PlayerAccs(K), sig \in PlayerSignals(K) : OnMprisSignal(acc, sig) \in PlayerAccs(K)
  BY SignalLemma DEF SignalTo

\* An answer leaves entries and requests.
LEMMA ReplyType ==
    ASSUME NEW K, NEW I, I = 1 .. Len(pending), pending \in Seq(Requests(K)),
           \A i \in 1 .. Len(pending) : IsAnswered(i) => Answer(i) \in PlayerReplies(K)
    PROVE  \A acc \in PlayerAccs(K), i \in I : OnMprisReply(acc, i) \in PlayerAccs(K)
  BY ReplyLemma DEF ReplyTo

PlayersRan(K, base, s, r) ==
    \E run \in [0 .. Len(s) -> PlayerAccs(K)] :
       /\ run[0] = base /\ run[Len(s)] = r
       /\ \A n \in 1 .. Len(s) : run[n] = OnMprisSignal(run[n - 1], s[n])
\* The results along a batch of signals.
LEMMA PlayersRun ==
    ASSUME NEW K, NEW base \in PlayerAccs(K), NEW s \in Seq(PlayerSignals(K)), NEW r, r = FoldLeft(OnMprisSignal, base, s)
    PROVE  PlayersRan(K, base, s, r)
  <1>2. PICK it : /\ it = CHOOSE g : g = [t \in SUBSET DOMAIN s |->
                                IF t = {} THEN base ELSE OnMprisSignal(g[t \ {Max(t)}], s[Max(t)])]
                  /\ r = it[DOMAIN s]
    BY DEF FoldLeft, MapThenFoldSet
  <1>3. PICK F : F = [p \in PlayerAccs(K) \X PlayerSignals(K) |-> OnMprisSignal(p[1], p[2])]
    OBVIOUS
  <1>4. F \in [PlayerAccs(K) \X PlayerSignals(K) -> PlayerAccs(K)]
        /\ \A a \in PlayerAccs(K), m \in PlayerSignals(K) : F[<<a, m>>] = OnMprisSignal(a, m)
    BY <1>3, SignalType
  <1>5. PICK jt \in [SUBSET (1 .. Len(s)) -> PlayerAccs(K)] : IsFold(jt, base, F, s, Len(s))
    BY <1>4, FoldExists
  <1>6. Len(s) \in Nat /\ DOMAIN s = 1 .. Len(s) /\ \A n \in 1 .. Len(s) : s[n] \in PlayerSignals(K)
    OBVIOUS
  <1>7. ASSUME NEW t \in SUBSET (1 .. Len(s)), t # {}
        PROVE  F[<<jt[t \ {Max(t)}], s[Max(t)]>>] = OnMprisSignal(jt[t \ {Max(t)}], s[Max(t)])
    <2>1. Max(t) \in 1 .. Len(s)
      BY <1>6, <1>7, MaxLemma
    <2>2. jt[t \ {Max(t)}] \in PlayerAccs(K)
      OBVIOUS
    <2> QED
      BY <1>4, <1>6, <2>1, <2>2
  <1>8. jt = [t \in SUBSET DOMAIN s |-> IF t = {} THEN base ELSE OnMprisSignal(jt[t \ {Max(t)}], s[Max(t)])]
    BY <1>5, <1>6, <1>7 DEF IsFold
  <1>9. it = [t \in SUBSET DOMAIN s |-> IF t = {} THEN base ELSE OnMprisSignal(it[t \ {Max(t)}], s[Max(t)])]
    BY <1>2, <1>8
  <1>10. it[{}] = base
    BY <1>9
  <1>11. ASSUME NEW n \in 1 .. Len(s), it[1 .. n - 1] \in PlayerAccs(K)
         PROVE  it[1 .. n] = F[<<it[1 .. n - 1], s[n]>>]
    <2>1. 1 .. n # {} /\ Max(1 .. n) = n /\ (1 .. n) \ {n} = 1 .. n - 1 /\ 1 .. n \in SUBSET DOMAIN s
      BY <1>6, MaxUpto
    <2>2. it[1 .. n] = OnMprisSignal(it[1 .. n - 1], s[n])
      BY <1>9, <2>1
    <2> QED
      BY <1>4, <1>6, <1>11, <2>2
  <1>12. PICK run : Run(run, PlayerAccs(K), F, base, s) /\ run[Len(s)] = it[1 .. Len(s)]
    <2>1. Applies(it, PlayerAccs(K), F, s)
      BY <1>11 DEF Applies
    <2>2. F \in [PlayerAccs(K) \X PlayerSignals(K) -> PlayerAccs(K)]
      BY <1>4
    <2>3. Along(it[1 .. Len(s)], PlayerAccs(K), F, base, s)
      BY <1>10, <2>1, <2>2, FoldRun
    <2> QED
      BY <2>3 DEF Along
  <1>13. run[0] = base /\ run \in [0 .. Len(s) -> PlayerAccs(K)]
    BY <1>12 DEF Run
  <1>14. \A n \in 1 .. Len(s) : run[n] = OnMprisSignal(run[n - 1], s[n])
    <2>1. ASSUME NEW n \in 1 .. Len(s)
          PROVE  run[n] = OnMprisSignal(run[n - 1], s[n])
      <3>1. n - 1 \in 0 .. Len(s)
        BY <1>6
      <3>2. run[n - 1] \in PlayerAccs(K)
        BY <1>13, <3>1
      <3>3. run[n] = F[<<run[n - 1], s[n]>>]
        BY <1>12 DEF Run
      <3> QED
        BY <1>4, <1>6, <3>2, <3>3
    <2> QED
      BY <2>1
  <1> QED
    BY <1>2, <1>6, <1>12, <1>13, <1>14 DEF PlayersRan

RepliesRan(K, base, s, r) ==
    \E run \in [0 .. Len(s) -> PlayerAccs(K)] :
       /\ run[0] = base /\ run[Len(s)] = r
       /\ \A n \in 1 .. Len(s) : run[n] = OnMprisReply(run[n - 1], s[n])
\* The results along the requests under way.
LEMMA RepliesRun ==
    ASSUME NEW K, NEW I, I = 1 .. Len(pending), pending \in Seq(Requests(K)),
           \A i \in 1 .. Len(pending) : IsAnswered(i) => Answer(i) \in PlayerReplies(K),
           NEW base \in PlayerAccs(K), NEW s \in Seq(I), NEW r, r = FoldLeft(OnMprisReply, base, s)
    PROVE  RepliesRan(K, base, s, r)
  <1>2. PICK it : /\ it = CHOOSE g : g = [t \in SUBSET DOMAIN s |->
                                IF t = {} THEN base ELSE OnMprisReply(g[t \ {Max(t)}], s[Max(t)])]
                  /\ r = it[DOMAIN s]
    BY DEF FoldLeft, MapThenFoldSet
  <1>3. PICK F : F = [p \in PlayerAccs(K) \X I |-> OnMprisReply(p[1], p[2])]
    OBVIOUS
  <1>4. F \in [PlayerAccs(K) \X I -> PlayerAccs(K)]
        /\ \A a \in PlayerAccs(K), m \in I : F[<<a, m>>] = OnMprisReply(a, m)
    BY <1>3, ReplyType
  <1>5. PICK jt \in [SUBSET (1 .. Len(s)) -> PlayerAccs(K)] : IsFold(jt, base, F, s, Len(s))
    BY <1>4, FoldExists
  <1>6. Len(s) \in Nat /\ DOMAIN s = 1 .. Len(s) /\ \A n \in 1 .. Len(s) : s[n] \in I
    OBVIOUS
  <1>7. ASSUME NEW t \in SUBSET (1 .. Len(s)), t # {}
        PROVE  F[<<jt[t \ {Max(t)}], s[Max(t)]>>] = OnMprisReply(jt[t \ {Max(t)}], s[Max(t)])
    <2>1. Max(t) \in 1 .. Len(s)
      BY <1>6, <1>7, MaxLemma
    <2>2. jt[t \ {Max(t)}] \in PlayerAccs(K)
      OBVIOUS
    <2> QED
      BY <1>4, <1>6, <2>1, <2>2
  <1>8. jt = [t \in SUBSET DOMAIN s |-> IF t = {} THEN base ELSE OnMprisReply(jt[t \ {Max(t)}], s[Max(t)])]
    BY <1>5, <1>6, <1>7 DEF IsFold
  <1>9. it = [t \in SUBSET DOMAIN s |-> IF t = {} THEN base ELSE OnMprisReply(it[t \ {Max(t)}], s[Max(t)])]
    BY <1>2, <1>8
  <1>10. it[{}] = base
    BY <1>9
  <1>11. ASSUME NEW n \in 1 .. Len(s), it[1 .. n - 1] \in PlayerAccs(K)
         PROVE  it[1 .. n] = F[<<it[1 .. n - 1], s[n]>>]
    <2>1. 1 .. n # {} /\ Max(1 .. n) = n /\ (1 .. n) \ {n} = 1 .. n - 1 /\ 1 .. n \in SUBSET DOMAIN s
      <3>1. Len(s) \in Nat /\ DOMAIN s = 1 .. Len(s)
        BY <1>6
      <3>2. n \in Nat \ {0}
        BY <3>1
      <3>3. 1 .. n \in SUBSET (1 .. Len(s))
        BY <3>1
      <3> QED
        BY <3>1, <3>2, <3>3, MaxUpto
    <2>2. it[1 .. n] = OnMprisReply(it[1 .. n - 1], s[n])
      BY <1>9, <2>1
    <2> QED
      BY <1>4, <1>6, <1>11, <2>2
  <1>12. PICK run : Run(run, PlayerAccs(K), F, base, s) /\ run[Len(s)] = it[1 .. Len(s)]
    <2>1. Applies(it, PlayerAccs(K), F, s)
      BY <1>11 DEF Applies
    <2>2. F \in [PlayerAccs(K) \X I -> PlayerAccs(K)]
      BY <1>4
    <2>3. Along(it[1 .. Len(s)], PlayerAccs(K), F, base, s)
      BY <1>10, <2>1, <2>2, FoldRun
    <2> QED
      BY <2>3 DEF Along
  <1>13. run[0] = base /\ run \in [0 .. Len(s) -> PlayerAccs(K)]
    BY <1>12 DEF Run
  <1>14. \A n \in 1 .. Len(s) : run[n] = OnMprisReply(run[n - 1], s[n])
    <2>1. ASSUME NEW n \in 1 .. Len(s)
          PROVE  run[n] = OnMprisReply(run[n - 1], s[n])
      <3>1. n - 1 \in 0 .. Len(s)
        BY <1>6
      <3>2. run[n - 1] \in PlayerAccs(K)
        BY <1>13, <3>1
      <3>3. run[n] = F[<<run[n - 1], s[n]>>]
        BY <1>12 DEF Run
      <3> QED
        BY <1>4, <1>6, <3>2, <3>3
    <2> QED
      BY <2>1
  <1> QED
    BY <1>2, <1>6, <1>12, <1>13, <1>14 DEF RepliesRan

-----------------------------------------------------------------------------
\* A player that was v is u, and what was to come is among what is.
Turned(p, v, u, N) ==
    /\ v.on = "named" => u.on = "named" \/ OwnerIn(N, p, FALSE)
    /\ v.on = "gone" => u.on = "gone"
    /\ u.on = "named" => v.on = "named" \/ OwnerIn(N, p, TRUE)
    /\ u.status = v.status \/ StatusIn(N, p)
    /\ u.track = v.track \/ TrackIn(N, p)
    /\ u.pos = v.pos \/ TrackIn(N, p) \/ SeekIn(N, p)
Grows(p, R, N) ==
    /\ \A new \in BOOLEAN : OwnerIn(R, p, new) => OwnerIn(N, p, new)
    /\ StatusIn(R, p) => StatusIn(N, p)
    /\ TrackIn(R, p) => TrackIn(N, p)
    /\ SeekIn(R, p) => SeekIn(N, p)

\* What signals announce is announced by any set that holds them too.
LEMMA SignalsGrow ==
    ASSUME NEW R, NEW N, \A msg \in R : msg.kind = "signal" => msg \in N
    PROVE  \A p : Grows(p, R, N)
  <1>1. \A p : \A new \in BOOLEAN : OwnerIn(R, p, new) => OwnerIn(N, p, new)
    BY DEF OwnerIn
  <1>2. \A p : StatusIn(R, p) => StatusIn(N, p)
    BY DEF StatusIn
  <1>3. \A p : TrackIn(R, p) => TrackIn(N, p)
    BY DEF TrackIn
  <1>4. \A p : SeekIn(R, p) => SeekIn(N, p)
    BY DEF SeekIn
  <1> QED
    BY <1>1, <1>2, <1>3, <1>4 DEF Grows

\* One more message announces what it says.
LEMMA OneMore ==
    ASSUME NEW R, NEW x
    PROVE  /\ \A p : Grows(p, R, R \cup {x})
           /\ x.kind = "signal" /\ x.what = "owner" => OwnerIn(R \cup {x}, x.who, x.new)
           /\ x.kind = "signal" /\ x.what = "props" /\ "status" \in DOMAIN x.props => StatusIn(R \cup {x}, x.who)
           /\ x.kind = "signal" /\ x.what = "props" /\ "track" \in DOMAIN x.props => TrackIn(R \cup {x}, x.who)
           /\ x.kind = "signal" /\ x.what = "seeked" => SeekIn(R \cup {x}, x.who)
  <1>1. \A p : Grows(p, R, R \cup {x})
    <2>1. \A msg \in R : msg.kind = "signal" => msg \in R \cup {x}
      OBVIOUS
    <2> QED
      BY <2>1, SignalsGrow
  <1> QED
    BY <1>1 DEF OwnerIn, StatusIn, TrackIn, SeekIn

\* One signal less, of what is to come.
LEMMA OneLess ==
    ASSUME NEW R, NEW x, NEW p
    PROVE  /\ \A new : OwnerIn(R \cup {x}, p, new)
                         => OwnerIn(R, p, new) \/ (x.kind = "signal" /\ x.what = "owner" /\ x.who = p /\ x.new = new)
           /\ StatusIn(R \cup {x}, p) => \/ StatusIn(R, p)
                                         \/ x.kind = "signal" /\ x.what = "props" /\ x.who = p /\ "status" \in DOMAIN x.props
           /\ TrackIn(R \cup {x}, p) => \/ TrackIn(R, p)
                                        \/ x.kind = "signal" /\ x.what = "props" /\ x.who = p /\ "track" \in DOMAIN x.props
           /\ SeekIn(R \cup {x}, p) => SeekIn(R, p) \/ (x.kind = "signal" /\ x.what = "seeked" /\ x.who = p)
  BY DEF OwnerIn, StatusIn, TrackIn, SeekIn

\* When a player changes and announces it, what was held of it is held still.
LEMMA Carries ==
    ASSUME NEW p, NEW v, NEW u, NEW m, NEW R, NEW N, NEW P, NEW Q, P \subseteq Q, Grows(p, R, N), Turned(p, v, u, N)
    PROVE  /\ NamesHeld(p, v, m, R) => NamesHeld(p, u, m, N)
           /\ ListHeld(p, v, m, R) => ListHeld(p, u, m, N)
           /\ (u.on \in {"here", "named"} => v.on \in {"here", "named"} \/ (\A e : ~Entry(m, p, e)))
              => (StateHeld(p, v, m, R, P) => StateHeld(p, u, m, N, Q))
           /\ \A msg : msg.who = p /\ MsgSo(msg, v, R) => MsgSo(msg, u, N)
  <1>1. /\ \A s : StatusSo(p, v, s, R) => StatusSo(p, u, s, N)
        /\ \A t : TrackSo(p, v, t, R) => TrackSo(p, u, t, N)
        /\ \A q : PosSo(p, v, q, R) => PosSo(p, u, q, N)
    BY DEF Turned, Grows, StatusSo, TrackSo, PosSo
  <1>2. NamesHeld(p, v, m, R) => NamesHeld(p, u, m, N)
    BY DEF Turned, Grows, NamesHeld
  <1>3. ListHeld(p, v, m, R) => ListHeld(p, u, m, N)
    BY DEF Turned, Grows, ListHeld
  <1>4. ASSUME u.on \in {"here", "named"} => v.on \in {"here", "named"} \/ (\A e : ~Entry(m, p, e)),
               StateHeld(p, v, m, R, P)
        PROVE  StateHeld(p, u, m, N, Q)
    BY <1>1, <1>4 DEF StateHeld
  <1>5. ASSUME NEW msg, msg.who = p, MsgSo(msg, v, R)
        PROVE  MsgSo(msg, u, N)
    <2>1. OwnerSo(msg, v, R) => OwnerSo(msg, u, N)
      BY <1>5 DEF Turned, Grows, OwnerSo
    <2>2. PropsSo(msg, v, R) => PropsSo(msg, u, N)
      BY <1>1, <1>5 DEF PropsSo
    <2>3. SeekSo(msg, v, R) => SeekSo(msg, u, N)
      BY <1>1, <1>5 DEF SeekSo
    <2>4. ReplySo(msg, v, R) => ReplySo(msg, u, N)
      BY <1>1, <1>5 DEF Turned, ReplySo
    <2> QED
      BY <1>5, <2>1, <2>2, <2>3, <2>4 DEF MsgSo
  <1> QED
    BY <1>2, <1>3, <1>4, <1>5

\* The same for a player that stands.
LEMMA CarriesOn ==
    ASSUME NEW p, NEW v, NEW m, NEW R, NEW N, NEW P, NEW Q, P \subseteq Q, Grows(p, R, N)
    PROVE  /\ NamesHeld(p, v, m, R) => NamesHeld(p, v, m, N)
           /\ ListHeld(p, v, m, R) => ListHeld(p, v, m, N)
           /\ Held(p, v, m, R, P) => Held(p, v, m, N, Q)
           /\ \A msg : msg.who = p /\ MsgSo(msg, v, R) => MsgSo(msg, v, N)
  <1>1. Turned(p, v, v, N)
    BY DEF Turned
  <1> QED
    BY <1>1, Carries DEF Held

\* It holds of a player whatever becomes of the entries of the others.
LEMMA HeldByEntry ==
    ASSUME NEW p, NEW v, NEW m, NEW n, NEW R, NEW P, \A e : Entry(n, p, e) <=> Entry(m, p, e)
    PROVE  Held(p, v, m, R, P) => Held(p, v, n, R, P)
  BY DEF Held, NamesHeld, ListHeld, StateHeld

\* What is held once a signal is handled.
LEMMA SignalHolds ==
    ASSUME NEW K, NEW acc \in PlayerAccs(K), NEW sig \in PlayerSignals(K), NEW new, SignalTo(K, acc, sig, new),
           NEW p, NEW v, NEW R, NEW P, p = sig.who => MsgSo(sig, v, R),
           Held(p, v, acc.m, R \cup {sig}, P \cup ToSet(acc.asks))
    PROVE  Held(p, v, new.m, R, P \cup ToSet(new.asks))
  <1>1. sig.kind = "signal" /\ sig.what \in {"owner", "props", "seeked"}
    BY DEF PlayerSignals, OwnerMsgs, PropsMsgs, SeekMsgs
  <1>2. P \cup ToSet(acc.asks) \subseteq P \cup ToSet(new.asks)
    BY DEF SignalTo
  <1>3. PICK A : A = P \cup ToSet(acc.asks)
    OBVIOUS
  <1>4. PICK B : B = P \cup ToSet(new.asks)
    OBVIOUS
  <1>5. CASE p # sig.who
    <2>1. \A e : Entry(new.m, p, e) <=> Entry(acc.m, p, e)
      BY <1>5 DEF SignalTo
    <2>2. Grows(p, R \cup {sig}, R)
      BY <1>5, OneLess DEF Grows
    <2>3. Held(p, v, acc.m, R, B)
      <3>1. PICK N : N = R \cup {sig}
        OBVIOUS
      <3>2. Grows(p, N, R) /\ Held(p, v, acc.m, N, A) /\ A \subseteq B
        BY <1>2, <1>3, <1>4, <2>2, <3>1
      <3> QED
        BY <3>2, CarriesOn
    <2> QED
      BY <1>4, <2>1, <2>3, HeldByEntry
  <1>6. CASE p = sig.who /\ sig.what = "owner"
    <2>1. OwnerSo(sig, v, R) /\ OwnerTo(sig, new)
      BY <1>1, <1>6 DEF MsgSo, SignalTo
    <2>2. CASE sig.new
      <3>1. v.on = "named" \/ OwnerIn(R, p, FALSE)
        BY <1>6, <2>1, <2>2 DEF OwnerSo
      <3>2. /\ \A e : Entry(new.m, p, e) <=> e = Added(p, TRUE)
            /\ Request("all", p) \in B
        BY <1>4, <1>6, <2>1, <2>2 DEF OwnerTo
      <3>3. NamesHeld(p, v, new.m, R)
        <4>1. Added(p, TRUE).named = TRUE
          BY DEF Added
        <4> QED
          BY <3>1, <3>2, <4>1 DEF NamesHeld
      <3>4. ListHeld(p, v, new.m, R) /\ StateHeld(p, v, new.m, R, B)
        BY <3>2 DEF ListHeld, StateHeld
      <3> QED
        BY <1>4, <3>3, <3>4 DEF Held
    <2>3. CASE ~sig.new
      <3>1. v.on = "gone" /\ \A e : ~Entry(new.m, p, e)
        BY <1>6, <2>1, <2>3 DEF OwnerSo, OwnerTo
      <3> QED
        BY <3>1 DEF Held, NamesHeld, ListHeld, StateHeld
    <2> QED
      BY <2>2, <2>3
  <1>7. CASE p = sig.who /\ sig.what = "props"
    <2>1. PropsSo(sig, v, R) /\ PropsTo(acc, sig, new)
      BY <1>1, <1>7 DEF MsgSo, SignalTo
    <2>2. /\ \A is : OwnerIn(R \cup {sig}, p, is) => OwnerIn(R, p, is)
          /\ SeekIn(R \cup {sig}, p) => SeekIn(R, p)
          /\ "status" \notin DOMAIN sig.props => (StatusIn(R \cup {sig}, p) => StatusIn(R, p))
          /\ "track" \notin DOMAIN sig.props => (TrackIn(R \cup {sig}, p) => TrackIn(R, p))
      BY <1>7, OneLess
    <2>3. PICK N : N = R \cup {sig}
      OBVIOUS
    <2>4. NamesHeld(p, v, acc.m, N) /\ ListHeld(p, v, acc.m, N) /\ StateHeld(p, v, acc.m, N, A)
      BY <1>3, <2>3 DEF Held
    <2>5. ListHeld(p, v, new.m, R)
      BY <1>7, <2>1 DEF PropsTo, ListHeld
    <2>6. CASE ~\E e : Entry(acc.m, p, e)
      <3>1. /\ \A e : Entry(new.m, p, e) => e.named = FALSE
            /\ Request("all", p) \in B
        BY <1>4, <1>7, <2>1, <2>6 DEF PropsTo
      <3>2. v.on # "named" \/ OwnerIn(R, p, TRUE)
        BY <2>2, <2>3, <2>4, <2>6 DEF ListHeld
      <3>3. NamesHeld(p, v, new.m, R)
        BY <3>1, <3>2 DEF NamesHeld
      <3>4. StateHeld(p, v, new.m, R, B)
        BY <3>1 DEF StateHeld
      <3> QED
        BY <1>4, <2>5, <3>3, <3>4 DEF Held
    <2>7. CASE \E e : Entry(acc.m, p, e)
      <3>1. /\ \A e : Entry(new.m, p, e) => \E old : Entry(acc.m, p, old) /\ PropsFor(sig.props, old, e)
            /\ "track" \in DOMAIN sig.props => Request("position", p) \in B
        BY <1>4, <1>7, <2>1, <2>7 DEF PropsTo
      <3>2. NamesHeld(p, v, new.m, R)
        <4>1. ASSUME NEW e, Entry(new.m, p, e)
              PROVE  /\ e.named => v.on = "named" \/ OwnerIn(R, p, FALSE)
                     /\ ~e.named => v.on # "named" \/ OwnerIn(R, p, TRUE)
          <5>1. PICK old : Entry(acc.m, p, old) /\ e.named = old.named
            BY <3>1, <4>1 DEF PropsFor
          <5>2. /\ old.named => v.on = "named" \/ OwnerIn(N, p, FALSE)
                /\ ~old.named => v.on # "named" \/ OwnerIn(N, p, TRUE)
            BY <2>4, <5>1 DEF NamesHeld
          <5> QED
            BY <2>2, <2>3, <5>1, <5>2
        <4> QED
          BY <4>1 DEF NamesHeld
      <3>3. StateHeld(p, v, new.m, R, B)
        <4>1. ASSUME v.on \in {"here", "named"}, NEW e, Entry(new.m, p, e)
              PROVE  /\ StatusSo(p, v, e.status, R) \/ Request("all", p) \in B
                     /\ TrackSo(p, v, e.track, R) \/ Request("all", p) \in B
                     /\ PosSo(p, v, e.pos, R) \/ Request("all", p) \in B \/ Request("position", p) \in B
          <5>1. PICK old : Entry(acc.m, p, old) /\ PropsFor(sig.props, old, e)
            BY <3>1, <4>1
          <5>2. /\ StatusSo(p, v, old.status, N) \/ Request("all", p) \in B
                /\ TrackSo(p, v, old.track, N) \/ Request("all", p) \in B
                /\ PosSo(p, v, old.pos, N) \/ Request("all", p) \in B \/ Request("position", p) \in B
            BY <1>2, <1>3, <1>4, <2>4, <4>1, <5>1 DEF StateHeld
          <5>3. StatusSo(p, v, e.status, R) \/ Request("all", p) \in B
            <6>1. CASE "status" \in DOMAIN sig.props
              BY <1>7, <2>1, <5>1, <6>1 DEF PropsSo, PropsFor
            <6>2. CASE "status" \notin DOMAIN sig.props
              BY <2>2, <2>3, <5>1, <5>2, <6>2 DEF PropsFor, StatusSo
            <6> QED
              BY <6>1, <6>2
          <5>4. TrackSo(p, v, e.track, R) \/ Request("all", p) \in B
            <6>1. CASE "track" \in DOMAIN sig.props
              BY <1>7, <2>1, <5>1, <6>1 DEF PropsSo, PropsFor
            <6>2. CASE "track" \notin DOMAIN sig.props
              BY <2>2, <2>3, <5>1, <5>2, <6>2 DEF PropsFor, TrackSo
            <6> QED
              BY <6>1, <6>2
          <5>5. PosSo(p, v, e.pos, R) \/ Request("all", p) \in B \/ Request("position", p) \in B
            <6>1. CASE "track" \in DOMAIN sig.props
              BY <3>1, <6>1
            <6>2. CASE "track" \notin DOMAIN sig.props
              BY <2>2, <2>3, <5>1, <5>2, <6>2 DEF PropsFor, PosSo
            <6> QED
              BY <6>1, <6>2
          <5> QED
            BY <5>3, <5>4, <5>5
        <4> QED
          BY <4>1 DEF StateHeld
      <3> QED
        BY <1>4, <2>5, <3>2, <3>3 DEF Held
    <2> QED
      BY <2>6, <2>7
  <1>8. CASE p = sig.who /\ sig.what = "seeked"
    <2>1. PosSo(p, v, sig.pos, R) /\ SeekTo(acc, sig, new)
      BY <1>1, <1>8 DEF MsgSo, SeekSo, SignalTo
    <2>2. /\ \A is : OwnerIn(R \cup {sig}, p, is) => OwnerIn(R, p, is)
          /\ StatusIn(R \cup {sig}, p) => StatusIn(R, p)
          /\ TrackIn(R \cup {sig}, p) => TrackIn(R, p)
      BY <1>8, OneLess
    <2>3. PICK N : N = R \cup {sig}
      OBVIOUS
    <2>4. NamesHeld(p, v, acc.m, N) /\ ListHeld(p, v, acc.m, N) /\ StateHeld(p, v, acc.m, N, A)
      BY <1>3, <2>3 DEF Held
    <2>5. ListHeld(p, v, new.m, R)
      BY <1>8, <2>1, <2>2, <2>3, <2>4 DEF SeekTo, ListHeld
    <2>6. \A e : Entry(new.m, p, e) => \E old : Entry(acc.m, p, old) /\ PosFor(sig.pos, old, e)
      BY <1>8, <2>1 DEF SeekTo
    <2>7. NamesHeld(p, v, new.m, R)
      <3>1. ASSUME NEW e, Entry(new.m, p, e)
            PROVE  /\ e.named => v.on = "named" \/ OwnerIn(R, p, FALSE)
                   /\ ~e.named => v.on # "named" \/ OwnerIn(R, p, TRUE)
        <4>1. PICK old : Entry(acc.m, p, old) /\ e.named = old.named
          BY <2>6, <3>1 DEF PosFor
        <4>2. /\ old.named => v.on = "named" \/ OwnerIn(N, p, FALSE)
              /\ ~old.named => v.on # "named" \/ OwnerIn(N, p, TRUE)
          BY <2>4, <4>1 DEF NamesHeld
        <4> QED
          BY <2>2, <2>3, <4>1, <4>2
      <3> QED
        BY <3>1 DEF NamesHeld
    <2>8. StateHeld(p, v, new.m, R, B)
      <3>1. ASSUME v.on \in {"here", "named"}, NEW e, Entry(new.m, p, e)
            PROVE  /\ StatusSo(p, v, e.status, R) \/ Request("all", p) \in B
                   /\ TrackSo(p, v, e.track, R) \/ Request("all", p) \in B
                   /\ PosSo(p, v, e.pos, R)
        <4>1. PICK old : Entry(acc.m, p, old) /\ PosFor(sig.pos, old, e)
          BY <2>6, <3>1
        <4>2. /\ StatusSo(p, v, old.status, N) \/ Request("all", p) \in B
              /\ TrackSo(p, v, old.track, N) \/ Request("all", p) \in B
          BY <1>2, <1>3, <1>4, <2>4, <3>1, <4>1 DEF StateHeld
        <4> QED
          BY <2>1, <2>2, <2>3, <4>1, <4>2 DEF PosFor, StatusSo, TrackSo
      <3> QED
        BY <3>1 DEF StateHeld
    <2> QED
      BY <1>4, <2>5, <2>7, <2>8 DEF Held
  <1> QED
    BY <1>1, <1>5, <1>6, <1>7, <1>8

\* What is held once a reply is handled that tells the player as it is.
ToldBy(i, v) ==
    IsAnswered(i) => LET reply == Answer(i)
                     IN  IF reply.ok THEN reply.status = v.status /\ reply.track = v.track /\ reply.pos = v.pos
                         ELSE v.on = "gone"

\* What is held of a player is held after an answer of its own.
LEMMA ReplyHolds ==
    ASSUME NEW K, NEW acc \in PlayerAccs(K), NEW i \in 1 .. Len(pending), pending \in Seq(Requests(K)),
           NEW new, ReplyTo(K, acc, i, new),
           NEW p, NEW v, p = pending[i].who => ToldBy(i, v), NEW P, IsAnswered(i) \/ pending[i] \in P,
           Held(p, v, acc.m, {}, {pending[i]} \cup P \cup ToSet(acc.asks))
    PROVE  Held(p, v, new.m, {}, P \cup ToSet(new.asks))
  <1>1. ToSet(acc.asks) \subseteq ToSet(new.asks)
    BY DEF ReplyTo
  <1>2. PICK q : q = pending[i]
    OBVIOUS
  <1>3. PICK A : A = {q} \cup P \cup ToSet(acc.asks)
    OBVIOUS
  <1>4. PICK B : B = P \cup ToSet(new.asks)
    OBVIOUS
  <1>5. A \subseteq {q} \cup B /\ Held(p, v, acc.m, {}, A)
    BY <1>1, <1>2, <1>3, <1>4
  <1>6. q = Request(q.what, q.who) /\ q.what \in {"all", "position"}
    <2>1. q \in Requests(K)
      BY <1>2
    <2> QED
      BY <2>1 DEF Requests, Request
  <1>7. CASE p # q.who
    <2>1. \A e : Entry(new.m, p, e) <=> Entry(acc.m, p, e)
      BY <1>2, <1>7 DEF ReplyTo
    <2>2. \A what : Request(what, p) # q
      BY <1>7 DEF Request
    <2>3. Held(p, v, acc.m, {}, B)
      BY <1>5, <2>2 DEF Held, StateHeld
    <2> QED
      BY <1>4, <2>1, <2>3, HeldByEntry
  <1>8. CASE p = q.who /\ ~IsAnswered(i)
    <2>1. new = acc /\ A \subseteq B
      BY <1>1, <1>2, <1>3, <1>4, <1>8 DEF ReplyTo
    <2>2. Held(p, v, acc.m, {}, B)
      BY <1>5, <2>1 DEF Held, StateHeld
    <2> QED
      BY <1>4, <2>1, <2>2
  <1>9. CASE p = q.who /\ IsAnswered(i) /\ ~Answer(i).ok
    <2>1. new = acc /\ v.on = "gone"
      BY <1>2, <1>9 DEF ReplyTo, ToldBy
    <2>2. Held(p, v, acc.m, {}, B)
      BY <1>5, <2>1 DEF Held, StateHeld
    <2> QED
      BY <1>4, <2>1, <2>2
  <1>10. CASE p = q.who /\ IsAnswered(i) /\ Answer(i).ok
    <2>1. Answer(i).status = v.status /\ Answer(i).track = v.track /\ Answer(i).pos = v.pos
      BY <1>2, <1>10 DEF ToldBy
    <2>2. \A e : Entry(new.m, p, e) =>
             \E old : /\ Entry(acc.m, p, old) /\ e.named = old.named
                      /\ q.what = "position" => PosFor(v.pos, old, e)
                      /\ q.what # "position" =>
                            e.status = v.status /\ e.track = v.track /\ Request("position", p) \in B
      BY <1>2, <1>4, <1>10, <2>1 DEF ReplyTo
    <2>3. NamesHeld(p, v, acc.m, {}) /\ ListHeld(p, v, acc.m, {}) /\ StateHeld(p, v, acc.m, {}, A)
      BY <1>5 DEF Held
    <2>4. NamesHeld(p, v, new.m, {})
      BY <2>2, <2>3 DEF NamesHeld
    <2>5. ListHeld(p, v, new.m, {})
      <3>1. (\E e : Entry(acc.m, p, e)) => (\E e : Entry(new.m, p, e))
        BY <1>2, <1>10 DEF ReplyTo
      <3> QED
        BY <2>3, <3>1 DEF ListHeld
    <2>6. StateHeld(p, v, new.m, {}, B)
      <3>1. ASSUME v.on \in {"here", "named"}, NEW e, Entry(new.m, p, e)
            PROVE  /\ StatusSo(p, v, e.status, {}) \/ Request("all", p) \in B
                   /\ TrackSo(p, v, e.track, {}) \/ Request("all", p) \in B
                   /\ PosSo(p, v, e.pos, {}) \/ Request("all", p) \in B \/ Request("position", p) \in B
        <4>1. PICK old : /\ Entry(acc.m, p, old) /\ e.named = old.named
                         /\ q.what = "position" => PosFor(v.pos, old, e)
                         /\ q.what # "position" =>
                               e.status = v.status /\ e.track = v.track /\ Request("position", p) \in B
          BY <2>2, <3>1
        <4>2. CASE q.what = "position"
          <5>1. Request("all", p) # q
            BY <4>2 DEF Request
          <5>2. /\ StatusSo(p, v, old.status, {}) \/ Request("all", p) \in A
                /\ TrackSo(p, v, old.track, {}) \/ Request("all", p) \in A
            BY <2>3, <3>1, <4>1 DEF StateHeld
          <5>3. Request("all", p) \in A => Request("all", p) \in B
            BY <1>5, <5>1
          <5>4. e.status = old.status /\ e.track = old.track /\ e.pos = v.pos
            BY <4>1, <4>2 DEF PosFor
          <5> QED
            BY <5>2, <5>3, <5>4 DEF PosSo
        <4>3. CASE q.what # "position"
          BY <4>1, <4>3 DEF StatusSo, TrackSo
        <4> QED
          BY <4>2, <4>3
      <3> QED
        BY <3>1 DEF StateHeld
    <2> QED
      BY <1>4, <2>4, <2>5, <2>6 DEF Held
  <1> QED
    BY <1>7, <1>8, <1>9, <1>10

-----------------------------------------------------------------------------
\* All signals of a wake-up.
LEMMA SignalsHeard ==
    ASSUME NEW K, NEW w, NEW m \in Seq(Entries(K)), OneEntry(m), NEW s \in Seq(PlayerSignals(K)), NEW P,
           NEW heard, heard = FoldLeft(OnMprisSignal, [m |-> m, asks |-> <<>>], s)
    PROVE  /\ heard \in PlayerAccs(K)
           /\ AllSo(s, w) /\ (\A p \in Players : Held(p, w[p], m, Rest(s, 0), P))
                => \A p \in Players : Held(p, w[p], heard.m, {}, P \cup ToSet(heard.asks))
  <1>1. PICK base : base = [m |-> m, asks |-> <<>>]
    OBVIOUS
  <1>2. base \in PlayerAccs(K) /\ base.m = m /\ base.asks = <<>>
    <2>1. <<>> \in Seq(Requests(K))
      OBVIOUS
    <2> QED
      BY <1>1, <2>1 DEF PlayerAccs
  <1>3. PICK run \in [0 .. Len(s) -> PlayerAccs(K)] :
              /\ run[0] = base /\ run[Len(s)] = heard
              /\ \A n \in 1 .. Len(s) : run[n] = OnMprisSignal(run[n - 1], s[n])
    <2>1. heard = FoldLeft(OnMprisSignal, base, s)
      BY <1>1
    <2>2. PlayersRan(K, base, s, heard)
      BY <1>2, <2>1, PlayersRun
    <2> QED
      BY <2>2 DEF PlayersRan
  <1>4. Len(s) \in Nat /\ 0 \in 0 .. Len(s) /\ Len(s) \in 0 .. Len(s)
        /\ \A n \in 1 .. Len(s) : s[n] \in PlayerSignals(K) /\ n \in 0 .. Len(s) /\ n - 1 \in 0 .. Len(s)
    OBVIOUS
  <1>5. heard \in PlayerAccs(K)
    BY <1>3, <1>4
  <1>6. ASSUME AllSo(s, w), \A p \in Players : Held(p, w[p], m, Rest(s, 0), P)
        PROVE  \A p \in Players : Held(p, w[p], heard.m, {}, P \cup ToSet(heard.asks))
    <2>1. PICK G : G = {n \in 0 .. Len(s) :
                           \A p \in Players : Held(p, w[p], run[n].m, Rest(s, n), P \cup ToSet(run[n].asks))}
      OBVIOUS
    <2>2. 0 \in G
      BY <1>2, <1>3, <1>4, <1>6, <2>1, ToSetOne
    <2>3. ASSUME NEW n \in 1 .. Len(s), n - 1 \in G
          PROVE  n \in G
      <3>1. PICK acc \in PlayerAccs(K) : acc = run[n - 1]
        BY <1>3, <1>4
      <3>2. PICK sig \in PlayerSignals(K) : sig = s[n]
        BY <1>4
      <3>3. PICK new : new = run[n]
        OBVIOUS
      <3>4. SignalTo(K, acc, sig, new)
        <4>1. new = OnMprisSignal(acc, sig)
          BY <1>3, <3>1, <3>2, <3>3
        <4> QED
          BY <4>1, SignalLemma
      <3>5. PICK R : R = Rest(s, n)
        OBVIOUS
      <3>6. Rest(s, n - 1) = R \cup {sig}
        BY <3>2, <3>5, RestFacts
      <3>7. MsgSo(sig, w[sig.who], R)
        BY <1>6, <3>2, <3>5 DEF AllSo
      <3>8. ASSUME NEW p \in Players
            PROVE  Held(p, w[p], new.m, R, P \cup ToSet(new.asks))
        <4>1. Held(p, w[p], acc.m, R \cup {sig}, P \cup ToSet(acc.asks))
          BY <2>1, <2>3, <3>1, <3>6
        <4>2. PICK v : v = w[p]
          OBVIOUS
        <4>3. (p = sig.who => MsgSo(sig, v, R)) /\ Held(p, v, acc.m, R \cup {sig}, P \cup ToSet(acc.asks))
          BY <3>7, <4>1, <4>2
        <4> QED
          BY <3>4, <4>2, <4>3, SignalHolds
      <3> QED
        BY <1>4, <2>1, <3>3, <3>5, <3>8
    <2>4. G = 0 .. Len(s)
      <3>1. G \in SUBSET (0 .. Len(s))
        BY <2>1
      <3> QED
        BY <1>4, <2>2, <2>3, <3>1, Induction
    <2>5. Rest(s, Len(s)) = {}
      BY RestFacts
    <2> QED
      BY <1>3, <1>4, <2>1, <2>4, <2>5
  <1> QED
    BY <1>5, <1>6

\* All replies of a wake-up.  What is not answered stays to be asked.
Unanswered == {pending[i] : i \in {k \in 1 .. Len(pending) : ~IsAnswered(k)}}
\* What is held of all players is held after all answers.
LEMMA RepliesHeard ==
    ASSUME NEW K, pending \in Seq(Requests(K)), NEW w,
           \A i \in 1 .. Len(pending) : IsAnswered(i) => Answer(i) \in PlayerReplies(K),
           NEW heard \in PlayerAccs(K),
           NEW after, after = FoldLeft(OnMprisReply, heard, [i \in DOMAIN pending |-> i])
    PROVE  /\ after \in PlayerAccs(K)
           /\ /\ \A i \in 1 .. Len(pending) : ToldBy(i, w[pending[i].who])
              /\ \A p \in Players : Held(p, w[p], heard.m, {}, ToSet(pending) \cup ToSet(heard.asks))
              => \A p \in Players : Held(p, w[p], after.m, {}, Unanswered \cup ToSet(after.asks))
  <1>1. PICK I : I = 1 .. Len(pending)
    OBVIOUS
  <1>2. PICK s : s = [i \in DOMAIN pending |-> i]
    OBVIOUS
  <1>3. Len(pending) \in Nat /\ DOMAIN pending = 1 .. Len(pending)
    OBVIOUS
  <1>4. s \in Seq(I) /\ Len(s) = Len(pending) /\ \A n \in 1 .. Len(pending) : s[n] = n
    BY <1>1, <1>2, <1>3
  <1>5. PICK run \in [0 .. Len(s) -> PlayerAccs(K)] :
              /\ run[0] = heard /\ run[Len(s)] = after
              /\ \A n \in 1 .. Len(s) : run[n] = OnMprisReply(run[n - 1], s[n])
    <2>1. after = FoldLeft(OnMprisReply, heard, s)
      BY <1>2
    <2>2. RepliesRan(K, heard, s, after)
      BY <1>1, <1>4, <2>1, RepliesRun
    <2> QED
      BY <2>2 DEF RepliesRan
  <1>6. PICK N \in Nat : N = Len(pending)
    BY <1>3
  <1>7. /\ run \in [0 .. N -> PlayerAccs(K)] /\ run[0] = heard /\ run[N] = after
        /\ \A n \in 1 .. N : run[n] = OnMprisReply(run[n - 1], n)
    BY <1>4, <1>5, <1>6
  <1>8. 0 \in 0 .. N /\ N \in 0 .. N /\ \A n \in 1 .. N : n \in 0 .. N /\ n - 1 \in 0 .. N
    BY <1>6
  <1>9. after \in PlayerAccs(K)
    BY <1>7, <1>8
  <1>10. ASSUME \A i \in 1 .. Len(pending) : ToldBy(i, w[pending[i].who]),
                \A p \in Players : Held(p, w[p], heard.m, {}, ToSet(pending) \cup ToSet(heard.asks))
         PROVE  \A p \in Players : Held(p, w[p], after.m, {}, Unanswered \cup ToSet(after.asks))
    <2>0. PICK U : U = Unanswered
      OBVIOUS
    <2>1. PICK G : G = {n \in 0 .. N : \A p \in Players :
                           Held(p, w[p], run[n].m, {}, Rest(pending, n) \cup U \cup ToSet(run[n].asks))}
      OBVIOUS
    <2>2. 0 \in G
      <3>1. ToSet(pending) = Rest(pending, 0)
        BY <1>3 DEF ToSet, Rest
      <3>2. PICK A : A = ToSet(pending) \cup ToSet(heard.asks)
        OBVIOUS
      <3>3. PICK B : B = Rest(pending, 0) \cup U \cup ToSet(heard.asks)
        OBVIOUS
      <3>4. A \subseteq B
        BY <3>1, <3>2, <3>3
      <3>5. \A p : Grows(p, {}, {})
        BY DEF Grows
      <3>6. \A p \in Players : Held(p, w[p], heard.m, {}, B)
        BY <1>10, <3>2, <3>4, <3>5, CarriesOn
      <3> QED
        BY <1>7, <1>8, <2>1, <3>3, <3>6
    <2>3. ASSUME NEW n \in 1 .. N, n - 1 \in G
          PROVE  n \in G
      <3>1. PICK acc \in PlayerAccs(K) : acc = run[n - 1]
        BY <1>7, <1>8
      <3>2. PICK new : new = run[n]
        OBVIOUS
      <3>3. n \in 1 .. Len(pending)
        BY <1>6
      <3>4. ReplyTo(K, acc, n, new)
        <4>1. new = OnMprisReply(acc, n)
          BY <1>7, <3>1, <3>2
        <4>2. IsAnswered(n) => Answer(n) \in PlayerReplies(K)
          BY <3>3
        <4> QED
          BY <3>3, <4>1, <4>2, ReplyLemma
      <3>5. PICK P : P = Rest(pending, n) \cup U
        OBVIOUS
      <3>6. Rest(pending, n - 1) = Rest(pending, n) \cup {pending[n]}
        BY <3>3, RestFacts
      <3>7. IsAnswered(n) \/ pending[n] \in P
        BY <2>0, <3>3, <3>5 DEF Unanswered
      <3>8. ASSUME NEW p \in Players
            PROVE  Held(p, w[p], new.m, {}, P \cup ToSet(new.asks))
        <4>1. Held(p, w[p], acc.m, {}, Rest(pending, n - 1) \cup U \cup ToSet(acc.asks))
          BY <2>1, <2>3, <3>1
        <4>2. Rest(pending, n - 1) \cup U \cup ToSet(acc.asks) = {pending[n]} \cup P \cup ToSet(acc.asks)
          BY <3>5, <3>6
        <4>3. PICK v : v = w[p]
          OBVIOUS
        <4>4. Held(p, v, acc.m, {}, {pending[n]} \cup P \cup ToSet(acc.asks))
          BY <4>1, <4>2, <4>3
        <4>5. p = pending[n].who => ToldBy(n, v)
          BY <1>10, <3>3, <4>3
        <4>6. Held(p, v, new.m, {}, P \cup ToSet(new.asks))
          BY <3>3, <3>4, <3>7, <4>4, <4>5, ReplyHolds
        <4> QED
          BY <4>3, <4>6
      <3> QED
        BY <1>8, <2>1, <3>2, <3>5, <3>8
    <2>4. G = 0 .. N
      <3>1. G \in SUBSET (0 .. N)
        BY <2>1
      <3>2. N \in Nat /\ 0 \in G
        BY <2>2
      <3>3. \A n \in 1 .. N : n - 1 \in G => n \in G
        BY <2>3
      <3> QED
        BY <3>1, <3>2, <3>3, Induction
    <2>5. Rest(pending, N) = {}
      BY <1>6, RestFacts
    <2>6. ASSUME NEW p \in Players
          PROVE  Held(p, w[p], after.m, {}, U \cup ToSet(after.asks))
      <3>1. Held(p, w[p], run[N].m, {}, Rest(pending, N) \cup U \cup ToSet(run[N].asks))
        BY <1>8, <2>1, <2>4
      <3>2. Rest(pending, N) \cup U \cup ToSet(run[N].asks) = U \cup ToSet(after.asks)
        BY <1>7, <2>5
      <3> QED
        BY <1>7, <3>1, <3>2
    <2> QED
      BY <2>0, <2>6
  <1> QED
    BY <1>9, <1>10

\* A wake-up: the signals, then the replies.
LEMMA PlayerMsgFacts ==
    ASSUME NEW K, NEW s \in Seq(PlayerMsgs(K))
    PROVE  /\ \A i \in 1 .. Len(s) : s[i].kind \in {"signal", "reply"}
           /\ Signals(s) \in Seq(PlayerSignals(K)) /\ Replies(s) \in Seq(PlayerReplies(K))
  <1>1. \A msg \in PlayerMsgs(K) : /\ msg.kind \in {"signal", "reply"}
                                   /\ msg.kind = "signal" => msg \in PlayerSignals(K)
                                   /\ msg.kind = "reply" => msg \in PlayerReplies(K)
    BY DEF PlayerMsgs, PlayerSignals, OwnerMsgs, PropsMsgs, SeekMsgs, PlayerReplies
  <1>2. \A i \in 1 .. Len(s) : s[i] \in PlayerMsgs(K)
    OBVIOUS
  <1>3. ASSUME NEW kind
        PROVE  /\ OfKind(s, kind) \in Seq(PlayerMsgs(K))
               /\ \A n \in 1 .. Len(OfKind(s, kind)) : /\ OfKind(s, kind)[n].kind = kind
                                                       /\ OfKind(s, kind)[n] \in PlayerMsgs(K)
    <2>1. PICK kept : kept = {msg \in ToSet(s) : msg.kind = kind}
      OBVIOUS
    <2>2. PICK t : t = Retain(s, kept)
      OBVIOUS
    <2>3. /\ t \in Seq(PlayerMsgs(K))
          /\ \A f : (\E n \in 1 .. Len(t) : t[n] = f) <=> f \in kept /\ \E i \in 1 .. Len(s) : s[i] = f
      BY <2>2, RetainLemma
    <2>4. \A n \in 1 .. Len(t) : t[n] \in kept /\ t[n] \in PlayerMsgs(K)
      BY <2>3
    <2>5. t = OfKind(s, kind)
      BY <2>1, <2>2 DEF OfKind
    <2> QED
      BY <2>1, <2>3, <2>4, <2>5
  <1>4. Signals(s) \in Seq(PlayerSignals(K))
    <2>1. PICK g : g = OfKind(s, "signal")
      OBVIOUS
    <2>2. g \in Seq(PlayerMsgs(K)) /\ \A n \in 1 .. Len(g) : g[n] \in PlayerSignals(K)
      BY <1>1, <1>3, <2>1
    <2> QED
      BY <2>1, <2>2 DEF Signals
  <1>5. Replies(s) \in Seq(PlayerReplies(K))
    <2>1. PICK g : g = OfKind(s, "reply")
      OBVIOUS
    <2>2. g \in Seq(PlayerMsgs(K)) /\ \A n \in 1 .. Len(g) : g[n] \in PlayerReplies(K)
      BY <1>1, <1>3, <2>1
    <2> QED
      BY <2>1, <2>2 DEF Replies
  <1> QED
    BY <1>1, <1>2, <1>4, <1>5

\* In order, signals are followed by what follows them in the batch, and replies by nothing.
LEMMA PlayersInOrder ==
    ASSUME NEW K, NEW s \in Seq(PlayerMsgs(K)), ~Overtakes(s), NEW w, AllSo(s, w)
    PROVE  /\ AllSo(Signals(s), w)
           /\ \A msg \in Rest(s, 0) : msg.kind = "signal" => msg \in Rest(Signals(s), 0)
           /\ \A j \in 1 .. Len(Replies(s)) : MsgSo(Replies(s)[j], w[Replies(s)[j].who], {})
  <1>1. PICK g \in Seq(PlayerSignals(K)) : g = Signals(s)
    BY PlayerMsgFacts
  <1>2. PICK r \in Seq(PlayerReplies(K)) : r = Replies(s)
    BY PlayerMsgFacts
  <1>3. g \o r = s
    BY <1>1, <1>2, PlayerMsgFacts, InOrder
  <1>4. Len(g) \in Nat /\ Len(r) \in Nat /\ Len(s) = Len(g) + Len(r)
        /\ \A i \in 1 .. Len(s) : s[i] = IF i <= Len(g) THEN g[i] ELSE r[i - Len(g)]
    <2>1. g \in Seq(PlayerMsgs(K)) /\ r \in Seq(PlayerMsgs(K))
      BY DEF PlayerMsgs
    <2> QED
      BY <1>3, <2>1, ConcatProperties
  <1>5. PICK a \in Nat : a = Len(g)
    BY <1>4
  <1>6. PICK b \in Nat : b = Len(r)
    BY <1>4
  <1>7. /\ Len(s) = a + b
        /\ \A i \in 1 .. a : s[i] = g[i]
        /\ \A j \in 1 .. b : s[a + j] = r[j]
        /\ \A j \in 1 .. b : r[j].kind = "reply"
        /\ \A i \in 1 .. a + b : ~(i <= a) => s[i].kind = "reply"
    <2>1. \A i \in 1 .. a : s[i] = g[i]
      BY <1>4, <1>5, <1>6
    <2>2. ASSUME NEW j \in 1 .. b
          PROVE  s[a + j] = r[j]
      <3>1. a + j \in 1 .. a + b /\ ~(a + j <= a) /\ (a + j) - a = j
        OBVIOUS
      <3> QED
        BY <1>4, <1>5, <1>6, <3>1
    <2>3. \A j \in 1 .. b : r[j].kind = "reply"
      <3>1. \A msg \in PlayerReplies(K) : msg.kind = "reply"
        BY DEF PlayerReplies
      <3>2. \A j \in 1 .. b : r[j] \in PlayerReplies(K)
        BY <1>6
      <3> QED
        BY <3>1, <3>2
    <2>4. ASSUME NEW i \in 1 .. a + b, ~(i <= a)
          PROVE  s[i].kind = "reply"
      <3>1. i - a \in 1 .. b
        BY <2>4
      <3> QED
        BY <1>4, <1>5, <1>6, <2>3, <2>4, <3>1
    <2> QED
      BY <1>4, <1>5, <1>6, <2>1, <2>2, <2>3, <2>4
  <1>8. ASSUME NEW j \in 0 .. a, NEW msg \in Rest(s, j), msg.kind = "signal"
        PROVE  msg \in Rest(g, j)
    <2>1. PICK m \in j + 1 .. a + b : s[m] = msg
      BY <1>7, <1>8 DEF Rest
    <2>2. m \in 1 .. a + b /\ m <= a
      BY <1>7, <1>8, <2>1
    <2>3. m \in j + 1 .. Len(g) /\ g[m] = msg
      BY <1>5, <1>7, <2>1, <2>2
    <2> QED
      BY <2>3 DEF Rest
  <1>9. AllSo(g, w)
    <2>1. ASSUME NEW j \in 1 .. a
          PROVE  MsgSo(g[j], w[g[j].who], Rest(g, j))
      <3>1. j \in 1 .. Len(s) /\ s[j] = g[j] /\ j \in 0 .. a
        BY <1>7
      <3>2. PICK R : R = Rest(s, j)
        OBVIOUS
      <3>3. PICK N : N = Rest(g, j)
        OBVIOUS
      <3>4. \A p : Grows(p, R, N)
        BY <1>8, <3>1, <3>2, <3>3, SignalsGrow
      <3>5. PICK msg : msg = g[j]
        OBVIOUS
      <3>6. PICK v : v = w[msg.who]
        OBVIOUS
      <3>7. MsgSo(msg, v, R)
        BY <3>1, <3>2, <3>5, <3>6 DEF AllSo
      <3>8. MsgSo(msg, v, N)
        BY <3>4, <3>7, CarriesOn
      <3> QED
        BY <3>3, <3>5, <3>6, <3>8
    <2> QED
      BY <1>5, <2>1 DEF AllSo
  <1>10. \A msg \in Rest(s, 0) : msg.kind = "signal" => msg \in Rest(g, 0)
    <2>1. 0 \in 0 .. a
      OBVIOUS
    <2> QED
      BY <1>8, <2>1
  <1>11. ASSUME NEW j \in 1 .. b
         PROVE  MsgSo(r[j], w[r[j].who], {})
    <2>1. a + j \in 1 .. Len(s) /\ s[a + j] = r[j]
      BY <1>7
    <2>2. PICK R : R = Rest(s, a + j)
      OBVIOUS
    <2>3. \A msg \in R : msg.kind # "signal"
      <3>1. ASSUME NEW msg \in R
            PROVE  msg.kind = "reply"
        <4>1. PICK m \in (a + j) + 1 .. a + b : s[m] = msg
          BY <1>7, <2>2 DEF Rest
        <4>2. m \in 1 .. a + b /\ ~(m <= a)
          BY <4>1
        <4> QED
          BY <1>7, <4>1, <4>2
      <3> QED
        BY <3>1
    <2>4. \A p : Grows(p, R, {})
      BY <2>3, SignalsGrow
    <2>5. PICK msg : msg = r[j]
      OBVIOUS
    <2>6. PICK v : v = w[msg.who]
      OBVIOUS
    <2>7. MsgSo(msg, v, R)
      BY <2>1, <2>2, <2>5, <2>6 DEF AllSo
    <2>8. MsgSo(msg, v, {})
      BY <2>4, <2>7, CarriesOn
    <2> QED
      BY <2>5, <2>6, <2>8
  <1> QED
    BY <1>1, <1>2, <1>6, <1>9, <1>10, <1>11

\* A wake-up that handles the messages in their order keeps what is held.
LEMMA WakePlayers ==
    ASSUME NEW K, Batch \in Seq(PlayerMsgs(K)), pending \in Seq(Requests(K)), NEW w,
           model \in Seq(Entries(K)), OneEntry(model),
           NEW heard, heard = FoldLeft(OnMprisSignal, [m |-> model, asks |-> <<>>], Signals(Batch)),
           NEW after, after = FoldLeft(OnMprisReply, heard, [i \in DOMAIN pending |-> i])
    PROVE  /\ after \in PlayerAccs(K)
           /\ /\ AllSo(Batch, w) /\ ~Overtakes(Batch)
              /\ \A p \in Players : Held(p, w[p], model, Rest(Batch, 0), ToSet(pending))
              => \A p \in Players : Held(p, w[p], after.m, {}, Unanswered \cup ToSet(after.asks))
  <1>1. PICK s \in Seq(PlayerMsgs(K)) : s = Batch
    OBVIOUS
  <1>2. PICK g \in Seq(PlayerSignals(K)) : g = Signals(s)
    BY PlayerMsgFacts
  <1>3. PICK r \in Seq(PlayerReplies(K)) : r = Replies(s)
    BY PlayerMsgFacts
  <1>4. PICK m \in Seq(Entries(K)) : m = model /\ OneEntry(m)
    OBVIOUS
  <1>5. heard = FoldLeft(OnMprisSignal, [m |-> m, asks |-> <<>>], g)
    BY <1>1, <1>2, <1>4
  <1>6. heard \in PlayerAccs(K)
    BY <1>4, <1>5, SignalsHeard
  <1>7. /\ Len(pending) \in Nat /\ DOMAIN pending = 1 .. Len(pending)
        /\ \A i \in 1 .. Len(pending) : pending[i] \in Requests(K)
    OBVIOUS
  <1>8. ASSUME NEW i \in 1 .. Len(pending), IsAnswered(i)
        PROVE  /\ Answer(i).who = pending[i].who
               /\ \E j \in 1 .. Len(r) : r[j] = Answer(i)
    BY <1>1, <1>3, <1>7, <1>8, AnswerFound
  <1>9. \A i \in 1 .. Len(pending) : IsAnswered(i) => Answer(i) \in PlayerReplies(K)
    <2>1. \A j \in 1 .. Len(r) : r[j] \in PlayerReplies(K)
      OBVIOUS
    <2> QED
      BY <1>8, <2>1
  <1>10. after \in PlayerAccs(K)
    BY <1>6, <1>9, RepliesHeard
  <1>11. ASSUME AllSo(s, w), ~Overtakes(s), \A p \in Players : Held(p, w[p], m, Rest(s, 0), ToSet(pending))
         PROVE  \A p \in Players : Held(p, w[p], after.m, {}, Unanswered \cup ToSet(after.asks))
    <2>1. /\ AllSo(g, w)
          /\ \A msg \in Rest(s, 0) : msg.kind = "signal" => msg \in Rest(g, 0)
          /\ \A j \in 1 .. Len(r) : MsgSo(r[j], w[r[j].who], {})
      BY <1>2, <1>3, <1>11, PlayersInOrder
    <2>2. PICK R : R = Rest(s, 0)
      OBVIOUS
    <2>3. PICK N : N = Rest(g, 0)
      OBVIOUS
    <2>4. PICK P : P = ToSet(pending)
      OBVIOUS
    <2>5. \A p : Grows(p, R, N)
      BY <2>1, <2>2, <2>3, SignalsGrow
    <2>6. \A p \in Players : Held(p, w[p], m, N, P)
      <3>1. ASSUME NEW p \in Players
            PROVE  Held(p, w[p], m, N, P)
        <4>1. PICK v : v = w[p]
          OBVIOUS
        <4>2. Held(p, v, m, R, P) /\ P \subseteq P /\ Grows(p, R, N)
          BY <1>11, <2>2, <2>4, <2>5, <4>1
        <4>3. Held(p, v, m, N, P)
          BY <4>2, CarriesOn
        <4> QED
          BY <4>1, <4>3
      <3> QED
        BY <3>1
    <2>7. \A p \in Players : Held(p, w[p], heard.m, {}, P \cup ToSet(heard.asks))
      BY <1>4, <1>5, <2>1, <2>3, <2>6, SignalsHeard
    <2>8. ASSUME NEW i \in 1 .. Len(pending)
          PROVE  ToldBy(i, w[pending[i].who])
      <3>1. ASSUME IsAnswered(i)
            PROVE  IF Answer(i).ok THEN /\ Answer(i).status = w[pending[i].who].status
                                        /\ Answer(i).track = w[pending[i].who].track
                                        /\ Answer(i).pos = w[pending[i].who].pos
                   ELSE w[pending[i].who].on = "gone"
        <4>1. PICK j \in 1 .. Len(r) : r[j] = Answer(i) /\ Answer(i).who = pending[i].who
          BY <1>8, <3>1
        <4>2. PICK reply \in PlayerReplies(K) : reply = r[j]
          OBVIOUS
        <4>3. PICK v : v = w[reply.who]
          OBVIOUS
        <4>4. MsgSo(reply, v, {}) /\ reply.kind = "reply"
          BY <2>1, <4>2, <4>3 DEF PlayerReplies
        <4>5. ReplySo(reply, v, {})
          BY <4>4 DEF MsgSo
        <4>6. /\ ~reply.ok => v.on = "gone"
              /\ reply.status = v.status /\ reply.track = v.track /\ reply.pos = v.pos
          BY <4>5 DEF ReplySo, StatusSo, TrackSo, PosSo, StatusIn, TrackIn, SeekIn
        <4> QED
          BY <4>1, <4>2, <4>3, <4>6
      <3> QED
        BY <3>1 DEF ToldBy
    <2> QED
      BY <1>6, <1>9, <2>4, <2>7, <2>8, RepliesHeard
  <1> QED
    BY <1>1, <1>4, <1>10, <1>11

-----------------------------------------------------------------------------
\* What happens to a player.
LEMMA SeqGrows ==
    ASSUME NEW A, NEW B, A \subseteq B
    PROVE  Seq(A) \subseteq Seq(B)
  <1>1. ASSUME NEW s \in Seq(A)
        PROVE  s \in Seq(B)
    <2>1. Len(s) \in Nat /\ s \in [1 .. Len(s) -> B]
      OBVIOUS
    <2> QED
      BY <2>1
  <1> QED
    BY <1>1

\* What is known of some players is known of more.
LEMMA TypesGrow ==
    ASSUME NEW K, NEW L, K \subseteq L
    PROVE  /\ Seq(Entries(K)) \subseteq Seq(Entries(L))
           /\ Seq(Requests(K)) \subseteq Seq(Requests(L))
           /\ Seq(PlayerMsgs(K)) \subseteq Seq(PlayerMsgs(L))
  <1>1. Entries(K) \subseteq Entries(L)
    BY DEF Entries
  <1>2. Requests(K) \subseteq Requests(L)
    BY DEF Requests
  <1>3. PlayerMsgs(K) \subseteq PlayerMsgs(L)
    <2>1. OwnerMsgs(K) \subseteq OwnerMsgs(L)
      BY DEF OwnerMsgs
    <2>2. PropsMsgs(K) \subseteq PropsMsgs(L)
      BY DEF PropsMsgs
    <2>3. SeekMsgs(K) \subseteq SeekMsgs(L)
      BY DEF SeekMsgs
    <2>4. PlayerReplies(K) \subseteq PlayerReplies(L)
      BY DEF PlayerReplies
    <2> QED
      BY <2>1, <2>2, <2>3, <2>4 DEF PlayerMsgs, PlayerSignals
  <1> QED
    BY <1>1, <1>2, <1>3, SeqGrows

\* A player that comes is known, and so are those before it.
LEMMA KnownGrows ==
    ASSUME world \in [Players -> PlayerStates], NEW p \in Players, NEW u \in PlayerStates, u.on # "off",
           world' = [world EXCEPT ![p] = u]
    PROVE  world' \in [Players -> PlayerStates] /\ Known \subseteq Known' /\ p \in Known'
  BY DEF Known

\* What is said of a player that turns from v to u stays so, if it is told.
LEMMA TurnsSo ==
    ASSUME NEW K, K \subseteq Players, NEW s \in Seq(PlayerMsgs(K)), NEW w \in [Players -> PlayerStates],
           NEW p \in Players, NEW u, NEW z, z = [w EXCEPT ![p] = u], AllSo(s, w)
    PROVE  /\ (\A R : Turned(p, w[p], u, R)) => AllSo(s, z)
           /\ \A x \in PlayerMsgs(K) :
                 (\A R : Turned(p, w[p], u, R \cup {x})) /\ x.who = p /\ MsgSo(x, u, {}) => AllSo(Append(s, x), z)
  <1>1. \A msg \in PlayerMsgs(K) : msg.who \in Players
    BY DEF PlayerMsgs, PlayerSignals, OwnerMsgs, PropsMsgs, SeekMsgs, PlayerReplies
  <1>2. \A q \in Players : z[q] = IF q = p THEN u ELSE w[q]
    OBVIOUS
  <1>3. PICK v : v = w[p]
    OBVIOUS
  <1>4. \A j \in 1 .. Len(s) : s[j] \in PlayerMsgs(K) /\ s[j].who \in Players
    BY <1>1
  <1>5. ASSUME \A R : Turned(p, w[p], u, R)
        PROVE  AllSo(s, z)
    <2>1. ASSUME NEW j \in 1 .. Len(s)
          PROVE  MsgSo(s[j], z[s[j].who], Rest(s, j))
      <3>1. PICK x, R : x = s[j] /\ R = Rest(s, j)
        OBVIOUS
      <3>2. MsgSo(x, w[x.who], R) /\ x.who \in Players
        BY <1>4, <3>1 DEF AllSo
      <3>3. Grows(p, R, R) /\ Turned(p, v, u, R)
        BY <1>3, <1>5 DEF Grows
      <3>4. x.who = p => MsgSo(x, u, R)
        <4>1. \A msg : msg.who = p /\ MsgSo(msg, v, R) => MsgSo(msg, u, R)
          BY <3>3, Carries
        <4> QED
          BY <1>3, <3>2, <4>1
      <3> QED
        BY <1>2, <3>1, <3>2, <3>4
    <2> QED
      BY <2>1 DEF AllSo
  <1>6. ASSUME NEW x \in PlayerMsgs(K), \A R : Turned(p, w[p], u, R \cup {x}), x.who = p, MsgSo(x, u, {})
        PROVE  AllSo(Append(s, x), z)
    <2>1. PICK t : t = Append(s, x)
      OBVIOUS
    <2>2. /\ Len(t) = Len(s) + 1 /\ Len(s) \in Nat /\ t[Len(s) + 1] = x
          /\ \A i \in 1 .. Len(s) : i \in 1 .. Len(s) + 1 /\ t[i] = s[i]
          /\ \A i \in 1 .. Len(s) + 1 : i \in 1 .. Len(s) \/ i = Len(s) + 1
      BY <2>1, AppendFacts
    <2>3. /\ \A j \in 0 .. Len(s) : Rest(t, j) = Rest(s, j) \cup {x}
          /\ Rest(t, Len(s) + 1) = {}
      BY <2>1, RestFacts
    <2>4. ASSUME NEW j \in 1 .. Len(s)
          PROVE  MsgSo(t[j], z[t[j].who], Rest(t, j))
      <3>1. PICK y, R, N : y = s[j] /\ R = Rest(s, j) /\ N = R \cup {x}
        OBVIOUS
      <3>2. MsgSo(y, w[y.who], R) /\ y.who \in Players
        BY <1>4, <3>1 DEF AllSo
      <3>3. Grows(p, R, N) /\ Grows(y.who, R, N) /\ Turned(p, v, u, N)
        BY <1>3, <1>6, <3>1, OneMore
      <3>4. y.who = p => MsgSo(y, u, N)
        <4>1. \A msg : msg.who = p /\ MsgSo(msg, v, R) => MsgSo(msg, u, N)
          BY <3>3, Carries
        <4> QED
          BY <1>3, <3>2, <4>1
      <3>5. y.who # p => MsgSo(y, z[y.who], N)
        BY <1>2, <3>2, <3>3, CarriesOn
      <3>6. j \in 0 .. Len(s)
        BY <2>2
      <3> QED
        BY <1>2, <2>2, <2>3, <3>1, <3>2, <3>4, <3>5, <3>6
    <2>5. MsgSo(t[Len(s) + 1], z[t[Len(s) + 1].who], Rest(t, Len(s) + 1))
      BY <1>2, <1>6, <2>2, <2>3
    <2>6. ASSUME NEW j \in 1 .. Len(t)
          PROVE  MsgSo(t[j], z[t[j].who], Rest(t, j))
      BY <2>2, <2>4, <2>5
    <2> QED
      BY <2>1, <2>6 DEF AllSo
  <1> QED
    BY <1>5, <1>6

\* PlayersHeld, of the state it is about.
PlayersSo(w, m, s, P, ph, ro) ==
    /\ ph \in {"matched", "naming", "on"} => AllSo(s, w)
    /\ ph = "naming" => \A p \in Players : /\ NamesHeld(p, w[p], m, Rest(s, 0))
                                           /\ ListHeld(p, w[p], m, Rest(s, 0)) \/ p \in P
    /\ ph = "on" /\ ~ro => \A p \in Players : Held(p, w[p], m, Rest(s, 0), P)

TurnsTo(w, p, u, z, m, s, t, N) ==
    /\ Rest(t, 0) = Rest(s, 0) \cup N /\ \A q : Grows(q, Rest(s, 0), Rest(t, 0))
    /\ \A R : Turned(p, w[p], u, R \cup N)
    /\ u.on \in {"here", "named"} => w[p].on \in {"here", "named"} \/ (\A e : ~Entry(m, p, e))

\* When one player changes and announces it, what is held of all is held still.
LEMMA PlayerTurns ==
    ASSUME NEW w \in [Players -> PlayerStates], NEW p \in Players, NEW u, NEW z, z = [w EXCEPT ![p] = u],
           NEW m, NEW s, NEW t, NEW N, NEW P, NEW ph, NEW ro, PlayersSo(w, m, s, P, ph, ro),
           TurnsTo(w, p, u, z, m, s, t, N),
           ph \in {"matched", "naming", "on"} => AllSo(t, z)
    PROVE  PlayersSo(z, m, t, P, ph, ro)
  <1>1. PICK v : v = w[p]
    OBVIOUS
  <1>2. PICK R, T : R = Rest(s, 0) /\ T = Rest(t, 0)
    OBVIOUS
  <1>3. /\ \A q : Grows(q, R, T)
        /\ Turned(p, v, u, T)
        /\ u.on \in {"here", "named"} => v.on \in {"here", "named"} \/ (\A e : ~Entry(m, p, e))
    BY <1>1, <1>2 DEF TurnsTo
  <1>4. \A q \in Players : z[q] = IF q = p THEN u ELSE w[q]
    OBVIOUS
  <1>5. /\ NamesHeld(p, v, m, R) => NamesHeld(p, u, m, T)
        /\ ListHeld(p, v, m, R) => ListHeld(p, u, m, T)
        /\ StateHeld(p, v, m, R, P) => StateHeld(p, u, m, T, P)
    BY <1>3, Carries
  <1>6. ASSUME NEW q \in Players
        PROVE  /\ NamesHeld(q, w[q], m, R) => NamesHeld(q, z[q], m, T)
               /\ ListHeld(q, w[q], m, R) => ListHeld(q, z[q], m, T)
               /\ Held(q, w[q], m, R, P) => Held(q, z[q], m, T, P)
    <2>1. CASE q = p
      BY <1>1, <1>4, <1>5, <2>1 DEF Held
    <2>2. CASE q # p
      <3>1. PICK y : y = w[q]
        OBVIOUS
      <3>2. Grows(q, R, T) /\ z[q] = y
        BY <1>3, <1>4, <2>2, <3>1
      <3> QED
        BY <3>1, <3>2, CarriesOn
    <2> QED
      BY <2>1, <2>2
  <1>7. ph = "naming" => \A q \in Players : NamesHeld(q, z[q], m, T) /\ (ListHeld(q, z[q], m, T) \/ q \in P)
    BY <1>2, <1>6 DEF PlayersSo
  <1>8. ph = "on" /\ ~ro => \A q \in Players : Held(q, z[q], m, T, P)
    BY <1>2, <1>6 DEF PlayersSo
  <1> QED
    BY <1>2, <1>7, <1>8 DEF PlayersSo

\* What a wake-up handles are messages of players.
LEMMA MprisBatch ==
    ASSUME NEW K, wire \in Seq(PlayerMsgs(K)), held \in Seq(PlayerMsgs(K))
    PROVE  Batch \in Seq(PlayerMsgs(K))
  BY BatchLemma

\* Entries are of players that are known.
LEMMA OfTheKnown ==
    ASSUME NEW K, NEW m \in Seq(Entries(K)), NEW p, NEW e, Entry(m, p, e)
    PROVE  p \in K
  <1>1. e \in Entries(K) /\ e.who = p
    BY DEF Entry
  <1> QED
    BY <1>1 DEF Entries

\* A step of the world by which a player turns.
TurnStep(p, u) ==
    /\ world' = [world EXCEPT ![p] = u]
    /\ UNCHANGED <<held, phase, model, pending, seed, shown, reordered>>

\* A step in which one player changes keeps the invariant.
LEMMA TurnHolds ==
    ASSUME MprisIInv, NEW p \in Players, NEW u \in PlayerStates, u.on # "off", TurnStep(p, u),
           asked' \in Seq(Requests(Known)), wire' \in Seq(PlayerMsgs(Known')),
           phase = "new" => asked' = asked /\ wire' = wire,
           PlayersSo(world', model, Batch', ToSet(pending), phase, reordered)
    PROVE  MprisIInv'
  <1>1. Known \subseteq Known' /\ world' \in [Players -> PlayerStates]
    BY KnownGrows DEF MprisIInv, MprisTyped, TurnStep
  <1>2. MprisTyped'
    <2>1. PICK K, L : K = Known /\ L = Known'
      OBVIOUS
    <2>2. /\ Seq(Entries(K)) \subseteq Seq(Entries(L))
          /\ Seq(Requests(K)) \subseteq Seq(Requests(L))
          /\ Seq(PlayerMsgs(K)) \subseteq Seq(PlayerMsgs(L))
      BY <1>1, <2>1, TypesGrow
    <2>3. /\ model \in Seq(Entries(K)) /\ held \in Seq(PlayerMsgs(K)) /\ asked' \in Seq(Requests(K))
          /\ wire' \in Seq(PlayerMsgs(L))
          /\ phase = "on" => pending \in Seq(Requests(K))
      BY <2>1 DEF MprisIInv, MprisTyped
    <2>4. /\ model' \in Seq(Entries(L)) /\ held' \in Seq(PlayerMsgs(L)) /\ asked' \in Seq(Requests(L))
          /\ wire' \in Seq(PlayerMsgs(L))
          /\ phase' = "on" => pending' \in Seq(Requests(L))
      BY <2>2, <2>3 DEF TurnStep
    <2>5. phase' \in {"new", "matched", "naming", "on", "off"} /\ (phase' = "naming" => pending' \in Seq(Players))
      BY DEF MprisIInv, MprisTyped, TurnStep
    <2> QED
      BY <1>1, <2>1, <2>4, <2>5 DEF MprisTyped
  <1>3. PlayersHeld'
    BY DEF PlayersSo, PlayersHeld, TurnStep
  <1>4. MprisPhases'
    BY DEF MprisIInv, MprisPhases, TurnStep
  <1>5. OneEntry(model')
    BY DEF MprisIInv, TurnStep
  <1> QED
    BY <1>2, <1>3, <1>4, <1>5 DEF MprisIInv

\* The bus heard nothing of it, or the service has not asked to be told.
LEMMA Silent ==
    ASSUME MprisIInv, NEW p \in Players, NEW u \in PlayerStates, u.on # "off", TurnStep(p, u),
           UNCHANGED <<wire, asked>>,
           phase \in {"matched", "naming", "on"} => \A R : Turned(p, world[p], u, R),
           u.on \in {"here", "named"} => world[p].on # "gone"
    PROVE  MprisIInv'
  <1>1. PICK K : K = Known
    OBVIOUS
  <1>2. /\ world \in [Players -> PlayerStates] /\ model \in Seq(Entries(K)) /\ K \subseteq Players
        /\ wire \in Seq(PlayerMsgs(K)) /\ held \in Seq(PlayerMsgs(K)) /\ asked \in Seq(Requests(K))
    <2>1. K \subseteq Players
      BY <1>1 DEF Known
    <2> QED
      BY <1>1, <2>1 DEF MprisIInv, MprisTyped
  <1>3. PICK s : s = Batch
    OBVIOUS
  <1>4. s \in Seq(PlayerMsgs(K)) /\ s = Batch'
    <2>1. Batch' = Batch
      BY DEF Batch, TurnStep
    <2> QED
      BY <1>2, <1>3, <2>1, MprisBatch
  <1>5. PICK w, z : w = world /\ z = world'
    OBVIOUS
  <1>6. PlayersSo(z, model, s, ToSet(pending), phase, reordered)
    <2>1. CASE phase \in {"matched", "naming", "on"}
      <3>1. \A R : Turned(p, w[p], u, R)
        BY <1>5, <2>1
      <3>2. PlayersSo(w, model, s, ToSet(pending), phase, reordered) /\ AllSo(s, w)
        BY <1>3, <1>5, <2>1 DEF PlayersSo, PlayersHeld, MprisIInv
      <3>3. z = [w EXCEPT ![p] = u] /\ w \in [Players -> PlayerStates]
        BY <1>2, <1>5 DEF TurnStep
      <3>4. AllSo(s, z)
        BY <1>2, <1>4, <3>1, <3>2, <3>3, TurnsSo
      <3>5. u.on \in {"here", "named"} => w[p].on \in {"here", "named"} \/ (\A e : ~Entry(model, p, e))
        <4>1. w[p].on \in {"off", "here", "named", "gone"}
          BY <3>3 DEF PlayerStates
        <4>2. w[p].on = "off" => \A e : ~Entry(model, p, e)
          <5>1. w[p].on = "off" => p \notin K
            BY <1>1, <1>5 DEF Known
          <5> QED
            BY <1>2, <5>1, OfTheKnown
        <4> QED
          BY <1>5, <4>1, <4>2
      <3>6. PICK N : N = {}
        OBVIOUS
      <3>7. Rest(s, 0) = Rest(s, 0) \cup N /\ \A R : Turned(p, w[p], u, R \cup N)
        BY <3>1, <3>6
      <3>8. \A q : Grows(q, Rest(s, 0), Rest(s, 0))
        BY DEF Grows
      <3>9. TurnsTo(w, p, u, z, model, s, s, N)
        BY <3>5, <3>7, <3>8 DEF TurnsTo
      <3> QED
        BY <3>2, <3>3, <3>4, <3>9, PlayerTurns
    <2>2. CASE phase \notin {"matched", "naming", "on"}
      BY <2>2 DEF PlayersSo
    <2> QED
      BY <2>1, <2>2
  <1>7. wire' \in Seq(PlayerMsgs(Known'))
    <2>1. PICK L : L = Known'
      OBVIOUS
    <2>2. K \subseteq L
      BY <1>1, <1>2, <2>1, KnownGrows DEF TurnStep
    <2> QED
      BY <1>2, <2>1, <2>2, TypesGrow
  <1>8. asked' \in Seq(Requests(Known))
    BY <1>1, <1>2
  <1>9. PlayersSo(world', model, Batch', ToSet(pending), phase, reordered)
    BY <1>4, <1>5, <1>6
  <1> QED
    BY <1>7, <1>8, <1>9, TurnHolds

\* The service is told.
LEMMA Speaks ==
    ASSUME MprisIInv, NEW p \in Players, NEW u \in PlayerStates, u.on # "off", TurnStep(p, u),
           NEW x \in PlayerMsgs(Known'), x.who = p, wire' = Append(wire, x), asked' \in Seq(Requests(Known)),
           phase # "new",
           \A R : Turned(p, world[p], u, R \cup {x}), MsgSo(x, u, {}),
           u.on \in {"here", "named"} => world[p].on # "gone"
    PROVE  MprisIInv'
  <1>1. PICK K, L : K = Known /\ L = Known'
    OBVIOUS
  <1>2. /\ world \in [Players -> PlayerStates] /\ model \in Seq(Entries(K)) /\ L \subseteq Players
        /\ wire \in Seq(PlayerMsgs(K)) /\ held \in Seq(PlayerMsgs(K))
    <2>1. L \subseteq Players
      BY <1>1 DEF Known
    <2> QED
      BY <1>1, <2>1 DEF MprisIInv, MprisTyped
  <1>3. wire \in Seq(PlayerMsgs(L)) /\ held \in Seq(PlayerMsgs(L)) /\ x \in PlayerMsgs(L)
    <2>1. K \subseteq L
      BY <1>1, <1>2, KnownGrows DEF TurnStep
    <2> QED
      BY <1>1, <1>2, <2>1, TypesGrow
  <1>4. PICK s, t : s = Batch /\ t = Batch'
    OBVIOUS
  <1>5. s \in Seq(PlayerMsgs(L)) /\ t = Append(s, x) /\ wire' \in Seq(PlayerMsgs(L))
    BY <1>3, <1>4, MprisBatch, AppendBatch DEF TurnStep
  <1>6. PICK w, z : w = world /\ z = world'
    OBVIOUS
  <1>7. PlayersSo(z, model, t, ToSet(pending), phase, reordered)
    <2>1. CASE phase \in {"matched", "naming", "on"}
      <3>1. \A R : Turned(p, w[p], u, R \cup {x})
        BY <1>6
      <3>2. PlayersSo(w, model, s, ToSet(pending), phase, reordered) /\ AllSo(s, w)
        BY <1>4, <1>6, <2>1 DEF PlayersSo, PlayersHeld, MprisIInv
      <3>3. z = [w EXCEPT ![p] = u] /\ w \in [Players -> PlayerStates]
        BY <1>2, <1>6 DEF TurnStep
      <3>4. AllSo(t, z)
        BY <1>2, <1>3, <1>5, <3>1, <3>2, <3>3, TurnsSo
      <3>5. u.on \in {"here", "named"} => w[p].on \in {"here", "named"} \/ (\A e : ~Entry(model, p, e))
        <4>1. w[p].on \in {"off", "here", "named", "gone"}
          BY <3>3 DEF PlayerStates
        <4>2. w[p].on = "off" => \A e : ~Entry(model, p, e)
          <5>1. w[p].on = "off" => p \notin K
            BY <1>1, <1>6 DEF Known
          <5> QED
            BY <1>2, <5>1, OfTheKnown
        <4> QED
          BY <1>6, <4>1, <4>2
      <3>6. PICK N : N = {x}
        OBVIOUS
      <3>7. Rest(t, 0) = Rest(s, 0) \cup N
        <4>1. 0 \in 0 .. Len(s)
          BY <1>5
        <4> QED
          BY <1>3, <1>5, <3>6, <4>1, RestFacts
      <3>8. \A q : Grows(q, Rest(s, 0), Rest(t, 0))
        <4>1. PICK R, T : R = Rest(s, 0) /\ T = Rest(t, 0)
          OBVIOUS
        <4>2. \A q : Grows(q, R, R \cup {x})
          BY OneMore
        <4> QED
          BY <3>6, <3>7, <4>1, <4>2
      <3>9. \A R : Turned(p, w[p], u, R \cup N)
        BY <3>1, <3>6
      <3>10. TurnsTo(w, p, u, z, model, s, t, N)
        BY <3>5, <3>7, <3>8, <3>9 DEF TurnsTo
      <3> QED
        BY <3>2, <3>3, <3>4, <3>10, PlayerTurns
    <2>2. CASE phase \notin {"matched", "naming", "on"}
      BY <2>2 DEF PlayersSo
    <2> QED
      BY <2>1, <2>2
  <1>8. wire' \in Seq(PlayerMsgs(Known'))
    BY <1>1, <1>5
  <1>9. PlayersSo(world', model, Batch', ToSet(pending), phase, reordered)
    BY <1>4, <1>6, <1>7
  <1> QED
    BY <1>8, <1>9, TurnHolds

\* A player that turns, and whatever is told of it.
LEMMA Turns ==
    ASSUME MprisIInv, NEW p \in Players, NEW u \in PlayerStates, u.on # "off", TurnStep(p, u), asked' = asked,
           NEW x \in PlayerSignals(Known'), x.who = p, Emit(MprisMatched, <<x>>),
           \A R : Turned(p, world[p], u, R \cup {x}), MsgSo(x, u, {}),
           u.on \in {"here", "named"} => world[p].on # "gone"
    PROVE  MprisIInv'
  <1>1. CASE phase \in {"matched", "naming", "on"}
    <2>1. PICK K, L : K = Known /\ L = Known'
      OBVIOUS
    <2>2. K \subseteq L /\ wire \in Seq(PlayerMsgs(K))
      BY <2>1, KnownGrows DEF MprisIInv, MprisTyped, TurnStep
    <2>3. wire \in Seq(PlayerMsgs(L)) /\ x \in PlayerMsgs(L)
      <3>1. x \in PlayerMsgs(L)
        BY <2>1 DEF PlayerMsgs
      <3> QED
        BY <2>2, <3>1, TypesGrow
    <2>4. wire' = wire \o <<x>>
      BY <1>1 DEF Emit, MprisMatched
    <2>5. wire' = Append(wire, x)
      BY <2>3, <2>4, AppendOne
    <2>6. asked' \in Seq(Requests(Known))
      BY DEF MprisIInv, MprisTyped
    <2> QED
      BY <1>1, <2>1, <2>3, <2>5, <2>6, Speaks
  <1>2. CASE phase \notin {"matched", "naming", "on"}
    <2>1. wire' = wire
      BY <1>2 DEF Emit, MprisMatched
    <2> QED
      BY <1>2, <2>1, Silent
  <1> QED
    BY <1>1, <1>2

\* A player comes.
LEMMA PlayerComesStep ==
    ASSUME MprisIInv, PlayerComes
    PROVE  MprisIInv'
  <1>1. world \in [Players -> PlayerStates]
    BY DEF MprisIInv, MprisTyped
  <1>2. ASSUME NEW p \in Players, world[p].on = "off", world' = [world EXCEPT ![p].on = "here"], UNCHANGED wire
        PROVE  MprisIInv'
    <2>1. PICK v \in PlayerStates : v = world[p]
      BY <1>1
    <2>2. PICK u : u = [v EXCEPT !.on = "here"]
      OBVIOUS
    <2>3. /\ u \in PlayerStates /\ u.on = "here" /\ v.on = "off"
          /\ u.status = v.status /\ u.track = v.track /\ u.pos = v.pos
      BY <1>2, <2>1, <2>2 DEF PlayerStates
    <2>4. TurnStep(p, u)
      BY <1>2, <2>1, <2>2 DEF TurnStep, PlayerComes
    <2>5. \A R : Turned(p, world[p], u, R)
      BY <2>1, <2>3 DEF Turned
    <2>6. UNCHANGED <<wire, asked>>
      BY <1>2 DEF PlayerComes
    <2> QED
      BY <2>1, <2>3, <2>4, <2>5, <2>6, Silent
  <1>3. ASSUME NEW p \in Players, world[p].on \in {"off", "here"}, world' = [world EXCEPT ![p].on = "named"],
               Emit(MprisMatched, <<OwnerChanged(p, TRUE)>>)
        PROVE  MprisIInv'
    <2>1. PICK v \in PlayerStates : v = world[p]
      BY <1>1
    <2>2. PICK u : u = [v EXCEPT !.on = "named"]
      OBVIOUS
    <2>3. /\ u \in PlayerStates /\ u.on = "named" /\ v.on \in {"off", "here"}
          /\ u.status = v.status /\ u.track = v.track /\ u.pos = v.pos
      BY <1>3, <2>1, <2>2 DEF PlayerStates
    <2>4. TurnStep(p, u)
      BY <1>3, <2>1, <2>2 DEF TurnStep, PlayerComes
    <2>5. PICK x : x = OwnerChanged(p, TRUE)
      OBVIOUS
    <2>6. x.kind = "signal" /\ x.what = "owner" /\ x.who = p /\ x.new = TRUE
      BY <2>5 DEF OwnerChanged
    <2>7. x \in PlayerSignals(Known')
      <3>1. p \in Known'
        BY <1>1, <2>3, <2>4, KnownGrows DEF TurnStep
      <3>2. x \in OwnerMsgs(Known')
        BY <2>5, <3>1 DEF OwnerMsgs, OwnerChanged
      <3> QED
        BY <3>2 DEF PlayerSignals
    <2>8. ASSUME NEW R
          PROVE  Turned(p, world[p], u, R \cup {x})
      <3>1. OwnerIn(R \cup {x}, p, TRUE)
        BY <2>6 DEF OwnerIn
      <3> QED
        BY <2>1, <2>3, <3>1 DEF Turned
    <2>9. MsgSo(x, u, {})
      BY <2>3, <2>6 DEF MsgSo, OwnerSo, PropsSo, SeekSo
    <2>10. asked' = asked
      BY DEF PlayerComes
    <2> QED
      BY <1>3, <2>1, <2>3, <2>4, <2>5, <2>6, <2>7, <2>8, <2>9, <2>10, Turns
  <1> QED
    BY <1>2, <1>3 DEF PlayerComes

\* A player goes.
LEMMA PlayerGoesStep ==
    ASSUME MprisIInv, PlayerGoes
    PROVE  MprisIInv'
  <1>1. world \in [Players -> PlayerStates]
    BY DEF MprisIInv, MprisTyped
  <1>2. PICK p \in Players : /\ world[p].on \in {"here", "named"}
                             /\ world' = [world EXCEPT ![p].on = "gone"]
                             /\ Emit(MprisMatched /\ world[p].on = "named", <<OwnerChanged(p, FALSE)>>)
    BY DEF PlayerGoes
  <1>3. PICK v \in PlayerStates : v = world[p]
    BY <1>1
  <1>4. PICK u : u = [v EXCEPT !.on = "gone"]
    OBVIOUS
  <1>5. /\ u \in PlayerStates /\ u.on = "gone" /\ v.on \in {"here", "named"}
        /\ u.status = v.status /\ u.track = v.track /\ u.pos = v.pos
    BY <1>2, <1>3, <1>4 DEF PlayerStates
  <1>6. TurnStep(p, u) /\ asked' = asked
    BY <1>2, <1>3, <1>4 DEF TurnStep, PlayerGoes
  <1>7. CASE v.on = "here"
    <2>1. \A R : Turned(p, world[p], u, R)
      BY <1>3, <1>5, <1>7 DEF Turned
    <2>2. UNCHANGED <<wire, asked>>
      BY <1>2, <1>3, <1>6, <1>7 DEF Emit
    <2> QED
      BY <1>3, <1>5, <1>6, <2>1, <2>2, Silent
  <1>8. CASE v.on = "named"
    <2>1. PICK x : x = OwnerChanged(p, FALSE)
      OBVIOUS
    <2>2. x.kind = "signal" /\ x.what = "owner" /\ x.who = p /\ x.new = FALSE
      BY <2>1 DEF OwnerChanged
    <2>3. x \in PlayerSignals(Known')
      <3>1. p \in Known'
        BY <1>1, <1>5, <1>6, KnownGrows DEF TurnStep
      <3>2. x \in OwnerMsgs(Known')
        BY <2>1, <3>1 DEF OwnerMsgs, OwnerChanged
      <3> QED
        BY <3>2 DEF PlayerSignals
    <2>4. ASSUME NEW R
          PROVE  Turned(p, world[p], u, R \cup {x})
      <3>1. OwnerIn(R \cup {x}, p, FALSE)
        BY <2>2 DEF OwnerIn
      <3> QED
        BY <1>3, <1>5, <3>1 DEF Turned
    <2>5. MsgSo(x, u, {})
      BY <1>5, <2>2 DEF MsgSo, OwnerSo, PropsSo, SeekSo
    <2>6. Emit(MprisMatched, <<x>>)
      BY <1>2, <1>3, <1>8, <2>1 DEF Emit
    <2> QED
      BY <1>3, <1>5, <1>6, <2>2, <2>3, <2>4, <2>5, <2>6, Turns
  <1> QED
    BY <1>5, <1>7, <1>8

\* A player acts.
LEMMA PlayerActsStep ==
    ASSUME MprisIInv, PlayerActs
    PROVE  MprisIInv'
  <1>1. world \in [Players -> PlayerStates]
    BY DEF MprisIInv, MprisTyped
  <1>2. PICK p \in Players :
          /\ world[p].on \in {"here", "named"}
          /\ \/ \E s \in Statuses \ {world[p].status} :
                   /\ world' = [world EXCEPT ![p].status = s]
                   /\ Emit(MprisMatched, <<PropsChanged(p, [status |-> s])>>)
             \/ \E t \in Tracks \ {world[p].track} :
                   /\ world' = [world EXCEPT ![p].track = t, ![p].pos = 0]
                   /\ Emit(MprisMatched, <<PropsChanged(p, [track |-> t])>>)
             \/ /\ world' = [world EXCEPT ![p].pos = 1 - @]
                /\ Emit(MprisMatched, <<[kind |-> "signal", what |-> "seeked", who |-> p,
                                         pos |-> 1 - world[p].pos]>>)
    BY DEF PlayerActs
  <1>3. PICK v \in PlayerStates : v = world[p]
    BY <1>1
  <1>4. asked' = asked /\ UNCHANGED <<held, phase, model, pending, seed, shown, reordered>>
    BY DEF PlayerActs
  <1>5. ASSUME NEW u \in PlayerStates, u.on = v.on, world' = [world EXCEPT ![p] = u]
        PROVE  u.on # "off" /\ TurnStep(p, u) /\ p \in Known'
    <2>1. u.on # "off"
      BY <1>2, <1>3, <1>5
    <2>2. p \in Known'
      BY <1>1, <1>5, <2>1, KnownGrows
    <2> QED
      BY <1>4, <1>5, <2>1, <2>2 DEF TurnStep
  <1>6. ASSUME NEW s \in Statuses \ {v.status}, world' = [world EXCEPT ![p].status = s],
               Emit(MprisMatched, <<PropsChanged(p, [status |-> s])>>)
        PROVE  MprisIInv'
    <2>1. PICK u : u = [v EXCEPT !.status = s]
      OBVIOUS
    <2>2. u \in PlayerStates /\ u.on = v.on /\ u.status = s /\ u.track = v.track /\ u.pos = v.pos
      BY <2>1 DEF PlayerStates
    <2>3. u.on # "off" /\ TurnStep(p, u) /\ p \in Known'
      <3>1. world' = [world EXCEPT ![p] = u]
        BY <1>3, <1>6, <2>1
      <3> QED
        BY <1>5, <2>2, <3>1
    <2>4. PICK props : props = [status |-> s]
      OBVIOUS
    <2>5. DOMAIN props = {"status"} /\ props.status = s
      BY <2>4
    <2>6. PICK x : x = PropsChanged(p, props)
      OBVIOUS
    <2>7. x.kind = "signal" /\ x.what = "props" /\ x.who = p /\ x.props = props
      BY <2>6 DEF PropsChanged
    <2>8. x \in PlayerSignals(Known')
      <3>1. props \in PlayerProps
        BY <2>4 DEF PlayerProps
      <3>2. x \in PropsMsgs(Known')
        BY <2>3, <2>6, <3>1 DEF PropsMsgs, PropsChanged
      <3> QED
        BY <3>2 DEF PlayerSignals
    <2>9. ASSUME NEW R
          PROVE  Turned(p, world[p], u, R \cup {x})
      <3>1. StatusIn(R \cup {x}, p)
        BY <2>5, <2>7 DEF StatusIn
      <3> QED
        BY <1>2, <1>3, <2>2, <3>1 DEF Turned
    <2>10. MsgSo(x, u, {})
      BY <2>2, <2>5, <2>7 DEF MsgSo, OwnerSo, PropsSo, SeekSo, StatusSo
    <2>11. Emit(MprisMatched, <<x>>)
      BY <1>6, <2>4, <2>6
    <2> QED
      BY <1>2, <1>3, <1>4, <2>2, <2>3, <2>7, <2>8, <2>9, <2>10, <2>11, Turns
  <1>7. ASSUME NEW t \in Tracks \ {v.track}, world' = [world EXCEPT ![p].track = t, ![p].pos = 0],
               Emit(MprisMatched, <<PropsChanged(p, [track |-> t])>>)
        PROVE  MprisIInv'
    <2>1. PICK u : u = [v EXCEPT !.track = t, !.pos = 0]
      OBVIOUS
    <2>2. u \in PlayerStates /\ u.on = v.on /\ u.status = v.status /\ u.track = t
      BY <2>1 DEF PlayerStates
    <2>3. u.on # "off" /\ TurnStep(p, u) /\ p \in Known'
      <3>1. world' = [world EXCEPT ![p] = u]
        BY <1>1, <1>3, <1>7, <2>1
      <3> QED
        BY <1>5, <2>2, <3>1
    <2>4. PICK props : props = [track |-> t]
      OBVIOUS
    <2>5. DOMAIN props = {"track"} /\ props.track = t
      BY <2>4
    <2>6. PICK x : x = PropsChanged(p, props)
      OBVIOUS
    <2>7. x.kind = "signal" /\ x.what = "props" /\ x.who = p /\ x.props = props
      BY <2>6 DEF PropsChanged
    <2>8. x \in PlayerSignals(Known')
      <3>1. props \in PlayerProps
        BY <2>4 DEF PlayerProps
      <3>2. x \in PropsMsgs(Known')
        BY <2>3, <2>6, <3>1 DEF PropsMsgs, PropsChanged
      <3> QED
        BY <3>2 DEF PlayerSignals
    <2>9. ASSUME NEW R
          PROVE  Turned(p, world[p], u, R \cup {x})
      <3>1. TrackIn(R \cup {x}, p)
        BY <2>5, <2>7 DEF TrackIn
      <3> QED
        BY <1>2, <1>3, <2>2, <3>1 DEF Turned
    <2>10. MsgSo(x, u, {})
      BY <2>2, <2>5, <2>7 DEF MsgSo, OwnerSo, PropsSo, SeekSo, TrackSo
    <2>11. Emit(MprisMatched, <<x>>)
      BY <1>7, <2>4, <2>6
    <2> QED
      BY <1>2, <1>3, <1>4, <2>2, <2>3, <2>7, <2>8, <2>9, <2>10, <2>11, Turns
  <1>8. ASSUME world' = [world EXCEPT ![p].pos = 1 - @],
               Emit(MprisMatched, <<[kind |-> "signal", what |-> "seeked", who |-> p, pos |-> 1 - world[p].pos]>>)
        PROVE  MprisIInv'
    <2>1. PICK at \in {0, 1} : at = 1 - v.pos
      BY DEF PlayerStates
    <2>2. PICK u : u = [v EXCEPT !.pos = at]
      OBVIOUS
    <2>3. u \in PlayerStates /\ u.on = v.on /\ u.status = v.status /\ u.track = v.track /\ u.pos = at
      BY <2>2 DEF PlayerStates
    <2>4. u.on # "off" /\ TurnStep(p, u) /\ p \in Known'
      <3>1. world' = [world EXCEPT ![p] = u]
        BY <1>3, <1>8, <2>1, <2>2
      <3> QED
        BY <1>5, <2>3, <3>1
    <2>5. PICK x : x = [kind |-> "signal", what |-> "seeked", who |-> p, pos |-> at]
      OBVIOUS
    <2>6. x.kind = "signal" /\ x.what = "seeked" /\ x.who = p /\ x.pos = at
      BY <2>5
    <2>7. x \in PlayerSignals(Known')
      <3>1. x \in SeekMsgs(Known')
        BY <2>4, <2>5 DEF SeekMsgs
      <3> QED
        BY <3>1 DEF PlayerSignals
    <2>8. ASSUME NEW R
          PROVE  Turned(p, world[p], u, R \cup {x})
      <3>1. SeekIn(R \cup {x}, p)
        BY <2>6 DEF SeekIn
      <3> QED
        BY <1>2, <1>3, <2>3, <3>1 DEF Turned
    <2>9. MsgSo(x, u, {})
      BY <2>3, <2>6 DEF MsgSo, OwnerSo, PropsSo, SeekSo, PosSo
    <2>10. Emit(MprisMatched, <<x>>)
      BY <1>3, <1>8, <2>1, <2>5
    <2> QED
      BY <1>2, <1>3, <1>4, <2>3, <2>4, <2>6, <2>7, <2>8, <2>9, <2>10, Turns
  <1> QED
    BY <1>2, <1>3, <1>6, <1>7, <1>8

\* An answer tells the player as it is; an error, that it has left.
LEMMA PlayerAnswersStep ==
    ASSUME MprisIInv, PlayerAnswers
    PROVE  MprisIInv'
  <1>1. PICK K : K = Known
    OBVIOUS
  <1>2. /\ world \in [Players -> PlayerStates] /\ asked \in Seq(Requests(K)) /\ K \subseteq Players
        /\ phase = "new" => asked = <<>>
    BY <1>1 DEF MprisIInv, MprisTyped, MprisPhases, Known
  <1>3. PICK i \in 1 .. Len(asked) :
          /\ asked' = RemoveAt(asked, i)
          /\ wire' = Append(wire, [kind |-> "reply", who |-> asked[i].who,
                                   ok |-> world[asked[i].who].on \in {"here", "named"},
                                   status |-> world[asked[i].who].status,
                                   track |-> world[asked[i].who].track, pos |-> world[asked[i].who].pos])
    <2>1. DOMAIN asked = 1 .. Len(asked)
      BY <1>2
    <2> QED
      BY <2>1 DEF PlayerAnswers
  <1>4. PICK p : p = asked[i].who
    OBVIOUS
  <1>5. p \in K /\ p \in Players
    <2>1. \A q \in Requests(K) : q.who \in K
      BY DEF Requests
    <2> QED
      BY <1>2, <1>4, <2>1
  <1>6. PICK u \in PlayerStates : u = world[p]
    BY <1>2, <1>5
  <1>7. u.on # "off"
    BY <1>1, <1>5, <1>6 DEF Known
  <1>8. PICK ok : ok = (u.on \in {"here", "named"})
    OBVIOUS
  <1>9. ok \in BOOLEAN
    BY <1>8
  <1>10. PICK x : x = [kind |-> "reply", who |-> p, ok |-> ok, status |-> u.status, track |-> u.track, pos |-> u.pos]
    OBVIOUS
  <1>11. /\ x.kind = "reply" /\ x.who = p /\ x.ok = ok
         /\ x.status = u.status /\ x.track = u.track /\ x.pos = u.pos
    BY <1>10
  <1>12. wire' = Append(wire, x)
    BY <1>3, <1>4, <1>6, <1>8, <1>10
  <1>13. TurnStep(p, u)
    <2>1. world' = [world EXCEPT ![p] = u]
      BY <1>2, <1>5, <1>6 DEF PlayerAnswers
    <2> QED
      BY <2>1 DEF TurnStep, PlayerAnswers
  <1>14. x \in PlayerMsgs(Known')
    <2>1. p \in Known'
      BY <1>2, <1>5, <1>7, <1>13, KnownGrows DEF TurnStep
    <2>2. x \in PlayerReplies(Known')
      BY <1>9, <1>10, <2>1 DEF PlayerReplies, PlayerStates
    <2> QED
      BY <2>2 DEF PlayerMsgs
  <1>15. asked' \in Seq(Requests(Known))
    BY <1>1, <1>2, <1>3, RemoveAtLemma
  <1>16. phase # "new"
    BY <1>2, <1>3
  <1>17. \A R : Turned(p, world[p], u, R \cup {x})
    BY <1>6 DEF Turned
  <1>18. MsgSo(x, u, {})
    <2>1. ~x.ok => u.on = "gone"
      BY <1>7, <1>8, <1>11 DEF PlayerStates
    <2> QED
      BY <1>11, <2>1 DEF MsgSo, ReplySo, StatusSo, TrackSo, PosSo
  <1>19. u.on \in {"here", "named"} => world[p].on # "gone"
    BY <1>6
  <1> QED
    BY <1>5, <1>7, <1>11, <1>12, <1>13, <1>14, <1>15, <1>16, <1>17, <1>18, <1>19, Speaks

-----------------------------------------------------------------------------
\* The set-up.  What is read while the service waits is held, in its order.
LEMMA BlockingBatch ==
    ASSUME NEW S, held \in Seq(S), wire \in Seq(S), Blocking
    PROVE  Batch' = Batch /\ held' \in Seq(S) /\ wire' \in Seq(S)
  <1>1. held' = held \o wire /\ wire' = <<>> /\ held \o wire \in Seq(S)
    BY ConcatProperties DEF Blocking
  <1>2. (held \o wire) \o <<>> = held \o wire
    BY <1>1, ConcatEmptySeq
  <1> QED
    BY <1>1, <1>2 DEF Batch

\* No message says anything wrong.
LEMMA AllSoEmpty == \A w : AllSo(<<>>, w)
  BY DEF AllSo

\* The service starts with nothing said.
LEMMA MprisStart ==
    ASSUME MprisInit
    PROVE  MprisIInv
  <1>1. MprisTyped
    <2>1. world \in [Players -> PlayerStates]
      BY DEF MprisInit
    <2>2. \A S : <<>> \in Seq(S)
      OBVIOUS
    <2> QED
      BY <2>1, <2>2 DEF MprisInit, BusInit, MprisTyped
  <1>2. PlayersHeld /\ MprisPhases /\ OneEntry(model)
    BY DEF MprisInit, BusInit, PlayersHeld, MprisPhases, OneEntry
  <1> QED
    BY <1>1, <1>2 DEF MprisIInv

\* The rules are registered.
LEMMA MprisMatchStep ==
    ASSUME MprisIInv, MprisMatch
    PROVE  MprisIInv'
  <1>1. Batch' = <<>>
    <2>1. held' = <<>> /\ wire' = <<>>
      BY DEF MprisIInv, MprisPhases, MprisMatch
    <2> QED
      BY <2>1 DEF Batch
  <1>2. PlayersHeld'
    BY <1>1, AllSoEmpty DEF MprisMatch, PlayersHeld
  <1>3. MprisTyped'
    BY DEF MprisIInv, MprisTyped, MprisMatch, Known
  <1>4. MprisPhases' /\ OneEntry(model')
    BY DEF MprisIInv, MprisPhases, MprisMatch
  <1> QED
    BY <1>2, <1>3, <1>4 DEF MprisIInv

\* With the bus everything is gone.
LEMMA MprisOff ==
    ASSUME MprisIInv, phase' = "off", model' = <<>>, Hangup, UNCHANGED world
    PROVE  MprisIInv'
  <1>1. MprisTyped'
    <2>1. \A S : <<>> \in Seq(S)
      OBVIOUS
    <2> QED
      BY <2>1 DEF MprisIInv, MprisTyped, Hangup
  <1>2. PlayersHeld' /\ OneEntry(model') /\ MprisPhases'
    BY DEF PlayersHeld, OneEntry, MprisPhases
  <1> QED
    BY <1>1, <1>2 DEF MprisIInv

\* All names, each once.
LEMMA AllNames ==
    ASSUME NEW S, IsFiniteSet(S), NEW names \in SetToSeqs(S)
    PROVE  names \in Seq(S) /\ \A x \in S : x \in ToSet(names)
  <1>1. PICK n \in Nat : n = Cardinality(S)
    BY FS_CardinalityType
  <1>2. names \in [1 .. n -> S] /\ \A i, j \in 1 .. n : i # j => names[i] # names[j]
    BY <1>1 DEF SetToSeqs
  <1>3. names \in Seq(S) /\ DOMAIN names = 1 .. n
    BY <1>1, <1>2
  <1>4. names \in Injection(1 .. n, S)
    BY <1>2 DEF Injection, IsInjective
  <1>5. IsFiniteSet(1 .. n) /\ Cardinality(1 .. n) = n
    BY <1>1, FS_Interval
  <1>6. names \in Surjection(1 .. n, S)
    BY <1>1, <1>4, <1>5, FS_Injection
  <1>7. \A x \in S : \E i \in 1 .. n : names[i] = x
    BY <1>6 DEF Surjection
  <1> QED
    BY <1>3, <1>7 DEF ToSet

\* The names on the bus are listed.
LEMMA ListNamesStep ==
    ASSUME MprisIInv, ListNames
    PROVE  MprisIInv'
  <1>1. PICK K : K = Known
    OBVIOUS
  <1>2. /\ held \in Seq(PlayerMsgs(K)) /\ wire \in Seq(PlayerMsgs(K))
        /\ Blocking /\ phase = "matched" /\ phase' = "naming"
    BY <1>1 DEF MprisIInv, MprisTyped, ListNames
  <1>3. Batch' = Batch /\ held' \in Seq(PlayerMsgs(K)) /\ wire' \in Seq(PlayerMsgs(K))
    BY <1>2, BlockingBatch
  <1>4. PICK S : S = {p \in Players : world[p].on = "named"}
    OBVIOUS
  <1>5. pending' \in SetToSeqs(S)
    BY <1>4 DEF ListNames
  <1>6. IsFiniteSet(S) /\ S \subseteq Players
    BY <1>4, PlayersAssumption, FS_Subset
  <1>7. pending' \in Seq(S) /\ \A p \in S : p \in ToSet(pending')
    BY <1>5, <1>6, AllNames
  <1>8. pending' \in Seq(Players)
    BY <1>6, <1>7, SeqGrows
  <1>9. MprisTyped'
    <2>1. Known' = K
      BY <1>1 DEF Known, ListNames
    <2> QED
      BY <1>1, <1>2, <1>3, <1>8, <2>1 DEF MprisIInv, MprisTyped, ListNames
  <1>10. PlayersHeld'
    <2>1. AllSo(Batch', world')
      BY <1>2, <1>3 DEF MprisIInv, PlayersHeld, ListNames
    <2>2. \A p, e : ~Entry(model', p, e)
      BY <1>2 DEF MprisIInv, MprisPhases, ListNames, Entry
    <2>3. ASSUME NEW p \in Players
          PROVE  /\ NamesHeld(p, world'[p], model', Rest(Batch', 0))
                 /\ ListHeld(p, world'[p], model', Rest(Batch', 0)) \/ p \in ToSet(pending')
      <3>1. world'[p].on = "named" => p \in ToSet(pending')
        BY <1>4, <1>7 DEF ListNames
      <3> QED
        BY <2>2, <3>1 DEF NamesHeld, ListHeld
    <2> QED
      BY <1>2, <2>1, <2>3 DEF PlayersHeld
  <1>11. MprisPhases' /\ OneEntry(model')
    BY <1>2 DEF MprisIInv, MprisPhases, ListNames
  <1> QED
    BY <1>9, <1>10, <1>11 DEF MprisIInv

\* The owner of a name is asked for.
LEMMA GetNameOwnerStep ==
    ASSUME MprisIInv, GetNameOwner
    PROVE  MprisIInv'
  <1>1. PICK K : K = Known
    OBVIOUS
  <1>2. /\ held \in Seq(PlayerMsgs(K)) /\ wire \in Seq(PlayerMsgs(K)) /\ model \in Seq(Entries(K)) /\ OneEntry(model)
        /\ Blocking /\ phase = "naming" /\ phase' = "naming" /\ pending \in Seq(Players) /\ pending # <<>>
        /\ world' = world /\ pending' = Tail(pending)
    BY <1>1 DEF MprisIInv, MprisTyped, GetNameOwner
  <1>3. Batch' = Batch /\ held' \in Seq(PlayerMsgs(K)) /\ wire' \in Seq(PlayerMsgs(K))
    BY <1>2, BlockingBatch
  <1>4. PICK p \in Players : p = Head(pending)
    BY <1>2
  <1>5. pending' \in Seq(Players) /\ \A q \in ToSet(pending) : q = p \/ q \in ToSet(pending')
    <2>1. pending' \in Seq(Players)
      BY <1>2
    <2>2. ASSUME NEW q \in ToSet(pending), q # p
          PROVE  q \in ToSet(pending')
      <3>1. PICK i \in 1 .. Len(pending) : pending[i] = q
        BY <1>2, <2>2 DEF ToSet
      <3>2. i # 1 /\ Len(pending') = Len(pending) - 1 /\ \A j \in 1 .. Len(pending) - 1 : pending'[j] = pending[j + 1]
        BY <1>2, <1>4, <2>2, <3>1
      <3>3. i - 1 \in 1 .. Len(pending') /\ pending'[i - 1] = q
        BY <1>2, <3>1, <3>2
      <3> QED
        BY <2>1, <3>3 DEF ToSet
    <2> QED
      BY <2>1, <2>2
  <1>6. PICK n : n = model'
    OBVIOUS
  <1>7. /\ n \in Seq(Entries(K)) /\ OneEntry(n)
        /\ \A q, e : q # p => (Entry(n, q, e) <=> Entry(model, q, e))
        /\ world[p].on = "named" => \A e : Entry(n, p, e) <=> e = Added(p, TRUE)
        /\ world[p].on # "named" => n = model
    <2>1. CASE world[p].on = "named"
      <3>1. n = Add(model, p, TRUE)
        BY <1>4, <1>6, <2>1 DEF GetNameOwner
      <3>2. p \in K
        BY <1>1, <1>4, <2>1 DEF Known
      <3>3. Updates(K, model, p, n) /\ Puts(model, n, p, Added(p, TRUE))
        BY <1>2, <3>1, <3>2, AddLemma
      <3> QED
        BY <2>1, <3>3 DEF Updates, Puts
    <2>2. CASE world[p].on # "named"
      <3>1. n = model
        BY <1>4, <1>6, <2>2 DEF GetNameOwner
      <3> QED
        BY <1>2, <2>2, <3>1
    <2> QED
      BY <2>1, <2>2
  <1>8. MprisTyped'
    <2>1. Known' = K
      BY <1>1, <1>2 DEF Known
    <2>2. asked' = asked
      BY DEF GetNameOwner
    <2>3. asked \in Seq(Requests(K)) /\ world \in [Players -> PlayerStates]
      BY <1>1 DEF MprisIInv, MprisTyped
    <2> QED
      BY <1>2, <1>3, <1>5, <1>6, <1>7, <2>1, <2>2, <2>3 DEF MprisTyped
  <1>9. PlayersHeld'
    <2>1. AllSo(Batch', world')
      BY <1>2, <1>3 DEF MprisIInv, PlayersHeld
    <2>2. PICK R : R = Rest(Batch, 0)
      OBVIOUS
    <2>3. ASSUME NEW q \in Players
          PROVE  NamesHeld(q, world[q], n, R) /\ (ListHeld(q, world[q], n, R) \/ q \in ToSet(pending'))
      <3>1. NamesHeld(q, world[q], model, R) /\ (ListHeld(q, world[q], model, R) \/ q \in ToSet(pending))
        BY <1>2, <2>2 DEF MprisIInv, PlayersHeld
      <3>2. CASE q # p
        <4>1. \A e : Entry(n, q, e) <=> Entry(model, q, e)
          BY <1>7, <3>2
        <4>2. NamesHeld(q, world[q], n, R)
          BY <3>1, <4>1 DEF NamesHeld
        <4>3. ListHeld(q, world[q], model, R) => ListHeld(q, world[q], n, R)
          BY <4>1 DEF ListHeld
        <4> QED
          BY <1>5, <3>1, <3>2, <4>2, <4>3
      <3>3. CASE q = p /\ world[p].on = "named"
        <4>1. \A e : Entry(n, p, e) <=> e = Added(p, TRUE)
          BY <1>7, <3>3
        <4>2. Added(p, TRUE).named
          BY DEF Added
        <4>3. NamesHeld(p, world[p], n, R)
          BY <3>3, <4>1, <4>2 DEF NamesHeld
        <4>4. ListHeld(p, world[p], n, R)
          BY <4>1 DEF ListHeld
        <4> QED
          BY <3>3, <4>3, <4>4
      <3>4. CASE q = p /\ world[p].on # "named"
        <4>1. n = model
          BY <1>7, <3>4
        <4> QED
          BY <3>1, <3>4, <4>1 DEF ListHeld
      <3> QED
        BY <3>2, <3>3, <3>4
    <2> QED
      BY <1>2, <1>3, <1>6, <2>1, <2>2, <2>3 DEF PlayersHeld
  <1>10. MprisPhases'
    BY <1>2 DEF MprisIInv, MprisPhases, GetNameOwner
  <1> QED
    BY <1>6, <1>7, <1>8, <1>9, <1>10 DEF MprisIInv

\* All that are listed are asked for all there is to know.
LEMMA MprisStartedStep ==
    ASSUME MprisIInv, MprisStarted
    PROVE  MprisIInv'
  <1>1. PICK K : K = Known
    OBVIOUS
  <1>2. /\ model \in Seq(Entries(K)) /\ phase = "naming" /\ phase' = "on" /\ pending = <<>> /\ pending' = asked'
        /\ world' = world /\ model' = model /\ held' = held /\ wire' = wire
    BY <1>1 DEF MprisIInv, MprisTyped, MprisStarted
  <1>3. PICK r : r = asked'
    OBVIOUS
  <1>4. r = [i \in 1 .. Len(model) |-> Request("all", model[i].who)]
    BY <1>2, <1>3 DEF MprisStarted
  <1>5. r \in Seq(Requests(K)) /\ Len(r) = Len(model)
    <2>1. \A i \in 1 .. Len(model) : Request("all", model[i].who) \in Requests(K)
      <3>1. \A e \in Entries(K) : e.who \in K
        BY DEF Entries
      <3> QED
        BY <1>2, <3>1 DEF Requests, Request
    <2> QED
      BY <1>2, <1>4, <2>1
  <1>6. \A p, e : Entry(model, p, e) => Request("all", p) \in ToSet(r)
    <2>1. ASSUME NEW p, NEW e, Entry(model, p, e)
          PROVE  Request("all", p) \in ToSet(r)
      <3>1. PICK i \in 1 .. Len(model) : model[i] = e /\ e.who = p
        BY <2>1 DEF Entry
      <3>2. r[i] = Request("all", p) /\ i \in DOMAIN r
        BY <1>4, <3>1
      <3> QED
        BY <3>2 DEF ToSet
    <2> QED
      BY <2>1
  <1>7. MprisTyped'
    <2>1. Known' = K
      BY <1>1, <1>2 DEF Known
    <2> QED
      BY <1>1, <1>2, <1>3, <1>5, <2>1 DEF MprisIInv, MprisTyped
  <1>8. PlayersHeld'
    <2>1. Batch' = Batch
      BY <1>2 DEF Batch
    <2>2. AllSo(Batch', world')
      BY <1>2, <2>1 DEF MprisIInv, PlayersHeld
    <2>3. ASSUME NEW p \in Players
          PROVE  Held(p, world[p], model, Rest(Batch, 0), ToSet(r))
      <3>1. /\ NamesHeld(p, world[p], model, Rest(Batch, 0))
            /\ ListHeld(p, world[p], model, Rest(Batch, 0)) \/ p \in ToSet(<<>>)
        BY <1>2 DEF MprisIInv, PlayersHeld
      <3>2. p \notin ToSet(<<>>)
        BY ToSetOne
      <3>3. StateHeld(p, world[p], model, Rest(Batch, 0), ToSet(r))
        BY <1>6 DEF StateHeld
      <3> QED
        BY <3>1, <3>2, <3>3 DEF Held
    <2> QED
      BY <1>2, <1>3, <2>1, <2>2, <2>3 DEF PlayersHeld
  <1>9. MprisPhases' /\ OneEntry(model')
    BY <1>2 DEF MprisIInv, MprisPhases, MprisStarted
  <1> QED
    BY <1>7, <1>8, <1>9 DEF MprisIInv

\* The first snapshot is shown.
LEMMA MprisSeedStep ==
    ASSUME MprisIInv, MprisSeed
    PROVE  MprisIInv'
  <1>1. Batch' = Batch
    BY DEF Batch, MprisSeed
  <1>2. MprisTyped'
    BY DEF MprisIInv, MprisTyped, MprisSeed, Known
  <1>3. PlayersHeld'
    BY <1>1 DEF MprisIInv, PlayersHeld, MprisSeed
  <1>4. MprisPhases' /\ OneEntry(model')
    BY DEF MprisIInv, MprisPhases, MprisSeed
  <1> QED
    BY <1>2, <1>3, <1>4 DEF MprisIInv

-----------------------------------------------------------------------------
\* The requests that are still open after a wake-up.
LeftOpen(open, t) ==
    /\ open = Retain([i \in DOMAIN pending |-> i], {i \in DOMAIN pending : ~IsAnswered(i)})
    /\ t = [i \in DOMAIN open |-> pending[open[i]]]

\* The requests without an answer stay under way.
LEMMA StillOpen ==
    ASSUME NEW Q, pending \in Seq(Q), NEW open, NEW t, LeftOpen(open, t)
    PROVE  t \in Seq(Q) /\ ToSet(t) = Unanswered
  <1>1. PICK n \in Nat : n = Len(pending) /\ DOMAIN pending = 1 .. n
    OBVIOUS
  <1>2. PICK all : all = [i \in 1 .. n |-> i]
    OBVIOUS
  <1>3. PICK kept : kept = {i \in 1 .. n : ~IsAnswered(i)}
    OBVIOUS
  <1>4. open = Retain(all, kept)
    BY <1>1, <1>2, <1>3 DEF LeftOpen
  <1>5. PICK S : S = 1 .. n
    OBVIOUS
  <1>6. all \in Seq(S) /\ Len(all) = n /\ \A i \in 1 .. n : all[i] = i
    BY <1>2, <1>5
  <1>7. open \in Seq(S) /\ \A f : (\E k \in 1 .. Len(open) : open[k] = f) <=> f \in kept
    <2>1. /\ open \in Seq(S)
          /\ \A f : (\E k \in 1 .. Len(open) : open[k] = f) <=> f \in kept /\ \E i \in 1 .. Len(all) : all[i] = f
      BY <1>4, <1>6, RetainLemma
    <2> QED
      BY <1>3, <1>6, <2>1
  <1>8. PICK b \in Nat : b = Len(open)
    BY <1>7
  <1>9. t \in Seq(Q) /\ DOMAIN t = 1 .. Len(open) /\ \A k \in 1 .. Len(open) : t[k] = pending[open[k]]
    <2>1. DOMAIN open = 1 .. b /\ \A k \in 1 .. b : open[k] \in S
      BY <1>7, <1>8
    <2>2. \A k \in 1 .. b : pending[open[k]] \in Q
      BY <1>1, <1>5, <2>1
    <2>3. t = [k \in 1 .. b |-> pending[open[k]]]
      BY <2>1 DEF LeftOpen
    <2> QED
      BY <1>8, <2>2, <2>3
  <1>10. Unanswered = {pending[i] : i \in kept}
    BY <1>1, <1>3 DEF Unanswered
  <1>11. ASSUME NEW x \in ToSet(t)
         PROVE  x \in Unanswered
    <2>1. PICK k \in 1 .. Len(open) : t[k] = x
      BY <1>9, <1>11 DEF ToSet
    <2>2. open[k] \in kept
      BY <1>7, <2>1
    <2> QED
      BY <1>9, <1>10, <2>1, <2>2
  <1>12. ASSUME NEW x \in Unanswered
         PROVE  x \in ToSet(t)
    <2>1. PICK i \in kept : x = pending[i]
      BY <1>10, <1>12
    <2>2. PICK k \in 1 .. Len(open) : open[k] = i
      BY <1>7, <2>1
    <2>3. t[k] = x /\ k \in DOMAIN t
      BY <1>9, <2>1, <2>2
    <2> QED
      BY <2>3 DEF ToSet
  <1> QED
    BY <1>9, <1>11, <1>12

\* A wake-up.
LEMMA MprisWakeStep ==
    ASSUME MprisIInv, MprisWake
    PROVE  MprisIInv'
  <1>1. PICK K : K = Known
    OBVIOUS
  <1>2. /\ held \in Seq(PlayerMsgs(K)) /\ wire \in Seq(PlayerMsgs(K)) /\ model \in Seq(Entries(K)) /\ OneEntry(model)
        /\ pending \in Seq(Requests(K)) /\ asked \in Seq(Requests(K)) /\ world \in [Players -> PlayerStates]
        /\ phase = "on" /\ phase' = "on" /\ world' = world /\ seed' = seed
        /\ held' = <<>> /\ wire' = <<>>
    BY <1>1 DEF MprisIInv, MprisTyped, MprisWake, ReadAll
  <1>3. PICK heard : heard = FoldLeft(OnMprisSignal, [m |-> model, asks |-> <<>>], Signals(Batch))
    OBVIOUS
  <1>4. PICK after : after = FoldLeft(OnMprisReply, heard, [i \in DOMAIN pending |-> i])
    OBVIOUS
  <1>5. PICK open : open = Retain([i \in DOMAIN pending |-> i], {i \in DOMAIN pending : ~IsAnswered(i)})
    OBVIOUS
  <1>6. PICK t : t = [i \in DOMAIN open |-> pending[open[i]]]
    OBVIOUS
  <1>7. /\ model' = after.m /\ asked' = asked \o after.asks /\ pending' = t \o after.asks
        /\ shown' = IF ~seed \/ MprisSnapshot(after.m) # MprisSnapshot(model) THEN MprisSnapshot(after.m) ELSE shown
        /\ reordered' = (reordered \/ Overtakes(Batch))
    BY <1>3, <1>4, <1>5, <1>6 DEF MprisWake
  <1>8. t \in Seq(Requests(K)) /\ ToSet(t) = Unanswered
    BY <1>2, <1>5, <1>6, StillOpen DEF LeftOpen
  <1>9. Batch \in Seq(PlayerMsgs(K))
    BY <1>2, MprisBatch
  <1>10. PICK w : w = world
    OBVIOUS
  <1>11. /\ after \in PlayerAccs(K)
         /\ /\ AllSo(Batch, w) /\ ~Overtakes(Batch)
            /\ \A p \in Players : Held(p, w[p], model, Rest(Batch, 0), ToSet(pending))
            => \A p \in Players : Held(p, w[p], after.m, {}, Unanswered \cup ToSet(after.asks))
    BY <1>2, <1>3, <1>4, <1>9, WakePlayers
  <1>12. after.m \in Seq(Entries(K)) /\ after.asks \in Seq(Requests(K)) /\ OneEntry(after.m)
    BY <1>11 DEF PlayerAccs
  <1>13. /\ asked' \in Seq(Requests(K)) /\ pending' \in Seq(Requests(K))
         /\ ToSet(pending') = Unanswered \cup ToSet(after.asks)
    BY <1>2, <1>7, <1>8, <1>12, ConcatProperties, ToSetConcat
  <1>14. MprisTyped'
    <2>1. Known' = K
      BY <1>1, <1>2 DEF Known
    <2>2. <<>> \in Seq(PlayerMsgs(K))
      OBVIOUS
    <2> QED
      BY <1>2, <1>7, <1>12, <1>13, <2>1, <2>2 DEF MprisTyped
  <1>15. PlayersHeld'
    <2>1. Batch' = <<>>
      BY <1>2 DEF Batch
    <2>2. Rest(<<>>, 0) = {}
      BY DEF Rest
    <2>3. AllSo(Batch', world')
      BY <2>1, AllSoEmpty
    <2>4. ASSUME ~reordered', NEW p \in Players
          PROVE  Held(p, world[p], after.m, {}, ToSet(pending'))
      <3>1. ~reordered /\ ~Overtakes(Batch)
        BY <1>7, <2>4
      <3>2. AllSo(Batch, w) /\ \A q \in Players : Held(q, w[q], model, Rest(Batch, 0), ToSet(pending))
        BY <1>2, <1>10, <3>1 DEF MprisIInv, PlayersHeld
      <3> QED
        BY <1>10, <1>11, <1>13, <2>4, <3>1, <3>2
    <2>5. phase' = "on" /\ ~reordered' => \A p \in Players : Held(p, world'[p], model', Rest(Batch', 0), ToSet(pending'))
      BY <1>2, <1>7, <2>1, <2>2, <2>4
    <2> QED
      BY <1>2, <2>3, <2>5 DEF PlayersHeld
  <1>16. MprisPhases'
    <2>1. shown = MprisSnapshot(model) \/ (shown = Nothing /\ seed)
      BY <1>2 DEF MprisIInv, MprisPhases
    <2>2. shown' = MprisSnapshot(model') \/ (shown' = Nothing /\ seed')
      BY <1>2, <1>7, <2>1
    <2> QED
      BY <1>2, <2>2 DEF MprisPhases
  <1> QED
    BY <1>7, <1>12, <1>14, <1>15, <1>16 DEF MprisIInv

\* Each step of the service and of the players keeps the invariant.
LEMMA MprisStep ==
    ASSUME MprisIInv, [MprisNext]_bus
    PROVE  MprisIInv'
  <1>1. CASE PlayerComes
    BY <1>1, PlayerComesStep
  <1>2. CASE PlayerGoes
    BY <1>2, PlayerGoesStep
  <1>3. CASE PlayerActs
    BY <1>3, PlayerActsStep
  <1>4. CASE PlayerAnswers
    BY <1>4, PlayerAnswersStep
  <1>5. CASE MprisMatch
    BY <1>5, MprisMatchStep
  <1>6. CASE ListNames
    BY <1>6, ListNamesStep
  <1>7. CASE GetNameOwner
    BY <1>7, GetNameOwnerStep
  <1>8. CASE MprisStarted
    BY <1>8, MprisStartedStep
  <1>9. CASE MprisNoBus
    BY <1>9, MprisOff DEF MprisNoBus
  <1>10. CASE MprisSeed
    BY <1>10, MprisSeedStep
  <1>11. CASE MprisWake
    BY <1>11, MprisWakeStep
  <1>12. CASE MprisBusLost
    BY <1>12, MprisOff DEF MprisBusLost
  <1>13. CASE UNCHANGED bus
    <2>1. UNCHANGED <<world, asked, wire, held, phase, model, pending, seed, shown, reordered>>
      BY <1>13 DEF bus
    <2>2. Batch' = Batch /\ Known' = Known
      BY <2>1 DEF Batch, Known
    <2>3. MprisTyped'
      BY <2>1, <2>2 DEF MprisIInv, MprisTyped
    <2>4. PlayersHeld'
      BY <2>1, <2>2 DEF MprisIInv, PlayersHeld
    <2>5. MprisPhases' /\ OneEntry(model')
      BY <2>1 DEF MprisIInv, MprisPhases
    <2> QED
      BY <2>3, <2>4, <2>5 DEF MprisIInv
  <1> QED
    BY <1>1, <1>2, <1>3, <1>4, <1>5, <1>6, <1>7, <1>8, <1>9, <1>10, <1>11, <1>12, <1>13 DEF MprisNext

-----------------------------------------------------------------------------
\* The player that is shown is tracked, and plays if any does.
LEMMA ActiveLemma ==
    ASSUME NEW K, NEW m \in Seq(Entries(K)), m # <<>>
    PROVE  /\ Entry(m, Active(m).who, Active(m)) /\ Active(m) \in Entries(K)
           /\ \A p, e : Entry(m, p, e) /\ e.status = "Playing" => Active(m).status = "Playing"
  <1>1. PICK kept : kept = {q \in ToSet(m) : q.status = "Playing"}
    OBVIOUS
  <1>2. PICK t : t = Retain(m, kept)
    OBVIOUS
  <1>3. /\ t \in Seq(Entries(K))
        /\ \A f : (\E n \in 1 .. Len(t) : t[n] = f) <=> f \in kept /\ \E i \in 1 .. Len(m) : m[i] = f
    BY <1>2, RetainLemma
  <1>4. PICK s : s = IF t = <<>> THEN m ELSE t
    OBVIOUS
  <1>5. PICK a : a = Active(m)
    OBVIOUS
  <1>6. a = s[Len(s)]
    BY <1>1, <1>2, <1>4, <1>5 DEF Active, Last
  <1>7. DOMAIN m = 1 .. Len(m)
    OBVIOUS
  <1>8. CASE t = <<>>
    <2>1. a = m[Len(m)] /\ Len(m) \in 1 .. Len(m)
      BY <1>4, <1>6, <1>8
    <2>2. \A f : f \in kept => ~\E i \in 1 .. Len(m) : m[i] = f
      BY <1>3, <1>8
    <2>3. \A p, e : Entry(m, p, e) => e.status # "Playing"
      BY <1>1, <1>7, <2>2 DEF Entry, ToSet
    <2> QED
      BY <1>5, <2>1, <2>3 DEF Entry
  <1>9. CASE t # <<>>
    <2>1. a = t[Len(t)] /\ Len(t) \in 1 .. Len(t)
      BY <1>3, <1>4, <1>6, <1>9
    <2>2. a \in kept /\ (\E i \in 1 .. Len(m) : m[i] = a) /\ a \in Entries(K)
      BY <1>3, <2>1
    <2> QED
      BY <1>1, <1>5, <2>2 DEF Entry
  <1> QED
    BY <1>8, <1>9

\* With nothing under way every player is held as it is.
LEMMA MprisHold ==
    ASSUME MprisIInv
    PROVE  MprisSettles
  <1>1. SUFFICES ASSUME phase = "on", Quiet, ~reordered
                 PROVE  LET named == {p \in Players : world[p].on = "named"}
                            Is(q) == LET w == world[q.who]
                                     IN  q.status = w.status /\ q.track = w.track /\ q.pos = w.pos
                        IN  /\ named \subseteq Tracked(model)
                            /\ \A i \in DOMAIN model : model[i].named = (model[i].who \in named)
                            /\ \A i \in DOMAIN model : world[model[i].who].on \in {"here", "named"} => Is(model[i])
                            /\ (shown = Nothing) = (model = <<>>)
                            /\ shown # Nothing /\ shown.status # "Playing" =>
                                   \A p \in named : world[p].status # "Playing"
                            /\ shown # Nothing /\ shown.who \in named => Is(shown)
    BY DEF MprisSettles
  <1>2. PICK K : K = Known
    OBVIOUS
  <1>3. PICK m : m = model
    OBVIOUS
  <1>4. /\ m \in Seq(Entries(K)) /\ OneEntry(m) /\ K \subseteq Players /\ world \in [Players -> PlayerStates]
        /\ DOMAIN m = 1 .. Len(m)
    BY <1>2, <1>3 DEF MprisIInv, MprisTyped, Known
  <1>5. Rest(Batch, 0) = {} /\ ToSet(pending) = {} /\ ~seed
    <2>1. Batch = <<>> /\ pending = <<>> /\ ~seed
      BY <1>1 DEF Quiet, Batch
    <2> QED
      BY <2>1, ToSetOne DEF Rest
  <1>6. \A p \in Players : Held(p, world[p], m, {}, {})
    BY <1>1, <1>3, <1>5 DEF MprisIInv, PlayersHeld
  <1>7. PICK named : named = {p \in Players : world[p].on = "named"}
    OBVIOUS
  <1>8. ASSUME NEW p \in Players
        PROVE  /\ p \in named => \E e : Entry(m, p, e)
               /\ \A e : Entry(m, p, e) => e.named = (p \in named)
               /\ \A e : Entry(m, p, e) /\ world[p].on \in {"here", "named"}
                           => e.status = world[p].status /\ e.track = world[p].track /\ e.pos = world[p].pos
    <2>1. NamesHeld(p, world[p], m, {}) /\ ListHeld(p, world[p], m, {}) /\ StateHeld(p, world[p], m, {}, {})
      BY <1>6 DEF Held
    <2>2. \A x : ~OwnerIn({}, p, x)
      BY DEF OwnerIn
    <2>3. ~StatusIn({}, p) /\ ~TrackIn({}, p) /\ ~SeekIn({}, p)
      BY DEF StatusIn, TrackIn, SeekIn
    <2>4. p \in named => \E e : Entry(m, p, e)
      BY <1>7, <2>1, <2>2 DEF ListHeld
    <2>5. ASSUME NEW e, Entry(m, p, e)
          PROVE  e.named = (p \in named)
      <3>1. e \in Entries(K)
        BY <1>4, <2>5 DEF Entry
      <3>2. e.named \in BOOLEAN
        BY <3>1 DEF Entries
      <3>3. e.named <=> p \in named
        BY <1>7, <2>1, <2>2, <2>5 DEF NamesHeld
      <3> QED
        BY <3>2, <3>3
    <2>6. ASSUME NEW e, Entry(m, p, e), world[p].on \in {"here", "named"}
          PROVE  e.status = world[p].status /\ e.track = world[p].track /\ e.pos = world[p].pos
      BY <2>1, <2>3, <2>6 DEF StateHeld, StatusSo, TrackSo, PosSo
    <2> QED
      BY <2>4, <2>5, <2>6
  <1>9. \A i \in 1 .. Len(m) : m[i].who \in Players /\ Entry(m, m[i].who, m[i])
    <2>1. \A e \in Entries(K) : e.who \in K
      BY DEF Entries
    <2> QED
      BY <1>4, <2>1 DEF Entry
  <1>10. named \subseteq Tracked(m)
    <2>1. ASSUME NEW p \in named
          PROVE  p \in Tracked(m)
      <3>1. PICK e : Entry(m, p, e)
        BY <1>7, <1>8
      <3> QED
        BY <1>4, <3>1 DEF Entry, Tracked
    <2> QED
      BY <2>1
  <1>11. shown = MprisSnapshot(m)
    BY <1>1, <1>3, <1>5 DEF MprisIInv, MprisPhases
  <1>12. m # <<>> => /\ shown \in Entries(K) /\ Entry(m, shown.who, shown) /\ shown # Nothing
                     /\ \A p, e : Entry(m, p, e) /\ e.status = "Playing" => shown.status = "Playing"
    <2>1. SUFFICES ASSUME m # <<>>
                   PROVE  /\ shown \in Entries(K) /\ Entry(m, shown.who, shown) /\ shown # Nothing
                          /\ \A p, e : Entry(m, p, e) /\ e.status = "Playing" => shown.status = "Playing"
      OBVIOUS
    <2>2. shown = Active(m)
      BY <1>11, <2>1 DEF MprisSnapshot
    <2>3. shown \in Entries(K) /\ Entry(m, shown.who, shown)
          /\ \A p, e : Entry(m, p, e) /\ e.status = "Playing" => shown.status = "Playing"
      BY <1>4, <2>1, <2>2, ActiveLemma
    <2>4. Entries(K) \subseteq Entries(Players)
      BY <1>4 DEF Entries
    <2>5. Nothing \notin Entries(Players)
      BY PlayersAssumption DEF Entries
    <2> QED
      BY <2>3, <2>4, <2>5
  <1>13. m = <<>> => shown = Nothing
    BY <1>11 DEF MprisSnapshot
  <1>14. ASSUME shown # Nothing, shown.status # "Playing", NEW p \in named
         PROVE  world[p].status # "Playing"
    <2>1. p \in Players /\ world[p].on = "named"
      BY <1>7, <1>14
    <2>2. PICK e : Entry(m, p, e)
      BY <1>8, <1>14, <2>1
    <2>3. e.status = world[p].status
      BY <1>8, <2>1, <2>2
    <2> QED
      BY <1>12, <1>13, <1>14, <2>2, <2>3
  <1>15. ASSUME shown # Nothing, shown.who \in named
         PROVE  /\ shown.status = world[shown.who].status /\ shown.track = world[shown.who].track
                /\ shown.pos = world[shown.who].pos
    <2>1. shown.who \in Players /\ world[shown.who].on = "named"
      BY <1>7, <1>15
    <2>2. Entry(m, shown.who, shown)
      BY <1>12, <1>13, <1>15
    <2> QED
      BY <1>8, <2>1, <2>2
  <1>16. \A i \in DOMAIN m : m[i].named = (m[i].who \in named)
    BY <1>4, <1>8, <1>9
  <1>17. \A i \in DOMAIN m : world[m[i].who].on \in {"here", "named"} =>
            /\ m[i].status = world[m[i].who].status /\ m[i].track = world[m[i].who].track
            /\ m[i].pos = world[m[i].who].pos
    BY <1>4, <1>8, <1>9
  <1>18. (shown = Nothing) = (m = <<>>)
    BY <1>12, <1>13
  <1> QED
    BY <1>3, <1>7, <1>10, <1>14, <1>15, <1>16, <1>17, <1>18

\* With nothing under way every player that owns a name is tracked as it is, and
\* one that plays is shown, unless a wake-up took a reply after a later signal.
THEOREM MprisTheorem == MprisSpec => []MprisSettles
  <1>1. MprisInit => MprisIInv
    BY MprisStart
  <1>2. MprisIInv /\ [MprisNext]_bus => MprisIInv'
    BY MprisStep
  <1>3. MprisIInv => MprisSettles
    BY MprisHold
  <1> QED
    BY <1>1, <1>2, <1>3, PTL DEF MprisSpec

-----------------------------------------------------------------------------
(* The services together: whichever is looked at keeps what it keeps.      *)

ServicesIInv ==
    /\ service = "battery" => BatteryIInv
    /\ service = "network" => NetworkIInv
    /\ service = "mpris" => MprisIInv
    /\ service = "tray" => TrayIInv
    /\ service = "notifications" => NotificationsIInv

\* Whichever service it is starts as it does on its own.
LEMMA ServicesStart == ServicesInit => ServicesIInv
  <1>1. CASE BatteryInit
    <2>1. service = "battery"
      BY <1>1 DEF BatteryInit
    <2> QED
      BY <1>1, <2>1, BatteryStart DEF ServicesIInv
  <1>2. CASE NetworkInit
    <2>1. service = "network"
      BY <1>2 DEF NetworkInit
    <2> QED
      BY <1>2, <2>1, NetworkStart DEF ServicesIInv
  <1>3. CASE MprisInit
    <2>1. service = "mpris"
      BY <1>3 DEF MprisInit
    <2> QED
      BY <1>3, <2>1, MprisStart DEF ServicesIInv
  <1>4. CASE TrayInit
    <2>1. service = "tray"
      BY <1>4 DEF TrayInit
    <2> QED
      BY <1>4, <2>1, TrayStart DEF ServicesIInv
  <1>5. CASE NotificationsInit
    <2>1. service = "notifications"
      BY <1>5 DEF NotificationsInit
    <2> QED
      BY <1>5, <2>1, NotificationsStart DEF ServicesIInv
  <1> QED
    BY <1>1, <1>2, <1>3, <1>4, <1>5 DEF ServicesInit

\* Each step is one of the service that is looked at, and keeps its invariant.
LEMMA ServicesStep == ServicesIInv /\ [ServicesNext]_bus => ServicesIInv'
  <1> SUFFICES ASSUME ServicesIInv, [ServicesNext]_bus
               PROVE  ServicesIInv'
    OBVIOUS
  <1>1. CASE BatteryNext
    <2>1. service = "battery" /\ service' = service
      BY <1>1 DEF BatteryNext
    <2>2. BatteryIInv'
      BY <1>1, <2>1, BatteryStep DEF ServicesIInv
    <2> QED
      BY <2>1, <2>2 DEF ServicesIInv
  <1>2. CASE NetworkNext
    <2>1. service = "network" /\ service' = service
      BY <1>2 DEF NetworkNext
    <2>2. NetworkIInv'
      BY <1>2, <2>1, NetworkStep DEF ServicesIInv
    <2> QED
      BY <2>1, <2>2 DEF ServicesIInv
  <1>3. CASE MprisNext
    <2>1. service = "mpris" /\ service' = service
      BY <1>3 DEF MprisNext
    <2>2. MprisIInv'
      BY <1>3, <2>1, MprisStep DEF ServicesIInv
    <2> QED
      BY <2>1, <2>2 DEF ServicesIInv
  <1>4. CASE TrayNext
    <2>1. service = "tray" /\ service' = service
      BY <1>4 DEF TrayNext
    <2>2. TrayIInv'
      BY <1>4, <2>1, TrayStep DEF ServicesIInv
    <2> QED
      BY <2>1, <2>2 DEF ServicesIInv
  <1>5. CASE NotificationsNext
    <2>1. service = "notifications" /\ service' = service
      BY <1>5 DEF NotificationsNext
    <2>2. NotificationsIInv'
      BY <1>5, <2>1, NotificationsStep DEF ServicesIInv
    <2> QED
      BY <2>1, <2>2 DEF ServicesIInv
  <1>6. CASE UNCHANGED bus
    <2>1. service' = service
      BY <1>6 DEF bus
    <2>2. service = "battery" => BatteryIInv'
      BY <1>6, BatteryStep DEF ServicesIInv
    <2>3. service = "network" => NetworkIInv'
      BY <1>6, NetworkStep DEF ServicesIInv
    <2>4. service = "mpris" => MprisIInv'
      BY <1>6, MprisStep DEF ServicesIInv
    <2>5. service = "tray" => TrayIInv'
      BY <1>6, TrayStep DEF ServicesIInv
    <2>6. service = "notifications" => NotificationsIInv'
      BY <1>6, NotificationsStep DEF ServicesIInv
    <2> QED
      BY <2>1, <2>2, <2>3, <2>4, <2>5, <2>6 DEF ServicesIInv
  <1> QED
    BY <1>1, <1>2, <1>3, <1>4, <1>5, <1>6 DEF ServicesNext

\* What the battery, the network and the players show settles on what they are,
\* and the network's details are never those of another connection, whatever the
\* world does while its messages are on the wire, held back or in a batch.
THEOREM ServicesShown == ServicesSpec => []BusShown
  <1>1. ServicesIInv => BusShown
    <2>1. ServicesIInv => BatterySettles
      <3>1. service # "battery" => BatterySettles
        BY DEF BatterySettles
      <3> QED
        BY <3>1, BatteryHold DEF ServicesIInv
    <2>2. ServicesIInv => NetworkInv
      <3>1. service # "network" => NetworkInv
        BY DEF NetworkInv, NetworkSettles, NoForeignDetails
      <3> QED
        BY <3>1, NetworkHold DEF ServicesIInv
    <2>3. ServicesIInv => MprisSettles
      <3>1. service # "mpris" => MprisSettles
        BY DEF MprisSettles
      <3> QED
        BY <3>1, MprisHold DEF ServicesIInv
    <2> QED
      BY <2>1, <2>2, <2>3 DEF BusShown
  <1> QED
    BY <1>1, ServicesStart, ServicesStep, PTL DEF ServicesSpec

\* What the tray shows settles on the applications that are registered, each with
\* the title it has, whoever comes, goes and renames itself meanwhile.
THEOREM ServicesTray == ServicesSpec => []TraySettles
  <1>1. ServicesIInv => TraySettles
    <2>1. service # "tray" => TraySettles
      BY DEF TraySettles
    <2> QED
      BY <2>1, TrayHold DEF ServicesIInv
  <1> QED
    BY <1>1, ServicesStart, ServicesStep, PTL DEF ServicesSpec

\* A notification that times out has its timer, and no id names two of them.
THEOREM ServicesNotifications == ServicesSpec => []NotificationsInv
  <1>1. ServicesIInv => NotificationsInv
    <2>1. service # "notifications" => NotificationsInv
      BY DEF NotificationsInv
    <2> QED
      BY <2>1, NotificationsHold DEF ServicesIInv
  <1> QED
    BY <1>1, ServicesStart, ServicesStep, PTL DEF ServicesSpec
=============================================================================

---------------------------- MODULE CopiesProofs ----------------------------
(***************************************************************************)
(* Proofs about what a client holds of the server's state, for any number  *)
(* of changes, commands, questions and logins and channels of every        *)
(* length.  What a login and a request can be in is taken from             *)
(* SessionProofs.                                                          *)
(***************************************************************************)
EXTENDS SessionProofs

-----------------------------------------------------------------------------
(* The invariant of the copies: what the client holds of a topic, and what *)
(* is on its way to it.  The last message about a topic in a list is one   *)
(* of those in G.                                                          *)

LastIn(ms, W, G) ==
    \E i \in 1..Len(ms) : /\ ms[i] \in G
                          /\ \A j \in 1..Len(ms) : j > i => ms[j] \notin W

Bearing(t) ==
    {m \in DownMessage : m.type \in {"Status", "Scrobbling"} /\ t \in DOMAIN m.values}

With(t, values) == {m \in Bearing(t) : m.values[t] \in values}

(* Once it has read what is on its way, the client will hold one of these  *)
(* values of a topic.                                                      *)
Told(t, values, view, ds) ==
    \/ NoneOf(ds, Bearing(t)) /\ view[t] \in values
    \/ LastIn(ds, Bearing(t), With(t, values))

(* The delayed start: a message on the state of the player says whether it *)
(* is active, another one when it ends.                                    *)
StillOn == {m \in Bearing("delayed") : On(m.values["delayed"])}
IsOff == {m \in Bearing("delayed") : ~ On(m.values["delayed"])}
Deadlines == {m \in DownMessage : m.type = "DelayedStartInfo"}
DeadlineIs(v) == {m \in Deadlines : m.start = v}
OfDelay == Deadlines \cup Bearing("delayed")
NotStillOn == Deadlines \cup IsOff

Unheard(known, ds) == known = Unknown /\ NoneOf(ds, OfDelay)

ToldOff(known, ds) ==
    \/ NoneOf(ds, OfDelay) /\ known # Unknown /\ ~ Active(known)
    \/ LastIn(ds, OfDelay, IsOff)

IsAsked(action, us) == \E k \in 1..Len(us) : us[k] = Action(action)

ToldOn(v, known, us, ds) ==
    \/ LastIn(ds, NotStillOn, DeadlineIs(v))
    \/ NoneOf(ds, NotStillOn) /\ known = v
    \/ NoneOf(ds, NotStillOn) /\ ~ Active(known) /\ ~ NoneOf(ds, StillOn)
    \/ IsAsked("delayed start info", us)

DelayTold(v, known, us, ds) ==
    /\ On(v) => ToldOn(v, known, us, ds)
    /\ ~ On(v) => ToldOff(known, ds)

(* The controllers ask for every topic, after the client has asked for all *)
(* events.  The topics in exempt are those that a step is about, "unheard" *)
(* stands for a delayed start of which the client was never told.          *)
QuestionAbout(t) ==
    IF t \in {"player", "length", "volume", "delayed"} THEN "player state"
    ELSE IF t = "user" THEN "user playing for"
    ELSE IF t \in {"dynamic", "wave"} THEN "dynamic mode status"
    ELSE "indexation status"

ControllersAsk == {"player state", "user playing for", "dynamic mode status",
                   "indexation status", "delayed start info"}

PlainTopics == Topics \ {"delayed", "health", "scrobbling"}

EventsFirst(s, us) ==
    ~ s.events =>
        \A k \in 1..Len(us), action \in ControllersAsk :
            us[k] = Action(action) =>
                \E j \in 1..Len(us) : j < k /\ us[j] = Action("all events")

TopicOK(t, c, s, w, us, ds, exempt) ==
    c.state = "BinaryMode" =>
        \/ IsAsked(QuestionAbout(t), us)
        \/ s.events /\ t \in exempt
        \/ s.events /\ t = "length" /\ s.pendingStatus
        \/ s.events /\ Told(t, {w[t]}, c.view, ds)

DelayOK(c, s, w, us, ds, exempt) ==
    \/ /\ Unheard(c.view["delayed"], ds)
       /\ c.state = "BinaryMode" =>
             IsAsked("player state", us) \/ (s.events /\ "unheard" \in exempt)
    \/ s.events /\ "delayed" \in exempt
    \/ s.events /\ DelayTold(w["delayed"], c.view["delayed"], us, ds)

EventsTold(c, s, w, us, ds, exempt) ==
    /\ EventsFirst(s, us)
    /\ \A t \in PlainTopics : TopicOK(t, c, s, w, us, ds, exempt)
    /\ DelayOK(c, s, w, us, ds, exempt)

(* The health is either good or bad, and good until the server says        *)
(* otherwise.                                                              *)
AsHealthy(v) == {u \in Int : On(u) = On(v)}

HealthOK(c, s, w, us, ds, wanted, exempt) ==
    /\ ~ s.health =>
          /\ NoneOf(ds, Bearing("health")) /\ ~ On(c.view["health"])
          /\ c.state = "BinaryMode" => \E k \in 1..Len(us) : us[k] = EventRequest(wanted)
    /\ s.health => \/ "health" \in exempt
                   \/ Told("health", AsHealthy(w["health"]), c.view, ds)

(* Of the scrobbling the server speaks to a user who is logged in only.    *)
ScrobblingOK(c, s, w, ds, exempt) ==
    /\ c.loggedIn = Nobody => c.view["scrobbling"] = Unknown
    /\ \A i \in 1..Len(ds) : ds[i].type = "Scrobbling" => ds[i].user = s.loggedIn
    /\ \/ NoneOf(ds, Bearing("scrobbling")) /\ c.view["scrobbling"] = Unknown
       \/ /\ s.binary /\ s.extensions /\ s.loggedIn # Nobody
          /\ \/ "scrobbling" \in exempt
             \/ Told("scrobbling", {w["scrobbling"], Unknown}, c.view, ds)

WellFormed(ds) ==
    \A i \in 1..Len(ds) :
        /\ ds[i].type = "Status" => "scrobbling" \notin DOMAIN ds[i].values
        /\ ds[i].type = "Scrobbling" => DOMAIN ds[i].values = {"scrobbling"}

(* Only a server in binary mode was asked for anything, or tells anything. *)
ModeOK(s, us, ds) ==
    /\ s.events \/ s.health \/ (\E k \in 1..Len(us) : us[k].type = "Action") => s.binary
    /\ (\E i \in 1..Len(ds) : ds[i].type = "Status") => s.binary
    /\ s.pendingStatus => s.events
    /\ s.events => s.health

Informed(c, s, w, us, ds, wanted, exempt) ==
    s.open /\ c.state # "Closed" =>
        /\ WellFormed(ds) /\ ModeOK(s, us, ds)
        /\ HealthOK(c, s, w, us, ds, wanted, exempt)
        /\ ScrobblingOK(c, s, w, ds, exempt)
        /\ wanted = "All" => EventsTold(c, s, w, us, ds, exempt)

Untouched(c, s, us, ds) ==
    c.state \in {"NotConnected", "Connecting"} =>
        s = NewServerEnd /\ us = << >> /\ ds = << >> /\ c.view = NothingKnown

CopiesInv ==
    /\ Informed(client, server, world.topics, up, down, subscription, {})
    /\ Untouched(client, server, up, down)

(* Lists: a message comes to the end, and the first one is read.           *)
LEMMA NoneAppended ==
    ASSUME NEW M, NEW a \in Seq(M), NEW m \in M, NEW W, NoneOf(a, W), m \notin W
    PROVE  NoneOf(Append(a, m), W)
  <1> DEFINE b == Append(a, m)
  <1>1. ASSUME NEW j \in 1..Len(b)
        PROVE  b[j] = m \/ (j \in 1..Len(a) /\ b[j] = a[j])
    OBVIOUS
  <1> QED BY <1>1 DEF NoneOf

LEMMA NoneRead ==
    ASSUME NEW M, NEW a \in Seq(M), a # << >>, NEW W, NoneOf(a, W)
    PROVE  NoneOf(Tail(a), W) /\ Head(a) \notin W
  BY TailOfList DEF NoneOf

LEMMA SomeAppended ==
    ASSUME NEW M, NEW a \in Seq(M), NEW m \in M, NEW W, m \in W \/ ~ NoneOf(a, W)
    PROVE  ~ NoneOf(Append(a, m), W)
  <1> DEFINE b == Append(a, m)
  <1>1. Len(b) \in 1..Len(b) /\ b[Len(b)] = m
    OBVIOUS
  <1>2. \A j \in 1..Len(a) : j \in 1..Len(b) /\ b[j] = a[j]
    OBVIOUS
  <1> QED BY Zenon, <1>1, <1>2 DEF NoneOf

LEMMA SomeRead ==
    ASSUME NEW M, NEW a \in Seq(M), a # << >>, NEW W, ~ NoneOf(a, W), Head(a) \notin W
    PROVE  ~ NoneOf(Tail(a), W)
  <1>1. PICK i \in 1..Len(a) : a[i] \in W
    BY DEF NoneOf
  <1>2. i - 1 \in 1..Len(Tail(a)) /\ Tail(a)[i - 1] = a[i]
    BY <1>1, TailOfList
  <1> QED BY <1>1, <1>2 DEF NoneOf

LEMMA LastAppended ==
    ASSUME NEW M, NEW a \in Seq(M), NEW m \in M, NEW W, NEW G,
           m \in G \/ (m \notin W /\ LastIn(a, W, G))
    PROVE  LastIn(Append(a, m), W, G)
  <1> DEFINE b == Append(a, m)
  <1>1. Len(b) \in 1..Len(b) /\ b[Len(b)] = m /\ \A j \in 1..Len(b) : ~ j > Len(b)
    OBVIOUS
  <1>2. \A j \in 1..Len(b) : b[j] = m \/ (j \in 1..Len(a) /\ b[j] = a[j])
    OBVIOUS
  <1>3. \A j \in 1..Len(a) : j \in 1..Len(b) /\ b[j] = a[j]
    OBVIOUS
  <1>4. CASE m \in G
    BY Zenon, <1>1, <1>4 DEF LastIn
  <1>5. CASE m \notin W /\ LastIn(a, W, G)
    BY Zenon, <1>2, <1>3, <1>5 DEF LastIn
  <1> QED BY <1>4, <1>5

LEMMA LastRead ==
    ASSUME NEW M, NEW a \in Seq(M), a # << >>, NEW W, NEW G, LastIn(a, W, G)
    PROVE  \/ LastIn(Tail(a), W, G)
           \/ Head(a) \in G /\ NoneOf(Tail(a), W)
  <1>1. PICK i \in 1..Len(a) : /\ a[i] \in G
                               /\ \A j \in 1..Len(a) : j > i => a[j] \notin W
    BY DEF LastIn
  <1>2. \A j \in 1..Len(Tail(a)) : j + 1 \in 1..Len(a) /\ Tail(a)[j] = a[j + 1]
    BY TailOfList
  <1>3. CASE i = 1
    BY <1>1, <1>2, <1>3, TailOfList DEF NoneOf
  <1>4. CASE i # 1
    <2>1. i - 1 \in 1..Len(Tail(a)) /\ Tail(a)[i - 1] = a[i]
      BY <1>4, TailOfList
    <2>2. \A j \in 1..Len(Tail(a)) : j > i - 1 => Tail(a)[j] \notin W
      BY <1>1, <1>2
    <2> QED BY <1>1, <2>1, <2>2 DEF LastIn
  <1> QED BY <1>3, <1>4

(* A topic, and the delayed start: what comes at the end is the last word, *)
(* and the client makes its own what it reads.                             *)
LEMMA ToldAppended ==
    ASSUME NEW t, NEW values, NEW view, NEW ds \in Seq(DownMessage), NEW m \in DownMessage,
           m \in With(t, values) \/ (m \notin Bearing(t) /\ Told(t, values, view, ds))
    PROVE  Told(t, values, view, Append(ds, m))
  <1>1. With(t, values) \subseteq Bearing(t)
    BY DEF With
  <1>2. CASE m \in With(t, values)
    BY Zenon, <1>2, LastAppended DEF Told
  <1>3. CASE m \notin Bearing(t) /\ Told(t, values, view, ds)
    BY Zenon, <1>3, LastAppended, NoneAppended DEF Told
  <1> QED BY <1>2, <1>3

LEMMA ToldRead ==
    ASSUME NEW t, NEW values, NEW view, NEW ds \in Seq(DownMessage), ds # << >>,
           Told(t, values, view, ds), NEW new,
           Head(ds) \in With(t, values) => new[t] \in values,
           Head(ds) \notin Bearing(t) => new[t] = view[t]
    PROVE  Told(t, values, new, Tail(ds))
  <1>1. CASE NoneOf(ds, Bearing(t)) /\ view[t] \in values
    BY Zenon, <1>1, NoneRead DEF Told
  <1>2. CASE LastIn(ds, Bearing(t), With(t, values))
    BY Zenon, <1>2, LastRead DEF Told
  <1> QED BY Zenon, <1>1, <1>2 DEF Told

LEMMA DelaySets ==
    /\ StillOn \subseteq OfDelay /\ IsOff \subseteq OfDelay /\ NotStillOn \subseteq OfDelay
    /\ OfDelay = NotStillOn \cup StillOn
    /\ \A m \in StillOn : m \notin NotStillOn
    /\ \A v : DeadlineIs(v) \subseteq NotStillOn
    /\ IsOff \subseteq NotStillOn
  <1>1. \A m \in StillOn : m \notin Deadlines
    BY DEF StillOn, Bearing, Deadlines
  <1> QED BY Zenon, <1>1 DEF StillOn, IsOff, NotStillOn, OfDelay, DeadlineIs, Deadlines, Bearing

(* What the server writes of the delayed start.                            *)
LEMMA ToldOnAppended ==
    ASSUME NEW v, NEW known, NEW us, NEW ds \in Seq(DownMessage), NEW m \in DownMessage,
           \/ m \in DeadlineIs(v)
           \/ (m \notin NotStillOn /\ ToldOn(v, known, us, ds))
           \/ (m \in StillOn /\ Unheard(known, ds))
    PROVE  ToldOn(v, known, us, Append(ds, m))
  <1>1. CASE m \in DeadlineIs(v)
    BY Zenon, <1>1, LastAppended DEF ToldOn
  <1>2. CASE m \notin NotStillOn /\ ToldOn(v, known, us, ds)
    BY Zenon, <1>2, LastAppended, NoneAppended, SomeAppended DEF ToldOn
  <1>3. CASE m \in StillOn /\ Unheard(known, ds)
    <2>1. NoneOf(ds, NotStillOn) /\ ~ Active(known) /\ m \notin NotStillOn
      <3>1. NoneOf(ds, NotStillOn) /\ m \notin NotStillOn
        BY Zenon, <1>3, DelaySets DEF Unheard, NoneOf
      <3>2. ~ Active(known)
        BY <1>3 DEF Unheard, Active, Unknown, NoDeadline
      <3> QED BY <3>1, <3>2
    <2>2. NoneOf(Append(ds, m), NotStillOn)
      BY Zenon, <2>1, NoneAppended
    <2>3. ~ NoneOf(Append(ds, m), StillOn)
      BY Zenon, <1>3, SomeAppended
    <2> QED BY Zenon, <2>1, <2>2, <2>3 DEF ToldOn
  <1> QED BY Zenon, <1>1, <1>2, <1>3

LEMMA ToldOffAppended ==
    ASSUME NEW known, NEW ds \in Seq(DownMessage), NEW m \in DownMessage,
           m \in IsOff \/ (m \notin OfDelay /\ ToldOff(known, ds))
    PROVE  ToldOff(known, Append(ds, m))
  <1>1. CASE m \in IsOff
    BY Zenon, <1>1, LastAppended DEF ToldOff
  <1>2. CASE m \notin OfDelay /\ ToldOff(known, ds)
    BY Zenon, <1>2, LastAppended, NoneAppended DEF ToldOff
  <1> QED BY Zenon, <1>1, <1>2

LEMMA OnIsActive ==
    ASSUME NEW v \in Nat, On(v)
    PROVE  Active(v) /\ v # Unknown
  BY DEF Active, Unknown

LEMMA OffIsKnown ==
    ASSUME NEW v \in Nat, ~ On(v)
    PROVE  ~ Active(v) /\ v # Unknown
  BY DEF Active, Unknown, NoDeadline

(* What the client makes of it: new is what it holds then, and vs the      *)
(* messages on their way from it.                                          *)
LEMMA ToldOnRead ==
    ASSUME NEW v, NEW known, NEW us, NEW ds \in Seq(DownMessage), ds # << >>,
           ToldOn(v, known, us, ds), v \in Nat, On(v), NEW new, NEW vs,
           IsAsked("delayed start info", us) => IsAsked("delayed start info", vs),
           Head(ds) \notin OfDelay => new = known,
           Head(ds) \in DeadlineIs(v) => new = v,
           Head(ds) \in StillOn =>
               IF Active(known) THEN new = known ELSE IsAsked("delayed start info", vs)
    PROVE  ToldOn(v, new, vs, Tail(ds))
  <1>0. Active(v)
    BY Zenon, OnIsActive
  <1>1. CASE LastIn(ds, NotStillOn, DeadlineIs(v))
    <2>1. CASE LastIn(Tail(ds), NotStillOn, DeadlineIs(v))
      BY Zenon, <2>1 DEF ToldOn
    <2>2. CASE Head(ds) \in DeadlineIs(v) /\ NoneOf(Tail(ds), NotStillOn)
      BY Zenon, <2>2 DEF ToldOn
    <2> QED BY Zenon, <1>1, <2>1, <2>2, LastRead
  <1>2. CASE NoneOf(ds, NotStillOn) /\ known = v
    <2>1. NoneOf(Tail(ds), NotStillOn) /\ Head(ds) \notin NotStillOn
      BY Zenon, <1>2, NoneRead
    <2>2. Head(ds) \in StillOn \/ Head(ds) \notin OfDelay
      BY Zenon, <2>1, DelaySets
    <2>3. new = v
      BY Zenon, <1>0, <1>2, <2>2
    <2> QED BY Zenon, <2>1, <2>3 DEF ToldOn
  <1>3. CASE NoneOf(ds, NotStillOn) /\ ~ Active(known) /\ ~ NoneOf(ds, StillOn)
    <2>1. NoneOf(Tail(ds), NotStillOn) /\ Head(ds) \notin NotStillOn
      BY Zenon, <1>3, NoneRead
    <2>2. CASE Head(ds) \in StillOn
      BY Zenon, <1>3, <2>2 DEF ToldOn
    <2>3. CASE Head(ds) \notin StillOn
      <3>1. Head(ds) \notin OfDelay
        BY Zenon, <2>1, <2>3, DelaySets
      <3>2. ~ NoneOf(Tail(ds), StillOn)
        BY Zenon, <1>3, <2>3, SomeRead
      <3> QED BY Zenon, <1>3, <2>1, <3>1, <3>2 DEF ToldOn
    <2> QED BY <2>2, <2>3
  <1>4. CASE IsAsked("delayed start info", us)
    BY Zenon, <1>4 DEF ToldOn
  <1> QED BY Zenon, <1>1, <1>2, <1>3, <1>4 DEF ToldOn

LEMMA ToldOffRead ==
    ASSUME NEW known, NEW ds \in Seq(DownMessage), ds # << >>, ToldOff(known, ds), NEW new,
           Head(ds) \notin OfDelay => new = known,
           Head(ds) \in IsOff => new # Unknown /\ ~ Active(new)
    PROVE  ToldOff(new, Tail(ds))
  <1>1. CASE NoneOf(ds, OfDelay) /\ known # Unknown /\ ~ Active(known)
    BY Zenon, <1>1, NoneRead DEF ToldOff
  <1>2. CASE LastIn(ds, OfDelay, IsOff)
    BY Zenon, <1>2, LastRead DEF ToldOff
  <1> QED BY Zenon, <1>1, <1>2 DEF ToldOff

(* Messages that are about none of the topics.                             *)
Untelling == {m \in DownMessage : m.type \notin {"Status", "Scrobbling", "DelayedStartInfo"}}

LEMMA UntellingSets ==
    ASSUME NEW m \in Untelling
    PROVE  /\ \A t : m \notin Bearing(t)
           /\ m \notin OfDelay /\ m \notin NotStillOn /\ m \notin StillOn
           /\ m.type # "Status" /\ m.type # "Scrobbling"
  BY Zenon DEF Untelling, Bearing, OfDelay, NotStillOn, StillOn, IsOff, Deadlines

LEMMA NoneGrown ==
    ASSUME NEW M, NEW a \in Seq(M), NEW b \in Seq(M), NEW S, NEW W, Grown(a, b, S),
           \A m \in S : m \notin W
    PROVE  NoneOf(a, W) <=> NoneOf(b, W)
  BY DEF Grown, NoneOf

LEMMA LastGrown ==
    ASSUME NEW M, NEW a \in Seq(M), NEW b \in Seq(M), NEW S, NEW W, NEW G, Grown(a, b, S),
           \A m \in S : m \notin W, LastIn(a, W, G)
    PROVE  LastIn(b, W, G)
  <1>1. PICK i \in 1..Len(a) : /\ a[i] \in G
                               /\ \A j \in 1..Len(a) : j > i => a[j] \notin W
    BY DEF LastIn
  <1>2. i \in 1..Len(b) /\ b[i] \in G
    BY <1>1 DEF Grown
  <1>3. ASSUME NEW j \in 1..Len(b), j > i
        PROVE  b[j] \notin W
    BY <1>1, <1>3 DEF Grown
  <1> QED BY <1>2, <1>3 DEF LastIn

LEMMA ToldGrown ==
    ASSUME NEW ds \in Seq(DownMessage), NEW es \in Seq(DownMessage),
           Grown(ds, es, Untelling)
    PROVE  /\ \A t : NoneOf(ds, Bearing(t)) => NoneOf(es, Bearing(t))
           /\ \A t, values, view : Told(t, values, view, ds) => Told(t, values, view, es)
           /\ \A known : Unheard(known, ds) => Unheard(known, es)
           /\ \A v, known, us : DelayTold(v, known, us, ds) => DelayTold(v, known, us, es)
  <1>1. /\ \A t : \A m \in Untelling : m \notin Bearing(t)
        /\ \A m \in Untelling : m \notin OfDelay
        /\ \A m \in Untelling : m \notin NotStillOn
        /\ \A m \in Untelling : m \notin StillOn
    BY Zenon, UntellingSets
  <1>2. \A t : NoneOf(ds, Bearing(t)) => NoneOf(es, Bearing(t))
    BY Zenon, <1>1, NoneGrown
  <1>3. \A t, G : LastIn(ds, Bearing(t), G) => LastIn(es, Bearing(t), G)
    BY Zenon, <1>1, LastGrown
  <1>4. /\ NoneOf(ds, OfDelay) => NoneOf(es, OfDelay)
        /\ \A G : LastIn(ds, OfDelay, G) => LastIn(es, OfDelay, G)
    BY Zenon, <1>1, NoneGrown, LastGrown
  <1>5. /\ NoneOf(ds, NotStillOn) => NoneOf(es, NotStillOn)
        /\ \A G : LastIn(ds, NotStillOn, G) => LastIn(es, NotStillOn, G)
    BY Zenon, <1>1, NoneGrown, LastGrown
  <1>6. NoneOf(es, StillOn) => NoneOf(ds, StillOn)
    BY Zenon, <1>1, NoneGrown
  <1>7. \A t, values, view : Told(t, values, view, ds) => Told(t, values, view, es)
    BY Zenon, <1>2, <1>3 DEF Told
  <1>8. \A known : Unheard(known, ds) => Unheard(known, es)
    BY Zenon, <1>4 DEF Unheard
  <1>9. \A v, known, us : DelayTold(v, known, us, ds) => DelayTold(v, known, us, es)
    BY Zenon, <1>4, <1>5, <1>6 DEF DelayTold, ToldOn, ToldOff
  <1> QED BY Zenon, <1>2, <1>7, <1>8, <1>9

(* What the server does without a word about the topics.                   *)
SameTelling(s, t) ==
    /\ t.open = s.open /\ (s.binary => t.binary) /\ t.health = s.health
    /\ (s.events => t.events) /\ (t.events => s.events \/ (t.binary /\ t.health))
    /\ (s.extensions => t.extensions)
    /\ (t.loggedIn = s.loggedIn \/ s.loggedIn = Nobody)
    /\ (s.pendingStatus => t.pendingStatus)
    /\ (t.pendingStatus => s.pendingStatus \/ t.events)

Mute(x, z) ==
    /\ z \in ServerSides
    /\ SameTelling(x.s, z.s) /\ z.w = x.w
    /\ Grown(x.out, z.out, Untelling)

LEMMA SameTellingTwice ==
    ASSUME NEW s, NEW t, NEW u, SameTelling(s, t), SameTelling(t, u)
    PROVE  SameTelling(s, u)
  BY Zenon DEF SameTelling

LEMMA MuteTwice ==
    ASSUME NEW x \in ServerSides, NEW y, NEW z, Mute(x, y), Mute(y, z)
    PROVE  Mute(x, z)
  <1>1. /\ x.out \in Seq(DownMessage) /\ y.out \in Seq(DownMessage)
        /\ z.out \in Seq(DownMessage) /\ z \in ServerSides
    BY DEF Mute, ServerSides
  <1>2. Grown(x.out, z.out, Untelling)
    BY <1>1, GrownTwice DEF Mute
  <1> QED BY Zenon, <1>1, <1>2, SameTellingTwice DEF Mute

LEMMA MuteSame ==
    ASSUME NEW x \in ServerSides
    PROVE  Mute(x, x)
  <1>1. x.out \in Seq(DownMessage)
    BY DEF ServerSides
  <1>2. Grown(x.out, x.out, Untelling)
    BY <1>1, GrownSame
  <1> QED BY Zenon, <1>2 DEF Mute, SameTelling

LEMMA MuteSilently ==
    ASSUME NEW x \in ServerSides, NEW z \in ServerSides, SameTelling(x.s, z.s),
           z.w = x.w, z.out = x.out
    PROVE  Mute(x, z)
  <1>1. x.out \in Seq(DownMessage)
    BY DEF ServerSides
  <1>2. Grown(x.out, z.out, Untelling)
    BY <1>1, GrownSame
  <1> QED BY Zenon, <1>2 DEF Mute

LEMMA MuteSend ==
    ASSUME NEW x \in ServerSides, NEW m \in Untelling
    PROVE  Mute(x, SendBinaryMessage(x, m))
  <1> DEFINE out == Append(x.out, m)
             y == [x EXCEPT !.out = out]
  <1>1. m \in DownMessage /\ x.out \in Seq(DownMessage)
    BY DEF Untelling, ServerSides
  <1>2. out \in Seq(DownMessage) /\ Grown(x.out, out, Untelling)
    BY <1>1, GrownAppend
  <1>3. SendBinaryMessage(x, m) = IF x.s.open /\ x.s.binary THEN y ELSE x
    BY Zenon DEF SendBinaryMessage, ServerSides
  <1> HIDE DEF out
  <1>4. y \in ServerSides /\ y.s = x.s /\ y.w = x.w /\ y.out = out
    BY Zenon, <1>2 DEF ServerSides
  <1>5. Mute(x, y)
    BY Zenon, <1>2, <1>4 DEF Mute, SameTelling
  <1> HIDE DEF y
  <1> QED BY Zenon, <1>3, <1>5, MuteSame

LEMMA MuteInforms ==
    ASSUME NEW x \in ServerSides, NEW z, Mute(x, z), NEW c, NEW us, NEW wanted, NEW exempt,
           Informed(c, x.s, x.w, us, x.out, wanted, exempt)
    PROVE  Informed(c, z.s, z.w, us, z.out, wanted, exempt)
  <1> DEFINE s == x.s
             t == z.s
             w == x.w
             ds == x.out
             es == z.out
  <1>1. /\ ds \in Seq(DownMessage) /\ es \in Seq(DownMessage) /\ Grown(ds, es, Untelling)
        /\ z.w = w /\ SameTelling(s, t)
    BY DEF Mute, ServerSides
  <1>2. ASSUME s.open /\ c.state # "Closed"
        PROVE  /\ WellFormed(ds) /\ ModeOK(s, us, ds)
               /\ HealthOK(c, s, w, us, ds, wanted, exempt)
               /\ ScrobblingOK(c, s, w, ds, exempt)
               /\ wanted = "All" => EventsTold(c, s, w, us, ds, exempt)
    BY Zenon, <1>2 DEF Informed
  <1>3. t.open = s.open
    BY Zenon, <1>1 DEF SameTelling
  <1> SUFFICES ASSUME s.open /\ c.state # "Closed"
               PROVE  /\ WellFormed(es) /\ ModeOK(t, us, es)
                      /\ HealthOK(c, t, w, us, es, wanted, exempt)
                      /\ ScrobblingOK(c, t, w, es, exempt)
                      /\ wanted = "All" => EventsTold(c, t, w, us, es, exempt)
    BY Zenon, <1>1, <1>3 DEF Informed
  <1> HIDE DEF s, t, w, ds, es
  <1>4. \A i \in 1..Len(es) : es[i] \in Untelling \/ (i \in 1..Len(ds) /\ es[i] = ds[i])
    BY <1>1 DEF Grown
  <1>5. WellFormed(es)
    BY Zenon, <1>2, <1>4, UntellingSets DEF WellFormed
  <1>6. ModeOK(t, us, es)
    <2>1. (\E i \in 1..Len(es) : es[i].type = "Status") =>
            \E i \in 1..Len(ds) : ds[i].type = "Status"
      BY Zenon, <1>4, UntellingSets
    <2> QED BY Zenon, <1>1, <1>2, <2>1 DEF ModeOK, SameTelling
  <1>7. HealthOK(c, t, w, us, es, wanted, exempt)
    BY Zenon, <1>1, <1>2, ToldGrown DEF HealthOK, SameTelling
  <1>8. ScrobblingOK(c, t, w, es, exempt)
    <2>1. CASE s.loggedIn = Nobody
      <3>1. NoneOf(ds, Bearing("scrobbling")) /\ c.view["scrobbling"] = Unknown
        BY Zenon, <1>2, <2>1 DEF ScrobblingOK
      <3>2. NoneOf(es, Bearing("scrobbling"))
        BY Zenon, <1>1, <3>1, ToldGrown
      <3>3. \A i \in 1..Len(es) : es[i].type # "Scrobbling"
        <4>1. \A i \in 1..Len(es) : es[i] \in DownMessage /\ es[i] \notin Bearing("scrobbling")
          BY <1>1, <3>2 DEF NoneOf
        <4>2. \A i \in 1..Len(es) :
                  es[i].type = "Scrobbling" => "scrobbling" \in DOMAIN es[i].values
          BY Zenon, <1>5 DEF WellFormed
        <4> QED BY Zenon, <4>1, <4>2 DEF Bearing
      <3> QED BY Zenon, <3>1, <3>2, <3>3 DEF ScrobblingOK
    <2>2. CASE t.loggedIn = s.loggedIn
      <3>1. \A i \in 1..Len(es) : es[i].type = "Scrobbling" => es[i].user = t.loggedIn
        BY Zenon, <1>2, <1>4, <2>2, UntellingSets DEF ScrobblingOK
      <3> QED BY Zenon, <1>1, <1>2, <2>2, <3>1, ToldGrown DEF ScrobblingOK, SameTelling
    <2> QED BY Zenon, <1>1, <2>1, <2>2 DEF SameTelling
  <1>9. ASSUME wanted = "All"
        PROVE  EventsTold(c, t, w, us, es, exempt)
    <2>1. EventsTold(c, s, w, us, ds, exempt)
      BY Zenon, <1>2, <1>9
    <2>2. EventsFirst(t, us)
      BY Zenon, <1>1, <2>1 DEF EventsTold, EventsFirst, SameTelling
    <2>3. ASSUME NEW topic \in PlainTopics
          PROVE  TopicOK(topic, c, t, w, us, es, exempt)
      <3>1. TopicOK(topic, c, s, w, us, ds, exempt)
        BY Zenon, <2>1 DEF EventsTold
      <3> QED BY Zenon, <1>1, <3>1, ToldGrown DEF TopicOK, SameTelling
    <2>4. DelayOK(c, t, w, us, es, exempt)
      <3>1. DelayOK(c, s, w, us, ds, exempt)
        BY Zenon, <2>1 DEF EventsTold
      <3> QED BY Zenon, <1>1, <3>1, ToldGrown DEF DelayOK, SameTelling
    <2> QED BY Zenon, <2>2, <2>3, <2>4 DEF EventsTold
  <1> QED BY Zenon, <1>5, <1>6, <1>7, <1>8, <1>9

(* The server speaks of topics: what it sends is the last word on them.    *)
StatusOf(w, topics) == [type |-> "Status", values |-> [t \in topics |-> w[t]]]

LEMMA StatusBears ==
    ASSUME NEW w \in [Topics -> Nat], NEW topics \in SUBSET Topics,
           NEW m, m = StatusOf(w, topics)
    PROVE  /\ m \in DownMessage /\ m.type = "Status" /\ DOMAIN m.values = topics
           /\ \A t \in topics : m \in With(t, {w[t]})
           /\ \A t : t \notin topics => m \notin Bearing(t)
           /\ "delayed" \notin topics => m \notin OfDelay
           /\ "delayed" \in topics /\ On(w["delayed"]) => m \in StillOn
           /\ "delayed" \in topics /\ ~ On(w["delayed"]) => m \in IsOff
  <1> DEFINE values == [t \in topics |-> w[t]]
  <1>1. values \in [topics -> Nat]
    OBVIOUS
  <1>2. values \in Values /\ DOMAIN values = topics /\ \A t \in topics : values[t] = w[t]
    BY <1>1 DEF Values
  <1> HIDE DEF values
  <1>3. m.type = "Status" /\ m.values = values
    BY Zenon DEF StatusOf, values
  <1>4. m \in [type : {"Status"}, values : Values]
    BY Zenon, <1>2 DEF StatusOf, values
  <1>5. m \in DownMessage
    BY Zenon, <1>4 DEF DownMessage
  <1>6. \A t \in topics : m \in With(t, {w[t]})
    BY Zenon, <1>2, <1>3, <1>5 DEF With, Bearing
  <1>7. \A t : t \notin topics => m \notin Bearing(t)
    BY Zenon, <1>2, <1>3 DEF Bearing
  <1>8. m \notin Deadlines
    BY <1>3 DEF Deadlines
  <1>9. "delayed" \in topics => m \in Bearing("delayed") /\ m.values["delayed"] = w["delayed"]
    BY Zenon, <1>2, <1>3, <1>5 DEF Bearing
  <1> QED BY Zenon, <1>2, <1>3, <1>5, <1>6, <1>7, <1>8, <1>9 DEF OfDelay, StillOn, IsOff

(* The topics that a message has been the last word on are told.           *)
Settled(w, topics) ==
    (IF On(w["delayed"]) THEN topics \ {"delayed"} ELSE topics)
    \cup (IF "delayed" \in topics THEN {"unheard"} ELSE {})

LEMMA StatusTold ==
    ASSUME NEW c, NEW s, NEW w \in [Topics -> Nat], NEW us, NEW ds \in Seq(DownMessage),
           NEW wanted, NEW exempt, Informed(c, s, w, us, ds, wanted, exempt),
           NEW topics \in SUBSET Topics, "scrobbling" \notin topics,
           s.binary, "health" \in topics => s.health,
           wanted = "All" /\ "delayed" \in topics => s.events,
           NEW m, m = StatusOf(w, topics)
    PROVE  Informed(c, s, w, us, Append(ds, m), wanted, exempt \ Settled(w, topics))
  <1> DEFINE es == Append(ds, m)
             left == exempt \ Settled(w, topics)
  <1> SUFFICES ASSUME s.open /\ c.state # "Closed"
               PROVE  /\ WellFormed(es) /\ ModeOK(s, us, es)
                      /\ HealthOK(c, s, w, us, es, wanted, left)
                      /\ ScrobblingOK(c, s, w, es, left)
                      /\ wanted = "All" => EventsTold(c, s, w, us, es, left)
    BY Zenon DEF Informed
  <1>1. /\ WellFormed(ds) /\ ModeOK(s, us, ds)
        /\ HealthOK(c, s, w, us, ds, wanted, exempt)
        /\ ScrobblingOK(c, s, w, ds, exempt)
        /\ wanted = "All" => EventsTold(c, s, w, us, ds, exempt)
    BY Zenon DEF Informed
  <1>2. /\ m \in DownMessage /\ m.type = "Status" /\ DOMAIN m.values = topics
        /\ \A t \in topics : m \in With(t, {w[t]})
        /\ \A t : t \notin topics => m \notin Bearing(t)
        /\ "delayed" \notin topics => m \notin OfDelay
        /\ "delayed" \in topics /\ On(w["delayed"]) => m \in StillOn
        /\ "delayed" \in topics /\ ~ On(w["delayed"]) => m \in IsOff
    BY Zenon, StatusBears
  <1>3. /\ \A t : t \in left => t \in exempt
        /\ \A t : t # "unheard" /\ t \in exempt /\ t \notin left => t \in topics
        /\ "delayed" \notin topics /\ "unheard" \in exempt => "unheard" \in left
        /\ "delayed" \in exempt /\ "delayed" \notin left => ~ On(w["delayed"])
    <2> DEFINE settled == Settled(w, topics)
    <2>1. /\ \A t : t # "unheard" /\ t \in settled => t \in topics
          /\ "unheard" \in settled => "delayed" \in topics
      BY DEF Settled, Topics
    <2>2. "delayed" \in settled => ~ On(w["delayed"])
      <3>1. CASE On(w["delayed"])
        <4>1. Settled(w, topics) = (topics \ {"delayed"})
                                   \cup (IF "delayed" \in topics THEN {"unheard"} ELSE {})
          BY Zenon, <3>1 DEF Settled
        <4> QED BY <4>1
      <3> QED BY <3>1
    <2> QED BY Zenon, <2>1, <2>2
  <1>10. /\ "health" # "unheard" /\ "scrobbling" # "unheard" /\ "delayed" # "unheard"
         /\ \A t \in PlainTopics : t # "unheard"
    BY DEF PlainTopics, Topics
  <1>4. \A i \in 1..Len(es) : es[i] = m \/ (i \in 1..Len(ds) /\ es[i] = ds[i])
    BY <1>2
  <1> HIDE DEF es, left
  <1>5. WellFormed(es) /\ ModeOK(s, us, es)
    BY Zenon, <1>1, <1>2, <1>4 DEF WellFormed, ModeOK
  <1>6. \A t, values, view : \/ m \in With(t, values)
                             \/ (m \notin Bearing(t) /\ Told(t, values, view, ds))
                             => Told(t, values, view, es)
    BY Zenon, <1>2, ToldAppended DEF es
  <1>7. HealthOK(c, s, w, us, es, wanted, left)
    <2>1. CASE "health" \in topics
      <3>1. m \in With("health", AsHealthy(w["health"]))
        <4>1. w["health"] \in AsHealthy(w["health"])
          BY DEF AsHealthy, Topics
        <4> QED BY Zenon, <1>2, <2>1, <4>1 DEF With
      <3> QED BY Zenon, <1>6, <2>1, <3>1 DEF HealthOK
    <2>2. CASE "health" \notin topics
      <3>1. NoneOf(ds, Bearing("health")) => NoneOf(es, Bearing("health"))
        BY Zenon, <1>2, <2>2, NoneAppended DEF es
      <3> QED BY Zenon, <1>1, <1>2, <1>3, <1>6, <1>10, <2>2, <3>1 DEF HealthOK
    <2> QED BY <2>1, <2>2
  <1>8. ScrobblingOK(c, s, w, es, left)
    <2>1. NoneOf(ds, Bearing("scrobbling")) => NoneOf(es, Bearing("scrobbling"))
      BY Zenon, <1>2, NoneAppended DEF es
    <2>2. \A i \in 1..Len(es) : es[i].type = "Scrobbling" => es[i].user = s.loggedIn
      <3>1. m.type # "Scrobbling"
        BY <1>2
      <3> QED BY Zenon, <1>1, <1>4, <3>1 DEF ScrobblingOK
    <2> QED BY Zenon, <1>1, <1>2, <1>3, <1>6, <1>10, <2>1, <2>2 DEF ScrobblingOK
  <1>9. ASSUME wanted = "All"
        PROVE  EventsTold(c, s, w, us, es, left)
    <2>1. EventsTold(c, s, w, us, ds, exempt)
      BY Zenon, <1>1, <1>9
    <2>2. ASSUME NEW t \in PlainTopics
          PROVE  TopicOK(t, c, s, w, us, es, left)
      <3>1. TopicOK(t, c, s, w, us, ds, exempt)
        BY Zenon, <2>1 DEF EventsTold
      <3>2. t \in topics => Told(t, {w[t]}, c.view, es)
        BY Zenon, <1>2, <1>6
      <3>3. t \notin topics /\ Told(t, {w[t]}, c.view, ds) => Told(t, {w[t]}, c.view, es)
        BY Zenon, <1>2, <1>6
      <3> QED BY Zenon, <1>3, <1>10, <3>1, <3>2, <3>3 DEF TopicOK
    <2>3. DelayOK(c, s, w, us, es, left)
      <3> DEFINE known == c.view["delayed"]
                 v == w["delayed"]
      <3>1. DelayOK(c, s, w, us, ds, exempt)
        BY Zenon, <2>1 DEF EventsTold
      <3>2. CASE "delayed" \notin topics
        <4>1. m \notin OfDelay /\ m \notin NotStillOn
          BY Zenon, <1>2, <3>2, DelaySets
        <4>2. Unheard(known, ds) => Unheard(known, es)
          BY Zenon, <1>2, <4>1, NoneAppended DEF Unheard, es
        <4>3. DelayTold(v, known, us, ds) => DelayTold(v, known, us, es)
          BY Zenon, <1>2, <4>1, ToldOnAppended, ToldOffAppended DEF DelayTold, es
        <4> QED BY Zenon, <1>3, <1>10, <3>1, <3>2, <4>2, <4>3 DEF DelayOK
      <3>3. CASE "delayed" \in topics /\ On(v)
        <4>1. m \in StillOn /\ m \notin NotStillOn
          BY Zenon, <1>2, <3>3, DelaySets
        <4>2. "delayed" \in exempt => "delayed" \in left
          BY Zenon, <1>3, <3>3
        <4>3. ToldOn(v, known, us, ds) \/ Unheard(known, ds) => ToldOn(v, known, us, es)
          BY Zenon, <1>2, <4>1, ToldOnAppended DEF es
        <4>4. s.events
          BY Zenon, <1>9, <3>3
        <4> QED BY Zenon, <3>1, <3>3, <4>2, <4>3, <4>4 DEF DelayOK, DelayTold
      <3>4. CASE "delayed" \in topics /\ ~ On(v)
        <4>1. ToldOff(known, es)
          BY Zenon, <1>2, <3>4, ToldOffAppended DEF es
        <4>2. s.events
          BY Zenon, <1>9, <3>4
        <4> QED BY Zenon, <3>4, <4>1, <4>2 DEF DelayOK, DelayTold
      <3> QED BY <3>2, <3>3, <3>4
    <2> QED BY Zenon, <2>1, <2>2, <2>3 DEF EventsTold
  <1> QED BY Zenon, <1>1, <1>5, <1>7, <1>8, <1>9

LEMMA DeadlineTold ==
    ASSUME NEW c, NEW s, NEW w \in [Topics -> Nat], NEW us, NEW ds \in Seq(DownMessage),
           NEW wanted, NEW exempt, Informed(c, s, w, us, ds, wanted, exempt),
           On(w["delayed"]), wanted = "All" => s.events,
           NEW m, m = [type |-> "DelayedStartInfo", start |-> w["delayed"]]
    PROVE  Informed(c, s, w, us, Append(ds, m), wanted, exempt \ {"delayed"})
  <1> DEFINE es == Append(ds, m)
             left == exempt \ {"delayed"}
  <1> SUFFICES ASSUME s.open /\ c.state # "Closed"
               PROVE  /\ WellFormed(es) /\ ModeOK(s, us, es)
                      /\ HealthOK(c, s, w, us, es, wanted, left)
                      /\ ScrobblingOK(c, s, w, es, left)
                      /\ wanted = "All" => EventsTold(c, s, w, us, es, left)
    BY Zenon DEF Informed
  <1>1. /\ WellFormed(ds) /\ ModeOK(s, us, ds)
        /\ HealthOK(c, s, w, us, ds, wanted, exempt)
        /\ ScrobblingOK(c, s, w, ds, exempt)
        /\ wanted = "All" => EventsTold(c, s, w, us, ds, exempt)
    BY Zenon DEF Informed
  <1>2. /\ m \in DownMessage /\ m.type \notin {"Status", "Scrobbling"}
        /\ m \in DeadlineIs(w["delayed"])
    <2>1. w["delayed"] \in Nat
      BY DEF Topics
    <2>2. m \in [type : {"DelayedStartInfo"}, start : Nat]
      BY <2>1
    <2>3. m \in DownMessage
      BY Zenon, <2>2 DEF DownMessage
    <2>4. m.type = "DelayedStartInfo" /\ m.start = w["delayed"]
      OBVIOUS
    <2> QED BY <2>3, <2>4 DEF DeadlineIs, Deadlines
  <1>3. /\ \A t : m \notin Bearing(t)
        /\ \A t : t # "delayed" /\ t \in exempt => t \in left
    BY <1>2 DEF Bearing
  <1>4. \A i \in 1..Len(es) : es[i] = m \/ (i \in 1..Len(ds) /\ es[i] = ds[i])
    BY <1>2
  <1> HIDE DEF es, left
  <1>5. WellFormed(es) /\ ModeOK(s, us, es)
    BY Zenon, <1>1, <1>2, <1>4 DEF WellFormed, ModeOK
  <1>6. /\ \A t, values, view : Told(t, values, view, ds) => Told(t, values, view, es)
        /\ \A t : NoneOf(ds, Bearing(t)) => NoneOf(es, Bearing(t))
    BY Zenon, <1>2, <1>3, ToldAppended, NoneAppended DEF es
  <1>7. HealthOK(c, s, w, us, es, wanted, left)
    BY Zenon, <1>1, <1>3, <1>6 DEF HealthOK
  <1>8. ScrobblingOK(c, s, w, es, left)
    <2>1. \A i \in 1..Len(es) : es[i].type = "Scrobbling" => es[i].user = s.loggedIn
      BY Zenon, <1>1, <1>2, <1>4 DEF ScrobblingOK
    <2> QED BY Zenon, <1>1, <1>3, <1>6, <2>1 DEF ScrobblingOK
  <1>9. ASSUME wanted = "All"
        PROVE  EventsTold(c, s, w, us, es, left)
    <2>1. EventsTold(c, s, w, us, ds, exempt) /\ s.events
      BY Zenon, <1>1, <1>9
    <2>2. ASSUME NEW t \in PlainTopics
          PROVE  TopicOK(t, c, s, w, us, es, left)
      <3>1. TopicOK(t, c, s, w, us, ds, exempt)
        BY Zenon, <2>1 DEF EventsTold
      <3>2. t # "delayed"
        BY DEF PlainTopics
      <3> QED BY Zenon, <1>3, <1>6, <3>1, <3>2 DEF TopicOK
    <2>3. DelayOK(c, s, w, us, es, left)
      <3>1. ToldOn(w["delayed"], c.view["delayed"], us, es)
        BY Zenon, <1>2, ToldOnAppended DEF es
      <3> QED BY Zenon, <2>1, <3>1 DEF DelayOK, DelayTold
    <2> QED BY Zenon, <2>1, <2>2, <2>3 DEF EventsTold
  <1> QED BY Zenon, <1>1, <1>5, <1>7, <1>8, <1>9

LEMMA ScrobblingTold ==
    ASSUME NEW c, NEW s, NEW w \in [Topics -> Nat], NEW us, NEW ds \in Seq(DownMessage),
           NEW wanted, NEW exempt, Informed(c, s, w, us, ds, wanted, exempt),
           s.binary, s.extensions, s.loggedIn # Nobody, s.loggedIn \in Names,
           NEW m, m = [type |-> "Scrobbling", user |-> s.loggedIn,
                       values |-> [t \in {"scrobbling"} |-> w[t]]]
    PROVE  Informed(c, s, w, us, Append(ds, m), wanted, exempt \ {"scrobbling"})
  <1> DEFINE es == Append(ds, m)
             left == exempt \ {"scrobbling"}
             values == [t \in {"scrobbling"} |-> w[t]]
  <1> SUFFICES ASSUME s.open /\ c.state # "Closed"
               PROVE  /\ WellFormed(es) /\ ModeOK(s, us, es)
                      /\ HealthOK(c, s, w, us, es, wanted, left)
                      /\ ScrobblingOK(c, s, w, es, left)
                      /\ wanted = "All" => EventsTold(c, s, w, us, es, left)
    BY Zenon DEF Informed
  <1>1. /\ WellFormed(ds) /\ ModeOK(s, us, ds)
        /\ HealthOK(c, s, w, us, ds, wanted, exempt)
        /\ ScrobblingOK(c, s, w, ds, exempt)
        /\ wanted = "All" => EventsTold(c, s, w, us, ds, exempt)
    BY Zenon DEF Informed
  <1>2. /\ m \in DownMessage /\ m.type = "Scrobbling" /\ DOMAIN m.values = {"scrobbling"}
        /\ m.user = s.loggedIn /\ m.values["scrobbling"] = w["scrobbling"]
    <2>1. {"scrobbling"} \in SUBSET Topics
      BY DEF Topics
    <2>2. values \in [{"scrobbling"} -> Nat]
      BY <2>1
    <2>3. values \in Values /\ DOMAIN values = {"scrobbling"}
          /\ values["scrobbling"] = w["scrobbling"]
      BY <2>1, <2>2 DEF Values
    <2> HIDE DEF values
    <2>4. m \in [type : {"Scrobbling"}, user : Names, values : Values]
      BY Zenon, <2>3 DEF values
    <2>5. m.type = "Scrobbling" /\ m.user = s.loggedIn /\ m.values = values
      BY Zenon DEF values
    <2>6. m \in DownMessage
      BY Zenon, <2>4 DEF DownMessage
    <2> QED BY Zenon, <2>3, <2>5, <2>6
  <1>3. /\ \A t : t # "scrobbling" => m \notin Bearing(t)
        /\ m \in With("scrobbling", {w["scrobbling"], Unknown})
        /\ \A t : t # "scrobbling" /\ t \in exempt => t \in left
    BY Zenon, <1>2 DEF Bearing, With
  <1>4. \A i \in 1..Len(es) : es[i] = m \/ (i \in 1..Len(ds) /\ es[i] = ds[i])
    BY <1>2
  <1> HIDE DEF es, left, values
  <1>5. WellFormed(es) /\ ModeOK(s, us, es)
    BY Zenon, <1>1, <1>2, <1>4 DEF WellFormed, ModeOK
  <1>6. /\ \A t : t # "scrobbling" =>
              \A topics, view : Told(t, topics, view, ds) => Told(t, topics, view, es)
        /\ \A t : t # "scrobbling" /\ NoneOf(ds, Bearing(t)) => NoneOf(es, Bearing(t))
    <2>1. ASSUME NEW t, t # "scrobbling", NEW topics, NEW view, Told(t, topics, view, ds)
          PROVE  Told(t, topics, view, es)
      <3>1. m \notin Bearing(t)
        BY Zenon, <1>3, <2>1
      <3> QED BY Zenon, <1>2, <2>1, <3>1, ToldAppended DEF es
    <2>2. ASSUME NEW t, t # "scrobbling", NoneOf(ds, Bearing(t))
          PROVE  NoneOf(es, Bearing(t))
      <3>1. m \notin Bearing(t)
        BY Zenon, <1>3, <2>2
      <3> QED BY Zenon, <1>2, <2>2, <3>1, NoneAppended DEF es
    <2> QED BY Zenon, <2>1, <2>2
  <1>7. HealthOK(c, s, w, us, es, wanted, left)
    <2>1. "health" # "scrobbling"
      OBVIOUS
    <2> QED BY Zenon, <1>1, <1>3, <1>6, <2>1 DEF HealthOK
  <1>8. ScrobblingOK(c, s, w, es, left)
    <2>1. \A i \in 1..Len(es) : es[i].type = "Scrobbling" => es[i].user = s.loggedIn
      BY Zenon, <1>1, <1>2, <1>4 DEF ScrobblingOK
    <2>2. Told("scrobbling", {w["scrobbling"], Unknown}, c.view, es)
      BY Zenon, <1>2, <1>3, ToldAppended DEF es
    <2> QED BY Zenon, <1>1, <2>1, <2>2 DEF ScrobblingOK
  <1>9. ASSUME wanted = "All"
        PROVE  EventsTold(c, s, w, us, es, left)
    <2>1. EventsTold(c, s, w, us, ds, exempt)
      BY Zenon, <1>1, <1>9
    <2>2. ASSUME NEW t \in PlainTopics
          PROVE  TopicOK(t, c, s, w, us, es, left)
      <3>1. TopicOK(t, c, s, w, us, ds, exempt)
        BY Zenon, <2>1 DEF EventsTold
      <3>2. t # "scrobbling"
        BY DEF PlainTopics
      <3> QED BY Zenon, <1>3, <1>6, <3>1, <3>2 DEF TopicOK
    <2>3. DelayOK(c, s, w, us, es, left)
      <3>1. m \notin OfDelay /\ m \notin NotStillOn /\ "delayed" # "scrobbling"
        <4>1. m \notin Deadlines /\ m \notin Bearing("delayed")
          BY <1>2, <1>3 DEF Deadlines
        <4> QED BY Zenon, <4>1, DelaySets DEF OfDelay
      <3>2. \A known : Unheard(known, ds) => Unheard(known, es)
        BY Zenon, <1>2, <3>1, NoneAppended DEF Unheard, es
      <3>3. \A v, known : DelayTold(v, known, us, ds) => DelayTold(v, known, us, es)
        BY Zenon, <1>2, <3>1, ToldOnAppended, ToldOffAppended DEF DelayTold, es
      <3>4. DelayOK(c, s, w, us, ds, exempt)
        BY Zenon, <2>1 DEF EventsTold
      <3> QED BY Zenon, <1>3, <3>1, <3>2, <3>3, <3>4 DEF DelayOK
    <2> QED BY Zenon, <2>1, <2>2, <2>3 DEF EventsTold
  <1> QED BY Zenon, <1>1, <1>5, <1>7, <1>8, <1>9

(* A topic need not be told of as long as the client has not asked, or the *)
(* message about it is put off, or is not for this client.                 *)
Excused(t, s, wanted) ==
    \/ t \in EventTopics \cup {"unheard"} /\ (~ s.events \/ wanted # "All")
    \/ t = "length" /\ s.pendingStatus
    \/ t = "health" /\ ~ s.health
    \/ t = "scrobbling" /\ ~ (s.binary /\ s.extensions /\ s.loggedIn # Nobody)

LEMMA Excuse ==
    ASSUME NEW c, NEW s, NEW w, NEW us, NEW ds, NEW wanted, NEW exempt, NEW left,
           Informed(c, s, w, us, ds, wanted, exempt),
           \A t \in exempt : t \in left \/ Excused(t, s, wanted)
    PROVE  Informed(c, s, w, us, ds, wanted, left)
  <1> SUFFICES ASSUME s.open /\ c.state # "Closed"
               PROVE  /\ WellFormed(ds) /\ ModeOK(s, us, ds)
                      /\ HealthOK(c, s, w, us, ds, wanted, left)
                      /\ ScrobblingOK(c, s, w, ds, left)
                      /\ wanted = "All" => EventsTold(c, s, w, us, ds, left)
    BY Zenon DEF Informed
  <1>1. /\ WellFormed(ds) /\ ModeOK(s, us, ds)
        /\ HealthOK(c, s, w, us, ds, wanted, exempt)
        /\ ScrobblingOK(c, s, w, ds, exempt)
        /\ wanted = "All" => EventsTold(c, s, w, us, ds, exempt)
    BY Zenon DEF Informed
  <1>2. /\ \A t \in EventTopics \cup {"unheard"} : t # "health" /\ t # "scrobbling"
        /\ \A t \in PlainTopics : t \in EventTopics \cup {"unheard"}
        /\ "delayed" \in EventTopics \cup {"unheard"} /\ "delayed" # "length"
        /\ "unheard" \in EventTopics \cup {"unheard"} /\ "unheard" # "length"
        /\ "health" # "length" /\ "health" # "scrobbling" /\ "scrobbling" # "length"
    BY DEF EventTopics, PlainTopics, Topics
  <1>3. "health" \in exempt => "health" \in left \/ ~ s.health
    BY Zenon, <1>2 DEF Excused
  <1>4. "scrobbling" \in exempt =>
            "scrobbling" \in left \/ ~ (s.binary /\ s.extensions /\ s.loggedIn # Nobody)
    BY Zenon, <1>2 DEF Excused
  <1>5. HealthOK(c, s, w, us, ds, wanted, left)
    BY Zenon, <1>1, <1>3 DEF HealthOK
  <1>6. ScrobblingOK(c, s, w, ds, left)
    BY Zenon, <1>1, <1>4 DEF ScrobblingOK
  <1>7. ASSUME wanted = "All"
        PROVE  EventsTold(c, s, w, us, ds, left)
    <2>1. EventsTold(c, s, w, us, ds, exempt)
      BY Zenon, <1>1, <1>7
    <2>2. ASSUME NEW t \in PlainTopics
          PROVE  TopicOK(t, c, s, w, us, ds, left)
      <3>1. TopicOK(t, c, s, w, us, ds, exempt)
        BY Zenon, <2>1 DEF EventsTold
      <3>2. t \in exempt => t \in left \/ ~ s.events \/ (t = "length" /\ s.pendingStatus)
        BY Zenon, <1>2, <1>7 DEF Excused
      <3> QED BY Zenon, <3>1, <3>2 DEF TopicOK
    <2>3. "delayed" \in exempt => "delayed" \in left \/ ~ s.events
      BY Zenon, <1>2, <1>7 DEF Excused
    <2>4. "unheard" \in exempt => "unheard" \in left \/ ~ s.events
      BY Zenon, <1>2, <1>7 DEF Excused
    <2>5. DelayOK(c, s, w, us, ds, left)
      BY Zenon, <2>1, <2>3, <2>4 DEF EventsTold, DelayOK
    <2> QED BY Zenon, <2>1, <2>2, <2>5 DEF EventsTold
  <1> QED BY Zenon, <1>1, <1>5, <1>6, <1>7

(* A topic changes: for the moment the client has not been told.           *)
LEMMA WorldChanged ==
    ASSUME NEW c, NEW s, NEW w, NEW v, NEW t, \A u \in Topics : u # t => v[u] = w[u],
           NEW us, NEW ds, NEW wanted, NEW exempt,
           Informed(c, s, w, us, ds, wanted, exempt)
    PROVE  Informed(c, s, v, us, ds, wanted, exempt \cup {t})
  <1> DEFINE left == exempt \cup {t}
  <1> SUFFICES ASSUME s.open /\ c.state # "Closed"
               PROVE  /\ WellFormed(ds) /\ ModeOK(s, us, ds)
                      /\ HealthOK(c, s, v, us, ds, wanted, left)
                      /\ ScrobblingOK(c, s, v, ds, left)
                      /\ wanted = "All" => EventsTold(c, s, v, us, ds, left)
    BY Zenon DEF Informed
  <1>1. /\ WellFormed(ds) /\ ModeOK(s, us, ds)
        /\ HealthOK(c, s, w, us, ds, wanted, exempt)
        /\ ScrobblingOK(c, s, w, ds, exempt)
        /\ wanted = "All" => EventsTold(c, s, w, us, ds, exempt)
    BY Zenon DEF Informed
  <1>2. /\ \A u \in exempt : u \in left
        /\ \A u \in Topics : u \in left \/ v[u] = w[u]
    OBVIOUS
  <1>3. /\ "health" \in Topics /\ "scrobbling" \in Topics /\ "delayed" \in Topics
        /\ \A u \in PlainTopics : u \in Topics
    BY DEF Topics, PlainTopics
  <1> HIDE DEF left
  <1>4. HealthOK(c, s, v, us, ds, wanted, left)
    BY Zenon, <1>1, <1>2, <1>3 DEF HealthOK
  <1>5. ScrobblingOK(c, s, v, ds, left)
    BY Zenon, <1>1, <1>2, <1>3 DEF ScrobblingOK
  <1>6. ASSUME wanted = "All"
        PROVE  EventsTold(c, s, v, us, ds, left)
    <2>1. EventsTold(c, s, w, us, ds, exempt)
      BY Zenon, <1>1, <1>6
    <2>2. ASSUME NEW u \in PlainTopics
          PROVE  TopicOK(u, c, s, v, us, ds, left)
      <3>1. TopicOK(u, c, s, w, us, ds, exempt)
        BY Zenon, <2>1 DEF EventsTold
      <3>2. u \in left \/ v[u] = w[u]
        BY Zenon, <1>2, <1>3
      <3> QED BY Zenon, <1>2, <3>1, <3>2 DEF TopicOK
    <2>3. DelayOK(c, s, v, us, ds, left)
      <3>1. DelayOK(c, s, w, us, ds, exempt)
        BY Zenon, <2>1 DEF EventsTold
      <3>2. "delayed" \in left \/ v["delayed"] = w["delayed"]
        BY Zenon, <1>2, <1>3
      <3> QED BY Zenon, <1>2, <3>1, <3>2 DEF DelayOK
    <2> QED BY Zenon, <2>1, <2>2, <2>3 DEF EventsTold
  <1> QED BY Zenon, <1>1, <1>4, <1>5, <1>6

(* The same of the server as its handlers see it.                          *)
Fits(x, c, us, wanted, exempt) == Informed(c, x.s, x.w, us, x.out, wanted, exempt)

LEMMA FitsLess ==
    ASSUME NEW x, NEW c, NEW us, NEW wanted, NEW exempt, NEW left,
           Fits(x, c, us, wanted, exempt),
           \A t \in exempt : t \in left \/ Excused(t, x.s, wanted)
    PROVE  Fits(x, c, us, wanted, left)
  BY Zenon, Excuse DEF Fits

LEMMA TopicsTyped ==
    ASSUME NEW x \in ServerSides
    PROVE  /\ x.w \in [Topics -> Nat] /\ x.out \in Seq(DownMessage)
           /\ x.s \in ServerEnds /\ x.s.loggedIn \in Names
           /\ x.w["delayed"] \in Nat
  <1>1. x.w \in [Topics -> Nat] /\ x.s \in ServerEnds /\ x.out \in Seq(DownMessage)
    BY Zenon DEF ServerSides
  <1>2. x.s.loggedIn \in Names
    BY Zenon, <1>1 DEF ServerEnds
  <1> QED BY <1>1, <1>2 DEF Topics

(* Sending: nothing is written to a client that is not in binary mode, and *)
(* such a client has asked for nothing.                                    *)
LEMMA SentOrNot ==
    ASSUME NEW x \in ServerSides, NEW m \in DownMessage
    PROVE  /\ SendBinaryMessage(x, m) \in ServerSides
           /\ SendBinaryMessage(x, m).s = x.s /\ SendBinaryMessage(x, m).w = x.w
           /\ SendBinaryMessage(x, m).out
              = IF x.s.open /\ x.s.binary THEN Append(x.out, m) ELSE x.out
  <1> DEFINE z == SendBinaryMessage(x, m)
  <1>1. z \in ServerSides
    BY SendingIsTyped
  <1>2. CASE x.s.open /\ x.s.binary
    BY Zenon, <1>1, <1>2 DEF SendBinaryMessage, ServerSides
  <1>3. CASE ~ (x.s.open /\ x.s.binary)
    BY Zenon, <1>1, <1>3 DEF SendBinaryMessage
  <1> QED BY Zenon, <1>1, <1>2, <1>3

LEMMA NotBinary ==
    ASSUME NEW c, NEW s, NEW w, NEW us, NEW ds, NEW wanted, NEW exempt, NEW left,
           Informed(c, s, w, us, ds, wanted, exempt), ~ (s.open /\ s.binary),
           \A t \in exempt : t \in left \/ t \in Topics \cup {"unheard"}
    PROVE  Informed(c, s, w, us, ds, wanted, left)
  <1> SUFFICES ASSUME s.open /\ c.state # "Closed"
               PROVE  Informed(c, s, w, us, ds, wanted, left)
    BY Zenon DEF Informed
  <1>1. ~ s.binary /\ ~ s.events /\ ~ s.health
    BY Zenon DEF Informed, ModeOK
  <1>2. \A t \in Topics \cup {"unheard"} :
            t \in EventTopics \cup {"unheard"} \/ t = "health" \/ t = "scrobbling"
    BY DEF EventTopics
  <1>3. \A t \in Topics \cup {"unheard"} : Excused(t, s, wanted)
    BY Zenon, <1>1, <1>2 DEF Excused
  <1> QED BY Zenon, <1>3, Excuse

LEMMA StatusSent ==
    ASSUME NEW x \in ServerSides, NEW c, NEW us, NEW wanted, NEW exempt,
           Fits(x, c, us, wanted, exempt),
           NEW topics \in SUBSET Topics, "scrobbling" \notin topics,
           "health" \in topics => x.s.health,
           wanted = "All" /\ "delayed" \in topics => x.s.events,
           NEW z, z = SendBinaryMessage(x, Status(x, topics))
    PROVE  /\ z \in ServerSides /\ z.s = x.s /\ z.w = x.w
           /\ Fits(z, c, us, wanted, exempt \ Settled(x.w, topics))
  <1> DEFINE m == Status(x, topics)
             left == exempt \ Settled(x.w, topics)
  <1>1. m = StatusOf(x.w, topics)
    BY Zenon DEF Status, StatusOf
  <1> HIDE DEF m
  <1>2. x.w \in [Topics -> Nat] /\ x.out \in Seq(DownMessage)
    BY Zenon, TopicsTyped
  <1>3. m \in DownMessage
    BY Zenon, <1>1, <1>2, StatusBears
  <1>4. z = SendBinaryMessage(x, m)
    BY Zenon DEF m
  <1>5. /\ z \in ServerSides /\ z.s = x.s /\ z.w = x.w
        /\ z.out = IF x.s.open /\ x.s.binary THEN Append(x.out, m) ELSE x.out
    BY Zenon, <1>3, <1>4, SentOrNot
  <1>6. Informed(c, x.s, x.w, us, x.out, wanted, exempt)
    BY Zenon DEF Fits
  <1>7. CASE x.s.open /\ x.s.binary
    <2>1. Informed(c, x.s, x.w, us, Append(x.out, m), wanted, left)
      BY Zenon, <1>1, <1>2, <1>6, <1>7, StatusTold
    <2> QED BY Zenon, <1>5, <1>7, <2>1 DEF Fits
  <1>8. CASE ~ (x.s.open /\ x.s.binary)
    <2>1. \A t \in exempt : t \in left \/ t \in Topics \cup {"unheard"}
      <3>1. Settled(x.w, topics) \subseteq Topics \cup {"unheard"}
        BY DEF Settled
      <3> QED BY <3>1
    <2>2. Informed(c, x.s, x.w, us, x.out, wanted, left)
      BY Zenon, <1>6, <1>8, <2>1, NotBinary
    <2> QED BY Zenon, <1>5, <1>8, <2>2 DEF Fits
  <1> QED BY <1>7, <1>8

LEMMA ScrobblingSent ==
    ASSUME NEW x \in ServerSides, NEW c, NEW us, NEW wanted, NEW exempt,
           Fits(x, c, us, wanted, exempt), x.s.loggedIn # Nobody,
           NEW z, z = SendScrobblingMessage(x)
    PROVE  /\ z \in ServerSides /\ z.s = x.s /\ z.w = x.w
           /\ Fits(z, c, us, wanted, exempt \ {"scrobbling"})
  <1> DEFINE m == [type |-> "Scrobbling", user |-> x.s.loggedIn,
                   values |-> [t \in {"scrobbling"} |-> x.w[t]]]
             left == exempt \ {"scrobbling"}
  <1>1. x.w \in [Topics -> Nat] /\ x.out \in Seq(DownMessage) /\ x.s.loggedIn \in Names
    BY Zenon, TopicsTyped
  <1>2. m \in DownMessage
    <2>1. m \in Harmless(Nothing)
      BY Zenon, <1>1, ScrobblingIsHarmless
    <2> HIDE DEF m
    <2> QED BY <2>1 DEF Harmless, Sparing
  <1>3. z = IF x.s.extensions THEN SendBinaryMessage(x, m) ELSE x
    BY Zenon DEF SendScrobblingMessage
  <1>4. Informed(c, x.s, x.w, us, x.out, wanted, exempt)
    BY Zenon DEF Fits
  <1>5. CASE x.s.open /\ x.s.binary /\ x.s.extensions
    <2>1. Informed(c, x.s, x.w, us, Append(x.out, m), wanted, left)
      BY Zenon, <1>1, <1>4, <1>5, ScrobblingTold
    <2> HIDE DEF m
    <2>2. z \in ServerSides /\ z.s = x.s /\ z.w = x.w /\ z.out = Append(x.out, m)
      BY Zenon, <1>2, <1>3, <1>5, SentOrNot
    <2> QED BY Zenon, <2>1, <2>2 DEF Fits
  <1>6. CASE ~ (x.s.open /\ x.s.binary /\ x.s.extensions)
    <2> HIDE DEF m
    <2>1. z \in ServerSides /\ z.s = x.s /\ z.w = x.w /\ z.out = x.out
      <3>1. CASE x.s.extensions
        BY Zenon, <1>2, <1>3, <1>6, <3>1, SentOrNot
      <3>2. CASE ~ x.s.extensions
        BY Zenon, <1>3, <3>2
      <3> QED BY <3>1, <3>2
    <2>2. \A t \in exempt : t \in left \/ t = "scrobbling"
      OBVIOUS
    <2>3. Informed(c, x.s, x.w, us, x.out, wanted, left)
      <3>1. CASE x.s.open
        <4>1. Excused("scrobbling", x.s, wanted)
          BY Zenon, <1>6, <3>1 DEF Excused
        <4> QED BY Zenon, <1>4, <2>2, <4>1, Excuse
      <3>2. CASE ~ x.s.open
        BY Zenon, <3>2 DEF Informed
      <3> QED BY <3>1, <3>2
    <2> QED BY Zenon, <2>1, <2>3 DEF Fits
  <1> QED BY <1>5, <1>6

LEMMA DeadlineSent ==
    ASSUME NEW x \in ServerSides, NEW c, NEW us, NEW wanted, NEW exempt,
           Fits(x, c, us, wanted, exempt), On(x.w["delayed"]),
           wanted = "All" => x.s.events,
           NEW z, z = SendDelayedStartInfoMessage(x)
    PROVE  /\ z \in ServerSides /\ z.s = x.s /\ z.w = x.w
           /\ Fits(z, c, us, wanted, exempt \ {"delayed"})
  <1> DEFINE m == [type |-> "DelayedStartInfo", start |-> x.w["delayed"]]
             left == exempt \ {"delayed"}
  <1>1. x.w \in [Topics -> Nat] /\ x.out \in Seq(DownMessage) /\ x.w["delayed"] \in Nat
    BY Zenon, TopicsTyped
  <1>2. m \in DownMessage
    <2>1. m \in Harmless(Nothing)
      BY Zenon, <1>1, PlainIsHarmless
    <2> HIDE DEF m
    <2> QED BY <2>1 DEF Harmless, Sparing
  <1>3. z = SendBinaryMessage(x, m)
    BY Zenon DEF SendDelayedStartInfoMessage
  <1>4. Informed(c, x.s, x.w, us, x.out, wanted, exempt)
    BY Zenon DEF Fits
  <1>5. CASE x.s.open /\ x.s.binary
    <2>1. Informed(c, x.s, x.w, us, Append(x.out, m), wanted, left)
      BY Zenon, <1>1, <1>4, DeadlineTold
    <2> HIDE DEF m
    <2>2. z \in ServerSides /\ z.s = x.s /\ z.w = x.w /\ z.out = Append(x.out, m)
      BY Zenon, <1>2, <1>3, <1>5, SentOrNot
    <2> QED BY Zenon, <2>1, <2>2 DEF Fits
  <1>6. CASE ~ (x.s.open /\ x.s.binary)
    <2> HIDE DEF m
    <2>1. z \in ServerSides /\ z.s = x.s /\ z.w = x.w /\ z.out = x.out
      BY Zenon, <1>2, <1>3, <1>6, SentOrNot
    <2>2. \A t \in exempt : t \in left \/ t \in Topics \cup {"unheard"}
      BY DEF Topics
    <2>3. Informed(c, x.s, x.w, us, x.out, wanted, left)
      BY Zenon, <1>4, <1>6, <2>2, NotBinary
    <2> QED BY Zenon, <2>1, <2>3 DEF Fits
  <1> QED BY <1>5, <1>6

(* What the events write.                                                  *)
LEMMA SettledTopics ==
    ASSUME NEW w, NEW topics
    PROVE  /\ \A t \in topics : t # "delayed" => t \in Settled(w, topics)
           /\ "delayed" \in topics /\ ~ On(w["delayed"]) => "delayed" \in Settled(w, topics)
           /\ "delayed" \in topics => "unheard" \in Settled(w, topics)
  <1>1. CASE On(w["delayed"])
    <2>1. Settled(w, topics)
          = (topics \ {"delayed"}) \cup (IF "delayed" \in topics THEN {"unheard"} ELSE {})
      BY Zenon, <1>1 DEF Settled
    <2> QED BY <1>1, <2>1
  <1>2. CASE ~ On(w["delayed"])
    <2>1. Settled(w, topics)
          = topics \cup (IF "delayed" \in topics THEN {"unheard"} ELSE {})
      BY Zenon, <1>2 DEF Settled
    <2> QED BY <2>1
  <1> QED BY <1>1, <1>2

LEMMA TopicSent ==
    ASSUME NEW x \in ServerSides, NEW c, NEW us, NEW wanted, NEW exempt,
           Fits(x, c, us, wanted, exempt),
           NEW t \in Topics \ {"delayed", "scrobbling"}, t = "health" => x.s.health,
           NEW z, z = SendBinaryMessage(x, Status(x, {t}))
    PROVE  /\ z \in ServerSides /\ z.s = x.s /\ z.w = x.w
           /\ Fits(z, c, us, wanted, exempt \ {t})
  <1> DEFINE topics == {t}
  <1>1. /\ topics \in SUBSET Topics /\ "scrobbling" \notin topics /\ "delayed" \notin topics
        /\ "health" \in topics => t = "health"
    OBVIOUS
  <1>2. t \in Settled(x.w, topics)
    BY SettledTopics
  <1> HIDE DEF topics
  <1>3. /\ z \in ServerSides /\ z.s = x.s /\ z.w = x.w
        /\ Fits(z, c, us, wanted, exempt \ Settled(x.w, topics))
    <2>1. z = SendBinaryMessage(x, Status(x, topics))
      BY Zenon DEF topics
    <2>2. "health" \in topics => x.s.health
      BY Zenon, <1>1
    <2> HIDE DEF topics
    <2> QED BY Zenon, <1>1, <2>1, <2>2, StatusSent
  <1>4. \A u \in exempt \ Settled(x.w, topics) : u \in exempt \ {t}
    BY <1>2
  <1> QED BY Zenon, <1>3, <1>4, FitsLess

LEMMA PlayerStateSent ==
    ASSUME NEW x \in ServerSides, NEW c, NEW us, NEW wanted, NEW exempt,
           Fits(x, c, us, wanted, exempt), wanted = "All" => x.s.events,
           NEW z, z = SendPlayerStateMessage(x)
    PROVE  /\ z \in ServerSides /\ z.s = x.s /\ z.w = x.w
           /\ Fits(z, c, us, wanted, exempt \ {"player", "length", "volume", "unheard"})
           /\ ~ On(x.w["delayed"]) => Fits(z, c, us, wanted, exempt \ {"delayed"})
  <1> DEFINE topics == {"player", "length", "volume", "delayed"}
             settled == Settled(x.w, topics)
  <1>1. /\ topics \in SUBSET Topics /\ "scrobbling" \notin topics /\ "health" \notin topics
        /\ "delayed" \in topics
    BY DEF Topics
  <1>2. /\ \A t \in {"player", "length", "volume", "unheard"} : t \in settled
        /\ ~ On(x.w["delayed"]) => "delayed" \in settled
    BY SettledTopics
  <1>3. z = SendBinaryMessage(x, Status(x, topics))
    BY Zenon DEF SendPlayerStateMessage
  <1> HIDE DEF topics
  <1>4. /\ z \in ServerSides /\ z.s = x.s /\ z.w = x.w
        /\ Fits(z, c, us, wanted, exempt \ settled)
    BY Zenon, <1>1, <1>3, StatusSent
  <1> HIDE DEF settled
  <1>5. \A u \in exempt \ settled : u \in exempt \ {"player", "length", "volume", "unheard"}
    BY <1>2
  <1>6. ~ On(x.w["delayed"]) => \A u \in exempt \ settled : u \in exempt \ {"delayed"}
    BY <1>2
  <1>7. Fits(z, c, us, wanted, exempt \ {"player", "length", "volume", "unheard"})
    BY Zenon, <1>4, <1>5, FitsLess
  <1>8. ~ On(x.w["delayed"]) => Fits(z, c, us, wanted, exempt \ {"delayed"})
    BY Zenon, <1>4, <1>6, FitsLess
  <1> QED BY Zenon, <1>4, <1>7, <1>8

LEMMA DelayedStartSignalled ==
    ASSUME NEW x \in ServerSides, NEW c, NEW us, NEW wanted, NEW exempt,
           Fits(x, c, us, wanted, exempt), wanted = "All" => x.s.events,
           NEW z, z = OnDelayedStartActiveChanged(x)
    PROVE  /\ z \in ServerSides /\ z.s = x.s /\ z.w = x.w
           /\ Fits(z, c, us, wanted, exempt \ {"delayed"})
  <1>1. CASE On(x.w["delayed"])
    <2>1. z = SendDelayedStartInfoMessage(x)
      BY Zenon, <1>1 DEF OnDelayedStartActiveChanged
    <2> QED BY Zenon, <1>1, <2>1, DeadlineSent
  <1>2. CASE ~ On(x.w["delayed"])
    <2>1. z = SendPlayerStateMessage(x)
      BY Zenon, <1>2 DEF OnDelayedStartActiveChanged
    <2> QED BY Zenon, <1>2, <2>1, PlayerStateSent
  <1> QED BY <1>1, <1>2

LEMMA MuteFits ==
    ASSUME NEW x \in ServerSides, NEW z, Mute(x, z), NEW c, NEW us, NEW wanted, NEW exempt,
           Fits(x, c, us, wanted, exempt)
    PROVE  Fits(z, c, us, wanted, exempt)
  BY Zenon, MuteInforms DEF Fits

LEMMA MuteFlags ==
    ASSUME NEW x \in ServerSides
    PROVE  /\ x.s.events => Mute(x, [x EXCEPT !.s.pendingStatus = TRUE])
           /\ x.s.binary /\ x.s.health => Mute(x, [x EXCEPT !.s.events = TRUE])
           /\ Mute(x, [x EXCEPT !.s.extensions = TRUE])
           /\ Mute(x, [x EXCEPT !.s.header = TRUE])
  <1>1. ASSUME x.s.events
        PROVE  Mute(x, [x EXCEPT !.s.pendingStatus = TRUE])
    <2> DEFINE z == [x EXCEPT !.s.pendingStatus = TRUE]
    <2>1. z \in ServerSides
      BY Zenon DEF ServerSides, ServerEnds
    <2>2. z.out = x.out /\ z.w = x.w
      BY Zenon DEF ServerSides
    <2>3. SameTelling(x.s, z.s)
      BY Zenon, <1>1 DEF ServerSides, ServerEnds, SameTelling
    <2> HIDE DEF z
    <2>4. Mute(x, z)
      BY Zenon, <2>1, <2>2, <2>3, MuteSilently
    <2> QED BY Zenon, <2>4 DEF z
  <1>2. ASSUME x.s.binary, x.s.health
        PROVE  Mute(x, [x EXCEPT !.s.events = TRUE])
    <2> DEFINE z == [x EXCEPT !.s.events = TRUE]
    <2>1. z \in ServerSides
      BY Zenon DEF ServerSides, ServerEnds
    <2>2. z.out = x.out /\ z.w = x.w
      BY Zenon DEF ServerSides
    <2>3. SameTelling(x.s, z.s)
      BY Zenon, <1>2 DEF ServerSides, ServerEnds, SameTelling
    <2> HIDE DEF z
    <2>4. Mute(x, z)
      BY Zenon, <2>1, <2>2, <2>3, MuteSilently
    <2> QED BY Zenon, <2>4 DEF z
  <1>3. Mute(x, [x EXCEPT !.s.extensions = TRUE])
    <2> DEFINE z == [x EXCEPT !.s.extensions = TRUE]
    <2>1. z \in ServerSides
      BY Zenon DEF ServerSides, ServerEnds
    <2>2. z.out = x.out /\ z.w = x.w
      BY Zenon DEF ServerSides
    <2>3. SameTelling(x.s, z.s)
      BY Zenon DEF ServerSides, ServerEnds, SameTelling
    <2> HIDE DEF z
    <2>4. Mute(x, z)
      BY Zenon, <2>1, <2>2, <2>3, MuteSilently
    <2> QED BY Zenon, <2>4 DEF z
  <1>4. Mute(x, [x EXCEPT !.s.header = TRUE])
    <2> DEFINE z == [x EXCEPT !.s.header = TRUE]
    <2>1. z \in ServerSides
      BY Zenon DEF ServerSides, ServerEnds
    <2>2. z.out = x.out /\ z.w = x.w
      BY Zenon DEF ServerSides
    <2>3. SameTelling(x.s, z.s)
      BY Zenon DEF ServerSides, ServerEnds, SameTelling
    <2> HIDE DEF z
    <2>4. Mute(x, z)
      BY Zenon, <2>1, <2>2, <2>3, MuteSilently
    <2> QED BY Zenon, <2>4 DEF z
  <1> QED BY Zenon, <1>1, <1>2, <1>3, <1>4

LEMMA EventTold ==
    ASSUME NEW x \in ServerSides, NEW c, NEW us, NEW wanted, NEW exempt, NEW t \in EventTopics,
           Fits(x, c, us, wanted, exempt \cup {t}), x.s.events,
           NEW z, z = OnEvent(x, t)
    PROVE  z \in ServerSides /\ z.w = x.w /\ Fits(z, c, us, wanted, exempt)
  <1> DEFINE more == exempt \cup {t}
  <1>1. \A E : \A u \in more \ E : t \in E => u \in exempt
    OBVIOUS
  <1> HIDE DEF more
  <1>2. Fits(x, c, us, wanted, more)
    BY Zenon DEF more
  <1>3. CASE t = "player"
    <2>1. z = SendPlayerStateMessage(x)
      BY Zenon, <1>3 DEF OnEvent
    <2> DEFINE sent == {"player", "length", "volume", "unheard"}
    <2>2. /\ z \in ServerSides /\ z.w = x.w
          /\ Fits(z, c, us, wanted, more \ sent)
      BY Zenon, <1>2, <2>1, PlayerStateSent
    <2>3. t \in sent
      BY <1>3
    <2> HIDE DEF sent
    <2> QED BY Zenon, <1>1, <2>2, <2>3, FitsLess
  <1>4. CASE t = "length"
    <2>1. z = [x EXCEPT !.s.pendingStatus = TRUE]
      BY Zenon, <1>4 DEF OnEvent, SchedulePlayerStateNotification
    <2>2. Mute(x, z)
      BY Zenon, <2>1, MuteFlags
    <2>3. z \in ServerSides /\ z.w = x.w /\ Fits(z, c, us, wanted, more)
      BY Zenon, <1>2, <2>2, MuteFits DEF Mute
    <2>4. z.s.pendingStatus
      BY Zenon, <2>1 DEF ServerSides, ServerEnds
    <2>5. \A u \in more : u \in exempt \/ Excused(u, z.s, wanted)
      BY Zenon, <1>4, <2>4 DEF Excused, more
    <2> QED BY Zenon, <2>3, <2>5, FitsLess
  <1>5. CASE t = "delayed"
    <2>1. z = OnDelayedStartActiveChanged(x)
      BY Zenon, <1>5 DEF OnEvent
    <2>2. /\ z \in ServerSides /\ z.w = x.w
          /\ Fits(z, c, us, wanted, more \ {"delayed"})
      BY Zenon, <1>2, <2>1, DelayedStartSignalled
    <2> QED BY Zenon, <1>1, <1>5, <2>2, FitsLess
  <1>6. CASE t \in {"volume", "user", "dynamic", "wave", "indexing", "scanning"}
    <2>1. z = SendBinaryMessage(x, Status(x, {t}))
      BY Zenon, <1>6 DEF OnEvent, SendVolumeMessage, SendUserPlayingForModeMessage,
         SendDynamicModeStatusMessage, SendGeneratorWaveStatusMessage,
         SendIndexationStatusMessage
    <2>2. t \in Topics \ {"delayed", "scrobbling"}
      BY <1>6 DEF Topics
    <2>3. t # "health"
      BY <1>6
    <2>4. /\ z \in ServerSides /\ z.w = x.w /\ Fits(z, c, us, wanted, more \ {t})
      <3>1. t = "health" => x.s.health
        BY Zenon, <2>3
      <3> QED BY <1>2, <2>1, <2>2, <3>1, TopicSent
    <2>5. \A u \in more \ {t} : u \in exempt
      BY DEF more
    <2> QED BY Zenon, <2>4, <2>5, FitsLess
  <1> QED BY <1>3, <1>4, <1>5, <1>6 DEF EventTopics, Topics

(* Such a handler tells the client what has changed.                       *)
Tells(x, z) ==
    /\ z \in ServerSides
    /\ \A c, us, wanted, exempt :
          Fits(x, c, us, wanted, exempt) => Fits(z, c, us, wanted, exempt)

LEMMA TellsTwice ==
    ASSUME NEW x, NEW y, NEW z, Tells(x, y), Tells(y, z)
    PROVE  Tells(x, z)
  BY Zenon DEF Tells

LEMMA TellsNothing ==
    ASSUME NEW x \in ServerSides
    PROVE  Tells(x, x)
  BY Zenon DEF Tells

LEMMA MuteTells ==
    ASSUME NEW x \in ServerSides, NEW z, Mute(x, z)
    PROVE  Tells(x, z)
  <1>1. z \in ServerSides
    BY DEF Mute
  <1> QED BY Zenon, <1>1, MuteFits DEF Tells

LEMMA TopicChanged ==
    ASSUME NEW x \in ServerSides, NEW t \in Topics, NEW y, y = [x EXCEPT !.w[t] = @ + 1],
           NEW c, NEW us, NEW wanted, NEW exempt, Fits(x, c, us, wanted, exempt)
    PROVE  /\ y \in ServerSides /\ y.s = x.s
           /\ Fits(y, c, us, wanted, exempt \cup {t})
  <1> DEFINE v == [x.w EXCEPT ![t] = x.w[t] + 1]
  <1>0. x.w \in [Topics -> Nat]
    BY Zenon DEF ServerSides
  <1>1. v \in [Topics -> Nat] /\ \A u \in Topics : u # t => v[u] = x.w[u]
    BY <1>0
  <1>2. y = [x EXCEPT !.w = v]
    BY Zenon DEF ServerSides
  <1> HIDE DEF v
  <1>3. y \in ServerSides /\ y.s = x.s /\ y.w = v /\ y.out = x.out
    BY Zenon, <1>1, <1>2 DEF ServerSides
  <1>4. Informed(c, x.s, v, us, x.out, wanted, exempt \cup {t})
    BY Zenon, <1>1, WorldChanged DEF Fits
  <1> QED BY Zenon, <1>3, <1>4 DEF Fits

LEMMA ChangeTells ==
    ASSUME NEW x \in ServerSides, NEW t \in Topics
    PROVE  Tells(x, Change(x, t))
  <1> DEFINE y == [x EXCEPT !.w[t] = @ + 1]
             z == Change(x, t)
  <1>1. z = IF t = "health" THEN IF x.s.health THEN SendServerHealthMessage(y) ELSE y
            ELSE IF t = "scrobbling"
                 THEN IF IsLoggedIn(x) THEN SendScrobblingMessage(y) ELSE y
            ELSE IF x.s.events THEN OnEvent(y, t) ELSE y
    BY Zenon DEF Change
  <1>2. \A c, us, wanted, exempt : Fits(x, c, us, wanted, exempt) =>
            Fits(y, c, us, wanted, exempt \cup {t})
    BY Zenon, TopicChanged
  <1>3. y \in ServerSides
    BY Zenon, ServesTopic, ServesTyped
  <1>4. y.s = x.s
    BY Zenon DEF ServerSides
  <1>5. z \in ServerSides
    BY Zenon, ServesChange, ServesTyped
  <1> HIDE DEF y, z
  <1> SUFFICES ASSUME NEW c, NEW us, NEW wanted, NEW exempt, Fits(x, c, us, wanted, exempt)
               PROVE  Fits(z, c, us, wanted, exempt)
    BY Zenon, <1>5 DEF Tells, z
  <1> DEFINE more == exempt \cup {t}
  <1>6. Fits(y, c, us, wanted, more)
    BY Zenon, <1>2
  <1>7. /\ \A u \in more : u = t \/ u \in exempt
        /\ \A u \in more \ {t} : u \in exempt
    OBVIOUS
  <1>8. Excused(t, y.s, wanted) => Fits(y, c, us, wanted, exempt)
    BY Zenon, <1>6, <1>7, FitsLess
  <1> HIDE DEF more
  <1>9. CASE t = "health"
    <2>1. CASE x.s.health
      <3>1. z = SendBinaryMessage(y, Status(y, {t}))
        BY Zenon, <1>1, <1>9, <2>1 DEF SendServerHealthMessage
      <3>2. t \in Topics \ {"delayed", "scrobbling"}
        BY <1>9
      <3>3. Fits(z, c, us, wanted, more \ {t})
        BY Zenon, <1>3, <1>4, <1>6, <2>1, <3>1, <3>2, TopicSent
      <3> QED BY Zenon, <1>7, <3>3, FitsLess
    <2>2. CASE ~ x.s.health
      BY Zenon, <1>1, <1>4, <1>8, <1>9, <2>2 DEF Excused
    <2> QED BY <2>1, <2>2
  <1>10. CASE t = "scrobbling"
    <2>0. t # "health"
      BY <1>10
    <2>1. CASE IsLoggedIn(x)
      <3>1. z = SendScrobblingMessage(y)
        BY Zenon, <1>1, <1>10, <2>0, <2>1
      <3>2. Fits(z, c, us, wanted, more \ {t})
        BY Zenon, <1>3, <1>4, <1>6, <1>10, <2>1, <3>1, ScrobblingSent DEF IsLoggedIn
      <3> QED BY Zenon, <1>7, <3>2, FitsLess
    <2>2. CASE ~ IsLoggedIn(x)
      BY Zenon, <1>1, <1>4, <1>8, <1>10, <2>0, <2>2 DEF Excused, IsLoggedIn
    <2> QED BY <2>1, <2>2
  <1>11. CASE t \in EventTopics
    <2>0. t # "health" /\ t # "scrobbling"
      BY <1>11 DEF EventTopics
    <2>1. CASE x.s.events
      <3>1. z = OnEvent(y, t)
        BY Zenon, <1>1, <2>0, <2>1
      <3> QED BY Zenon, <1>3, <1>4, <1>6, <1>11, <2>1, <3>1, EventTold DEF more
    <2>2. CASE ~ x.s.events
      <3>1. Excused(t, y.s, wanted)
        BY Zenon, <1>4, <1>11, <2>2 DEF Excused
      <3> QED BY Zenon, <1>1, <1>8, <2>0, <2>2, <3>1
    <2> QED BY <2>1, <2>2
  <1> QED BY <1>9, <1>10, <1>11 DEF EventTopics

(* What timers, commands and questions do.                                 *)
LEMMA PlayingTells ==
    ASSUME NEW x \in ServerSides
    PROVE  Tells(x, StartPlaying(x))
  <1>0. "player" \in Topics /\ "delayed" \in Topics
    BY DEF Topics
  <1> DEFINE y == IF On(x.w["delayed"]) THEN Change(x, "delayed") ELSE x
  <1>1. Tells(x, y)
    BY Zenon, <1>0, ChangeTells, TellsNothing
  <1>2. StartPlaying(x) = Change(y, "player")
    BY Zenon DEF StartPlaying
  <1> HIDE DEF y
  <1>3. y \in ServerSides
    BY Zenon, <1>1 DEF Tells
  <1>4. Tells(y, Change(y, "player"))
    BY Zenon, <1>0, <1>3, ChangeTells
  <1> QED BY Zenon, <1>1, <1>2, <1>4, TellsTwice

LEMMA StartTells ==
    ASSUME NEW x \in ServerSides
    PROVE  Tells(x, DoStart(x))
  <1> DEFINE y == [x EXCEPT !.w["delayed"] = @ + 1]
             z == Change(y, "player")
             u == DoStart(x)
  <1>0. "player" \in Topics /\ "delayed" \in Topics
    BY DEF Topics
  <1>1. y \in ServerSides
    BY Zenon, <1>0, ServesTopic, ServesTyped
  <1>2. \A c, us, wanted, exempt : Fits(x, c, us, wanted, exempt) =>
            Fits(y, c, us, wanted, exempt \cup {"delayed"})
    BY Zenon, <1>0, TopicChanged
  <1>3. u = IF z.s.events THEN OnDelayedStartActiveChanged(z) ELSE z
    BY Zenon DEF DoStart
  <1>4. u \in ServerSides
    BY Zenon, ServesStart, ServesTyped
  <1> HIDE DEF y
  <1>5. Tells(y, z)
    BY Zenon, <1>0, <1>1, ChangeTells
  <1> HIDE DEF z, u
  <1>6. z \in ServerSides
    BY Zenon, <1>5 DEF Tells
  <1> SUFFICES ASSUME NEW c, NEW us, NEW wanted, NEW exempt, Fits(x, c, us, wanted, exempt)
               PROVE  Fits(u, c, us, wanted, exempt)
    BY Zenon, <1>4 DEF Tells, u
  <1> DEFINE more == exempt \cup {"delayed"}
  <1>7. Fits(z, c, us, wanted, more)
    BY Zenon, <1>2, <1>5 DEF Tells
  <1>8. /\ \A t \in more : t = "delayed" \/ t \in exempt
        /\ \A t \in more \ {"delayed"} : t \in exempt
    OBVIOUS
  <1>9. "delayed" \in EventTopics \cup {"unheard"}
    BY DEF EventTopics, Topics
  <1> HIDE DEF more
  <1>10. CASE z.s.events
    <2>1. u = OnDelayedStartActiveChanged(z)
      BY Zenon, <1>3, <1>10
    <2>2. Fits(u, c, us, wanted, more \ {"delayed"})
      BY Zenon, <1>6, <1>7, <1>10, <2>1, DelayedStartSignalled
    <2> QED BY Zenon, <1>8, <2>2, FitsLess
  <1>11. CASE ~ z.s.events
    <2>1. Excused("delayed", z.s, wanted)
      BY Zenon, <1>9, <1>11 DEF Excused
    <2>2. Fits(z, c, us, wanted, exempt)
      BY Zenon, <1>7, <1>8, <2>1, FitsLess
    <2> QED BY Zenon, <1>3, <1>11, <2>2
  <1> QED BY <1>10, <1>11

LEMMA CommandTells ==
    ASSUME NEW x \in ServerSides, NEW t \in Topics
    PROVE  Tells(x, Command(x, t))
  BY Zenon, PlayingTells, ChangeTells, TellsNothing DEF Command

LEMMA NoMorePending ==
    ASSUME NEW c, NEW s \in ServerEnds, NEW w, NEW us, NEW ds, NEW wanted, NEW exempt,
           Informed(c, s, w, us, ds, wanted, exempt)
    PROVE  Informed(c, [s EXCEPT !.pendingStatus = FALSE], w, us, ds, wanted,
                    exempt \cup {"length"})
  <1> DEFINE t == [s EXCEPT !.pendingStatus = FALSE]
             left == exempt \cup {"length"}
  <1>1. /\ t.open = s.open /\ t.binary = s.binary /\ t.events = s.events
        /\ t.health = s.health /\ t.extensions = s.extensions
        /\ t.loggedIn = s.loggedIn /\ ~ t.pendingStatus
    BY Zenon DEF ServerEnds
  <1>2. "length" \in left /\ \A topic \in exempt : topic \in left
    OBVIOUS
  <1> HIDE DEF t, left
  <1> SUFFICES ASSUME t.open /\ c.state # "Closed"
               PROVE  /\ WellFormed(ds) /\ ModeOK(t, us, ds)
                      /\ HealthOK(c, t, w, us, ds, wanted, left)
                      /\ ScrobblingOK(c, t, w, ds, left)
                      /\ wanted = "All" => EventsTold(c, t, w, us, ds, left)
    BY Zenon DEF Informed, t, left
  <1>3. /\ WellFormed(ds) /\ ModeOK(s, us, ds)
        /\ HealthOK(c, s, w, us, ds, wanted, exempt)
        /\ ScrobblingOK(c, s, w, ds, exempt)
        /\ wanted = "All" => EventsTold(c, s, w, us, ds, exempt)
    BY Zenon, <1>1 DEF Informed
  <1>4. ModeOK(t, us, ds)
    BY Zenon, <1>1, <1>3 DEF ModeOK
  <1>5. HealthOK(c, t, w, us, ds, wanted, left)
    BY Zenon, <1>1, <1>2, <1>3 DEF HealthOK
  <1>6. ScrobblingOK(c, t, w, ds, left)
    BY Zenon, <1>1, <1>2, <1>3 DEF ScrobblingOK
  <1>7. ASSUME wanted = "All"
        PROVE  EventsTold(c, t, w, us, ds, left)
    <2>1. EventsTold(c, s, w, us, ds, exempt)
      BY Zenon, <1>3, <1>7
    <2>2. EventsFirst(t, us) /\ DelayOK(c, t, w, us, ds, left)
      BY Zenon, <1>1, <1>2, <2>1 DEF EventsTold, EventsFirst, DelayOK
    <2>3. ASSUME NEW topic \in PlainTopics
          PROVE  TopicOK(topic, c, t, w, us, ds, left)
      <3>1. TopicOK(topic, c, s, w, us, ds, exempt)
        BY Zenon, <2>1 DEF EventsTold
      <3> QED BY Zenon, <1>1, <1>2, <3>1 DEF TopicOK
    <2> QED BY Zenon, <2>2, <2>3 DEF EventsTold
  <1> QED BY Zenon, <1>3, <1>4, <1>5, <1>6, <1>7

LEMMA TimeoutTells ==
    ASSUME NEW x \in ServerSides, x.s.pendingStatus
    PROVE  Tells(x, SendStateInfoAfterTimeout(x))
  <1> DEFINE y == [x EXCEPT !.s.pendingStatus = FALSE]
             z == SendStateInfoAfterTimeout(x)
  <1>1. z = SendPlayerStateMessage(y)
    BY Zenon DEF SendStateInfoAfterTimeout
  <1>2. z \in ServerSides
    BY Zenon, ServesTimeout, ServesTyped
  <1>3. FALSE \in BOOLEAN
    OBVIOUS
  <1>4. y \in ServerSides
    BY Zenon, <1>3, ServesPending, ServesTyped
  <1>5. /\ y.s = [x.s EXCEPT !.pendingStatus = FALSE] /\ y.w = x.w /\ y.out = x.out
        /\ y.s.events = x.s.events /\ y.s.open = x.s.open
    BY Zenon DEF ServerSides, ServerEnds
  <1>6. x.s \in ServerEnds
    BY Zenon DEF ServerSides
  <1> HIDE DEF y, z
  <1> SUFFICES ASSUME NEW c, NEW us, NEW wanted, NEW exempt, Fits(x, c, us, wanted, exempt)
               PROVE  Fits(z, c, us, wanted, exempt)
    BY Zenon, <1>2 DEF Tells, z
  <1> DEFINE more == exempt \cup {"length"}
             sent == {"player", "length", "volume", "unheard"}
  <1>7. Fits(y, c, us, wanted, more)
    <2>1. Informed(c, [x.s EXCEPT !.pendingStatus = FALSE], x.w, us, x.out, wanted, more)
      BY Zenon, <1>6, NoMorePending DEF Fits
    <2> HIDE DEF more
    <2> QED BY Zenon, <1>5, <2>1 DEF Fits
  <1>8. \A t \in more \ sent : t \in exempt
    OBVIOUS
  <1> HIDE DEF more
  <1>9. CASE y.s.events
    <2>1. Fits(z, c, us, wanted, more \ sent)
      BY Zenon, <1>1, <1>4, <1>7, <1>9, PlayerStateSent
    <2> HIDE DEF sent
    <2> QED BY Zenon, <1>8, <2>1, FitsLess
  <1>10. CASE ~ y.s.events
    <2>1. ~ (x.s.open /\ c.state # "Closed")
      BY Zenon, <1>5, <1>10 DEF Fits, Informed, ModeOK
    <2>2. SameLogin(y.s, z.s)
      BY Zenon, <1>1, <1>4, SendingStatus DEF Serves
    <2> QED BY Zenon, <1>5, <2>1, <2>2 DEF Fits, Informed, SameLogin
  <1> QED BY <1>9, <1>10

(* The client asks for the health, or for all events.                      *)
LEMMA HealthEnabled ==
    ASSUME NEW c \in ClientEnds, NEW s \in ServerEnds, NEW w \in [Topics -> Nat], NEW us,
           NEW ds, NEW wanted, NEW exempt, ~ s.health,
           Informed(c, s, w, us, ds, wanted, exempt),
           \E k \in 1..Len(us) : us[k].type = "Action",
           NEW left, \A t \in exempt : t \in left, On(w["health"]) => "health" \in left
    PROVE  Informed(c, [s EXCEPT !.health = TRUE], w, us, ds, wanted, left)
  <1> DEFINE t == [s EXCEPT !.health = TRUE]
  <1>1. /\ t.open = s.open /\ t.binary = s.binary /\ t.events = s.events
        /\ t.health /\ t.extensions = s.extensions
        /\ t.loggedIn = s.loggedIn /\ t.pendingStatus = s.pendingStatus
    BY Zenon DEF ServerEnds
  <1> HIDE DEF t
  <1> SUFFICES ASSUME t.open /\ c.state # "Closed"
               PROVE  /\ WellFormed(ds) /\ ModeOK(t, us, ds)
                      /\ HealthOK(c, t, w, us, ds, wanted, left)
                      /\ ScrobblingOK(c, t, w, ds, left)
                      /\ wanted = "All" => EventsTold(c, t, w, us, ds, left)
    BY Zenon DEF Informed, t
  <1>2. /\ WellFormed(ds) /\ ModeOK(s, us, ds)
        /\ HealthOK(c, s, w, us, ds, wanted, exempt)
        /\ ScrobblingOK(c, s, w, ds, exempt)
        /\ wanted = "All" => EventsTold(c, s, w, us, ds, exempt)
    BY Zenon, <1>1 DEF Informed
  <1>3. ModeOK(t, us, ds)
    BY Zenon, <1>1, <1>2 DEF ModeOK
  <1>4. HealthOK(c, t, w, us, ds, wanted, left)
    <2>1. NoneOf(ds, Bearing("health")) /\ ~ On(c.view["health"])
      BY Zenon, <1>2 DEF HealthOK
    <2>2. ASSUME ~ On(w["health"])
          PROVE  Told("health", AsHealthy(w["health"]), c.view, ds)
      <3>1. c.view["health"] \in Int
        <4>1. c.view \in [Topics -> Int]
          BY Zenon DEF ClientEnds
        <4> QED BY <4>1 DEF Topics
      <3>2. c.view["health"] \in AsHealthy(w["health"])
        BY <2>1, <2>2, <3>1 DEF AsHealthy, On
      <3> QED BY Zenon, <2>1, <3>2 DEF Told
    <2> QED BY Zenon, <1>1, <2>2 DEF HealthOK
  <1>5. ScrobblingOK(c, t, w, ds, left)
    BY Zenon, <1>1, <1>2 DEF ScrobblingOK
  <1>6. ASSUME wanted = "All"
        PROVE  EventsTold(c, t, w, us, ds, left)
    <2>1. EventsTold(c, s, w, us, ds, exempt)
      BY Zenon, <1>2, <1>6
    <2>2. EventsFirst(t, us) /\ DelayOK(c, t, w, us, ds, left)
      BY Zenon, <1>1, <2>1 DEF EventsTold, EventsFirst, DelayOK
    <2>3. ASSUME NEW topic \in PlainTopics
          PROVE  TopicOK(topic, c, t, w, us, ds, left)
      <3>1. TopicOK(topic, c, s, w, us, ds, exempt)
        BY Zenon, <2>1 DEF EventsTold
      <3> QED BY Zenon, <1>1, <3>1 DEF TopicOK
    <2> QED BY Zenon, <2>2, <2>3 DEF EventsTold
  <1> QED BY Zenon, <1>2, <1>3, <1>4, <1>5, <1>6

LEMMA HealthTold ==
    ASSUME NEW x \in ServerSides, NEW c \in ClientEnds, NEW us, NEW wanted, NEW exempt,
           Fits(x, c, us, wanted, exempt), \E k \in 1..Len(us) : us[k].type = "Action",
           NEW z, z = EnableHealthEvents(x)
    PROVE  /\ z \in ServerSides /\ z.s.health /\ z.w = x.w
           /\ z.s.open = x.s.open /\ z.s.binary = x.s.binary
           /\ Fits(z, c, us, wanted, exempt)
  <1> DEFINE y == [x EXCEPT !.s.health = TRUE]
  <1>1. CASE x.s.health
    BY Zenon, <1>1 DEF EnableHealthEvents
  <1>2. CASE ~ x.s.health
    <2>1. z = IF On(y.w["health"]) THEN SendServerHealthMessage(y) ELSE y
      BY Zenon, <1>2 DEF EnableHealthEvents, SendServerHealthMessageIfNotEverythingOkay
    <2>2. y \in ServerSides
      BY Zenon, ServesFlag, ServesTyped
    <2>3. /\ y.s = [x.s EXCEPT !.health = TRUE] /\ y.w = x.w /\ y.out = x.out
          /\ y.s.health /\ y.s.open = x.s.open /\ y.s.binary = x.s.binary
      BY Zenon DEF ServerSides, ServerEnds
    <2> HIDE DEF y
    <2>4. x.s \in ServerEnds /\ x.w \in [Topics -> Nat]
      BY Zenon, TopicsTyped
    <2>5. CASE On(x.w["health"])
      <3> DEFINE more == exempt \cup {"health"}
      <3>1. /\ \A t \in exempt : t \in more
            /\ "health" \in more
            /\ \A t \in more \ {"health"} : t \in exempt
        OBVIOUS
      <3> HIDE DEF more
      <3>2. Informed(c, [x.s EXCEPT !.health = TRUE], x.w, us, x.out, wanted, more)
        BY Zenon, <1>2, <2>4, <3>1, HealthEnabled DEF Fits
      <3>3. Fits(y, c, us, wanted, more)
        BY Zenon, <2>3, <3>2 DEF Fits
      <3>4. z = SendBinaryMessage(y, Status(y, {"health"}))
        BY Zenon, <2>1, <2>3, <2>5 DEF SendServerHealthMessage
      <3>5. "health" \in Topics \ {"delayed", "scrobbling"}
        BY DEF Topics
      <3>6. /\ z \in ServerSides /\ z.s = y.s /\ z.w = y.w
            /\ Fits(z, c, us, wanted, more \ {"health"})
        BY Zenon, <2>2, <2>3, <3>3, <3>4, <3>5, TopicSent
      <3>7. Fits(z, c, us, wanted, exempt)
        BY Zenon, <3>1, <3>6, FitsLess
      <3> QED BY Zenon, <2>3, <3>6, <3>7
    <2>6. CASE ~ On(x.w["health"])
      <3>1. Informed(c, [x.s EXCEPT !.health = TRUE], x.w, us, x.out, wanted, exempt)
        BY Zenon, <1>2, <2>4, <2>6, HealthEnabled DEF Fits
      <3>2. z = y
        BY Zenon, <2>1, <2>3, <2>6
      <3> QED BY Zenon, <2>2, <2>3, <3>1, <3>2 DEF Fits
    <2> QED BY <2>5, <2>6
  <1> QED BY <1>1, <1>2

LEMMA EventsTellHealth ==
    ASSUME NEW x \in ServerSides, NEW c \in ClientEnds, NEW us, NEW wanted, NEW exempt,
           Fits(x, c, us, wanted, exempt), \E k \in 1..Len(us) : us[k].type = "Action",
           NEW z, z = EnableEvents(x)
    PROVE  /\ z \in ServerSides
           /\ z.s.open /\ c.state # "Closed" => z.s.events /\ z.s.health
           /\ Fits(z, c, us, wanted, exempt)
  <1> DEFINE y == EnableHealthEvents(x)
  <1>1. CASE x.s.events
    BY Zenon, <1>1 DEF EnableEvents, Fits, Informed, ModeOK
  <1>2. CASE ~ x.s.events
    <2>1. z = [y EXCEPT !.s.events = TRUE]
      BY Zenon, <1>2 DEF EnableEvents
    <2>2. /\ y \in ServerSides /\ y.s.health
          /\ Fits(y, c, us, wanted, exempt)
      BY Zenon, HealthTold
    <2> HIDE DEF y
    <2>3. z.s.events /\ z.s.health /\ z.s.open = y.s.open
      BY Zenon, <2>1, <2>2 DEF ServerSides, ServerEnds
    <2>4. z \in ServerSides
      BY Zenon, <2>1, <2>2, ServesFlag, ServesTyped
    <2>5. CASE y.s.binary
      <3>1. Mute(y, z)
        BY Zenon, <2>1, <2>2, <2>5, MuteFlags
      <3> QED BY Zenon, <2>2, <2>3, <2>4, <3>1, MuteFits
    <2>6. CASE ~ y.s.binary
      <3>1. ~ (z.s.open /\ c.state # "Closed")
        BY Zenon, <2>2, <2>3, <2>6 DEF Fits, Informed, ModeOK
      <3>2. Fits(z, c, us, wanted, exempt)
        BY Zenon, <3>1 DEF Fits, Informed
      <3> QED BY Zenon, <2>3, <2>4, <3>2
    <2> QED BY <2>5, <2>6
  <1> QED BY <1>1, <1>2

(* The questions of the controllers.                                       *)
LEMMA DynamicModeTold ==
    ASSUME NEW x \in ServerSides, NEW c, NEW us, NEW wanted, NEW exempt,
           Fits(x, c, us, wanted, exempt), NEW z, z = RequestDynamicModeStatus(x)
    PROVE  z \in ServerSides /\ Fits(z, c, us, wanted, exempt \ {"dynamic", "wave"})
  <1> DEFINE y == SendBinaryMessage(x, Status(x, {"dynamic"}))
             left == exempt \ {"dynamic", "wave"}
  <1>0. /\ "dynamic" \in Topics \ {"delayed", "scrobbling"}
        /\ "wave" \in Topics \ {"delayed", "scrobbling"}
        /\ "dynamic" # "health" /\ "wave" # "health"
        /\ "dynamic" \in EventTopics /\ "wave" \in EventTopics
    BY DEF Topics, EventTopics
  <1>1. z = IF x.s.events THEN SendBinaryMessage(y, Status(y, {"wave"})) ELSE x
    BY Zenon DEF RequestDynamicModeStatus, SendDynamicModeStatusMessage,
                 SendGeneratorWaveStatusMessage
  <1> DEFINE rest == exempt \ {"dynamic"}
  <1>2. y \in ServerSides /\ Fits(y, c, us, wanted, rest)
    BY Zenon, <1>0, TopicSent
  <1>3. \A t \in rest \ {"wave"} : t \in left
    OBVIOUS
  <1> HIDE DEF y, rest
  <1>4. CASE x.s.events
    <2>1. z = SendBinaryMessage(y, Status(y, {"wave"}))
      BY Zenon, <1>1, <1>4
    <2>2. z \in ServerSides /\ Fits(z, c, us, wanted, rest \ {"wave"})
      BY Zenon, <1>0, <1>2, <2>1, TopicSent
    <2> QED BY Zenon, <1>3, <2>2, FitsLess
  <1>5. CASE ~ x.s.events
    <2>1. \A t \in exempt : t \in left \/ t = "dynamic" \/ t = "wave"
      OBVIOUS
    <2>2. Excused("dynamic", x.s, wanted) /\ Excused("wave", x.s, wanted)
      BY Zenon, <1>0, <1>5 DEF Excused
    <2>3. Fits(x, c, us, wanted, left)
      BY Zenon, <2>1, <2>2, FitsLess
    <2> QED BY Zenon, <1>1, <1>5, <2>3
  <1> QED BY <1>4, <1>5

LEMMA IndexationTold ==
    ASSUME NEW x \in ServerSides, NEW c, NEW us, NEW wanted, NEW exempt,
           Fits(x, c, us, wanted, exempt), NEW z, z = RequestIndexationStatus(x)
    PROVE  z \in ServerSides /\ Fits(z, c, us, wanted, exempt \ {"indexing", "scanning"})
  <1> DEFINE y == SendBinaryMessage(x, Status(x, {"indexing"}))
             left == exempt \ {"indexing", "scanning"}
  <1>0. /\ "indexing" \in Topics \ {"delayed", "scrobbling"}
        /\ "scanning" \in Topics \ {"delayed", "scrobbling"}
        /\ "indexing" # "health" /\ "scanning" # "health"
        /\ "indexing" \in EventTopics /\ "scanning" \in EventTopics
    BY DEF Topics, EventTopics
  <1>1. z = IF x.s.events THEN SendBinaryMessage(y, Status(y, {"scanning"})) ELSE x
    BY Zenon DEF RequestIndexationStatus, SendIndexationStatusMessage
  <1> DEFINE rest == exempt \ {"indexing"}
  <1>2. y \in ServerSides /\ Fits(y, c, us, wanted, rest)
    BY Zenon, <1>0, TopicSent
  <1>3. \A t \in rest \ {"scanning"} : t \in left
    OBVIOUS
  <1> HIDE DEF y, rest
  <1>4. CASE x.s.events
    <2>1. z = SendBinaryMessage(y, Status(y, {"scanning"}))
      BY Zenon, <1>1, <1>4
    <2>2. z \in ServerSides /\ Fits(z, c, us, wanted, rest \ {"scanning"})
      BY Zenon, <1>0, <1>2, <2>1, TopicSent
    <2> QED BY Zenon, <1>3, <2>2, FitsLess
  <1>5. CASE ~ x.s.events
    <2>1. \A t \in exempt : t \in left \/ t = "indexing" \/ t = "scanning"
      OBVIOUS
    <2>2. Excused("indexing", x.s, wanted) /\ Excused("scanning", x.s, wanted)
      BY Zenon, <1>0, <1>5 DEF Excused
    <2>3. Fits(x, c, us, wanted, left)
      BY Zenon, <2>1, <2>2, FitsLess
    <2> QED BY Zenon, <1>1, <1>5, <2>3
  <1> QED BY <1>4, <1>5

(* Handlers that do not speak of topics, or change one and answer.         *)
LEMMA SendTells ==
    ASSUME NEW x \in ServerSides, NEW m \in Untelling
    PROVE  Tells(x, SendBinaryMessage(x, m))
  BY Zenon, MuteSend, MuteTells

LEMMA SilentlyTells ==
    ASSUME NEW x \in ServerSides, NEW z \in ServerSides, SameTelling(x.s, z.s),
           z.w = x.w, z.out = x.out
    PROVE  Tells(x, z)
  BY Zenon, MuteSilently, MuteTells

LEMMA UntellingMessages ==
    /\ [type |-> "KeepAlive"] \in Untelling
    /\ [type |-> "Extensions"] \in Untelling
    /\ \A kind \in Questions : [type |-> "Info", kind |-> kind] \in Untelling
    /\ \A user \in Users, salt \in Nat :
          /\ [type |-> "LoginSalt", login |-> user, salt |-> salt] \in Untelling
          /\ [type |-> "NewAccountSalt", login |-> user, salt |-> salt] \in Untelling
    /\ \A ref \in Nat :
          /\ [type |-> "TrackInfoBatch", ref |-> ref] \in Untelling
          /\ [type |-> "AdditionConfirmation", ref |-> ref] \in Untelling
          /\ [type |-> "Reply", ref |-> ref] \in Untelling
    /\ \A ref \in Nat, code \in Codes, user \in Names :
          [type |-> "Result", code |-> code, ref |-> ref, user |-> user] \in Untelling
  BY DEF Untelling, DownMessage

LEMMA ResultTells ==
    ASSUME NEW x \in ServerSides, NEW ref \in Nat, NEW code \in Codes
    PROVE  /\ \A user \in Names : Tells(x, SendResultMessage(x, code, ref, user))
           /\ Tells(x, SendResult(x, code, ref))
  <1>1. ASSUME NEW user \in Names
        PROVE  Tells(x, SendResultMessage(x, code, ref, user))
    <2> DEFINE m == [type |-> "Result", code |-> code, ref |-> ref, user |-> user]
    <2>1. m \in Untelling
      BY UntellingMessages
    <2>2. SendResultMessage(x, code, ref, user) = SendBinaryMessage(x, m)
      BY Zenon DEF SendResultMessage
    <2> HIDE DEF m
    <2> QED BY Zenon, <2>1, <2>2, SendTells
  <1>2. Nobody \in Names
    BY DEF Names
  <1> QED BY Zenon, <1>1, <1>2 DEF SendResult

LEMMA SuccessTells ==
    ASSUME NEW x \in ServerSides, NEW ref \in Nat, NEW z, Tells(x, z)
    PROVE  Tells(x, SendSuccess(z, ref))
  <1>1. "NoError" \in Codes /\ z \in ServerSides
    BY DEF Codes, Tells
  <1>2. Tells(z, SendResult(z, "NoError", ref))
    BY Zenon, <1>1, ResultTells
  <1> QED BY Zenon, <1>2, TellsTwice DEF SendSuccess

LEMMA TasksTell ==
    ASSUME NEW x \in ServerSides, NEW T \in SUBSET Task
    PROVE  Tells(x, [x EXCEPT !.s.tasks = T])
  <1> DEFINE y == [x EXCEPT !.s.tasks = T]
  <1>1. y \in ServerSides
    BY Zenon DEF ServerSides, ServerEnds
  <1>2. y.out = x.out /\ y.w = x.w
    BY Zenon DEF ServerSides
  <1>3. SameTelling(x.s, y.s)
    BY Zenon DEF ServerSides, ServerEnds, SameTelling
  <1> HIDE DEF y
  <1>4. Tells(x, y)
    BY Zenon, <1>1, <1>2, <1>3, SilentlyTells
  <1> QED BY Zenon, <1>4 DEF y

LEMMA LaterTells ==
    ASSUME NEW x \in ServerSides, NEW m, m.kind \in Kinds, m.ref \in Nat,
           NEW permitted \in BOOLEAN
    PROVE  Tells(x, Later(x, m, permitted))
  <1> DEFINE task == [kind |-> m.kind, ref |-> m.ref, step |-> 0, permitted |-> permitted]
             T == x.s.tasks \cup {task}
  <1>1. task \in Task
    BY DEF Task
  <1>2. x.s.tasks \in SUBSET Task
    BY Zenon DEF ServerSides, ServerEnds
  <1>3. Later(x, m, permitted) = [x EXCEPT !.s.tasks = T]
    BY Zenon DEF Later
  <1>4. T \in SUBSET Task
    BY Zenon, <1>1, <1>2
  <1> HIDE DEF T
  <1> QED BY Zenon, <1>3, <1>4, TasksTell

LEMMA ScanTells ==
    ASSUME NEW x \in ServerSides, NEW ref \in Nat, NEW t \in Topics
    PROVE  Tells(x, StartScan(x, t, ref))
  <1> DEFINE y == Change(x, t)
  <1>1. Tells(x, y)
    BY Zenon, ChangeTells
  <1>2. StartScan(x, t, ref) = IF ~ IsLoggedIn(x) THEN SendResult(x, "NotLoggedIn", ref)
                               ELSE IF Scanning(x.w)
                               THEN SendResult(x, "OperationAlreadyRunning", ref)
                               ELSE SendSuccess(y, ref)
    BY Zenon DEF StartScan
  <1> HIDE DEF y
  <1>3. Tells(x, SendSuccess(y, ref))
    BY Zenon, <1>1, SuccessTells
  <1>4. "NotLoggedIn" \in Codes /\ "OperationAlreadyRunning" \in Codes
    BY DEF Codes
  <1> QED BY Zenon, <1>2, <1>3, <1>4, ResultTells

LEMMA SwitchTells ==
    ASSUME NEW x \in ServerSides, NEW ref \in Nat, NEW on
    PROVE  Tells(x, SwitchDelayedStart(x, on, ref))
  <1> DEFINE y == Change(x, "delayed")
             code == IF on THEN "OperationAlreadyRunning" ELSE "AlreadyDone"
  <1>0. "delayed" \in Topics
    BY DEF Topics
  <1>1. Tells(x, y)
    BY Zenon, <1>0, ChangeTells
  <1>2. SwitchDelayedStart(x, on, ref)
        = IF ~ IsLoggedIn(x) THEN SendResult(x, "NotLoggedIn", ref)
          ELSE IF On(x.w["delayed"]) = on THEN SendResult(x, code, ref)
          ELSE SendSuccess(y, ref)
    BY Zenon DEF SwitchDelayedStart
  <1>3. "NotLoggedIn" \in Codes /\ code \in Codes
    BY DEF Codes
  <1> HIDE DEF y, code
  <1>4. Tells(x, SendSuccess(y, ref))
    BY Zenon, <1>1, SuccessTells
  <1> QED BY Zenon, <1>2, <1>3, <1>4, ResultTells

LEMMA InsertionTells ==
    ASSUME NEW x \in ServerSides, NEW ref \in Nat, NEW possible
    PROVE  Tells(x, InsertIntoQueue(x, possible, ref))
  <1> DEFINE y == [x EXCEPT !.w["length"] = @ + 1]
             u == SendQueueEntryAdditionConfirmationMessage(y, ref)
             v == SchedulePlayerStateNotification(u)
             z == InsertIntoQueue(x, possible, ref)
  <1>0. "length" \in Topics /\ "length" \in EventTopics
    BY DEF Topics, EventTopics
  <1>1. y \in ServerSides /\ y.s = x.s
    <2>1. y \in ServerSides
      BY Zenon, <1>0, ServesTopic, ServesTyped
    <2> QED BY Zenon, <2>1 DEF ServerSides
  <1>2. z = IF ~ IsLoggedIn(x) THEN SendResult(x, "NotLoggedIn", ref)
            ELSE IF ~ possible THEN SendResult(x, "InvalidQueueIndex", ref)
            ELSE IF y.s.events THEN v ELSE y
    BY Zenon DEF InsertIntoQueue
  <1>3. \A c, us, wanted, exempt : Fits(x, c, us, wanted, exempt) =>
            Fits(y, c, us, wanted, exempt \cup {"length"})
    BY Zenon, <1>0, TopicChanged
  <1> HIDE DEF y, z
  <1>4. Tells(y, u)
    BY Zenon, <1>1, UntellingMessages, SendTells DEF SendQueueEntryAdditionConfirmationMessage
  <1>5. u \in ServerSides /\ u.s = y.s
    <2> DEFINE m == [type |-> "AdditionConfirmation", ref |-> ref]
    <2>1. m \in DownMessage
      BY DEF DownMessage
    <2>2. u = SendBinaryMessage(y, m)
      BY Zenon DEF SendQueueEntryAdditionConfirmationMessage
    <2> HIDE DEF m, u
    <2> QED BY Zenon, <1>1, <2>1, <2>2, SentOrNot
  <1> HIDE DEF u
  <1>6. v = [u EXCEPT !.s.pendingStatus = TRUE]
    BY Zenon DEF SchedulePlayerStateNotification
  <1> HIDE DEF v
  <1>7. v.s.pendingStatus
    BY Zenon, <1>5, <1>6 DEF ServerSides, ServerEnds
  <1>8. u.s.events => Tells(u, v)
    BY Zenon, <1>5, <1>6, MuteFlags, MuteTells
  <1>9. CASE ~ IsLoggedIn(x) \/ ~ possible
    <2>1. "NotLoggedIn" \in Codes /\ "InvalidQueueIndex" \in Codes
      BY DEF Codes
    <2> QED BY Zenon, <1>2, <1>9, <2>1, ResultTells DEF z
  <1>10. CASE IsLoggedIn(x) /\ possible
    <2>1. CASE y.s.events
      <3>1. z = v
        BY Zenon, <1>2, <1>10, <2>1
      <3>2. Tells(y, v)
        BY Zenon, <1>4, <1>5, <1>8, <2>1, TellsTwice
      <3>3. v \in ServerSides
        BY Zenon, <3>2 DEF Tells
      <3>4. ASSUME NEW c, NEW us, NEW wanted, NEW exempt, Fits(x, c, us, wanted, exempt)
            PROVE  Fits(v, c, us, wanted, exempt)
        <4> DEFINE more == exempt \cup {"length"}
        <4>0. \A t \in more : t \in exempt \/ t = "length"
          OBVIOUS
        <4>1. Fits(v, c, us, wanted, more)
          BY Zenon, <1>3, <3>2, <3>4 DEF Tells
        <4>2. Excused("length", v.s, wanted)
          BY Zenon, <1>7 DEF Excused
        <4> HIDE DEF more
        <4>3. \A t \in more : t \in exempt \/ Excused(t, v.s, wanted)
          BY Zenon, <4>0, <4>2
        <4> QED BY Zenon, <4>1, <4>3, FitsLess
      <3> QED BY Zenon, <3>1, <3>3, <3>4 DEF Tells, z
    <2>2. CASE ~ y.s.events
      <3>1. z = y
        BY Zenon, <1>2, <1>10, <2>2
      <3>2. ASSUME NEW c, NEW us, NEW wanted, NEW exempt, Fits(x, c, us, wanted, exempt)
            PROVE  Fits(y, c, us, wanted, exempt)
        <4> DEFINE more == exempt \cup {"length"}
        <4>0. \A t \in more : t \in exempt \/ t = "length"
          OBVIOUS
        <4>1. Fits(y, c, us, wanted, more)
          BY Zenon, <1>3, <3>2
        <4>2. Excused("length", y.s, wanted)
          BY Zenon, <1>0, <2>2 DEF Excused
        <4> HIDE DEF more
        <4>3. \A t \in more : t \in exempt \/ Excused(t, y.s, wanted)
          BY Zenon, <4>0, <4>2
        <4> QED BY Zenon, <4>1, <4>3, FitsLess
      <3> QED BY Zenon, <1>1, <3>1, <3>2 DEF Tells, z
    <2> QED BY <2>1, <2>2
  <1> QED BY <1>9, <1>10

LEMMA RequestTells ==
    ASSUME NEW x \in ServerSides, NEW m, m.kind \in Kinds, m.ref \in Nat
    PROVE  Tells(x, HandleRequest(x, m))
  <1>0. IsLoggedIn(x) \in BOOLEAN
    BY DEF IsLoggedIn
  <1>1. CASE m.kind = "delay"
    BY Zenon, <1>1, SwitchTells DEF HandleRequest
  <1>2. CASE m.kind = "insert"
    BY Zenon, <1>2, InsertionTells DEF HandleRequest
  <1>3. CASE m.kind = "hash info"
    BY Zenon, <1>3, LaterTells DEF HandleRequest, GetHashInfo
  <1>4. CASE m.kind = "collection"
    <2>1. "NotLoggedIn" \in Codes
      BY DEF Codes
    <2> QED BY Zenon, <1>4, <2>1, LaterTells, ResultTells DEF HandleRequest, FetchCollection
  <1>5. CASE m.kind = "history"
    BY Zenon, <1>0, <1>5, LaterTells DEF HandleRequest, GetPersonalTrackHistory
  <1>6. CASE m.kind = "authenticate"
    BY Zenon, <1>0, <1>6, LaterTells DEF HandleRequest, AuthenticateScrobblingProvider
  <1>7. CASE m.kind \in {"indexing", "scanning"}
    <2>1. m.kind \in Topics
      BY <1>7 DEF Topics
    <2>2. HandleRequest(x, m) = StartScan(x, m.kind, m.ref)
      BY Zenon, <1>7 DEF HandleRequest, HandleParameterlessAction
    <2> QED BY Zenon, <2>1, <2>2, ScanTells
  <1>8. CASE m.kind = "undelay"
    BY Zenon, <1>8, SwitchTells DEF HandleRequest, HandleParameterlessAction
  <1>9. CASE m.kind = "reload"
    BY Zenon, <1>0, <1>9, LaterTells DEF HandleRequest, HandleParameterlessAction
  <1> QED BY Zenon, <1>1, <1>2, <1>3, <1>4, <1>5, <1>6, <1>7, <1>8, <1>9 DEF Kinds

LEMMA TaskTells ==
    ASSUME NEW x \in ServerSides, NEW task \in x.s.tasks
    PROVE  Tells(x, FinishTask(x, task))
  <1> DEFINE T == x.s.tasks \ {task}
             next == [task EXCEPT !.step = @ + 1]
             U == T \cup {next}
             y == [x EXCEPT !.s.tasks = T]
             z == [y EXCEPT !.s.tasks = @ \cup {next}]
  <1>1. x.s.tasks \in SUBSET Task
    BY Zenon DEF ServerSides, ServerEnds
  <1>2. task \in Task
    BY Zenon, <1>1
  <1>3. task.ref \in Nat
    BY Zenon, <1>2 DEF Task
  <1>4. next \in Task
    <2>1. task.step + 1 \in Nat
      BY <1>2 DEF Task
    <2> QED BY Zenon, <1>2, <2>1 DEF Task
  <1>5. T \in SUBSET Task
    BY <1>1
  <1>6. U \in SUBSET Task
    <2> HIDE DEF next
    <2> QED BY <1>4, <1>5
  <1>7. Tells(x, y)
    <2> HIDE DEF T
    <2> QED BY Zenon, <1>5, TasksTell
  <1>8. y.s.tasks = T
    BY Zenon DEF ServerSides, ServerEnds
  <1>9. Tells(x, z)
    <2>1. z = [y EXCEPT !.s.tasks = U]
      <3> HIDE DEF y, next
      <3>1. y \in ServerSides
        BY Zenon, <1>7 DEF Tells
      <3> QED BY Zenon, <1>8, <3>1 DEF ServerSides, ServerEnds
    <2> HIDE DEF U, y, T, z
    <2>2. Tells(y, [y EXCEPT !.s.tasks = U])
      <3>1. y \in ServerSides
        BY Zenon, <1>7 DEF Tells
      <3> QED BY Zenon, <1>6, <3>1, TasksTell
    <2> QED BY Zenon, <1>7, <2>1, <2>2, TellsTwice
  <1>10. FinishTask(x, task)
         = IF task.kind = "collection"
           THEN IF task.step = CollectionBatches THEN SendSuccess(y, task.ref)
                                                 ELSE SendTrackInfoBatchMessage(z, task.ref)
           ELSE IF ~ task.permitted THEN SendResult(y, "NotLoggedIn", task.ref)
           ELSE IF task.kind \in {"history", "hash info"} THEN SendReply(y, task.ref)
           ELSE SendSuccess(y, task.ref)
    BY Zenon DEF FinishTask, SendNextBatch, OnCollectionTrackInfoCompleted
  <1> HIDE DEF y, z
  <1>11. y \in ServerSides /\ z \in ServerSides
    BY Zenon, <1>7, <1>9 DEF Tells
  <1>12. Tells(x, SendSuccess(y, task.ref))
    BY Zenon, <1>3, <1>7, SuccessTells
  <1>13. Tells(x, SendResult(y, "NotLoggedIn", task.ref))
    <2>1. "NotLoggedIn" \in Codes
      BY DEF Codes
    <2>2. Tells(y, SendResult(y, "NotLoggedIn", task.ref))
      BY Zenon, <1>3, <1>11, <2>1, ResultTells
    <2> QED BY Zenon, <1>7, <2>2, TellsTwice
  <1>14. Tells(x, SendReply(y, task.ref))
    <2>1. Tells(y, SendReply(y, task.ref))
      BY Zenon, <1>3, <1>11, UntellingMessages, SendTells DEF SendReply
    <2> QED BY Zenon, <1>7, <2>1, TellsTwice
  <1>15. Tells(x, SendTrackInfoBatchMessage(z, task.ref))
    <2>1. Tells(z, SendTrackInfoBatchMessage(z, task.ref))
      BY Zenon, <1>3, <1>11, UntellingMessages, SendTells DEF SendTrackInfoBatchMessage
    <2> QED BY Zenon, <1>9, <2>1, TellsTwice
  <1> QED BY Zenon, <1>10, <1>12, <1>13, <1>14, <1>15

(* Accounts and logins.                                                    *)
LEMMA RegistrationTells ==
    ASSUME NEW x \in ServerSides, NEW m, m.login \in Users, m.ref \in Nat
    PROVE  Tells(x, RegisterNewAccount(x, m))
  <1> DEFINE y == [x EXCEPT !.users = @ \cup {m.login}]
  <1>1. y \in ServerSides
    BY Zenon DEF ServerSides
  <1>2. y.out = x.out /\ y.w = x.w /\ y.s = x.s
    BY Zenon DEF ServerSides
  <1>3. RegisterNewAccount(x, m)
        = IF m.login \in x.users
          THEN SendResult(x, "UserAccountAlreadyExists", m.ref)
          ELSE SendResultMessage(y, "NoError", m.ref, m.login)
    BY Zenon DEF RegisterNewAccount
  <1> HIDE DEF y
  <1>4. Tells(x, y)
    BY Zenon, <1>1, <1>2, SilentlyTells DEF SameTelling
  <1>5. "NoError" \in Codes /\ "UserAccountAlreadyExists" \in Codes
    BY DEF Codes
  <1>6. m.login \in Names
    BY DEF Names
  <1>7. Tells(y, SendResultMessage(y, "NoError", m.ref, m.login))
    BY Zenon, <1>1, <1>5, <1>6, ResultTells
  <1>8. Tells(x, SendResult(x, "UserAccountAlreadyExists", m.ref))
    BY Zenon, <1>5, ResultTells
  <1>9. Tells(x, SendResultMessage(y, "NoError", m.ref, m.login))
    BY Zenon, <1>4, <1>7, TellsTwice
  <1> QED BY Zenon, <1>3, <1>8, <1>9

LEMMA NewAccountTells ==
    ASSUME NEW x \in ServerSides, NEW m, m.login \in Users, m.ref \in Nat
    PROVE  Tells(x, InitiateNewUserAccount(x, m))
  <1> DEFINE salt == x.salts + 1
             y == [WithNewSalt(x) EXCEPT !.s.registering = m.login,
                                         !.s.registrationSalt = salt]
             n == [type |-> "NewAccountSalt", login |-> m.login, salt |-> salt]
  <1>1. salt \in Nat /\ m.login \in Names
    BY DEF ServerSides, Names
  <1>2. InitiateNewUserAccount(x, m)
        = IF m.login \in x.users
          THEN SendResult(x, "UserAccountAlreadyExists", m.ref)
          ELSE SendBinaryMessage(y, n)
    BY Zenon DEF InitiateNewUserAccount
  <1>3. WithNewSalt(x) = [x EXCEPT !.salts = salt]
    BY Zenon DEF WithNewSalt
  <1>4. n \in Untelling
    BY Zenon, <1>1, UntellingMessages
  <1> HIDE DEF salt, n
  <1>5. y \in ServerSides
    BY Zenon, <1>1, <1>3 DEF ServerSides, ServerEnds
  <1>6. y.out = x.out /\ y.w = x.w
    BY Zenon, <1>1, <1>3 DEF ServerSides, ServerEnds
  <1>7. SameTelling(x.s, y.s)
    BY Zenon, <1>1, <1>3 DEF ServerSides, ServerEnds, SameTelling
  <1> HIDE DEF y
  <1>8. Tells(x, y)
    BY Zenon, <1>5, <1>6, <1>7, SilentlyTells
  <1>9. Tells(y, SendBinaryMessage(y, n))
    BY Zenon, <1>4, <1>5, SendTells
  <1>10. "UserAccountAlreadyExists" \in Codes
    BY DEF Codes
  <1>11. Tells(x, SendResult(x, "UserAccountAlreadyExists", m.ref))
    BY Zenon, <1>10, ResultTells
  <1>12. Tells(x, SendBinaryMessage(y, n))
    BY Zenon, <1>8, <1>9, TellsTwice
  <1> QED BY Zenon, <1>2, <1>11, <1>12

LEMMA AccountTells ==
    ASSUME NEW x \in ServerSides, NEW m, m.login \in Users, m.ref \in Nat
    PROVE  Tells(x, FinishNewUserAccount(x, m))
  <1> DEFINE y == [x EXCEPT !.s.registering = Nobody, !.s.registrationSalt = NoSalt]
  <1>1. Nobody \in Names /\ NoSalt \in Nat
    BY DEF Names, NoSalt
  <1>2. y \in ServerSides
    BY Zenon, <1>1 DEF ServerSides, ServerEnds
  <1>3. y.out = x.out /\ y.w = x.w
    BY Zenon DEF ServerSides, ServerEnds
  <1>4. SameTelling(x.s, y.s)
    BY Zenon DEF ServerSides, ServerEnds, SameTelling
  <1>5. FinishNewUserAccount(x, m)
        = IF m.login # x.s.registering \/ m.salt # x.s.registrationSalt
          THEN SendResult(x, "RegistrationMismatch", m.ref)
          ELSE RegisterNewAccount(y, m)
    BY Zenon DEF FinishNewUserAccount
  <1> HIDE DEF y
  <1>6. Tells(x, y)
    BY Zenon, <1>2, <1>3, <1>4, SilentlyTells
  <1>7. Tells(y, RegisterNewAccount(y, m))
    BY Zenon, <1>2, RegistrationTells
  <1>8. "RegistrationMismatch" \in Codes
    BY DEF Codes
  <1>9. Tells(x, SendResult(x, "RegistrationMismatch", m.ref))
    BY Zenon, <1>8, ResultTells
  <1>10. Tells(x, RegisterNewAccount(y, m))
    BY Zenon, <1>6, <1>7, TellsTwice
  <1> QED BY Zenon, <1>5, <1>9, <1>10

LEMMA LoginTells ==
    ASSUME NEW x \in ServerSides, NEW m, m.login \in Users, m.ref \in Nat
    PROVE  Tells(x, InitiateLogin(x, m))
  <1> DEFINE salt == x.salts + 1
             y == [WithNewSalt(x) EXCEPT !.s.loggingIn = m.login, !.s.sessionSalt = salt]
             n == [type |-> "LoginSalt", login |-> m.login, salt |-> salt]
  <1>1. salt \in Nat /\ m.login \in Names
    BY DEF ServerSides, Names
  <1>2. InitiateLogin(x, m)
        = IF IsLoggedIn(x) THEN SendResult(x, "AlreadyLoggedIn", m.ref)
          ELSE IF m.login \notin x.users
          THEN SendResult(x, "AuthenticationFailed", m.ref)
          ELSE SendBinaryMessage(y, n)
    BY Zenon DEF InitiateLogin
  <1>3. WithNewSalt(x) = [x EXCEPT !.salts = salt]
    BY Zenon DEF WithNewSalt
  <1>4. n \in Untelling
    BY Zenon, <1>1, UntellingMessages
  <1> HIDE DEF salt, n
  <1>5. y \in ServerSides
    BY Zenon, <1>1, <1>3 DEF ServerSides, ServerEnds
  <1>6. y.out = x.out /\ y.w = x.w
    BY Zenon, <1>1, <1>3 DEF ServerSides, ServerEnds
  <1>7. SameTelling(x.s, y.s)
    BY Zenon, <1>1, <1>3 DEF ServerSides, ServerEnds, SameTelling
  <1> HIDE DEF y
  <1>8. Tells(x, y)
    BY Zenon, <1>5, <1>6, <1>7, SilentlyTells
  <1>9. Tells(y, SendBinaryMessage(y, n))
    BY Zenon, <1>4, <1>5, SendTells
  <1>10. "AlreadyLoggedIn" \in Codes /\ "AuthenticationFailed" \in Codes
    BY DEF Codes
  <1>11. Tells(x, SendBinaryMessage(y, n))
    BY Zenon, <1>8, <1>9, TellsTwice
  <1> QED BY Zenon, <1>2, <1>10, <1>11, ResultTells

LEMMA FinishTells ==
    ASSUME NEW x \in ServerSides, NEW m, m.login \in Users, m.ref \in Nat,
           x.s.loggedIn # Nobody => x.s.loggingIn = Nobody
    PROVE  Tells(x, FinishLogin(x, m))
  <1> DEFINE y == [x EXCEPT !.s.loggingIn = Nobody, !.s.sessionSalt = NoSalt]
             w == [y EXCEPT !.s = SetLoggedIn(@, m)]
  <1>1. m.login \in Names /\ m.login # Nobody /\ Nobody \in Names /\ NoSalt \in Nat
    BY NobodyIsNoUser DEF Names, NoSalt
  <1>2. y \in ServerSides /\ y.out = x.out /\ y.w = x.w /\ y.s.loggedIn = x.s.loggedIn
    BY Zenon, <1>1 DEF ServerSides, ServerEnds
  <1>3. SameTelling(x.s, y.s)
    BY Zenon DEF ServerSides, ServerEnds, SameTelling
  <1>4. FinishLogin(x, m)
        = IF m.login \notin x.users THEN SendResult(x, "AuthenticationFailed", m.ref)
          ELSE IF m.login # x.s.loggingIn \/ m.salt # x.s.sessionSalt
          THEN SendResult(x, "LoginMismatch", m.ref)
          ELSE IF ~ m.right THEN SendResult(y, "AuthenticationFailed", m.ref)
          ELSE SendResultMessage(w, "NoError", m.ref, m.login)
    BY Zenon DEF FinishLogin
  <1> HIDE DEF y
  <1>5. Tells(x, y)
    BY Zenon, <1>2, <1>3, SilentlyTells
  <1>6. w = [y EXCEPT !.s = [y.s EXCEPT !.loggedIn = m.login]]
    BY Zenon DEF SetLoggedIn
  <1>7. w \in ServerSides /\ (x.s.loggedIn = Nobody => Tells(y, w))
    <2> DEFINE t == [y.s EXCEPT !.loggedIn = m.login]
    <2>0. y.s \in ServerEnds
      BY Zenon, <1>2 DEF ServerSides
    <2>1. t \in ServerEnds
      BY Zenon, <1>1, <2>0 DEF ServerEnds
    <2>2. x.s.loggedIn = Nobody => SameTelling(y.s, t)
      BY Zenon, <1>2, <2>0 DEF ServerEnds, SameTelling
    <2> HIDE DEF t
    <2>3. w \in ServerSides
      BY Zenon, <1>2, <1>6, <2>1 DEF ServerSides, t
    <2>4. w.s = t /\ w.out = y.out /\ w.w = y.w
      BY Zenon, <1>2, <1>6, <2>1 DEF ServerSides, t
    <2> QED BY Zenon, <1>2, <2>2, <2>3, <2>4, SilentlyTells
  <1> HIDE DEF w
  <1>8. /\ "NoError" \in Codes /\ "AuthenticationFailed" \in Codes /\ "LoginMismatch" \in Codes
    BY DEF Codes
  <1>9. Tells(x, SendResult(y, "AuthenticationFailed", m.ref))
    <2>1. Tells(y, SendResult(y, "AuthenticationFailed", m.ref))
      BY Zenon, <1>2, <1>8, ResultTells
    <2> QED BY Zenon, <1>5, <2>1, TellsTwice
  <1>10. m.login = x.s.loggingIn => Tells(x, SendResultMessage(w, "NoError", m.ref, m.login))
    <2> SUFFICES ASSUME m.login = x.s.loggingIn
                 PROVE  Tells(x, SendResultMessage(w, "NoError", m.ref, m.login))
      OBVIOUS
    <2>1. Tells(x, w)
      BY Zenon, <1>1, <1>5, <1>7, TellsTwice
    <2>2. Tells(w, SendResultMessage(w, "NoError", m.ref, m.login))
      BY Zenon, <1>1, <1>7, <1>8, ResultTells
    <2> QED BY Zenon, <2>1, <2>2, TellsTwice
  <1> QED BY Zenon, <1>4, <1>8, <1>9, <1>10, ResultTells

LEMMA BinaryModeTells ==
    ASSUME NEW x \in ServerSides
    PROVE  Tells(x, HandleBinaryModeSwitchRequest(x))
  <1> DEFINE z == HandleBinaryModeSwitchRequest(x)
  <1>1. CASE x.s.binary
    <2>1. z = x
      BY Zenon, <1>1 DEF HandleBinaryModeSwitchRequest
    <2> QED BY Zenon, <2>1, TellsNothing
  <1>2. CASE ~ x.s.binary
    <2> DEFINE ns == << [type |-> "TextBinary"], [type |-> "Header"] >>
               out == x.out \o ns
               t == [x.s EXCEPT !.binary = TRUE]
    <2>1. x.out \in Seq(DownMessage) /\ ns \in Seq(DownMessage) /\ out \in Seq(DownMessage)
      BY DEF ServerSides, DownMessage
    <2>2. \A i \in 1..Len(ns) : ns[i] \in Untelling
      BY DEF Untelling, DownMessage
    <2> HIDE DEF ns
    <2>3. Grown(x.out, out, Untelling)
      BY Zenon, <2>1, <2>2, GrownConcat
    <2>4. z = [x EXCEPT !.s.binary = TRUE, !.out = out]
      BY Zenon, <1>2 DEF HandleBinaryModeSwitchRequest, ns
    <2> HIDE DEF out
    <2>5. z = [x EXCEPT !.s = t, !.out = out]
      BY Zenon, <2>4 DEF ServerSides, ServerEnds
    <2>6. t \in ServerEnds /\ SameTelling(x.s, t)
      <3>1. x.s \in ServerEnds
        BY Zenon DEF ServerSides
      <3>2. t \in ServerEnds
        BY Zenon, <3>1 DEF ServerEnds
      <3> QED BY Zenon, <3>1, <3>2 DEF ServerEnds, SameTelling
    <2> HIDE DEF t, z
    <2>7. z \in ServerSides /\ z.s = t /\ z.out = out /\ z.w = x.w
      BY Zenon, <2>1, <2>5, <2>6 DEF ServerSides
    <2>8. Mute(x, z)
      BY Zenon, <2>3, <2>6, <2>7 DEF Mute
    <2> QED BY Zenon, <2>8, MuteTells DEF z
  <1> QED BY <1>1, <1>2

(* What is neither an action nor the end.                                  *)
LEMMA MessageTells ==
    ASSUME NEW x \in ServerSides, NEW m \in UpMessage, m.type \notin {"Action", "Shutdown"},
           x.s.loggedIn # Nobody => x.s.loggingIn = Nobody
    PROVE  Tells(x, DataArrived(x, m))
  <1>1. m.type \in {"TextBinary", "Header", "KeepAlive", "Extensions", "Ask", "Command",
                    "ScrobblingInfo", "Request", "InitiateLogin", "FinishLogin",
                    "InitiateAccount", "FinishAccount"}
    BY DEF UpMessage
  <1>2. CASE m.type = "Request"
    <2>1. DataArrived(x, m) = HandleRequest(x, m)
      BY Zenon, <1>2 DEF DataArrived, HandleStandardBinaryMessage
    <2> QED BY Zenon, <1>2, <2>1, UpFields, RequestTells
  <1>3. CASE m.type = "InitiateAccount"
    <2>1. DataArrived(x, m) = InitiateNewUserAccount(x, m)
      BY Zenon, <1>3 DEF DataArrived, HandleStandardBinaryMessage
    <2> QED BY Zenon, <1>3, <2>1, UpFields, NewAccountTells
  <1>4. CASE m.type = "FinishAccount"
    <2>1. DataArrived(x, m) = FinishNewUserAccount(x, m)
      BY Zenon, <1>4 DEF DataArrived, HandleStandardBinaryMessage
    <2> QED BY Zenon, <1>4, <2>1, UpFields, AccountTells
  <1>5. CASE m.type = "InitiateLogin"
    <2>1. DataArrived(x, m) = InitiateLogin(x, m)
      BY Zenon, <1>5 DEF DataArrived, HandleStandardBinaryMessage
    <2> QED BY Zenon, <1>5, <2>1, UpFields, LoginTells
  <1>6. CASE m.type = "FinishLogin"
    <2>1. DataArrived(x, m) = FinishLogin(x, m)
      BY Zenon, <1>6 DEF DataArrived, HandleStandardBinaryMessage
    <2> QED BY Zenon, <1>6, <2>1, UpFields, FinishTells
  <1>7. CASE m.type = "TextBinary"
    BY Zenon, <1>7, BinaryModeTells DEF DataArrived
  <1>8. CASE m.type = "Header"
    BY Zenon, <1>8, MuteFlags, MuteTells DEF DataArrived
  <1>9. CASE m.type = "KeepAlive"
    BY Zenon, <1>9, UntellingMessages, SendTells
       DEF DataArrived, HandleStandardBinaryMessage, SendKeepAliveReply
  <1>10. CASE m.type = "Extensions"
    BY Zenon, <1>10, MuteFlags, MuteTells DEF DataArrived, HandleStandardBinaryMessage
  <1>11. CASE m.type = "Ask"
    BY Zenon, <1>11, UpFields, UntellingMessages, SendTells
       DEF DataArrived, HandleStandardBinaryMessage, SendInfo
  <1>12. CASE m.type = "Command"
    BY Zenon, <1>12, UpFields, CommandTells DEF DataArrived, HandleStandardBinaryMessage
  <1>13. CASE m.type = "ScrobblingInfo"
    <2>1. DataArrived(x, m) = IF IsLoggedIn(x) THEN SendScrobblingMessage(x) ELSE x
      BY Zenon, <1>13
         DEF DataArrived, HandleStandardBinaryMessage, RequestScrobblingInfo
    <2>2. ASSUME IsLoggedIn(x)
          PROVE  Tells(x, SendScrobblingMessage(x))
      <3> DEFINE z == SendScrobblingMessage(x)
      <3>1. z \in ServerSides
        BY Zenon, SendingScrobbling, ServesTyped
      <3>2. ASSUME NEW c, NEW us, NEW wanted, NEW exempt, Fits(x, c, us, wanted, exempt)
            PROVE  Fits(z, c, us, wanted, exempt)
        <4>1. Fits(z, c, us, wanted, exempt \ {"scrobbling"})
          BY Zenon, <2>2, <3>2, ScrobblingSent DEF IsLoggedIn
        <4>2. \A t \in exempt \ {"scrobbling"} : t \in exempt
          OBVIOUS
        <4> QED BY Zenon, <4>1, <4>2, FitsLess
      <3> QED BY Zenon, <3>1, <3>2 DEF Tells
    <2> QED BY Zenon, <2>1, <2>2, TellsNothing
  <1> QED BY Zenon, <1>1, <1>2, <1>3, <1>4, <1>5, <1>6, <1>7, <1>8, <1>9, <1>10, <1>11,
             <1>12, <1>13

-----------------------------------------------------------------------------
(* The server reads a message.  What it was asked for is owed until it has *)
(* answered.                                                               *)

LEMMA HeadIsFirst ==
    ASSUME NEW M, NEW us \in Seq(M), us # << >>
    PROVE  1 \in 1..Len(us) /\ us[1] = Head(us)
  BY TailOfList

LEMMA OneBefore ==
    ASSUME NEW j \in Int, NEW k \in Int, j < k + 1
    PROVE  j - 1 < k
  OBVIOUS

LEMMA AskedWhenRead ==
    ASSUME NEW us \in Seq(UpMessage), us # << >>, NEW m,
           \E k \in 1..Len(us) : us[k] = m
    PROVE  Head(us) = m \/ \E k \in 1..Len(Tail(us)) : Tail(us)[k] = m
  <1>1. PICK k \in 1..Len(us) : us[k] = m
    OBVIOUS
  <1>2. CASE k = 1
    BY <1>1, <1>2, TailOfList
  <1>3. CASE k # 1
    <2>1. k - 1 \in 1..Len(Tail(us)) /\ Tail(us)[k - 1] = us[k]
      BY <1>3, TailOfList
    <2> QED BY <1>1, <2>1
  <1> QED BY <1>2, <1>3

LEMMA EventsFirstRead ==
    ASSUME NEW s, NEW us \in Seq(UpMessage), us # << >>, EventsFirst(s, us)
    PROVE  /\ \A action \in ControllersAsk : Head(us) = Action(action) => s.events
           /\ (Head(us) = Action("all events") => s.events) => EventsFirst(s, Tail(us))
  <1>1. ASSUME NEW action \in ControllersAsk, Head(us) = Action(action), ~ s.events
        PROVE  FALSE
    <2>1. 1 \in 1..Len(us) /\ us[1] = Action(action)
      BY <1>1, TailOfList
    <2>2. PICK j \in 1..Len(us) : j < 1
      BY <1>1, <2>1 DEF EventsFirst
    <2> QED BY <2>2
  <1>2. ASSUME Head(us) = Action("all events") => s.events, ~ s.events,
               NEW k \in 1..Len(Tail(us)), NEW action \in ControllersAsk,
               Tail(us)[k] = Action(action)
        PROVE  \E j \in 1..Len(Tail(us)) : j < k /\ Tail(us)[j] = Action("all events")
    <2>1. k + 1 \in 1..Len(us) /\ us[k + 1] = Action(action)
      BY Zenon, <1>2, TailElements
    <2>2. PICK j \in 1..Len(us) : j < k + 1 /\ us[j] = Action("all events")
      BY <1>2, <2>1 DEF EventsFirst
    <2>3. j # 1
      BY <1>2, <2>2, TailOfList
    <2>4. j - 1 \in 1..Len(Tail(us)) /\ Tail(us)[j - 1] = us[j]
      BY Zenon, <2>3, TailElements
    <2>5. j - 1 < k
      <3>1. j \in Int /\ k \in Int
        OBVIOUS
      <3> QED BY Zenon, <2>2, <3>1, OneBefore
    <2> QED BY <2>2, <2>4, <2>5
  <1> QED BY <1>1, <1>2 DEF EventsFirst

MayRead(m, s, w, wanted, left) ==
    /\ m = EventRequest(wanted) => s.health
    /\ m = Action("all events") => s.events
    /\ \A t \in PlainTopics : m = Action(QuestionAbout(t)) => t \in left
    /\ m = Action("player state") => "unheard" \in left
    /\ m = Action("delayed start info") /\ On(w["delayed"]) => "delayed" \in left

LEMMA UpIsRead ==
    ASSUME NEW c, NEW s, NEW w, NEW us \in Seq(UpMessage), us # << >>, NEW ds, NEW wanted,
           NEW exempt, Informed(c, s, w, us, ds, wanted, exempt),
           NEW left, \A t \in exempt : t \in left, MayRead(Head(us), s, w, wanted, left)
    PROVE  Informed(c, s, w, Tail(us), ds, wanted, left)
  <1>0. /\ Head(us) = EventRequest(wanted) => s.health
        /\ Head(us) = Action("all events") => s.events
        /\ \A t \in PlainTopics : Head(us) = Action(QuestionAbout(t)) => t \in left
        /\ Head(us) = Action("player state") => "unheard" \in left
        /\ Head(us) = Action("delayed start info") /\ On(w["delayed"]) => "delayed" \in left
    BY Zenon DEF MayRead
  <1> DEFINE vs == Tail(us)
  <1> SUFFICES ASSUME s.open /\ c.state # "Closed"
               PROVE  /\ WellFormed(ds) /\ ModeOK(s, vs, ds)
                      /\ HealthOK(c, s, w, vs, ds, wanted, left)
                      /\ ScrobblingOK(c, s, w, ds, left)
                      /\ wanted = "All" => EventsTold(c, s, w, vs, ds, left)
    BY Zenon DEF Informed
  <1>1. /\ WellFormed(ds) /\ ModeOK(s, us, ds)
        /\ HealthOK(c, s, w, us, ds, wanted, exempt)
        /\ ScrobblingOK(c, s, w, ds, exempt)
        /\ wanted = "All" => EventsTold(c, s, w, us, ds, exempt)
    BY Zenon DEF Informed
  <1>2. \A k \in 1..Len(vs) : k + 1 \in 1..Len(us) /\ vs[k] = us[k + 1]
    BY Zenon, TailElements
  <1>3. \A action : IsAsked(action, us) => Head(us) = Action(action) \/ IsAsked(action, vs)
    BY Zenon, AskedWhenRead DEF IsAsked
  <1>4. (\E k \in 1..Len(us) : us[k] = EventRequest(wanted)) =>
            s.health \/ \E k \in 1..Len(vs) : vs[k] = EventRequest(wanted)
    BY Zenon, <1>0, AskedWhenRead
  <1>5. ModeOK(s, vs, ds)
    BY Zenon, <1>1, <1>2 DEF ModeOK
  <1> HIDE DEF vs
  <1>6. HealthOK(c, s, w, vs, ds, wanted, left)
    BY Zenon, <1>1, <1>4 DEF HealthOK
  <1>7. ScrobblingOK(c, s, w, ds, left)
    BY Zenon, <1>1 DEF ScrobblingOK
  <1>8. ASSUME wanted = "All"
        PROVE  EventsTold(c, s, w, vs, ds, left)
    <2>1. EventsTold(c, s, w, us, ds, exempt)
      BY Zenon, <1>1, <1>8
    <2>2. /\ EventsFirst(s, vs)
          /\ \A action \in ControllersAsk : Head(us) = Action(action) => s.events
      BY Zenon, <1>0, <2>1, EventsFirstRead DEF EventsTold, vs
    <2>3. ASSUME NEW t \in PlainTopics
          PROVE  TopicOK(t, c, s, w, vs, ds, left)
      <3>1. TopicOK(t, c, s, w, us, ds, exempt)
        BY Zenon, <2>1 DEF EventsTold
      <3>2. QuestionAbout(t) \in ControllersAsk
        BY DEF QuestionAbout, ControllersAsk
      <3>3. IsAsked(QuestionAbout(t), us) =>
                IsAsked(QuestionAbout(t), vs) \/ (s.events /\ t \in left)
        BY Zenon, <1>0, <1>3, <2>2, <3>2
      <3> HIDE DEF QuestionAbout
      <3> QED BY Zenon, <3>1, <3>3 DEF TopicOK
    <2>4. DelayOK(c, s, w, vs, ds, left)
      <3>1. DelayOK(c, s, w, us, ds, exempt)
        BY Zenon, <2>1 DEF EventsTold
      <3>2. "player state" \in ControllersAsk /\ "delayed start info" \in ControllersAsk
        BY DEF ControllersAsk
      <3>3. IsAsked("player state", us) =>
                IsAsked("player state", vs) \/ (s.events /\ "unheard" \in left)
        BY Zenon, <1>0, <1>3, <2>2, <3>2
      <3>4. IsAsked("delayed start info", us) /\ On(w["delayed"]) =>
                IsAsked("delayed start info", vs) \/ (s.events /\ "delayed" \in left)
        BY Zenon, <1>0, <1>3, <2>2, <3>2
      <3>5. CASE Unheard(c.view["delayed"], ds)
        BY Zenon, <3>1, <3>3, <3>4, <3>5 DEF DelayOK, DelayTold, ToldOn, ToldOff
      <3>6. CASE s.events /\ "delayed" \in exempt
        BY Zenon, <3>6 DEF DelayOK
      <3>7. CASE s.events /\ DelayTold(w["delayed"], c.view["delayed"], us, ds)
        BY Zenon, <3>4, <3>7 DEF DelayOK, DelayTold, ToldOn
      <3> QED BY Zenon, <3>1, <3>5, <3>6, <3>7 DEF DelayOK
    <2> QED BY Zenon, <2>2, <2>3, <2>4 DEF EventsTold
  <1> QED BY Zenon, <1>1, <1>5, <1>6, <1>7, <1>8

LEMMA UpFits ==
    ASSUME NEW x, NEW c, NEW us \in Seq(UpMessage), us # << >>, NEW wanted,
           Fits(x, c, us, wanted, {}), NEW left, MayRead(Head(us), x.s, x.w, wanted, left)
    PROVE  Fits(x, c, Tail(us), wanted, left)
  <1> DEFINE none == {}
  <1>1. \A t \in none : t \in left
    OBVIOUS
  <1>2. Informed(c, x.s, x.w, us, x.out, wanted, none)
    BY Zenon DEF Fits
  <1> HIDE DEF none
  <1>3. Informed(c, x.s, x.w, Tail(us), x.out, wanted, left)
    BY Zenon, <1>1, <1>2, UpIsRead
  <1> QED BY Zenon, <1>3 DEF Fits

LEMMA QuestionsToRead ==
    /\ \A t \in PlainTopics : QuestionAbout(t) \in ControllersAsk \ {"delayed start info"}
    /\ \A t \in PlainTopics : QuestionAbout(t) = "player state" =>
          t \in {"player", "length", "volume"}
    /\ \A t \in PlainTopics : QuestionAbout(t) = "user playing for" => t = "user"
    /\ \A t \in PlainTopics : QuestionAbout(t) = "dynamic mode status" => t \in {"dynamic", "wave"}
    /\ \A t \in PlainTopics :
          QuestionAbout(t) = "indexation status" => t \in {"indexing", "scanning"}
    /\ \A action \in ControllersAsk : action \notin {"all events", "health events", "extensions"}
    /\ \A a, b : Action(a) = Action(b) => a = b
    /\ \A wanted : \/ EventRequest(wanted) = Action("all events")
                   \/ EventRequest(wanted) = Action("health events")
  BY DEF QuestionAbout, ControllersAsk, PlainTopics, Topics, Action, EventRequest

(* The question of a controller: what it has asked for is sent.            *)
LEMMA QuestionTells ==
    ASSUME NEW x \in ServerSides, NEW c, NEW us \in Seq(UpMessage), us # << >>,
           NEW wanted, Fits(x, c, us, wanted, {}), x.s.open, c.state # "Closed",
           NEW action \in ControllersAsk, Head(us) = Action(action),
           NEW z, z = HandleSingleByteAction(x, action)
    PROVE  Fits(z, c, Tail(us), wanted, {})
  <1>1. /\ Head(us) # EventRequest(wanted) /\ Head(us) # Action("all events")
        /\ \A t \in PlainTopics : Head(us) = Action(QuestionAbout(t)) => action = QuestionAbout(t)
        /\ Head(us) = Action("player state") => action = "player state"
        /\ Head(us) = Action("delayed start info") => action = "delayed start info"
    BY Zenon, QuestionsToRead
  <1>2. wanted = "All" => x.s.events
    <2>1. wanted = "All" => EventsFirst(x.s, us)
      BY Zenon DEF Fits, Informed, EventsTold
    <2> QED BY Zenon, <2>1, EventsFirstRead
  <1>3. ASSUME NEW left,
               \A t \in PlainTopics : action = QuestionAbout(t) => t \in left,
               action = "player state" => "unheard" \in left,
               action = "delayed start info" /\ On(x.w["delayed"]) => "delayed" \in left
        PROVE  Fits(x, c, Tail(us), wanted, left)
    <2>1. MayRead(Head(us), x.s, x.w, wanted, left)
      BY Zenon, <1>1, <1>3 DEF MayRead
    <2> QED BY Zenon, <2>1, UpFits
  <1>4. CASE action = "player state"
    <2> DEFINE left == {"player", "length", "volume", "unheard"}
    <2>1. Fits(x, c, Tail(us), wanted, left)
      <3>1. "unheard" \in left /\ action # "delayed start info"
            /\ \A t \in PlainTopics : action = QuestionAbout(t) => t \in left
        BY <1>4, QuestionsToRead
      <3> HIDE DEF left
      <3> QED BY Zenon, <1>3, <3>1
    <2>2. z = SendPlayerStateMessage(x)
      BY Zenon, <1>4 DEF HandleSingleByteAction
    <2>3. Fits(z, c, Tail(us), wanted, left \ left)
      BY Zenon, <1>2, <2>1, <2>2, PlayerStateSent
    <2>4. left \ left = {}
      OBVIOUS
    <2> HIDE DEF left
    <2> QED BY Zenon, <2>3, <2>4
  <1>5. CASE action = "user playing for"
    <2> DEFINE left == {"user"}
    <2>1. Fits(x, c, Tail(us), wanted, left)
      <3>1. action # "player state" /\ action # "delayed start info"
            /\ \A t \in PlainTopics : action = QuestionAbout(t) => t \in left
        BY <1>5, QuestionsToRead
      <3> HIDE DEF left
      <3> QED BY Zenon, <1>3, <3>1
    <2>2. z = SendBinaryMessage(x, Status(x, {"user"}))
      BY Zenon, <1>5 DEF HandleSingleByteAction, SendUserPlayingForModeMessage
    <2>3. "user" \in Topics \ {"delayed", "scrobbling"} /\ "user" # "health"
      BY DEF Topics
    <2>4. Fits(z, c, Tail(us), wanted, left \ left)
      BY Zenon, <2>1, <2>2, <2>3, TopicSent
    <2>5. left \ left = {}
      OBVIOUS
    <2> HIDE DEF left
    <2> QED BY Zenon, <2>4, <2>5
  <1>6. CASE action = "dynamic mode status"
    <2> DEFINE left == {"dynamic", "wave"}
    <2>1. Fits(x, c, Tail(us), wanted, left)
      <3>1. action # "player state" /\ action # "delayed start info"
            /\ \A t \in PlainTopics : action = QuestionAbout(t) => t \in left
        BY <1>6, QuestionsToRead
      <3> HIDE DEF left
      <3> QED BY Zenon, <1>3, <3>1
    <2>2. z = RequestDynamicModeStatus(x)
      BY Zenon, <1>6 DEF HandleSingleByteAction
    <2>3. Fits(z, c, Tail(us), wanted, left \ left)
      BY Zenon, <2>1, <2>2, DynamicModeTold
    <2>4. left \ left = {}
      OBVIOUS
    <2> HIDE DEF left
    <2> QED BY Zenon, <2>3, <2>4
  <1>7. CASE action = "indexation status"
    <2> DEFINE left == {"indexing", "scanning"}
    <2>1. Fits(x, c, Tail(us), wanted, left)
      <3>1. action # "player state" /\ action # "delayed start info"
            /\ \A t \in PlainTopics : action = QuestionAbout(t) => t \in left
        BY <1>7, QuestionsToRead
      <3> HIDE DEF left
      <3> QED BY Zenon, <1>3, <3>1
    <2>2. z = RequestIndexationStatus(x)
      BY Zenon, <1>7 DEF HandleSingleByteAction
    <2>3. Fits(z, c, Tail(us), wanted, left \ left)
      BY Zenon, <2>1, <2>2, IndexationTold
    <2>4. left \ left = {}
      OBVIOUS
    <2> HIDE DEF left
    <2> QED BY Zenon, <2>3, <2>4
  <1>8. CASE action = "delayed start info"
    <2>0. action # "player state" /\ \A t \in PlainTopics : action # QuestionAbout(t)
      BY <1>8, QuestionsToRead
    <2>1. z = IF On(x.w["delayed"]) THEN SendDelayedStartInfoMessage(x) ELSE x
      BY Zenon, <1>8 DEF HandleSingleByteAction, SendDelayedStartInfoIfActive
    <2>2. CASE On(x.w["delayed"])
      <3> DEFINE left == {"delayed"}
      <3>1. Fits(x, c, Tail(us), wanted, left)
        <4>1. "delayed" \in left
          OBVIOUS
        <4> HIDE DEF left
        <4> QED BY Zenon, <1>3, <2>0, <4>1
      <3>2. Fits(z, c, Tail(us), wanted, left \ left)
        BY Zenon, <1>2, <2>1, <2>2, <3>1, DeadlineSent
      <3>3. left \ left = {}
        OBVIOUS
      <3> HIDE DEF left
      <3> QED BY Zenon, <3>2, <3>3
    <2>3. CASE ~ On(x.w["delayed"])
      BY Zenon, <1>3, <2>0, <2>1, <2>3
    <2> QED BY <2>2, <2>3
  <1> QED BY Zenon, <1>4, <1>5, <1>6, <1>7, <1>8 DEF ControllersAsk

LEMMA EnablingIsRead ==
    ASSUME NEW x \in ServerSides, NEW c \in ClientEnds, NEW us \in Seq(UpMessage), us # << >>,
           NEW wanted, Fits(x, c, us, wanted, {}), x.s.open, c.state # "Closed",
           NEW action \in {"all events", "health events"}, Head(us) = Action(action),
           NEW z, z = HandleSingleByteAction(x, action)
    PROVE  Fits(z, c, Tail(us), wanted, {})
  <1>1. \E k \in 1..Len(us) : us[k].type = "Action"
    <2>1. 1 \in 1..Len(us) /\ us[1] = Action(action)
      BY Zenon, HeadIsFirst
    <2>2. Action(action).type = "Action"
      BY DEF Action
    <2> QED BY Zenon, <2>1, <2>2
  <1>2. /\ Fits(z, c, us, wanted, {}) /\ (z.s.open => z.s.health)
        /\ action = "all events" => (z.s.open => z.s.events)
    <2>1. CASE action = "all events"
      <3>1. z = EnableEvents(x)
        BY Zenon, <2>1 DEF HandleSingleByteAction
      <3> QED BY Zenon, <1>1, <3>1, EventsTellHealth
    <2>2. CASE action = "health events"
      <3>1. z = EnableHealthEvents(x) /\ action # "all events"
        BY <2>2 DEF HandleSingleByteAction
      <3> QED BY Zenon, <1>1, <3>1, HealthTold
    <2> QED BY <2>1, <2>2
  <1>3. /\ \A other \in ControllersAsk : Head(us) # Action(other)
        /\ Head(us) = Action("all events") => action = "all events"
    BY QuestionsToRead
  <1>4. /\ \A t \in PlainTopics : Head(us) # Action(QuestionAbout(t))
        /\ Head(us) # Action("player state") /\ Head(us) # Action("delayed start info")
    <2>1. /\ \A t \in PlainTopics : QuestionAbout(t) \in ControllersAsk
          /\ "player state" \in ControllersAsk /\ "delayed start info" \in ControllersAsk
      BY QuestionsToRead DEF ControllersAsk
    <2> QED BY Zenon, <1>3, <2>1
  <1>5. CASE z.s.open
    <2>1. MayRead(Head(us), z.s, z.w, wanted, {})
      BY Zenon, <1>2, <1>3, <1>4, <1>5 DEF MayRead
    <2> QED BY Zenon, <1>2, <2>1, UpFits
  <1>6. CASE ~ z.s.open
    BY Zenon, <1>6 DEF Fits, Informed
  <1> QED BY <1>5, <1>6

LEMMA ReadAsIs ==
    ASSUME NEW x \in ServerSides, NEW c, NEW us \in Seq(UpMessage), us # << >>,
           NEW wanted, Fits(x, c, us, wanted, {}),
           \A action \in ControllersAsk \cup {"all events", "health events"} :
               Head(us) # Action(action)
    PROVE  Fits(x, c, Tail(us), wanted, {})
  <1>1. /\ \A t \in PlainTopics : Head(us) # Action(QuestionAbout(t))
        /\ Head(us) # Action("player state") /\ Head(us) # Action("delayed start info")
        /\ Head(us) # Action("all events") /\ Head(us) # EventRequest(wanted)
    <2>1. /\ \A t \in PlainTopics : QuestionAbout(t) \in ControllersAsk
          /\ "player state" \in ControllersAsk /\ "delayed start info" \in ControllersAsk
      BY QuestionsToRead DEF ControllersAsk
    <2>2. /\ \A action \in ControllersAsk : Head(us) # Action(action)
          /\ Head(us) # Action("all events") /\ Head(us) # Action("health events")
      OBVIOUS
    <2>3. \/ EventRequest(wanted) = Action("all events")
          \/ EventRequest(wanted) = Action("health events")
      BY Zenon, QuestionsToRead
    <2> QED BY Zenon, <2>1, <2>2, <2>3
  <1>2. MayRead(Head(us), x.s, x.w, wanted, {})
    BY Zenon, <1>1 DEF MayRead
  <1> QED BY Zenon, <1>2, UpFits

LEMMA ReadingTells ==
    ASSUME NEW x \in ServerSides, NEW c \in ClientEnds, NEW us \in Seq(UpMessage), us # << >>,
           NEW wanted, Fits(x, c, us, wanted, {}), x.s.open,
           x.s.loggedIn # Nobody => x.s.loggingIn = Nobody,
           NEW z, z = DataArrived(x, Head(us))
    PROVE  Fits(z, c, Tail(us), wanted, {})
  <1> DEFINE m == Head(us)
  <1>0. m \in UpMessage
    BY Zenon, TailOfList
  <1>1. CASE c.state = "Closed"
    BY Zenon, <1>1 DEF Fits, Informed
  <1>2. ASSUME c.state # "Closed", m.type = "Action"
        PROVE  Fits(z, c, Tail(us), wanted, {})
    <2>1. m.action \in Actions /\ m = Action(m.action)
      BY <1>0, <1>2 DEF UpMessage, Action
    <2>2. z = HandleSingleByteAction(x, m.action)
      BY Zenon, <1>2 DEF DataArrived, HandleStandardBinaryMessage
    <2>3. CASE m.action \in {"all events", "health events"}
      BY Zenon, <1>2, <2>1, <2>2, <2>3, EnablingIsRead
    <2>4. CASE m.action \in ControllersAsk
      BY Zenon, <1>2, <2>1, <2>2, <2>4, QuestionTells
    <2>5. CASE m.action = "extensions"
      <3>1. \A action \in ControllersAsk \cup {"all events", "health events"} :
                m # Action(action)
        <4>1. \A action \in ControllersAsk \cup {"all events", "health events"} :
                  action # "extensions"
          BY DEF ControllersAsk
        <4>2. m = Action("extensions")
          BY Zenon, <2>1, <2>5
        <4> QED BY Zenon, <4>1, <4>2, QuestionsToRead
      <3>2. Fits(x, c, Tail(us), wanted, {})
        BY Zenon, <3>1, ReadAsIs
      <3>3. z = SendBinaryMessage(x, [type |-> "Extensions"])
        BY Zenon, <2>2, <2>5 DEF HandleSingleByteAction, SendProtocolExtensionsMessage
      <3>4. Tells(x, z)
        BY Zenon, <3>3, UntellingMessages, SendTells
      <3> QED BY Zenon, <3>2, <3>4 DEF Tells
    <2> QED BY <2>1, <2>3, <2>4, <2>5 DEF Actions, ControllersAsk
  <1>3. ASSUME m.type # "Action"
        PROVE  Fits(x, c, Tail(us), wanted, {})
    <2>1. \A action : m # Action(action)
      BY <1>3 DEF Action
    <2> QED BY Zenon, <2>1, ReadAsIs
  <1>4. ASSUME m.type = "Shutdown"
        PROVE  Fits(z, c, Tail(us), wanted, {})
    <2>1. z = IF IsLoggedIn(x) THEN TerminateConnection(x) ELSE x
      BY Zenon, <1>4 DEF DataArrived, HandleStandardBinaryMessage
    <2>2. Fits(x, c, Tail(us), wanted, {})
      BY <1>3, <1>4
    <2>3. ~ TerminateConnection(x).s.open
      <3>1. TerminateConnection(x).s = NewServerEnd
        BY Zenon DEF TerminateConnection, ServerSides
      <3> QED BY <3>1 DEF NewServerEnd
    <2>4. Fits(TerminateConnection(x), c, Tail(us), wanted, {})
      BY Zenon, <2>3 DEF Fits, Informed
    <2> QED BY Zenon, <2>1, <2>2, <2>4
  <1>5. ASSUME m.type \notin {"Action", "Shutdown"}
        PROVE  Fits(z, c, Tail(us), wanted, {})
    <2>1. Tells(x, z)
      BY Zenon, <1>0, <1>5, MessageTells
    <2>2. Fits(x, c, Tail(us), wanted, {})
      BY <1>3, <1>5
    <2> QED BY Zenon, <2>1, <2>2 DEF Tells
  <1> QED BY <1>1, <1>2, <1>4, <1>5

-----------------------------------------------------------------------------
(* The client.  Most of what it does leaves alone what it holds of the     *)
(* topics, and asks for none of them.                                      *)
Unasking == {m \in UpMessage : m.type # "Action"}

Utters(y, z) == z.c.view = y.c.view /\ Grown(y.out, z.out, Unasking)

Holds(y, z) ==
    /\ z \in ClientSides
    /\ z.c.state \in {"NotConnected", "Connecting"} =>
          y.c.state \in {"NotConnected", "Connecting"} /\ z.out = y.out
    /\ z.c.state # "Closed" =>
          /\ y.c.state # "Closed"
          /\ z.c.state = "BinaryMode" => y.c.state = "BinaryMode"
          /\ z.c.loggedIn = Nobody => y.c.loggedIn = Nobody
          /\ Utters(y, z)

LEMMA UttersSend ==
    ASSUME NEW y \in ClientSides, NEW w \in ClientSides, w.c.view = y.c.view, w.out = y.out,
           NEW m \in Unasking
    PROVE  Utters(y, SendBinary(w, m))
  <1> DEFINE out == Append(w.out, m)
             z == SendBinary(w, m)
  <1>1. m \in UpMessage /\ y.out \in Seq(UpMessage)
    BY Zenon, ClientTypes DEF Unasking
  <1>2. Grown(w.out, out, Unasking)
    BY Zenon, <1>1, GrownAppend
  <1>3. z.c = w.c /\ z.out = out
    BY Zenon DEF SendBinary, ClientSides
  <1> HIDE DEF out, z
  <1> QED BY Zenon, <1>2, <1>3 DEF Utters, z

LEMMA UttersSilently ==
    ASSUME NEW y \in ClientSides, NEW z, z.c.view = y.c.view, z.out = y.out
    PROVE  Utters(y, z)
  BY Zenon, ClientTypes, GrownSame DEF Utters

LEMMA UttersTwice ==
    ASSUME NEW x \in ClientSides, NEW y \in ClientSides, NEW z \in ClientSides,
           Utters(x, y), Utters(y, z)
    PROVE  Utters(x, z)
  <1>1. x.out \in Seq(UpMessage) /\ y.out \in Seq(UpMessage) /\ z.out \in Seq(UpMessage)
    BY Zenon, ClientTypes
  <1>2. Grown(x.out, y.out, Unasking) /\ Grown(y.out, z.out, Unasking)
    BY Zenon DEF Utters
  <1>3. Grown(x.out, z.out, Unasking)
    BY Zenon, <1>1, <1>2, GrownTwice
  <1> QED BY Zenon, <1>3 DEF Utters

LEMMA TalkingHolds ==
    ASSUME NEW y \in ClientSides, NEW z, NEW concern, Talks(y, z, concern),
           y.c.state \notin {"NotConnected", "Connecting"} \/ z.out = y.out,
           z.c.state = "Closed" \/ Utters(y, z)
    PROVE  Holds(y, z)
  BY Zenon DEF Holds, Talks, StaysOut, KeepsLogin

LEMMA HoldsTwice ==
    ASSUME NEW x \in ClientSides, NEW y, NEW z, Holds(x, y), Holds(y, z)
    PROVE  Holds(x, z)
  <1>1. y \in ClientSides /\ z \in ClientSides
    BY Zenon DEF Holds
  <1>2. Utters(x, y) /\ Utters(y, z) => Utters(x, z)
    BY Zenon, <1>1, UttersTwice
  <1> QED BY Zenon, <1>1, <1>2 DEF Holds

(* Questions that are on their way stay there, and no other joins them.    *)
LEMMA HoldsInforms ==
    ASSUME NEW y \in ClientSides, NEW z, Holds(y, z), NEW s, NEW w, NEW ds, NEW wanted,
           NEW exempt, Informed(y.c, s, w, y.out, ds, wanted, exempt)
    PROVE  Informed(z.c, s, w, z.out, ds, wanted, exempt)
  <1> DEFINE c == y.c
             d == z.c
             us == y.out
             vs == z.out
  <1> SUFFICES ASSUME s.open /\ d.state # "Closed"
               PROVE  /\ WellFormed(ds) /\ ModeOK(s, vs, ds)
                      /\ HealthOK(d, s, w, vs, ds, wanted, exempt)
                      /\ ScrobblingOK(d, s, w, ds, exempt)
                      /\ wanted = "All" => EventsTold(d, s, w, vs, ds, exempt)
    BY Zenon DEF Informed
  <1>1. /\ c.state # "Closed" /\ (d.state = "BinaryMode" => c.state = "BinaryMode")
        /\ (d.loggedIn = Nobody => c.loggedIn = Nobody) /\ d.view = c.view
        /\ Grown(us, vs, Unasking) /\ us \in Seq(UpMessage) /\ vs \in Seq(UpMessage)
    BY Zenon, ClientTypes DEF Holds, Utters
  <1>2. /\ WellFormed(ds) /\ ModeOK(s, us, ds)
        /\ HealthOK(c, s, w, us, ds, wanted, exempt)
        /\ ScrobblingOK(c, s, w, ds, exempt)
        /\ wanted = "All" => EventsTold(c, s, w, us, ds, exempt)
    BY Zenon, <1>1 DEF Informed
  <1> HIDE DEF c, d, us, vs
  <1>3. \A k \in 1..Len(vs) : vs[k] \in Unasking \/ (k \in 1..Len(us) /\ vs[k] = us[k])
    BY <1>1 DEF Grown
  <1>4. \A k \in 1..Len(us) : k \in 1..Len(vs) /\ vs[k] = us[k]
    BY <1>1 DEF Grown
  <1>5. \A m \in Unasking : m.type # "Action"
    BY DEF Unasking
  <1>6. \A action : Action(action).type = "Action"
    BY DEF Action
  <1>7. \A k \in 1..Len(vs) : vs[k].type = "Action" => k \in 1..Len(us) /\ vs[k] = us[k]
    BY Zenon, <1>3, <1>5
  <1>8. \A action : IsAsked(action, us) => IsAsked(action, vs)
    BY Zenon, <1>4 DEF IsAsked
  <1>9. ModeOK(s, vs, ds)
    BY Zenon, <1>2, <1>7 DEF ModeOK
  <1>10. HealthOK(d, s, w, vs, ds, wanted, exempt)
    <2>1. \A values : Told("health", values, c.view, ds) => Told("health", values, d.view, ds)
      BY Zenon, <1>1
    <2> QED BY Zenon, <1>1, <1>2, <1>4, <2>1 DEF HealthOK
  <1>11. ScrobblingOK(d, s, w, ds, exempt)
    BY Zenon, <1>1, <1>2 DEF ScrobblingOK
  <1>12. ASSUME wanted = "All"
         PROVE  EventsTold(d, s, w, vs, ds, exempt)
    <2>1. EventsTold(c, s, w, us, ds, exempt)
      BY Zenon, <1>2, <1>12
    <2>2. EventsFirst(s, vs)
      <3> SUFFICES ASSUME ~ s.events, NEW k \in 1..Len(vs), NEW action \in ControllersAsk,
                          vs[k] = Action(action)
                   PROVE  \E j \in 1..Len(vs) : j < k /\ vs[j] = Action("all events")
        BY Zenon DEF EventsFirst
      <3>1. k \in 1..Len(us) /\ us[k] = Action(action)
        BY Zenon, <1>6, <1>7
      <3>2. PICK j \in 1..Len(us) : j < k /\ us[j] = Action("all events")
        BY Zenon, <2>1, <3>1 DEF EventsTold, EventsFirst
      <3> QED BY Zenon, <1>4, <3>2
    <2>3. ASSUME NEW t \in PlainTopics
          PROVE  TopicOK(t, d, s, w, vs, ds, exempt)
      <3>1. TopicOK(t, c, s, w, us, ds, exempt)
        BY Zenon, <2>1 DEF EventsTold
      <3> QED BY Zenon, <1>1, <1>8, <3>1 DEF TopicOK
    <2>4. DelayOK(d, s, w, vs, ds, exempt)
      <3>1. DelayOK(c, s, w, us, ds, exempt)
        BY Zenon, <2>1 DEF EventsTold
      <3>2. \A v, known : DelayTold(v, known, us, ds) => DelayTold(v, known, vs, ds)
        BY Zenon, <1>8 DEF DelayTold, ToldOn
      <3> QED BY Zenon, <1>1, <1>8, <3>1, <3>2 DEF DelayOK
    <2> QED BY Zenon, <2>2, <2>3, <2>4 DEF EventsTold
  <1> QED BY Zenon, <1>2, <1>9, <1>10, <1>11, <1>12

LEMMA HoldsUntouched ==
    ASSUME NEW y \in ClientSides, NEW z, Holds(y, z), NEW s, NEW ds,
           Untouched(y.c, s, y.out, ds)
    PROVE  Untouched(z.c, s, z.out, ds)
  <1>1. CASE z.c.state \in {"NotConnected", "Connecting"}
    <2>1. "Closed" \notin {"NotConnected", "Connecting"}
      OBVIOUS
    <2>2. z.c.view = y.c.view /\ z.out = y.out /\ y.c.state \in {"NotConnected", "Connecting"}
      BY Zenon, <1>1, <2>1 DEF Holds, Utters
    <2> QED BY Zenon, <2>2 DEF Untouched
  <1> QED BY Zenon, <1>1 DEF Untouched

(* What the user of the client does.                                       *)
LEMMA RequestHolds ==
    ASSUME NEW y \in ClientSides, RefsOK(y.c), y.c.state = "BinaryMode",
           NEW kind \in Kinds, NEW possible \in BOOLEAN
    PROVE  Holds(y, SendRequest(y, kind, possible))
  <1> DEFINE ref == y.c.nextRef
             next == ref + 1
             new == [ref |-> ref, kind |-> kind]
             handlers == y.c.handlers \cup {new}
             m == Request(kind, ref, possible)
             w == [y EXCEPT !.c.nextRef = next, !.c.handlers = handlers]
             concern == About(ref)
             z == SendRequest(y, kind, possible)
  <1>1. ref \in Nat /\ next \in Nat
    BY ClientTypes
  <1>2. m \in UpMessage /\ m.type = "Request"
    BY <1>1 DEF UpMessage, Request
  <1>3. m \in Unasking
    BY <1>2 DEF Unasking
  <1>4. handlers \in SUBSET [ref : Nat, kind : Kinds]
    <2>1. y.c.handlers \in SUBSET [ref : Nat, kind : Kinds]
      BY Zenon DEF ClientSides, ClientEnds
    <2> QED BY <1>1, <2>1
  <1>5. z = SendBinary(w, m)
    BY Zenon DEF SendRequest, WithNewReference, ClientSides, ClientEnds
  <1>6. ref \in concern.requests
    BY DEF About
  <1> HIDE DEF next, handlers, m, concern
  <1>7. w \in ClientSides /\ w.c.view = y.c.view /\ w.out = y.out
    BY Zenon, <1>1, <1>4 DEF ClientSides, ClientEnds
  <1>8. Talks(y, z, concern)
    BY Zenon, <1>6, TalksRequest
  <1> HIDE DEF w, z
  <1>9. Utters(y, z)
    BY Zenon, <1>3, <1>5, <1>7, UttersSend
  <1>10. y.c.state \notin {"NotConnected", "Connecting"}
    OBVIOUS
  <1>11. Holds(y, z)
    BY Zenon, <1>8, <1>9, <1>10, TalkingHolds
  <1> QED BY Zenon, <1>11 DEF z

LEMMA RegisteringHolds ==
    ASSUME NEW y \in ClientSides, RefsOK(y.c), y.c.state = "BinaryMode", NEW user \in Users
    PROVE  Holds(y, CreateNewUserAccount(y, user))
  <1> DEFINE ref == y.c.nextRef
             next == ref + 1
             w == [y EXCEPT !.c.nextRef = next, !.c.accountRef = ref, !.c.registering = user]
             m == Initiate("InitiateAccount", user, ref)
             concern == AboutAccount(ref)
             z == CreateNewUserAccount(y, user)
  <1>1. ref \in Nat /\ next \in Nat /\ user \in Names
    BY ClientTypes DEF Names
  <1>2. m \in UpMessage /\ m.type = "InitiateAccount"
    BY <1>1 DEF UpMessage, Initiate
  <1>3. m \in Unasking
    BY <1>2 DEF Unasking
  <1>4. z = SendBinary(w, m)
    BY Zenon DEF CreateNewUserAccount, WithNewReference, ClientSides, ClientEnds
  <1>5. ref \in concern.accounts
    BY DEF AboutAccount
  <1> HIDE DEF next, m, concern
  <1>6. w \in ClientSides /\ w.c.view = y.c.view /\ w.out = y.out
    BY Zenon, <1>1 DEF ClientSides, ClientEnds
  <1>7. Talks(y, z, concern)
    BY Zenon, <1>5, TalksAboutAccounts
  <1> HIDE DEF w, z
  <1>8. Utters(y, z)
    BY Zenon, <1>3, <1>4, <1>6, UttersSend
  <1>9. y.c.state \notin {"NotConnected", "Connecting"}
    OBVIOUS
  <1>10. Holds(y, z)
    BY Zenon, <1>7, <1>8, <1>9, TalkingHolds
  <1> QED BY Zenon, <1>10 DEF z

LEMMA LoginHolds ==
    ASSUME NEW y \in ClientSides, y.c.state = "BinaryMode", NEW user \in Users,
           NEW right \in BOOLEAN, Login(y, user, right) \in ClientSides
    PROVE  Holds(y, Login(y, user, right))
  <1> DEFINE ref == y.c.nextRef
             next == ref + 1
             over == y.c.overtaken \/ y.c.loggingIn # Nobody
             w == [y EXCEPT !.c.nextRef = next, !.c.overtaken = over, !.c.loginRef = ref,
                            !.c.loggingIn = user, !.c.right = right]
             m == Initiate("InitiateLogin", user, ref)
             z == Login(y, user, right)
  <1>1. ref \in Nat /\ next \in Nat /\ user \in Names
    BY ClientTypes DEF Names
  <1>2. m \in UpMessage /\ m.type = "InitiateLogin"
    BY <1>1 DEF UpMessage, Initiate
  <1>3. m \in Unasking
    BY <1>2 DEF Unasking
  <1>4. z = SendBinary(w, m)
    BY Zenon DEF Login, WithNewReference, ClientSides, ClientEnds
  <1>5. over \in BOOLEAN
    BY DEF over
  <1> HIDE DEF next, m, over
  <1>6. w \in ClientSides
    BY Zenon, <1>1, <1>5 DEF ClientSides, ClientEnds
  <1>7. /\ w.c.view = y.c.view /\ w.out = y.out /\ w.c.state = y.c.state
        /\ w.c.loggedIn = y.c.loggedIn
    BY Zenon, <1>1, <1>5 DEF ClientSides, ClientEnds
  <1> HIDE DEF w
  <1>8. z.c = w.c
    BY Zenon, <1>4, <1>6 DEF SendBinary, ClientSides
  <1>9. z \in ClientSides
    OBVIOUS
  <1> HIDE DEF z
  <1>10. Utters(y, z)
    BY Zenon, <1>3, <1>4, <1>6, <1>7, UttersSend
  <1>11. z.c.state = "BinaryMode" /\ z.c.loggedIn = y.c.loggedIn
    BY Zenon, <1>7, <1>8
  <1>12. Holds(y, z)
    BY <1>9, <1>10, <1>11 DEF Holds
  <1> QED BY Zenon, <1>12 DEF z

LEMMA AskingHolds ==
    ASSUME NEW y \in ClientSides, RefsOK(y.c), y.c.state = "BinaryMode", NEW kind \in Questions
    PROVE  Holds(y, AskOnce(y, kind))
  <1> DEFINE promises == y.c.promises \cup {kind}
             w == [y EXCEPT !.c.promises = promises]
             m == Ask(kind)
             concern == AboutQuestion(kind)
             z == AskOnce(y, kind)
  <1>1. promises \in SUBSET Questions
    BY Zenon DEF ClientSides, ClientEnds
  <1>2. m \in UpMessage /\ m.type = "Ask"
    BY DEF UpMessage, Ask
  <1>3. m \in Unasking
    BY <1>2 DEF Unasking
  <1>4. z = IF kind \in y.c.promises \cup y.c.cached THEN y ELSE SendBinary(w, m)
    BY Zenon DEF AskOnce, ClientSides, ClientEnds
  <1>5. kind \in concern.questions
    BY DEF AboutQuestion
  <1> HIDE DEF promises, m, concern
  <1>6. w \in ClientSides /\ w.c.view = y.c.view /\ w.out = y.out
    BY Zenon, <1>1 DEF ClientSides, ClientEnds
  <1>7. Talks(y, z, concern)
    BY Zenon, <1>5, TalksOnce
  <1> HIDE DEF w, z
  <1>8. Utters(y, SendBinary(w, m)) /\ Utters(y, y)
    BY Zenon, <1>3, <1>6, UttersSend, UttersSilently
  <1>9. Utters(y, z)
    BY Zenon, <1>4, <1>8
  <1>10. y.c.state \notin {"NotConnected", "Connecting"}
    OBVIOUS
  <1>11. Holds(y, z)
    BY Zenon, <1>7, <1>9, <1>10, TalkingHolds
  <1> QED BY Zenon, <1>11 DEF z

LEMMA CommandsHold ==
    ASSUME NEW y \in ClientSides, RefsOK(y.c), y.c.state = "BinaryMode"
    PROVE  /\ Holds(y, SendBinary(y, [type |-> "Shutdown"]))
           /\ Holds(y, RequestScrobblingProviderInfo(y))
           /\ Holds(y, SetScrobblingEnabled(y))
           /\ \A t \in Topics : Holds(y, SendBinary(y, CommandFor(t)))
           /\ Holds(y, y)
  <1> DEFINE none == Nothing
  <1>1. /\ [type |-> "Shutdown"] \in Unasking /\ [type |-> "ScrobblingInfo"] \in Unasking
        /\ \A t \in Topics : CommandFor(t) \in Unasking
    BY DEF Unasking, UpMessage, CommandFor
  <1>2. \A m \in Unasking : Utters(y, SendBinary(y, m))
    BY Zenon, UttersSend
  <1>3. Utters(y, y)
    BY Zenon, UttersSilently
  <1>4. y.c.state \notin {"NotConnected", "Connecting"} /\ "scrobbling" \in Topics
    BY DEF Topics
  <1> HIDE DEF none
  <1>5. \A z : Talks(y, z, none) /\ Utters(y, z) => Holds(y, z)
    BY Zenon, <1>4, TalkingHolds
  <1>6. Talks(y, y, none)
    BY Zenon, TalksSame
  <1>7. Holds(y, SendBinary(y, [type |-> "Shutdown"]))
    BY Zenon, <1>1, <1>2, <1>5, TalksPlainly
  <1>8. Utters(y, RequestScrobblingProviderInfo(y))
    BY Zenon, <1>1, <1>2, <1>3 DEF RequestScrobblingProviderInfo
  <1>9. Holds(y, RequestScrobblingProviderInfo(y))
    BY Zenon, <1>5, <1>8, TalksPlainly
  <1>10. Utters(y, SetScrobblingEnabled(y))
    BY Zenon, <1>1, <1>2, <1>3, <1>4 DEF SetScrobblingEnabled
  <1>11. Holds(y, SetScrobblingEnabled(y))
    BY Zenon, <1>5, <1>10, TalksPlainly
  <1>12. ASSUME NEW t \in Topics
         PROVE  Holds(y, SendBinary(y, CommandFor(t)))
    BY Zenon, <1>1, <1>2, <1>5, TalksPlainly
  <1> QED BY Zenon, <1>3, <1>5, <1>6, <1>7, <1>9, <1>11, <1>12

(* The end of the connection, and the timers.                              *)
LEMMA BreakingCloses ==
    ASSUME NEW y \in ClientSides
    PROVE  BreakConnection(y).c.state = "Closed"
  <1> DEFINE c == [y.c EXCEPT !.state = "Closed", !.keepAlive = FALSE]
             d == ConnectionBroken(c)
             z == BreakConnection(y)
  <1>1. y.c \in ClientEnds
    BY Zenon, ClientTypes
  <1>2. c.state = "Closed" /\ c \in ClientEnds
    BY Zenon, <1>1 DEF ClientEnds
  <1>3. z = [y EXCEPT !.c = IF IsConnected(y) THEN d ELSE c]
    BY Zenon DEF BreakConnection
  <1> HIDE DEF c
  <1>4. d.state = "Closed"
    BY Zenon, <1>2 DEF ConnectionBroken, ClientEnds
  <1> HIDE DEF d, z
  <1>5. z.c \in {c, d}
    BY Zenon, <1>3 DEF ClientSides
  <1> QED BY Zenon, <1>2, <1>4, <1>5 DEF z

LEMMA EndingHolds ==
    ASSUME NEW y \in ClientSides, RefsOK(y.c)
    PROVE  /\ Holds(y, BreakConnection(y))
           /\ y.c.state = "BinaryMode" => Holds(y, OnKeepAliveTimerTimeout(y))
           /\ Holds(y, CheckKeepAliveReply(y))
  <1> DEFINE none == Nothing
  <1>1. ASSUME NEW x \in ClientSides, RefsOK(x.c)
        PROVE  Holds(x, BreakConnection(x))
    <2> DEFINE z == BreakConnection(x)
    <2>1. Talks(x, z, none) /\ z.c.state = "Closed"
      BY Zenon, <1>1, TalksBreaking, BreakingCloses
    <2> HIDE DEF z
    <2>2. z.c.state \notin {"NotConnected", "Connecting"}
      BY <2>1
    <2>3. Holds(x, z)
      BY Zenon, <2>1, <2>2 DEF Holds, Talks
    <2> QED BY Zenon, <2>3 DEF z
  <1>2. ASSUME y.c.state = "BinaryMode"
        PROVE  Holds(y, OnKeepAliveTimerTimeout(y))
    <2> DEFINE w == [y EXCEPT !.c.keepAlive = FALSE, !.c.replyCheck = TRUE, !.c.heard = FALSE]
               m == [type |-> "KeepAlive"]
               z == OnKeepAliveTimerTimeout(y)
    <2>1. m \in Unasking
      BY DEF Unasking, UpMessage
    <2>2. z = SendBinary(w, m)
      BY Zenon DEF OnKeepAliveTimerTimeout, SendKeepAlive
    <2>3. w \in ClientSides /\ w.c.view = y.c.view /\ w.out = y.out
      BY Zenon DEF ClientSides, ClientEnds
    <2>4. Talks(y, z, none)
      BY Zenon, TalksOfTimers
    <2> HIDE DEF w, m, z
    <2>5. Utters(y, z)
      BY Zenon, <2>1, <2>2, <2>3, UttersSend
    <2>6. y.c.state \notin {"NotConnected", "Connecting"}
      BY <1>2
    <2>7. Holds(y, z)
      BY Zenon, <2>4, <2>5, <2>6, TalkingHolds
    <2> QED BY Zenon, <2>7 DEF z
  <1>3. Holds(y, CheckKeepAliveReply(y))
    <2> DEFINE w == [y EXCEPT !.c.replyCheck = FALSE]
    <2>1. w \in ClientSides
      BY Zenon DEF ClientSides, ClientEnds
    <2>2. w.out = y.out /\ w.c.nextRef = y.c.nextRef /\ w.c.accountRef = y.c.accountRef
          /\ w.c.registering = y.c.registering /\ w.c.state = y.c.state /\ w.c.view = y.c.view
      BY Zenon DEF ClientSides, ClientEnds
    <2>3. KeepsLogin(y.c, w.c) /\ KeepsOthers(y.c, w.c, none)
      BY Zenon DEF ClientSides, ClientEnds, KeepsLogin, KeepsOthers, OthersStay
    <2>4. CheckKeepAliveReply(y) = IF y.c.heard \/ ~ IsConnected(y) THEN w
                                   ELSE BreakConnection(w)
      BY Zenon DEF CheckKeepAliveReply
    <2> HIDE DEF w, none
    <2>5. Talks(y, w, none)
      BY Zenon, <2>1, <2>2, <2>3, TalksSilently
    <2>6. Holds(y, w)
      BY Zenon, <2>2, <2>5, UttersSilently, TalkingHolds
    <2>7. Holds(w, BreakConnection(w))
      BY Zenon, <1>1, <2>1, <2>5, TalksTyped
    <2>8. Holds(y, BreakConnection(w))
      BY Zenon, <2>6, <2>7, HoldsTwice
    <2> QED BY Zenon, <2>4, <2>6, <2>8
  <1> QED BY Zenon, <1>1, <1>2, <1>3

(* What a client d is, and vs is on its way from it, when a client c has   *)
(* read the message m: it takes over what m says, and asks for the end of  *)
(* a delayed start that it did not know of.                                *)
Reads(c, d, us, vs, m) ==
    /\ d.state = c.state /\ d.loggedIn = c.loggedIn
    /\ us \in Seq(UpMessage) /\ vs \in Seq(UpMessage) /\ Grown(us, vs, UpMessage)
    /\ vs = us \/ m \in StillOn
    /\ \A t \in Topics \ {"delayed"} :
          d.view[t] = IF m \in Bearing(t) /\ (m.type = "Scrobbling" => m.user = c.loggedIn)
                      THEN m.values[t] ELSE c.view[t]
    /\ m \notin OfDelay => d.view["delayed"] = c.view["delayed"]
    /\ m \in Deadlines => d.view["delayed"] = m.start
    /\ m \in IsOff => d.view["delayed"] = m.values["delayed"]
    /\ m \in StillOn => IF Active(c.view["delayed"])
                        THEN d.view["delayed"] = c.view["delayed"]
                        ELSE IsAsked("delayed start info", vs)

LEMMA BearingIsTyped ==
    ASSUME NEW t, NEW m \in Bearing(t)
    PROVE  m.values[t] \in Nat /\ m.type \in {"Status", "Scrobbling"}
  <1>1. m \in DownMessage /\ m.type \in {"Status", "Scrobbling"} /\ t \in DOMAIN m.values
    BY DEF Bearing
  <1>2. m.values \in Values
    BY <1>1, DownFields
  <1> QED BY <1>1, <1>2 DEF Values

LEMMA OffIsHeard ==
    ASSUME NEW m \in IsOff
    PROVE  m.values["delayed"] # Unknown /\ ~ Active(m.values["delayed"])
  <1>1. m \in Bearing("delayed") /\ ~ On(m.values["delayed"])
    BY DEF IsOff
  <1>2. m.values["delayed"] \in Nat
    BY Zenon, <1>1, BearingIsTyped
  <1> QED BY Zenon, <1>1, <1>2, OffIsKnown

LEMMA MessagesRead ==
    ASSUME NEW ds \in Seq(DownMessage), ds # << >>
    PROVE  /\ \A i \in 1..Len(Tail(ds)) : i + 1 \in 1..Len(ds) /\ Tail(ds)[i] = ds[i + 1]
           /\ 1 \in 1..Len(ds) /\ ds[1] = Head(ds)
           /\ Tail(ds) \in Seq(DownMessage) /\ Head(ds) \in DownMessage
  <1>1. 1 \in 1..Len(ds) /\ ds[1] = Head(ds)
    BY TailOfList
  <1> QED BY Zenon, <1>1, TailElements, TailOfList

LEMMA DelayRead ==
    ASSUME NEW c, NEW d, NEW us, NEW vs, NEW ds \in Seq(DownMessage), ds # << >>,
           Reads(c, d, us, vs, Head(ds)), NEW v \in Nat,
           \A action : IsAsked(action, us) => IsAsked(action, vs),
           DelayTold(v, c.view["delayed"], us, ds)
    PROVE  DelayTold(v, d.view["delayed"], vs, Tail(ds))
  <1> DEFINE m == Head(ds)
             known == c.view["delayed"]
             new == d.view["delayed"]
  <1>1. /\ m \notin OfDelay => new = known
        /\ m \in Deadlines => new = m.start
        /\ m \in IsOff => new = m.values["delayed"]
        /\ m \in StillOn => IF Active(known) THEN new = known
                            ELSE IsAsked("delayed start info", vs)
    BY Zenon DEF Reads
  <1> HIDE DEF known, new
  <1>2. ASSUME On(v)
        PROVE  ToldOn(v, new, vs, Tail(ds))
    <2>1. ToldOn(v, known, us, ds)
      BY Zenon, <1>2 DEF DelayTold, known
    <2>2. m \in DeadlineIs(v) => new = v
      BY Zenon, <1>1 DEF DeadlineIs
    <2>3. IsAsked("delayed start info", us) => IsAsked("delayed start info", vs)
      BY Zenon
    <2> QED BY Zenon, <1>1, <1>2, <2>1, <2>2, <2>3, ToldOnRead
  <1>3. ASSUME ~ On(v)
        PROVE  ToldOff(new, Tail(ds))
    <2>1. ToldOff(known, ds)
      BY Zenon, <1>3 DEF DelayTold, known
    <2>2. m \in IsOff => new # Unknown /\ ~ Active(new)
      BY Zenon, <1>1, OffIsHeard
    <2> QED BY Zenon, <1>1, <2>1, <2>2, ToldOffRead
  <1> QED BY Zenon, <1>2, <1>3 DEF DelayTold, new

LEMMA StillOnIsStatus ==
    ASSUME NEW ds, WellFormed(ds), NEW i \in 1..Len(ds), ds[i] \in StillOn
    PROVE  ds[i].type = "Status"
  <1>1. /\ ds[i].type \in {"Status", "Scrobbling"} /\ "delayed" \in DOMAIN ds[i].values
    BY DEF StillOn, Bearing
  <1>2. ds[i].type = "Scrobbling" => DOMAIN ds[i].values = {"scrobbling"}
    BY Zenon DEF WellFormed
  <1>3. "delayed" \notin {"scrobbling"}
    OBVIOUS
  <1> QED BY <1>1, <1>2, <1>3

LEMMA TopicsRead ==
    ASSUME NEW c, NEW d, NEW us, NEW vs, NEW ds \in Seq(DownMessage), ds # << >>,
           Reads(c, d, us, vs, Head(ds)), WellFormed(ds),
           NEW t \in Topics \ {"delayed", "scrobbling"}, NEW values,
           Told(t, values, c.view, ds)
    PROVE  Told(t, values, d.view, Tail(ds))
  <1> DEFINE m == Head(ds)
  <1>1. d.view[t] = IF m \in Bearing(t) /\ (m.type = "Scrobbling" => m.user = c.loggedIn)
                    THEN m.values[t] ELSE c.view[t]
    BY DEF Reads
  <1>2. m \in Bearing(t) => m.type # "Scrobbling"
    <2>1. m.type = "Scrobbling" => DOMAIN m.values = {"scrobbling"}
      BY Zenon, MessagesRead DEF WellFormed
    <2>2. m \in Bearing(t) => t \in DOMAIN m.values
      BY DEF Bearing
    <2> QED BY <2>1, <2>2
  <1>3. m \in With(t, values) => m \in Bearing(t) /\ m.values[t] \in values
    BY Zenon DEF With
  <1>4. /\ m \in With(t, values) => d.view[t] \in values
        /\ m \notin Bearing(t) => d.view[t] = c.view[t]
    BY Zenon, <1>1, <1>2, <1>3
  <1> QED BY Zenon, <1>4, ToldRead

LEMMA ClientIsTold ==
    ASSUME NEW c, NEW d, NEW s, NEW w \in [Topics -> Nat], NEW us, NEW vs,
           NEW ds \in Seq(DownMessage), ds # << >>, NEW wanted,
           Reads(c, d, us, vs, Head(ds)), LoggedInOK(c, s),
           Informed(c, s, w, us, ds, wanted, {})
    PROVE  Informed(d, s, w, vs, Tail(ds), wanted, {})
  <1> DEFINE m == Head(ds)
             es == Tail(ds)
             none == {}
  <1>0. none = {}
    OBVIOUS
  <1> HIDE DEF none
  <1> SUFFICES ASSUME s.open /\ d.state # "Closed"
               PROVE  /\ WellFormed(es) /\ ModeOK(s, vs, es)
                      /\ HealthOK(d, s, w, vs, es, wanted, none)
                      /\ ScrobblingOK(d, s, w, es, none)
                      /\ wanted = "All" => EventsTold(d, s, w, vs, es, none)
    BY Zenon, <1>0 DEF Informed
  <1>1. /\ d.state = c.state /\ d.loggedIn = c.loggedIn
        /\ us \in Seq(UpMessage) /\ vs \in Seq(UpMessage) /\ Grown(us, vs, UpMessage)
        /\ vs = us \/ m \in StillOn
    BY Zenon DEF Reads
  <1>2. /\ WellFormed(ds) /\ ModeOK(s, us, ds)
        /\ HealthOK(c, s, w, us, ds, wanted, none)
        /\ ScrobblingOK(c, s, w, ds, none)
        /\ wanted = "All" => EventsTold(c, s, w, us, ds, none)
    BY Zenon, <1>0, <1>1 DEF Informed
  <1>3. /\ \A i \in 1..Len(es) : i + 1 \in 1..Len(ds) /\ es[i] = ds[i + 1]
        /\ 1 \in 1..Len(ds) /\ ds[1] = m /\ es \in Seq(DownMessage) /\ m \in DownMessage
    BY Zenon, MessagesRead
  <1>4. \A k \in 1..Len(us) : k \in 1..Len(vs) /\ vs[k] = us[k]
    BY <1>1 DEF Grown
  <1>5. \A action : IsAsked(action, us) => IsAsked(action, vs)
    BY Zenon, <1>4 DEF IsAsked
  <1>6. WellFormed(es)
    BY Zenon, <1>2, <1>3 DEF WellFormed
  <1>7. ModeOK(s, vs, es)
    <2>1. (\E i \in 1..Len(es) : es[i].type = "Status") =>
            \E i \in 1..Len(ds) : ds[i].type = "Status"
      BY Zenon, <1>3
    <2>2. m \in StillOn => s.binary
      BY Zenon, <1>2, <1>3, StillOnIsStatus DEF ModeOK
    <2> QED BY Zenon, <1>1, <1>2, <2>1, <2>2 DEF ModeOK
  <1>8. /\ "health" \in Topics \ {"delayed", "scrobbling"}
        /\ "health" \in Topics \ {"delayed"} /\ "scrobbling" \in Topics \ {"delayed"}
        /\ "health" # "scrobbling"
        /\ \A t \in PlainTopics : t \in Topics \ {"delayed", "scrobbling"}
        /\ "delayed" \in Topics
    BY DEF Topics, PlainTopics
  <1>9. \A W : NoneOf(ds, W) => NoneOf(es, W) /\ m \notin W
    BY Zenon, NoneRead
  <1> HIDE DEF es
  <1>10. HealthOK(d, s, w, vs, es, wanted, none)
    <2>1. \A values : Told("health", values, c.view, ds) => Told("health", values, d.view, es)
      BY Zenon, <1>2, <1>8, TopicsRead DEF es
    <2>2. NoneOf(ds, Bearing("health")) =>
            NoneOf(es, Bearing("health")) /\ d.view["health"] = c.view["health"]
      BY Zenon, <1>8, <1>9 DEF Reads
    <2>3. (\E k \in 1..Len(us) : us[k] = EventRequest(wanted)) =>
            \E k \in 1..Len(vs) : vs[k] = EventRequest(wanted)
      BY Zenon, <1>4
    <2>4. \A t : t \notin none
      BY <1>0
    <2>5. ~ s.health =>
            /\ NoneOf(es, Bearing("health")) /\ ~ On(d.view["health"])
            /\ d.state = "BinaryMode" => \E k \in 1..Len(vs) : vs[k] = EventRequest(wanted)
      BY Zenon, <1>1, <1>2, <2>2, <2>3 DEF HealthOK
    <2>6. s.health => Told("health", AsHealthy(w["health"]), d.view, es)
      BY Zenon, <1>2, <2>1, <2>4 DEF HealthOK
    <2> QED BY Zenon, <2>5, <2>6 DEF HealthOK
  <1>11. ScrobblingOK(d, s, w, es, none)
    <2> DEFINE values == {w["scrobbling"], Unknown}
               known == c.view["scrobbling"]
               new == d.view["scrobbling"]
    <2>1. new = IF m \in Bearing("scrobbling") /\ (m.type = "Scrobbling" => m.user = c.loggedIn)
                THEN m.values["scrobbling"] ELSE known
      BY Zenon, <1>8 DEF Reads
    <2>2. m \in Bearing("scrobbling") => m.type = "Scrobbling" /\ m.user = s.loggedIn
      <3>1. m \in Bearing("scrobbling") =>
              m.type \in {"Status", "Scrobbling"} /\ "scrobbling" \in DOMAIN m.values
        BY DEF Bearing
      <3>2. m.type = "Status" => "scrobbling" \notin DOMAIN m.values
        BY Zenon, <1>2, <1>3 DEF WellFormed
      <3>3. m.type = "Scrobbling" => m.user = s.loggedIn
        BY Zenon, <1>2, <1>3 DEF ScrobblingOK
      <3> QED BY <3>1, <3>2, <3>3
    <2>3. c.loggedIn = Nobody => known = Unknown
      BY Zenon, <1>2 DEF ScrobblingOK
    <2>4. m \in Bearing("scrobbling") => s.loggedIn # Nobody
      BY Zenon, <1>2, <1>9 DEF ScrobblingOK
    <2>5. c.loggedIn # Nobody => s.loggedIn = c.loggedIn
      BY Zenon DEF LoggedInOK
    <2> HIDE DEF known, new
    <2>6. d.loggedIn = Nobody => new = Unknown
      BY Zenon, <1>1, <2>1, <2>2, <2>3, <2>4
    <2>7. \A i \in 1..Len(es) : es[i].type = "Scrobbling" => es[i].user = s.loggedIn
      BY Zenon, <1>2, <1>3 DEF ScrobblingOK
    <2>8. NoneOf(ds, Bearing("scrobbling")) /\ known = Unknown =>
            NoneOf(es, Bearing("scrobbling")) /\ new = Unknown
      BY Zenon, <1>9, <2>1
    <2>9. ASSUME Told("scrobbling", values, c.view, ds)
          PROVE  Told("scrobbling", values, d.view, es)
      <3>1. Unknown \in values
        OBVIOUS
      <3> HIDE DEF values
      <3>2. m \in With("scrobbling", values) => new \in values
        <4>1. m \in With("scrobbling", values) =>
                m \in Bearing("scrobbling") /\ m.values["scrobbling"] \in values
          BY Zenon DEF With
        <4>2. m \in Bearing("scrobbling") /\ m.user # c.loggedIn => new = Unknown
          BY Zenon, <2>1, <2>2, <2>3, <2>5
        <4>3. m \in Bearing("scrobbling") /\ m.user = c.loggedIn => new = m.values["scrobbling"]
          BY Zenon, <2>1
        <4> QED BY Zenon, <3>1, <4>1, <4>2, <4>3
      <3>3. m \notin Bearing("scrobbling") => new = known
        BY Zenon, <2>1
      <3> QED BY Zenon, <2>9, <3>2, <3>3, ToldRead DEF new, known, es
    <2>10. \A t : t \notin none
      BY <1>0
    <2> HIDE DEF values
    <2> QED BY Zenon, <1>2, <2>6, <2>7, <2>8, <2>9, <2>10 DEF ScrobblingOK, new, known, values
  <1>12. ASSUME wanted = "All"
         PROVE  EventsTold(d, s, w, vs, es, none)
    <2>1. EventsTold(c, s, w, us, ds, none)
      BY Zenon, <1>2, <1>12
    <2>2. \A t : t \notin none
      BY <1>0
    <2>3. EventsFirst(s, vs)
      <3>1. CASE vs = us
        BY Zenon, <2>1, <3>1 DEF EventsTold
      <3>2. CASE m \in StillOn
        <4>1. m \in OfDelay
          BY Zenon, <3>2, DelaySets
        <4>2. s.events
          BY Zenon, <1>9, <2>1, <2>2, <4>1 DEF EventsTold, DelayOK, Unheard
        <4> QED BY Zenon, <4>2 DEF EventsFirst
      <3> QED BY Zenon, <1>1, <3>1, <3>2
    <2>4. ASSUME NEW t \in PlainTopics
          PROVE  TopicOK(t, d, s, w, vs, es, none)
      <3> DEFINE values == {w[t]}
      <3>1. TopicOK(t, c, s, w, us, ds, none)
        BY Zenon, <2>1 DEF EventsTold
      <3> HIDE DEF values
      <3>2. Told(t, values, c.view, ds) => Told(t, values, d.view, es)
        BY Zenon, <1>2, <1>8, TopicsRead DEF es
      <3> QED BY Zenon, <1>1, <1>5, <3>1, <3>2 DEF TopicOK, values
    <2>5. DelayOK(d, s, w, vs, es, none)
      <3> DEFINE known == c.view["delayed"]
                 new == d.view["delayed"]
                 v == w["delayed"]
      <3>1. DelayOK(c, s, w, us, ds, none)
        BY Zenon, <2>1 DEF EventsTold
      <3>2. Unheard(known, ds) => Unheard(new, es)
        BY Zenon, <1>9 DEF Unheard, Reads
      <3>3. v \in Nat
        BY Zenon, <1>8
      <3>4. DelayTold(v, known, us, ds) => DelayTold(v, new, vs, es)
        BY Zenon, <1>5, <3>3, DelayRead DEF es
      <3> QED BY Zenon, <1>1, <1>5, <2>2, <3>1, <3>2, <3>4 DEF DelayOK
    <2> QED BY Zenon, <2>3, <2>4, <2>5 DEF EventsTold
  <1> QED BY Zenon, <1>6, <1>7, <1>10, <1>11, <1>12

(* The client reads a message that is about no topic.                      *)
LEMMA UntellingRead ==
    ASSUME NEW c, NEW s, NEW w \in [Topics -> Nat], NEW us \in Seq(UpMessage),
           NEW ds \in Seq(DownMessage), ds # << >>, NEW wanted, Head(ds) \in Untelling,
           LoggedInOK(c, s), Informed(c, s, w, us, ds, wanted, {})
    PROVE  Informed(c, s, w, us, Tail(ds), wanted, {})
  <1> DEFINE m == Head(ds)
  <1>1. /\ \A t : m \notin Bearing(t)
        /\ m \notin OfDelay /\ m \notin StillOn
    BY Zenon, UntellingSets
  <1>2. Deadlines \subseteq OfDelay /\ IsOff \subseteq OfDelay
    BY Zenon, DelaySets DEF OfDelay
  <1>3. Grown(us, us, UpMessage)
    BY Zenon, GrownSame
  <1>4. Reads(c, c, us, us, m)
    BY Zenon, <1>1, <1>2, <1>3 DEF Reads
  <1> QED BY Zenon, <1>4, ClientIsTold

LEMMA TimerHolds ==
    ASSUME NEW y \in ClientSides, RefsOK(y.c)
    PROVE  /\ Holds(y, WithTimer(y)) /\ WithTimer(y).c.view = y.c.view
           /\ WithTimer(y).c.loggedIn = y.c.loggedIn /\ RefsOK(WithTimer(y).c)
  <1> DEFINE w == WithTimer(y)
             none == Nothing
  <1>1. w \in ClientSides /\ w.out = y.out /\ KeepsLogin(y.c, w.c) /\ Talks(y, w, none)
    BY Zenon, TimerRestarted
  <1>2. w.c.view = y.c.view
    BY Zenon DEF ClientSides, ClientEnds, WithTimer
  <1> HIDE DEF w, none
  <1>3. Utters(y, w)
    BY Zenon, <1>1, <1>2, UttersSilently
  <1>4. Holds(y, w)
    BY Zenon, <1>1, <1>3, TalkingHolds
  <1> QED BY Zenon, <1>1, <1>2, <1>4, TalksTyped DEF w, KeepsLogin

LEMMA AnswersHold ==
    ASSUME NEW y \in ClientSides
    PROVE  /\ \A m : m.kind \in Questions => Utters(y, ReceivedInfo(y, m))
           /\ \A ref : Utters(y, TakeHandler(y, ref))
           /\ \A m : Utters(y, HandleUserRegistrationResult(y, m))
           /\ Utters(y, [y EXCEPT !.c.extensions = TRUE])
  <1>1. ASSUME NEW m, m.kind \in Questions
        PROVE  Utters(y, ReceivedInfo(y, m))
    <2> DEFINE promises == y.c.promises \ {m.kind}
               cached == y.c.cached \cup ({m.kind} \cap {"version"})
               z == [y EXCEPT !.c.promises = promises, !.c.cached = cached]
    <2>1. ReceivedInfo(y, m) = z
      BY Zenon DEF ReceivedInfo, ClientSides, ClientEnds
    <2> HIDE DEF promises, cached
    <2>2. z.out = y.out /\ z.c.view = y.c.view
      BY Zenon DEF ClientSides, ClientEnds
    <2> QED BY Zenon, <2>1, <2>2, UttersSilently
  <1>2. ASSUME NEW ref
        PROVE  Utters(y, TakeHandler(y, ref))
    <2> DEFINE handlers == {h \in y.c.handlers : h.ref # ref}
               z == [y EXCEPT !.c.handlers = handlers]
    <2>1. TakeHandler(y, ref) = z
      BY Zenon DEF TakeHandler, ClientSides, ClientEnds
    <2> HIDE DEF handlers
    <2>2. z.out = y.out /\ z.c.view = y.c.view
      BY Zenon DEF ClientSides, ClientEnds
    <2> QED BY Zenon, <2>1, <2>2, UttersSilently
  <1>3. ASSUME NEW m
        PROVE  Utters(y, HandleUserRegistrationResult(y, m))
    <2> DEFINE z == [y EXCEPT !.c.registering = Nobody]
    <2>1. HandleUserRegistrationResult(y, m) = z
      BY Zenon DEF HandleUserRegistrationResult
    <2>2. z.out = y.out /\ z.c.view = y.c.view
      BY Zenon DEF ClientSides, ClientEnds
    <2> QED BY Zenon, <2>1, <2>2, UttersSilently
  <1>4. Utters(y, [y EXCEPT !.c.extensions = TRUE])
    <2> DEFINE z == [y EXCEPT !.c.extensions = TRUE]
    <2>1. z.out = y.out /\ z.c.view = y.c.view
      BY Zenon DEF ClientSides, ClientEnds
    <2> QED BY Zenon, <2>1, UttersSilently
  <1> QED BY <1>1, <1>2, <1>3, <1>4

LEMMA NewUserHolds ==
    ASSUME NEW y \in ClientSides, RefsOK(y.c), NEW m, m.login \in Users, m.salt \in Nat
    PROVE  Utters(y, HandleNewUserSalt(y, m))
  <1>1. CASE m.login # y.c.registering
    BY Zenon, <1>1, UttersSilently DEF HandleNewUserSalt
  <1>2. CASE m.login = y.c.registering
    <2> DEFINE n == Finish("FinishAccount", m.login, y.c.accountRef, m.salt, TRUE)
    <2>1. y.c.accountRef \in Nat
      BY Zenon, ClientTypes
    <2>2. n \in Unasking
      BY <2>1 DEF Unasking, UpMessage, Finish
    <2>3. HandleNewUserSalt(y, m) = SendBinary(y, n)
      BY Zenon, <1>2 DEF HandleNewUserSalt
    <2> HIDE DEF n
    <2> QED BY Zenon, <2>2, <2>3, UttersSend
  <1> QED BY Zenon, <1>1, <1>2

LEMMA SaltHolds ==
    ASSUME NEW y \in ClientSides, NEW m, m.login \in Users, m.salt \in Nat,
           y.c.state \notin {"NotConnected", "Connecting", "Closed"},
           NEW z, z = HandleLoginSalt(y, m), z \in ClientSides
    PROVE  Holds(y, z)
  <1> DEFINE n == Finish("FinishLogin", m.login, y.c.loginRef, m.salt, y.c.right)
  <1>1. y.c.loginRef \in Nat /\ y.c.right \in BOOLEAN
    BY Zenon DEF ClientSides, ClientEnds
  <1>2. n \in Unasking
    BY <1>1 DEF Unasking, UpMessage, Finish
  <1>3. z = y \/ z = SendBinary(y, n)
    BY Zenon DEF HandleLoginSalt
  <1> HIDE DEF n
  <1>4. Utters(y, z)
    BY Zenon, <1>2, <1>3, UttersSend, UttersSilently
  <1>5. z.c = y.c
    BY Zenon, <1>3 DEF SendBinary, ClientSides
  <1>6. z.c.state \notin {"NotConnected", "Connecting"} /\ y.c.state # "Closed"
    BY <1>5
  <1> QED BY Zenon, <1>4, <1>5, <1>6 DEF Holds

(* The greeting is answered, and the next message waited for.              *)
LEMMA GreetingHolds ==
    ASSUME NEW y \in ClientSides, RefsOK(y.c),
           y.c.state \notin {"NotConnected", "Connecting", "Closed"},
           NEW m, m.type \in {"Greeting", "TextBinary"}, NEW wanted,
           NEW z, z = OnReadyRead(y, m, wanted)
    PROVE  Holds(y, z)
  <1>1. y.c.state \notin {"NotConnected", "Connecting"} /\ y.c.state # "Closed"
    OBVIOUS
  <1> DEFINE none == Nothing
  <1> HIDE DEF none
  <1>2. Talks(y, z, none)
    <2>1. Talks(y, OnReadyRead(y, m, wanted), none)
      BY <1>1, TalksGreeting
    <2> QED BY Zenon, <2>1
  <1>3. CASE m.type = "Greeting"
    <2> DEFINE ms == << [type |-> "TextBinary"], [type |-> "Header"] >>
               out == y.out \o ms
               v == [y EXCEPT !.c.state = "TextMode"]
    <2>1. z = [v EXCEPT !.out = out]
      BY Zenon, <1>3 DEF OnReadyRead, ClientSides, ClientEnds
    <2>2. v \in ClientSides /\ v.c.view = y.c.view
      BY Zenon DEF ClientSides, ClientEnds
    <2>3. ms \in Seq(UpMessage) /\ \A i \in 1..Len(ms) : ms[i] \in Unasking
      BY DEF UpMessage, Unasking
    <2> HIDE DEF ms, v
    <2>4. y.out \in Seq(UpMessage)
      BY Zenon, ClientTypes
    <2>5. Grown(y.out, out, Unasking)
      BY Zenon, <2>3, <2>4, GrownConcat
    <2> HIDE DEF out
    <2>6. z.c = v.c /\ z.out = out
      BY Zenon, <2>1, <2>2 DEF ClientSides
    <2>7. Utters(y, z)
      BY Zenon, <2>2, <2>5, <2>6 DEF Utters
    <2> QED BY Zenon, <1>1, <1>2, <2>7, TalkingHolds
  <1>4. CASE m.type = "TextBinary"
    <2> DEFINE v == [y EXCEPT !.c.state = "BinaryHandshake"]
    <2>1. z = v
      BY Zenon, <1>4 DEF OnReadyRead
    <2>2. v.out = y.out /\ v.c.view = y.c.view
      BY Zenon DEF ClientSides, ClientEnds
    <2> HIDE DEF v
    <2>3. Utters(y, z)
      BY Zenon, <2>1, <2>2, UttersSilently
    <2> QED BY Zenon, <1>1, <1>2, <2>3, TalkingHolds
  <1> QED BY <1>3, <1>4

LEMMA MessageHolds ==
    ASSUME NEW y \in ClientSides, RefsOK(y.c),
           y.c.state \notin {"NotConnected", "Connecting", "Closed"},
           NEW m \in Untelling, m.type \notin {"LoginSalt", "Header"},
           m.type = "Result" => m.ref # y.c.loginRef,
           NEW z, z = HandleStandardMessage(y, m)
    PROVE  Holds(y, z)
  <1> DEFINE concern == [requests |-> {m.ref}, questions |-> {m.kind},
                         accounts |-> {y.c.accountRef}]
  <1>0. m \in DownMessage /\ m.type \notin {"Status", "Scrobbling", "DelayedStartInfo"}
    BY DEF Untelling
  <1>1. m.ref \in concern.requests /\ m.kind \in concern.questions
        /\ y.c.accountRef \in concern.accounts
    OBVIOUS
  <1> HIDE DEF concern
  <1>2. Talks(y, z, concern)
    BY Zenon, <1>0, <1>1, TalksMessage
  <1>3. y.c.state \notin {"NotConnected", "Connecting"}
    OBVIOUS
  <1>4. Utters(y, z)
    <2>1. CASE m.type = "Info"
      BY Zenon, <1>0, <2>1, DownFields, AnswersHold DEF HandleStandardMessage
    <2>2. CASE m.type = "Extensions"
      BY Zenon, <2>2, AnswersHold DEF HandleStandardMessage
    <2>3. CASE m.type = "NewAccountSalt"
      BY Zenon, <1>0, <2>3, DownFields, NewUserHolds DEF HandleStandardMessage
    <2>4. CASE m.type = "Result"
      BY Zenon, <2>4, AnswersHold DEF HandleStandardMessage, HandleResultMessage
    <2>5. CASE m.type \in {"AdditionConfirmation", "Reply"}
      BY Zenon, <2>5, AnswersHold
         DEF HandleStandardMessage, ReceivedAdditionConfirmation, ReceivedReply
    <2>6. CASE m.type \notin {"Status", "Scrobbling", "DelayedStartInfo", "Info", "Result",
                              "Extensions", "NewAccountSalt", "AdditionConfirmation", "Reply"}
      BY Zenon, <2>6, UttersSilently DEF HandleStandardMessage
    <2> QED BY Zenon, <1>0, <2>1, <2>2, <2>3, <2>4, <2>5, <2>6
  <1> QED BY Zenon, <1>2, <1>3, <1>4, TalkingHolds

LEMMA ResultHolds ==
    ASSUME NEW y \in ClientSides, y.c.state \notin {"NotConnected", "Connecting", "Closed"},
           NEW m, m.type = "Result", m.ref = y.c.loginRef, NEW s, s.open, ResultOK(m, y.c, s),
           NEW z, z = HandleUserLoginResult(y, m), z \in ClientSides
    PROVE  Holds(y, z)
  <1> DEFINE who == IF m.code = "NoError" THEN m.user ELSE y.c.loggedIn
             v == [y EXCEPT !.c.right = FALSE, !.c.loggingIn = Nobody, !.c.loggedIn = who]
  <1>1. z = v
    BY Zenon DEF HandleUserLoginResult, ClientSides, ClientEnds
  <1>2. who = Nobody => y.c.loggedIn = Nobody
    BY Zenon DEF ResultOK
  <1> HIDE DEF who
  <1>3. /\ v.c.view = y.c.view /\ v.out = y.out /\ v.c.state = y.c.state
        /\ v.c.loggedIn = who
    BY Zenon DEF ClientSides, ClientEnds
  <1> HIDE DEF v
  <1>4. Utters(y, z)
    BY Zenon, <1>1, <1>3, UttersSilently
  <1>5. z.c.state \notin {"NotConnected", "Connecting"} /\ y.c.state # "Closed"
    BY <1>1, <1>3
  <1> QED BY Zenon, <1>1, <1>2, <1>3, <1>4, <1>5 DEF Holds

(* The client reads a message about topics.                                *)
SameButView(y, z) ==
    z.c.state = y.c.state /\ z.c.loggedIn = y.c.loggedIn /\ z.out = y.out

Viewed(y, z) == z \in ClientSides /\ RefsOK(z.c) /\ SameButView(y, z)

TakesOver(y, z, values) ==
    /\ Viewed(y, z)
    /\ \A t \in Topics : z.c.view[t] = IF t \in DOMAIN values /\ t # "delayed"
                                       THEN values[t] ELSE y.c.view[t]

DelayTaken(y, z, start) ==
    /\ Viewed(y, z) /\ z.c.view["delayed"] = start
    /\ \A t \in Topics \ {"delayed"} : z.c.view[t] = y.c.view[t]

LEMMA ViewUpdated ==
    ASSUME NEW y \in ClientSides, RefsOK(y.c), NEW values \in Values
    PROVE  TakesOver(y, UpdateView(y, values), values)
  <1> DEFINE view == [t \in Topics |-> IF t \in DOMAIN values \ {"delayed"}
                                       THEN values[t] ELSE y.c.view[t]]
             v == [y EXCEPT !.c.view = view]
             z == UpdateView(y, values)
  <1>1. z = v
    BY Zenon DEF UpdateView, ClientSides, ClientEnds
  <1>2. \A t \in Topics : view[t] = IF t \in DOMAIN values /\ t # "delayed"
                                    THEN values[t] ELSE y.c.view[t]
    OBVIOUS
  <1> HIDE DEF view
  <1>3. /\ v.c.view = view /\ v.out = y.out /\ v.c.state = y.c.state
        /\ v.c.loggedIn = y.c.loggedIn
    BY Zenon DEF ClientSides, ClientEnds
  <1>4. Talks(y, z, Nothing)
    BY Zenon, TalksValues
  <1> HIDE DEF v, z
  <1>5. Viewed(y, z)
    BY Zenon, <1>1, <1>3, <1>4, TalksTyped DEF Viewed, SameButView
  <1> QED BY Zenon, <1>1, <1>2, <1>3, <1>5 DEF TakesOver, z

LEMMA DelayUpdated ==
    ASSUME NEW y \in ClientSides, RefsOK(y.c), NEW start \in Int
    PROVE  DelayTaken(y, [y EXCEPT !.c.view["delayed"] = start], start)
  <1> DEFINE view == [y.c.view EXCEPT !["delayed"] = start]
             v == [y EXCEPT !.c.view = view]
             z == [y EXCEPT !.c.view["delayed"] = start]
  <1>1. z = v
    BY Zenon DEF ClientSides, ClientEnds
  <1>2. view["delayed"] = start /\ \A t \in Topics \ {"delayed"} : view[t] = y.c.view[t]
    <2>1. y.c.view \in [Topics -> Int] /\ "delayed" \in Topics
      BY Zenon DEF ClientSides, ClientEnds, Topics
    <2> QED BY <2>1
  <1> HIDE DEF view
  <1>3. /\ v.c.view = view /\ v.out = y.out /\ v.c.state = y.c.state
        /\ v.c.loggedIn = y.c.loggedIn
    BY Zenon DEF ClientSides, ClientEnds
  <1>4. Talks(y, z, Nothing)
    BY Zenon, TalksDelayed
  <1> HIDE DEF v, z
  <1>5. Viewed(y, z)
    BY Zenon, <1>1, <1>3, <1>4, TalksTyped DEF Viewed, SameButView
  <1> QED BY Zenon, <1>1, <1>2, <1>3, <1>5 DEF DelayTaken, z

LEMMA StatusIsRead ==
    ASSUME NEW y \in ClientSides, RefsOK(y.c), NEW m \in DownMessage, m.type = "Status",
           NEW z, z = ReceivedStatus(y, m.values)
    PROVE  z \in ClientSides /\ Reads(y.c, z.c, y.out, z.out, m)
  <1> DEFINE values == m.values
             u == UpdateView(y, values)
             off == [u EXCEPT !.c.view["delayed"] = values["delayed"]]
             on == [u EXCEPT !.c.view["delayed"] = NoDeadline]
             asked == SendSingleByteAction(on, "delayed start info")
  <1>1. values \in Values /\ y.out \in Seq(UpMessage)
    BY Zenon, DownFields, ClientTypes
  <1>2. /\ \A t : m \in Bearing(t) <=> t \in DOMAIN values
        /\ m \notin Deadlines /\ m.type # "Scrobbling"
    BY DEF Bearing, Deadlines
  <1>3. /\ m \in OfDelay <=> "delayed" \in DOMAIN values
        /\ m \in IsOff <=> "delayed" \in DOMAIN values /\ ~ On(values["delayed"])
        /\ m \in StillOn <=> "delayed" \in DOMAIN values /\ On(values["delayed"])
    BY Zenon, <1>2 DEF OfDelay, IsOff, StillOn
  <1>4. z = IF "delayed" \notin DOMAIN values THEN u
            ELSE IF ~ On(values["delayed"]) THEN off
            ELSE IF Active(y.c.view["delayed"]) THEN u ELSE asked
    BY Zenon DEF ReceivedStatus, ReceivedPlayerState
  <1>5. "delayed" \in DOMAIN values => values["delayed"] \in Int
    BY <1>1 DEF Values
  <1>6. NoDeadline \in Int /\ "delayed" \in Topics
    BY DEF NoDeadline, Topics
  <1>7. \A t \in Topics \ {"delayed"} : t \in Topics /\ t # "delayed"
    OBVIOUS
  <1> HIDE DEF values
  <1>8. /\ u \in ClientSides /\ RefsOK(u.c) /\ SameButView(y, u)
        /\ \A t \in Topics : u.c.view[t] = IF t \in DOMAIN values /\ t # "delayed"
                                           THEN values[t] ELSE y.c.view[t]
    <2>1. TakesOver(y, u, values)
      BY Zenon, <1>1, ViewUpdated
    <2> HIDE DEF u
    <2> QED BY Zenon, <2>1 DEF TakesOver, Viewed
  <1>9. /\ u.c.view["delayed"] = y.c.view["delayed"]
        /\ \A t \in Topics \ {"delayed"} :
              u.c.view[t] = IF m \in Bearing(t) /\ (m.type = "Scrobbling" => m.user = y.c.loggedIn)
                            THEN values[t] ELSE y.c.view[t]
    BY Zenon, <1>2, <1>6, <1>7, <1>8
  <1> HIDE DEF u
  <1>10. Grown(y.out, y.out, UpMessage)
    BY Zenon, <1>1, GrownSame
  <1>11. CASE z = u /\ ("delayed" \notin DOMAIN values
                         \/ (On(values["delayed"]) /\ Active(y.c.view["delayed"])))
    BY Zenon, <1>1, <1>2, <1>3, <1>8, <1>9, <1>10, <1>11 DEF Reads, SameButView, values
  <1>12. CASE z = off /\ "delayed" \in DOMAIN values /\ ~ On(values["delayed"])
    <2>1. /\ off \in ClientSides /\ SameButView(u, off)
          /\ off.c.view["delayed"] = values["delayed"]
          /\ \A t \in Topics \ {"delayed"} : off.c.view[t] = u.c.view[t]
      <3> DEFINE start == values["delayed"]
      <3>1. start \in Int
        BY <1>5, <1>12
      <3> HIDE DEF start
      <3>2. DelayTaken(u, off, start)
        BY Zenon, <1>8, <3>1, DelayUpdated DEF start
      <3> HIDE DEF off
      <3> QED BY Zenon, <3>2 DEF DelayTaken, Viewed, start
    <2> HIDE DEF off
    <2> QED BY Zenon, <1>1, <1>2, <1>3, <1>8, <1>9, <1>10, <1>12, <2>1
            DEF Reads, SameButView, values
  <1>13. CASE /\ z = asked /\ "delayed" \in DOMAIN values /\ On(values["delayed"])
              /\ ~ Active(y.c.view["delayed"])
    <2> DEFINE n == Action("delayed start info")
               out == Append(on.out, n)
    <2>1. /\ on \in ClientSides /\ SameButView(u, on) /\ RefsOK(on.c)
          /\ \A t \in Topics \ {"delayed"} : on.c.view[t] = u.c.view[t]
      <3>1. DelayTaken(u, on, NoDeadline)
        BY Zenon, <1>6, <1>8, DelayUpdated
      <3> HIDE DEF on
      <3> QED BY Zenon, <3>1 DEF DelayTaken, Viewed
    <2>2. n \in UpMessage
      BY DEF UpMessage, Action, Actions
    <2>3. asked = SendBinary(on, n)
      BY Zenon DEF SendSingleByteAction
    <2> HIDE DEF on, n
    <2>4. on.out = y.out
      BY Zenon, <1>8, <2>1 DEF SameButView
    <2>5. asked = [on EXCEPT !.out = out]
      BY Zenon, <2>3 DEF SendBinary
    <2>6. out \in Seq(UpMessage) /\ Len(out) \in 1..Len(out) /\ out[Len(out)] = n
      BY <1>1, <2>2, <2>4
    <2>7. Grown(y.out, out, UpMessage)
      BY Zenon, <1>1, <2>2, <2>4, GrownAppend
    <2>8. IsAsked("delayed start info", out)
      BY Zenon, <2>6 DEF IsAsked, n
    <2> HIDE DEF out, asked
    <2>9. asked \in ClientSides /\ asked.c = on.c /\ asked.out = out
      BY Zenon, <2>1, <2>5, <2>6 DEF ClientSides
    <2>10. on.c.state = y.c.state /\ on.c.loggedIn = y.c.loggedIn
      BY Zenon, <1>8, <2>1 DEF SameButView
    <2> QED BY Zenon, <1>1, <1>2, <1>3, <1>9, <1>13, <2>1, <2>6, <2>7, <2>8, <2>9, <2>10
            DEF Reads, values
  <1> QED BY Zenon, <1>4, <1>11, <1>12, <1>13

LEMMA ScrobblingIsRead ==
    ASSUME NEW y \in ClientSides, RefsOK(y.c), NEW m \in DownMessage, m.type = "Scrobbling",
           DOMAIN m.values = {"scrobbling"}, NEW z, z = ReceivedScrobbling(y, m)
    PROVE  z \in ClientSides /\ Reads(y.c, z.c, y.out, z.out, m)
  <1>1. m.values \in Values /\ y.out \in Seq(UpMessage)
    BY Zenon, DownFields, ClientTypes
  <1>2. /\ \A t : m \in Bearing(t) <=> t \in DOMAIN m.values
        /\ m \notin Deadlines /\ "delayed" \notin DOMAIN m.values
    BY DEF Bearing, Deadlines
  <1>3. m \notin OfDelay /\ m \notin IsOff /\ m \notin StillOn
    BY Zenon, <1>2 DEF OfDelay, IsOff, StillOn
  <1>4. Grown(y.out, y.out, UpMessage)
    BY Zenon, <1>1, GrownSame
  <1>5. "delayed" \in Topics /\ \A t \in Topics \ {"delayed"} : t \in Topics /\ t # "delayed"
    BY DEF Topics
  <1>6. CASE m.user # y.c.loggedIn
    BY Zenon, <1>1, <1>2, <1>3, <1>4, <1>6 DEF ReceivedScrobbling, Reads
  <1>7. CASE m.user = y.c.loggedIn
    <2>1. z = UpdateView(y, m.values)
      BY Zenon, <1>7 DEF ReceivedScrobbling
    <2>2. /\ z \in ClientSides /\ SameButView(y, z)
          /\ \A t \in Topics : z.c.view[t] = IF t \in DOMAIN m.values /\ t # "delayed"
                                             THEN m.values[t] ELSE y.c.view[t]
      <3> DEFINE values == m.values
                 u == UpdateView(y, values)
      <3>1. z = u /\ values \in Values
        BY Zenon, <1>1, <2>1
      <3> HIDE DEF values
      <3>2. TakesOver(y, u, values)
        BY Zenon, <3>1, ViewUpdated
      <3> HIDE DEF u
      <3> QED BY Zenon, <3>1, <3>2 DEF TakesOver, Viewed, values
    <2>3. \A t \in Topics \ {"delayed"} :
              z.c.view[t] = IF m \in Bearing(t) /\ (m.type = "Scrobbling" => m.user = y.c.loggedIn)
                            THEN m.values[t] ELSE y.c.view[t]
      BY Zenon, <1>2, <1>5, <1>7, <2>2
    <2>4. z.c.view["delayed"] = y.c.view["delayed"]
      BY Zenon, <1>5, <2>2
    <2> QED BY Zenon, <1>1, <1>2, <1>3, <1>4, <2>2, <2>3, <2>4 DEF Reads, SameButView
  <1> QED BY Zenon, <1>6, <1>7

LEMMA DeadlineIsRead ==
    ASSUME NEW y \in ClientSides, RefsOK(y.c), NEW m \in DownMessage,
           m.type = "DelayedStartInfo", NEW z, z = ReceivedDelayedStartInfo(y, m)
    PROVE  z \in ClientSides /\ Reads(y.c, z.c, y.out, z.out, m)
  <1>1. m.start \in Int /\ y.out \in Seq(UpMessage)
    BY Zenon, DownFields, ClientTypes
  <1>2. (\A t : m \notin Bearing(t)) /\ m \in Deadlines
    BY DEF Bearing, Deadlines
  <1>3. m \in OfDelay /\ m \notin IsOff /\ m \notin StillOn
    BY Zenon, <1>2 DEF OfDelay, IsOff, StillOn
  <1>4. Grown(y.out, y.out, UpMessage)
    BY Zenon, <1>1, GrownSame
  <1>5. z = [y EXCEPT !.c.view["delayed"] = m.start]
    BY Zenon DEF ReceivedDelayedStartInfo
  <1>6. /\ z \in ClientSides /\ SameButView(y, z) /\ z.c.view["delayed"] = m.start
        /\ \A t \in Topics \ {"delayed"} : z.c.view[t] = y.c.view[t]
    <2> DEFINE start == m.start
               u == [y EXCEPT !.c.view["delayed"] = start]
    <2>1. z = u /\ start \in Int
      BY Zenon, <1>1, <1>5
    <2> HIDE DEF start
    <2>2. DelayTaken(y, u, start)
      BY Zenon, <2>1, DelayUpdated
    <2> HIDE DEF u
    <2> QED BY Zenon, <2>1, <2>2 DEF DelayTaken, Viewed, start
  <1> QED BY Zenon, <1>1, <1>2, <1>3, <1>4, <1>6 DEF Reads, SameButView

(* In binary mode the client asks for the events, and then for every topic. *)
LEMMA OpeningElements ==
    ASSUME NEW wanted
    PROVE  LET ms == OpeningMessages(wanted)
           IN  /\ 1..Len(ms) = 1..7
               /\ ms[1] = Action("extensions") /\ ms[2] = [type |-> "Extensions"]
               /\ ms[3] = EventRequest(wanted)
               /\ ms[4] = Action("player state") /\ ms[5] = Action("user playing for")
               /\ ms[6] = Action("dynamic mode status") /\ ms[7] = Action("indexation status")
  <1> DEFINE a == Action("extensions")
             b == [type |-> "Extensions"]
             e == EventRequest(wanted)
             p == Action("player state")
             u == Action("user playing for")
             d == Action("dynamic mode status")
             x == Action("indexation status")
             ms == OpeningMessages(wanted)
  <1>1. ms = << a, b, e >> \o << p, u, d, x >>
    BY Zenon DEF OpeningMessages, OpeningQuestions
  <1> HIDE DEF a, b, e, p, u, d, x, ms
  <1>2. /\ 1..Len(ms) = 1..7 /\ ms[1] = a /\ ms[2] = b /\ ms[3] = e /\ ms[4] = p
        /\ ms[5] = u /\ ms[6] = d /\ ms[7] = x
    BY <1>1
  <1> QED BY Zenon, <1>2 DEF a, b, e, p, u, d, x, ms

Opened(us, vs, wanted) ==
    /\ vs \in Seq(UpMessage)
    /\ \A k \in 1..Len(us) : k \in 1..Len(vs) /\ vs[k] = us[k]
    /\ \E k \in 1..Len(vs) : vs[k] = EventRequest(wanted)
    /\ \A t : IsAsked(QuestionAbout(t), vs)
    /\ wanted = "All" => \A s : EventsFirst(s, us) => EventsFirst(s, vs)

LEMMA OpeningAsks ==
    ASSUME NEW wanted, NEW us \in Seq(UpMessage)
    PROVE  Opened(us, us \o OpeningMessages(wanted), wanted)
  <1> DEFINE ms == OpeningMessages(wanted)
             vs == us \o ms
             n == Len(us)
             e == EventRequest(wanted)
  <1>1. /\ 1..Len(ms) = 1..7
        /\ ms[1] = Action("extensions") /\ ms[2] = [type |-> "Extensions"] /\ ms[3] = e
        /\ ms[4] = Action("player state") /\ ms[5] = Action("user playing for")
        /\ ms[6] = Action("dynamic mode status") /\ ms[7] = Action("indexation status")
    BY Zenon, OpeningElements
  <1>2. ms \in Seq(UpMessage)
    BY Zenon, OpeningIsPlain
  <1> HIDE DEF ms
  <1>3. /\ vs \in Seq(UpMessage)
        /\ \A k \in 1..Len(us) : k \in 1..Len(vs) /\ vs[k] = us[k]
        /\ \A i \in 1..Len(ms) : n + i \in 1..Len(vs) /\ vs[n + i] = ms[i]
    <2>1. vs \in Seq(UpMessage)
      BY <1>2
    <2>2. \A k \in 1..Len(us) : k \in 1..Len(vs) /\ vs[k] = us[k]
      BY <1>2
    <2>3. \A i \in 1..Len(ms) : n + i \in 1..Len(vs) /\ vs[n + i] = ms[i]
      BY <1>2
    <2> QED BY Zenon, <2>1, <2>2, <2>3
  <1>4. \A k \in 1..Len(vs) : (k \in 1..Len(us) /\ vs[k] = us[k])
                               \/ (k - n \in 1..Len(ms) /\ vs[k] = ms[k - n])
    BY <1>2
  <1>5. n \in Nat
    OBVIOUS
  <1> HIDE DEF n, e, vs
  <1>6. \A i \in 1..7 : n + i \in 1..Len(vs) /\ vs[n + i] = ms[i]
    BY Zenon, <1>1, <1>3
  <1>7. 3 \in 1..7 /\ 4 \in 1..7 /\ 5 \in 1..7 /\ 6 \in 1..7 /\ 7 \in 1..7
    OBVIOUS
  <1>8. \E k \in 1..Len(vs) : vs[k] = e
    BY Zenon, <1>1, <1>6, <1>7
  <1>9. /\ IsAsked("player state", vs) /\ IsAsked("user playing for", vs)
        /\ IsAsked("dynamic mode status", vs) /\ IsAsked("indexation status", vs)
    BY Zenon, <1>1, <1>6, <1>7 DEF IsAsked
  <1>10. \A t : IsAsked(QuestionAbout(t), vs)
    BY Zenon, <1>9 DEF QuestionAbout
  <1>11. ASSUME wanted = "All", NEW s, EventsFirst(s, us)
         PROVE  EventsFirst(s, vs)
    <2> SUFFICES ASSUME ~ s.events, NEW k \in 1..Len(vs), NEW action \in ControllersAsk,
                        vs[k] = Action(action)
                 PROVE  \E j \in 1..Len(vs) : j < k /\ vs[j] = Action("all events")
      BY Zenon DEF EventsFirst
    <2>1. CASE k \in 1..Len(us) /\ vs[k] = us[k]
      <3>1. PICK j \in 1..Len(us) : j < k /\ us[j] = Action("all events")
        BY Zenon, <1>11, <2>1 DEF EventsFirst
      <3> QED BY Zenon, <1>3, <3>1
    <2>2. CASE k - n \in 1..Len(ms) /\ vs[k] = ms[k - n]
      <3>1. e = Action("all events")
        BY Zenon, <1>11 DEF EventRequest, e
      <3>2. ms[1] # Action(action)
        <4>1. Action("extensions").action # Action(action).action
          BY DEF ControllersAsk, Action
        <4> QED BY Zenon, <1>1, <4>1
      <3>3. ms[2] # Action(action)
        <4>1. [type |-> "Extensions"].type # Action(action).type
          BY DEF Action
        <4> QED BY Zenon, <1>1, <4>1
      <3>4. ms[3] # Action(action)
        <4>1. Action("all events").action # Action(action).action
          BY DEF ControllersAsk, Action
        <4> QED BY Zenon, <1>1, <3>1, <4>1
      <3> DEFINE i == k - n
      <3>5. i \in 1..7 /\ ms[i] = Action(action)
        BY Zenon, <1>1, <2>2
      <3>6. i # 1 /\ i # 2 /\ i # 3
        BY Zenon, <3>2, <3>3, <3>4, <3>5
      <3>7. n + 3 < k
        BY <1>5, <3>5, <3>6
      <3> QED BY Zenon, <1>1, <1>6, <1>7, <3>1, <3>7
    <2> QED BY Zenon, <1>4, <2>1, <2>2
  <1> QED BY Zenon, <1>3, <1>8, <1>10, <1>11 DEF e, vs, ms, Opened

LEMMA EnteringInforms ==
    ASSUME NEW y \in ClientSides, y.c.state # "Closed", NEW s, s.open => s.binary, NEW w,
           NEW ds, NEW wanted, Informed(y.c, s, w, y.out, ds, wanted, {}),
           NEW z, z = EnterBinaryMode(y, wanted), z \in ClientSides
    PROVE  Informed(z.c, s, w, z.out, ds, wanted, {})
  <1> DEFINE c == y.c
             d == z.c
             us == y.out
             vs == z.out
             none == {}
  <1>0. none = {}
    OBVIOUS
  <1> HIDE DEF none
  <1>1. /\ vs = us \o OpeningMessages(wanted) /\ d.state = "BinaryMode"
        /\ d.view = c.view /\ d.loggedIn = c.loggedIn /\ us \in Seq(UpMessage)
    <2>1. vs = us \o OpeningMessages(wanted)
      BY Zenon DEF EnterBinaryMode, ClientSides, ClientEnds
    <2>2. d.state = "BinaryMode" /\ d.view = c.view /\ d.loggedIn = c.loggedIn
      BY Zenon DEF EnterBinaryMode, ClientSides, ClientEnds
    <2> QED BY Zenon, <2>1, <2>2, ClientTypes
  <1> SUFFICES ASSUME s.open
               PROVE  /\ WellFormed(ds) /\ ModeOK(s, vs, ds)
                      /\ HealthOK(d, s, w, vs, ds, wanted, none)
                      /\ ScrobblingOK(d, s, w, ds, none)
                      /\ wanted = "All" => EventsTold(d, s, w, vs, ds, none)
    BY Zenon, <1>0 DEF Informed
  <1>2. /\ WellFormed(ds) /\ ModeOK(s, us, ds)
        /\ HealthOK(c, s, w, us, ds, wanted, none)
        /\ ScrobblingOK(c, s, w, ds, none)
        /\ wanted = "All" => EventsTold(c, s, w, us, ds, none)
    BY Zenon, <1>0 DEF Informed
  <1> HIDE DEF c, d, us, vs
  <1>3. /\ vs \in Seq(UpMessage)
        /\ \A k \in 1..Len(us) : k \in 1..Len(vs) /\ vs[k] = us[k]
        /\ \E k \in 1..Len(vs) : vs[k] = EventRequest(wanted)
        /\ \A t : IsAsked(QuestionAbout(t), vs)
        /\ wanted = "All" => \A r : EventsFirst(r, us) => EventsFirst(r, vs)
    <2>1. Opened(us, us \o OpeningMessages(wanted), wanted)
      BY Zenon, <1>1, OpeningAsks
    <2> QED BY Zenon, <1>1, <2>1 DEF Opened
  <1>4. \A action : IsAsked(action, us) => IsAsked(action, vs)
    BY Zenon, <1>3 DEF IsAsked
  <1>5. ModeOK(s, vs, ds)
    BY Zenon, <1>2 DEF ModeOK
  <1>6. HealthOK(d, s, w, vs, ds, wanted, none)
    <2>1. \A values : Told("health", values, c.view, ds) => Told("health", values, d.view, ds)
      BY Zenon, <1>1
    <2> QED BY Zenon, <1>1, <1>2, <1>3, <2>1 DEF HealthOK
  <1>7. ScrobblingOK(d, s, w, ds, none)
    BY Zenon, <1>1, <1>2 DEF ScrobblingOK
  <1>8. ASSUME wanted = "All"
        PROVE  EventsTold(d, s, w, vs, ds, none)
    <2>1. EventsTold(c, s, w, us, ds, none)
      BY Zenon, <1>2, <1>8
    <2>2. EventsFirst(s, vs)
      BY Zenon, <1>3, <1>8, <2>1 DEF EventsTold
    <2>3. \A t \in PlainTopics : TopicOK(t, d, s, w, vs, ds, none)
      BY Zenon, <1>3 DEF TopicOK
    <2>4. DelayOK(d, s, w, vs, ds, none)
      <3>1. DelayOK(c, s, w, us, ds, none)
        BY Zenon, <2>1 DEF EventsTold
      <3>2. \A v, known : DelayTold(v, known, us, ds) => DelayTold(v, known, vs, ds)
        BY Zenon, <1>4 DEF DelayTold, ToldOn
      <3>3. QuestionAbout("player") = "player state"
        BY DEF QuestionAbout
      <3>4. IsAsked("player state", vs)
        BY Zenon, <1>3, <3>3
      <3> QED BY Zenon, <1>1, <3>1, <3>2, <3>4 DEF DelayOK
    <2> QED BY Zenon, <2>2, <2>3, <2>4 DEF EventsTold
  <1> QED BY Zenon, <1>2, <1>5, <1>6, <1>7, <1>8

(* The client reads the next message: it stays connected, and informed.    *)
LEMMA ReadingStays ==
    ASSUME NEW y \in ClientSides, RefsOK(y.c), NEW m \in DownMessage,
           y.c.state \notin {"NotConnected", "Connecting", "Closed"},
           NEW wanted, NEW z, z = OnReadyRead(y, m, wanted)
    PROVE  z.c.state \notin {"NotConnected", "Connecting"}
  <1> DEFINE w == WithTimer(y)
  <1>1. y.c.state # "Closed" /\ y.c.state \notin {"NotConnected", "Connecting"}
    OBVIOUS
  <1>2. w \in ClientSides /\ w.c.state = y.c.state /\ w.c.loginRef = y.c.loginRef
    BY Zenon, TimerRestarted DEF KeepsLogin
  <1>3. CASE m.type = "Header"
    <2>1. z.c.state = "BinaryMode"
      BY Zenon, <1>3 DEF OnReadyRead, EnterBinaryMode, ClientSides, ClientEnds
    <2> QED BY <2>1
  <1>4. CASE m.type = "LoginSalt"
    <2>1. z = HandleLoginSalt(w, m)
      BY Zenon, <1>4 DEF OnReadyRead, HandleBinaryMessage, HandleStandardMessage, WithTimer
    <2> HIDE DEF w
    <2>2. z.c = w.c
      BY Zenon, <1>2, <2>1 DEF HandleLoginSalt, SendBinary, ClientSides
    <2> QED BY Zenon, <1>1, <1>2, <2>2
  <1>5. CASE m.type = "Result" /\ m.ref = y.c.loginRef
    <2>1. z = HandleResultMessage(w, m)
      BY Zenon, <1>5 DEF OnReadyRead, HandleBinaryMessage, HandleStandardMessage, WithTimer
    <2> HIDE DEF w
    <2>2. z = HandleUserLoginResult(w, m)
      BY Zenon, <1>2, <1>5, <2>1 DEF HandleResultMessage
    <2> DEFINE who == IF m.code = "NoError" THEN m.user ELSE w.c.loggedIn
               v == [w EXCEPT !.c.right = FALSE, !.c.loggingIn = Nobody, !.c.loggedIn = who]
    <2>3. z = v
      BY Zenon, <1>2, <2>2 DEF HandleUserLoginResult, ClientSides, ClientEnds
    <2> HIDE DEF who
    <2>4. v.c.state = w.c.state
      BY Zenon, <1>2 DEF ClientSides, ClientEnds
    <2> HIDE DEF v
    <2> QED BY Zenon, <1>1, <1>2, <2>3, <2>4
  <1>6. CASE m.type \notin {"Header", "LoginSalt"} /\ (m.type = "Result" => m.ref # y.c.loginRef)
    <2> DEFINE concern == [requests |-> {m.ref}, questions |-> {m.kind},
                           accounts |-> {y.c.accountRef}]
    <2>1. m.ref \in concern.requests /\ m.kind \in concern.questions
          /\ y.c.accountRef \in concern.accounts
      OBVIOUS
    <2> HIDE DEF concern
    <2>2. Talks(y, z, concern)
      BY Zenon, <1>1, <1>6, <2>1, TalksReading
    <2> QED BY Zenon, <1>1, <2>2 DEF Talks, StaysOut
  <1> QED BY Zenon, <1>3, <1>4, <1>5, <1>6

LEMMA BinaryMessageInforms ==
    ASSUME NEW y \in ClientSides, RefsOK(y.c), NEW s, s.open, LoggedInOK(y.c, s),
           NEW w \in [Topics -> Nat], NEW ds \in Seq(DownMessage), ds # << >>,
           y.c.state \notin {"NotConnected", "Connecting", "Closed"},
           ResultOK(Head(ds), y.c, s), Head(ds).type # "Header", NEW wanted,
           Informed(y.c, s, w, y.out, ds, wanted, {}),
           NEW z, z = HandleStandardMessage(y, Head(ds)), z \in ClientSides
    PROVE  Informed(z.c, s, w, z.out, Tail(ds), wanted, {})
  <1> DEFINE m == Head(ds)
             es == Tail(ds)
             none == {}
  <1>1. m \in DownMessage /\ 1 \in 1..Len(ds) /\ ds[1] = m
    BY Zenon, MessagesRead
  <1>2. y.c.state # "Closed"
    OBVIOUS
  <1>3. WellFormed(ds)
    BY Zenon, <1>2 DEF Informed
  <1>4. CASE m.type \in {"Status", "Scrobbling", "DelayedStartInfo"}
    <2>1. CASE m.type = "Status"
      <3>1. z = ReceivedStatus(y, m.values)
        BY Zenon, <2>1 DEF HandleStandardMessage
      <3> QED BY Zenon, <1>1, <2>1, <3>1, StatusIsRead, ClientIsTold
    <2>2. CASE m.type = "Scrobbling"
      <3>1. z = ReceivedScrobbling(y, m)
        BY Zenon, <2>2 DEF HandleStandardMessage
      <3>2. DOMAIN m.values = {"scrobbling"}
        BY Zenon, <1>1, <1>3, <2>2 DEF WellFormed
      <3> QED BY Zenon, <1>1, <2>2, <3>1, <3>2, ScrobblingIsRead, ClientIsTold
    <2>3. CASE m.type = "DelayedStartInfo"
      <3>1. z = ReceivedDelayedStartInfo(y, m)
        BY Zenon, <2>3 DEF HandleStandardMessage
      <3> QED BY Zenon, <1>1, <2>3, <3>1, DeadlineIsRead, ClientIsTold
    <2> QED BY <1>4, <2>1, <2>2, <2>3
  <1>5. CASE m.type \notin {"Status", "Scrobbling", "DelayedStartInfo"}
    <2>1. m \in Untelling
      BY Zenon, <1>1, <1>5 DEF Untelling
    <2>2. y.out \in Seq(UpMessage)
      BY Zenon, ClientTypes
    <2>3. Informed(y.c, s, w, y.out, es, wanted, {})
      BY Zenon, <2>1, <2>2, UntellingRead
    <2>4. Holds(y, z)
      <3>1. CASE m.type = "LoginSalt"
        <4>1. z = HandleLoginSalt(y, m) /\ m.login \in Users /\ m.salt \in Nat
          BY Zenon, <1>1, <3>1, DownFields DEF HandleStandardMessage
        <4> QED BY Zenon, <4>1, SaltHolds
      <3>2. CASE m.type = "Result" /\ m.ref = y.c.loginRef
        <4>1. z = HandleUserLoginResult(y, m)
          BY Zenon, <3>2 DEF HandleStandardMessage, HandleResultMessage
        <4> QED BY Zenon, <3>2, <4>1, ResultHolds
      <3>3. CASE m.type \notin {"LoginSalt", "Header"}
                 /\ (m.type = "Result" => m.ref # y.c.loginRef)
        BY Zenon, <2>1, <3>3, MessageHolds
      <3> QED BY Zenon, <3>1, <3>2, <3>3
    <2> HIDE DEF es
    <2> QED BY Zenon, <2>3, <2>4, HoldsInforms DEF es
  <1> QED BY Zenon, <1>4, <1>5

LEMMA ReadingInforms ==
    ASSUME NEW y \in ClientSides, NEW s, NEW users, NEW w \in [Topics -> Nat],
           NEW ds \in Seq(DownMessage), ds # << >>, Consistent(y.c, s, users, y.out, ds),
           y.c.state \notin {"NotConnected", "Connecting", "Closed"}, NEW wanted,
           Informed(y.c, s, w, y.out, ds, wanted, {}),
           NEW z, z = OnReadyRead(y, Head(ds), wanted), z \in ClientSides
    PROVE  Informed(z.c, s, w, z.out, Tail(ds), wanted, {})
  <1> DEFINE m == Head(ds)
             es == Tail(ds)
             v == WithTimer(y)
  <1> SUFFICES ASSUME s.open
               PROVE  Informed(z.c, s, w, z.out, es, wanted, {})
    BY Zenon DEF Informed
  <1>1. m \in DownMessage /\ 1 \in 1..Len(ds) /\ ds[1] = m
    BY Zenon, MessagesRead
  <1>2. y.c.state # "Closed" /\ y.out \in Seq(UpMessage)
    BY ClientTypes
  <1>3. RefsOK(y.c) /\ LoggedInOK(y.c, s) /\ ResultOK(m, y.c, s)
    BY Zenon, <1>1 DEF Consistent, ReferencesOK, ResultsOK
  <1>4. CASE m.type \in {"Header", "Greeting", "TextBinary"}
    <2>1. m \in Untelling
      BY <1>1, <1>4 DEF Untelling
    <2>2. Informed(y.c, s, w, y.out, es, wanted, {})
      BY Zenon, <1>2, <1>3, <2>1, UntellingRead
    <2> HIDE DEF es
    <2>3. CASE m.type = "Header"
      <3>1. z = EnterBinaryMode(y, wanted)
        BY Zenon, <2>3 DEF OnReadyRead
      <3>2. ~ NoHeader(ds)
        BY Zenon, <1>1, <2>3 DEF NoHeader
      <3>3. s.open => s.binary
        BY Zenon, <3>2 DEF Consistent, BinaryOK
      <3> QED BY Zenon, <1>2, <2>2, <3>1, <3>3, EnteringInforms
    <2>4. CASE m.type \in {"Greeting", "TextBinary"}
      <3>1. z = OnReadyRead(y, m, wanted)
        OBVIOUS
      <3> HIDE DEF m
      <3>2. Holds(y, z)
        BY <1>3, <2>4, <3>1, GreetingHolds
      <3> QED BY Zenon, <2>2, <3>2, HoldsInforms
    <2> QED BY <1>4, <2>3, <2>4
  <1>5. CASE m.type \notin {"Header", "Greeting", "TextBinary"}
    <2>1. z = HandleStandardMessage(v, m)
      BY Zenon, <1>5 DEF OnReadyRead, HandleBinaryMessage, WithTimer
    <2>2. /\ Holds(y, v) /\ v \in ClientSides /\ RefsOK(v.c) /\ v.c.loggedIn = y.c.loggedIn
          /\ v.c.state = y.c.state /\ v.c.loginRef = y.c.loginRef
          /\ v.c.nextRef = y.c.nextRef
      BY Zenon, <1>3, TimerHolds, TimerRestarted DEF KeepsLogin
    <2> HIDE DEF v
    <2>3. Informed(v.c, s, w, v.out, ds, wanted, {})
      BY Zenon, <2>2, HoldsInforms
    <2>4. LoggedInOK(v.c, s) /\ ResultOK(m, v.c, s)
      BY Zenon, <1>3, <2>2 DEF LoggedInOK, ResultOK, UsedRefs
    <2>5. v.c.state \notin {"NotConnected", "Connecting", "Closed"}
      BY Zenon, <2>2
    <2>6. m.type # "Header"
      BY <1>5
    <2> QED BY Zenon, <2>1, <2>2, <2>3, <2>4, <2>5, <2>6, BinaryMessageInforms
  <1> QED BY Zenon, <1>4, <1>5

-----------------------------------------------------------------------------
(* The steps of the whole system: the copies.                              *)
LEMMA CopiesServerStep ==
    ASSUME NEW x, ServerBecomes(x), client' = client, subscription' = subscription,
           Informed(client, x.s, x.w, up', x.out, subscription, {}),
           Untouched(client, x.s, up', x.out)
    PROVE  CopiesInv'
  <1>1. server' = x.s /\ down' = x.out /\ world'.topics = x.w
    BY DEF ServerBecomes
  <1>2. Informed(client', server', world'.topics, up', down', subscription', {})
    BY Zenon, <1>1
  <1>3. Untouched(client', server', up', down')
    BY Zenon, <1>1
  <1> QED BY Zenon, <1>2, <1>3 DEF CopiesInv

LEMMA CopiesClientStep ==
    ASSUME NEW y, ClientBecomes(y), server' = server, world' = world,
           subscription' = subscription,
           Informed(y.c, server, world.topics, y.out, down', subscription, {}),
           Untouched(y.c, server, y.out, down')
    PROVE  CopiesInv'
  <1>1. client' = y.c /\ up' = y.out
    BY Zenon DEF ClientBecomes
  <1>2. Informed(client', server', world'.topics, up', down', subscription', {})
    BY Zenon, <1>1
  <1>3. Untouched(client', server', up', down')
    BY Zenon, <1>1
  <1> QED BY Zenon, <1>2, <1>3 DEF CopiesInv

LEMMA CopiesOfSides ==
    ASSUME SessionInv, CopiesInv
    PROVE  /\ ServerSide \in ServerSides /\ ClientSide \in ClientSides
           /\ client \in ClientEnds /\ up \in Seq(UpMessage) /\ down \in Seq(DownMessage)
           /\ ServerSide.s = server /\ ServerSide.users = world.users
           /\ ServerSide.w = world.topics /\ world.topics \in [Topics -> Nat]
           /\ ServerSide.out = down /\ ClientSide.c = client /\ ClientSide.out = up
           /\ RefsOK(client)
           /\ Consistent(client, server, world.users, up, down)
           /\ Informed(client, server, world.topics, up, down, subscription, {})
           /\ Untouched(client, server, up, down)
  <1>1. SessionTypeOK /\ world.topics \in [Topics -> Nat]
    BY Zenon DEF SessionInv, SessionTypeOK
  <1>2. ServerSide.w = world.topics
    BY DEF ServerSide
  <1> QED BY Zenon, <1>1, <1>2, SideTypes
          DEF SessionInv, SessionTypeOK, CopiesInv, Consistent, ReferencesOK

(* The client does something that leaves what it holds alone.              *)
Holding ==
    \E y : /\ Holds(ClientSide, y) /\ ClientBecomes(y)
           /\ UNCHANGED <<server, world, down, subscription>>

LEMMA CopiesHolding ==
    ASSUME SessionInv, CopiesInv, Holding
    PROVE  CopiesInv'
  <1> DEFINE v == ClientSide
             topics == world.topics
             none == {}
  <1>1. PICK y : /\ Holds(v, y) /\ ClientBecomes(y)
                 /\ UNCHANGED <<server, world, down, subscription>>
    BY Zenon DEF Holding
  <1>2. /\ v \in ClientSides /\ Informed(v.c, server, topics, v.out, down, subscription, none)
        /\ Untouched(v.c, server, v.out, down)
    BY Zenon, CopiesOfSides
  <1> HIDE DEF v, topics, none
  <1>3. Informed(y.c, server, topics, y.out, down, subscription, none)
    BY Zenon, <1>1, <1>2, HoldsInforms
  <1>4. Untouched(y.c, server, y.out, down)
    BY Zenon, <1>1, <1>2, HoldsUntouched
  <1>5. /\ Informed(y.c, server, topics, y.out, down', subscription, none)
        /\ Untouched(y.c, server, y.out, down') /\ server' = server /\ world' = world
        /\ subscription' = subscription
    BY Zenon, <1>1, <1>3, <1>4
  <1> QED BY Zenon, <1>1, <1>5, CopiesClientStep DEF topics, none

LEMMA EndingsHold ==
    ASSUME SessionInv, CopiesInv,
           OnSocketError \/ Disconnect \/ KeepAliveTimeout \/ ReplyTimeout
    PROVE  Holding
  <1> DEFINE v == ClientSide
  <1>1. v \in ClientSides /\ RefsOK(v.c)
    BY Zenon, CopiesOfSides
  <1>2. /\ Holds(v, BreakConnection(v))
        /\ v.c.state = "BinaryMode" => Holds(v, OnKeepAliveTimerTimeout(v))
        /\ Holds(v, CheckKeepAliveReply(v))
    BY Zenon, <1>1, EndingHolds
  <1>3. CASE OnSocketError
    BY Zenon, <1>2, <1>3 DEF OnSocketError, Holding
  <1>4. CASE Disconnect
    BY Zenon, <1>2, <1>4 DEF Disconnect, Holding
  <1>5. CASE KeepAliveTimeout
    BY Zenon, <1>2, <1>5 DEF KeepAliveTimeout, Holding, IsConnected
  <1>6. CASE ReplyTimeout
    BY Zenon, <1>2, <1>6 DEF ReplyTimeout, Holding
  <1> QED BY Zenon, <1>3, <1>4, <1>5, <1>6

(* What the user does.                                                     *)
LEMMA UserHolds ==
    ASSUME NEW y, Holds(ClientSide, y), UserDoes(y)
    PROVE  Holding
  BY Zenon DEF UserDoes, Holding

LEMMA LoggingInHolds ==
    ASSUME SessionInv, CopiesInv, NEW user \in Users, NEW right \in BOOLEAN,
           LoginAs(user, right)
    PROVE  Holding
  <1> DEFINE v == ClientSide
             users == world.users
             y == Login(v, user, right)
  <1>1. /\ v \in ClientSides /\ v.c.state = "BinaryMode" /\ v.c.loggedIn = Nobody
        /\ down \in Seq(DownMessage) /\ Consistent(v.c, server, users, v.out, down)
    BY Zenon, CopiesOfSides DEF LoginAs, UserDoes, IsConnected
  <1>2. UserDoes(y)
    BY Zenon DEF LoginAs
  <1> HIDE DEF v, users
  <1>3. y \in ClientSides
    BY Zenon, <1>1, ClientLogsIn
  <1>4. Holds(v, y)
    BY Zenon, <1>1, <1>3, LoginHolds
  <1> HIDE DEF y
  <1> QED BY Zenon, <1>2, <1>4, UserHolds DEF v

LEMMA RequestsHold ==
    ASSUME SessionInv, CopiesInv,
           \/ \E possible \in BOOLEAN : Insert(possible)
           \/ \E kind \in RequestKinds \ {"insert"} : MakeRequest(kind)
           \/ Authenticate
    PROVE  Holding
  <1> DEFINE v == ClientSide
  <1>1. v \in ClientSides /\ RefsOK(v.c)
    BY Zenon, CopiesOfSides
  <1>2. ASSUME NEW kind \in Kinds, NEW possible \in BOOLEAN,
               UserDoes(SendRequest(v, kind, possible))
        PROVE  Holding
    <2>1. v.c.state = "BinaryMode"
      BY Zenon, <1>2 DEF UserDoes, IsConnected
    <2>2. Holds(v, SendRequest(v, kind, possible))
      BY Zenon, <1>1, <2>1, RequestHolds
    <2> QED BY Zenon, <1>2, <2>2, UserHolds
  <1>3. CASE \E possible \in BOOLEAN : Insert(possible)
    <2>1. "insert" \in Kinds
      BY DEF Kinds
    <2> QED BY Zenon, <1>2, <1>3, <2>1 DEF Insert, SendInsertionRequest
  <1>4. CASE \E kind \in RequestKinds \ {"insert"} : MakeRequest(kind)
    <2>1. PICK kind \in RequestKinds \ {"insert"} : MakeRequest(kind)
      BY Zenon, <1>4
    <2>2. kind \in Kinds /\ TRUE \in BOOLEAN
      BY SessionConstants DEF Kinds
    <2>3. (CASE kind \in {"hash info", "history"} -> SendHashRequest(v, kind)
             [] kind = "collection" -> SendCollectionFetchRequest(v)
             [] OTHER -> SendActionRequest(v, kind)) = SendRequest(v, kind, TRUE)
      BY Zenon DEF SendHashRequest, SendCollectionFetchRequest, SendActionRequest
    <2>4. UserDoes(SendRequest(v, kind, TRUE))
      BY Zenon, <2>1, <2>3 DEF MakeRequest
    <2> QED BY Zenon, <1>2, <2>2, <2>4
  <1>5. CASE Authenticate
    <2>1. "authenticate" \in Kinds /\ TRUE \in BOOLEAN
      BY DEF Kinds
    <2>2. UserDoes(SendRequest(v, "authenticate", TRUE)) \/ UserDoes(v)
      BY Zenon, <1>5 DEF Authenticate, AuthenticateScrobbling
    <2>3. UserDoes(v) => Holds(v, v)
      BY Zenon, <1>1, CommandsHold DEF UserDoes, IsConnected
    <2> QED BY Zenon, <1>2, <2>1, <2>2, <2>3, UserHolds
  <1> QED BY Zenon, <1>3, <1>4, <1>5

LEMMA UserKeepsCopies ==
    ASSUME SessionInv, CopiesInv, User
    PROVE  Holding
  <1> DEFINE v == ClientSide
  <1>1. v \in ClientSides /\ RefsOK(v.c)
    BY Zenon, CopiesOfSides
  <1>2. CASE \E user \in Users, right \in BOOLEAN : LoginAs(user, right)
    BY Zenon, <1>2, LoggingInHolds
  <1>3. CASE \E user \in Users : Register(user)
    <2>1. PICK user \in Users : Register(user)
      BY Zenon, <1>3
    <2>2. v.c.state = "BinaryMode"
      BY Zenon, <2>1 DEF Register, UserDoes, IsConnected
    <2>3. Holds(v, CreateNewUserAccount(v, user))
      BY Zenon, <1>1, <2>2, RegisteringHolds
    <2> QED BY Zenon, <2>1, <2>3, UserHolds DEF Register
  <1>4. CASE \/ \E t \in OwnTopics : GiveCommand(t)
             \/ SwitchScrobbling \/ OpenScrobblingDialog \/ ShutdownByClient
    <2>1. v.c.state = "BinaryMode"
      BY Zenon, <1>4 DEF GiveCommand, SwitchScrobbling, OpenScrobblingDialog,
                         ShutdownByClient, UserDoes, IsConnected
    <2>2. /\ Holds(v, SendBinary(v, [type |-> "Shutdown"]))
          /\ Holds(v, RequestScrobblingProviderInfo(v))
          /\ Holds(v, SetScrobblingEnabled(v))
          /\ \A t \in Topics : Holds(v, SendBinary(v, CommandFor(t)))
      BY Zenon, <1>1, <2>1, CommandsHold
    <2>3. \A t \in OwnTopics : t \in Topics
      BY Zenon, SessionConstants
    <2> QED BY Zenon, <1>4, <2>2, <2>3, UserHolds
            DEF GiveCommand, SwitchScrobbling, OpenScrobblingDialog, ShutdownByClient
  <1>5. CASE \/ \E possible \in BOOLEAN : Insert(possible)
             \/ \E kind \in RequestKinds \ {"insert"} : MakeRequest(kind)
             \/ Authenticate
    BY Zenon, <1>5, RequestsHold
  <1>6. CASE \E kind \in {"users", "version"} : AskFor(kind)
    <2>1. PICK kind \in Questions : AskFor(kind)
      BY Zenon, <1>6 DEF Questions
    <2>2. v.c.state = "BinaryMode"
      BY Zenon, <2>1 DEF AskFor, UserDoes, IsConnected
    <2>3. Holds(v, AskOnce(v, kind))
      BY Zenon, <1>1, <2>2, AskingHolds
    <2> QED BY Zenon, <2>1, <2>3, UserHolds DEF AskFor
  <1>7. CASE Disconnect
    BY Zenon, <1>7, EndingsHold
  <1> QED BY Zenon, <1>2, <1>3, <1>4, <1>5, <1>6, <1>7 DEF User

(* The server does something, and tells of it.                             *)
LEMMA NoOneIsTold ==
    ASSUME NEW x \in ServerSides, x.s = NewServerEnd, NEW t \in Topics
    PROVE  Change(x, t).s = x.s /\ Change(x, t).out = x.out
  <1> DEFINE y == [x EXCEPT !.w[t] = @ + 1]
  <1>1. ~ x.s.health /\ ~ x.s.events /\ ~ IsLoggedIn(x)
    BY DEF NewServerEnd, IsLoggedIn
  <1>2. Change(x, t) = y
    BY Zenon, <1>1 DEF Change
  <1>3. y.s = x.s /\ y.out = x.out
    BY Zenon DEF ServerSides
  <1> QED BY Zenon, <1>2, <1>3

LEMMA NoOneIsToldOfThePlayer ==
    ASSUME NEW x \in ServerSides, x.s = NewServerEnd
    PROVE  /\ StartPlaying(x).s = x.s /\ StartPlaying(x).out = x.out
           /\ DoStart(x).s = x.s /\ DoStart(x).out = x.out
  <1>0. "player" \in Topics /\ "delayed" \in Topics
    BY DEF Topics
  <1>1. StartPlaying(x).s = x.s /\ StartPlaying(x).out = x.out
    <2> DEFINE y == IF On(x.w["delayed"]) THEN Change(x, "delayed") ELSE x
    <2>1. y \in ServerSides /\ y.s = x.s /\ y.out = x.out
      BY Zenon, <1>0, NoOneIsTold, ChangeTells DEF Tells
    <2>2. StartPlaying(x) = Change(y, "player")
      BY Zenon DEF StartPlaying
    <2> HIDE DEF y
    <2> QED BY Zenon, <1>0, <2>1, <2>2, NoOneIsTold
  <1>2. DoStart(x).s = x.s /\ DoStart(x).out = x.out
    <2> DEFINE next == x.w["delayed"] + 1
               topics == [x.w EXCEPT !["delayed"] = next]
               y == [x EXCEPT !.w = topics]
               z == Change(y, "player")
    <2>1. x.w \in [Topics -> Nat]
      BY Zenon DEF ServerSides
    <2>2. next \in Nat
      BY <1>0, <2>1
    <2> HIDE DEF next
    <2>3. topics \in [Topics -> Nat]
      BY <2>1, <2>2
    <2> HIDE DEF topics
    <2>4. y \in ServerSides /\ y.s = x.s /\ y.out = x.out
      BY Zenon, <2>3 DEF ServerSides
    <2>5. [x EXCEPT !.w["delayed"] = @ + 1] = y
      BY Zenon DEF ServerSides, topics, next
    <2> HIDE DEF y
    <2>6. z.s = x.s /\ z.out = x.out
      BY Zenon, <1>0, <2>4, NoOneIsTold
    <2>7. DoStart(x) = IF z.s.events THEN OnDelayedStartActiveChanged(z) ELSE z
      BY Zenon, <2>5 DEF DoStart
    <2>8. ~ x.s.events
      BY DEF NewServerEnd
    <2> HIDE DEF z
    <2> QED BY Zenon, <2>6, <2>7, <2>8
  <1> QED BY Zenon, <1>1, <1>2

Telling ==
    \E x : /\ Tells(ServerSide, x) /\ ServerBecomes(x)
           /\ server = NewServerEnd => x.s = server /\ x.out = down
           /\ UNCHANGED <<client, up, subscription>>

LEMMA CopiesTelling ==
    ASSUME SessionInv, CopiesInv, Telling
    PROVE  CopiesInv'
  <1> DEFINE v == ServerSide
             none == {}
  <1>1. PICK x : /\ Tells(v, x) /\ ServerBecomes(x)
                 /\ server = NewServerEnd => x.s = server /\ x.out = down
                 /\ UNCHANGED <<client, up, subscription>>
    BY Zenon DEF Telling
  <1>2. /\ Fits(v, client, up, subscription, none) /\ Untouched(client, server, up, down)
    BY Zenon, CopiesOfSides DEF Fits
  <1> HIDE DEF v, none
  <1>3. Informed(client, x.s, x.w, up, x.out, subscription, none)
    BY Zenon, <1>1, <1>2 DEF Tells, Fits
  <1>4. Untouched(client, x.s, up, x.out)
    BY Zenon, <1>1, <1>2 DEF Untouched
  <1>5. /\ Informed(client, x.s, x.w, up', x.out, subscription, none)
        /\ Untouched(client, x.s, up', x.out) /\ client' = client /\ subscription' = subscription
    BY Zenon, <1>1, <1>3, <1>4
  <1> QED BY Zenon, <1>1, <1>5, CopiesServerStep DEF none

LEMMA OthersTelling ==
    ASSUME SessionInv, CopiesInv,
           \/ PlayerStateTimer \/ DelayedStartTimer
           \/ \E t \in SharedTopics : OthersChange(t)
           \/ \E task \in server.tasks : RunTask(task)
    PROVE  Telling
  <1> DEFINE v == ServerSide
  <1>1. v \in ServerSides /\ v.s = server /\ v.out = down
    BY Zenon, CopiesOfSides
  <1>2. ~ NewServerEnd.pendingStatus /\ NewServerEnd.tasks = {}
    BY DEF NewServerEnd
  <1>3. CASE PlayerStateTimer
    <2>1. Tells(v, SendStateInfoAfterTimeout(v)) /\ server # NewServerEnd
      BY Zenon, <1>1, <1>2, <1>3, TimeoutTells DEF PlayerStateTimer
    <2> QED BY Zenon, <1>3, <2>1 DEF PlayerStateTimer, Telling
  <1>4. CASE DelayedStartTimer
    <2>1. /\ Tells(v, DoStart(v))
          /\ server = NewServerEnd => DoStart(v).s = server /\ DoStart(v).out = down
      BY Zenon, <1>1, StartTells, NoOneIsToldOfThePlayer
    <2> QED BY Zenon, <1>4, <2>1 DEF DelayedStartTimer, Telling
  <1>5. CASE \E t \in SharedTopics : OthersChange(t)
    <2>1. PICK t \in SharedTopics : OthersChange(t)
      BY Zenon, <1>5
    <2> DEFINE x == IF t = "player" THEN StartPlaying(v) ELSE Change(v, t)
    <2>2. t \in Topics
      BY Zenon, SessionConstants
    <2> HIDE DEF v
    <2>3. Tells(v, x)
      BY Zenon, <1>1, <2>2, ChangeTells, PlayingTells
    <2>4. server = NewServerEnd => x.s = server /\ x.out = down
      BY Zenon, <1>1, <2>2, NoOneIsTold, NoOneIsToldOfThePlayer
    <2>5. ServerBecomes(x) /\ UNCHANGED <<client, up, subscription>>
      BY Zenon, <2>1 DEF OthersChange, v
    <2> HIDE DEF x
    <2> QED BY Zenon, <2>3, <2>4, <2>5 DEF Telling, v
  <1>6. CASE \E task \in server.tasks : RunTask(task)
    <2>1. PICK task \in server.tasks : RunTask(task)
      BY Zenon, <1>6
    <2>2. server # NewServerEnd
      BY <1>2, <2>1
    <2>3. Tells(v, FinishTask(v, task))
      BY Zenon, <1>1, <2>1, TaskTells
    <2> QED BY Zenon, <2>1, <2>2, <2>3 DEF RunTask, Telling
  <1> QED BY Zenon, <1>3, <1>4, <1>5, <1>6

(* Messages are read.                                                      *)
LEMMA CopiesServerReading ==
    ASSUME SessionInv, CopiesInv, ServerReads
    PROVE  CopiesInv'
  <1> DEFINE v == ServerSide
             x == DataArrived(v, Head(up))
             none == {}
  <1>1. /\ v \in ServerSides /\ client \in ClientEnds /\ up \in Seq(UpMessage) /\ up # << >>
        /\ v.s = server /\ v.s.open /\ LoggedInOK(client, v.s)
        /\ Fits(v, client, up, subscription, none) /\ Untouched(client, server, up, down)
    BY Zenon, CopiesOfSides DEF ServerReads, Consistent, Fits
  <1>2. ServerBecomes(x) /\ client' = client /\ up' = Tail(up) /\ subscription' = subscription
    BY Zenon DEF ServerReads
  <1> HIDE DEF v
  <1>3. Fits(x, client, Tail(up), subscription, none)
    <2>1. v.s.loggedIn # Nobody => v.s.loggingIn = Nobody
      BY Zenon, <1>1 DEF LoggedInOK
    <2> QED BY Zenon, <1>1, <2>1, ReadingTells
  <1>4. client.state \notin {"NotConnected", "Connecting"}
    <2>1. ~ NewServerEnd.open
      BY DEF NewServerEnd
    <2> QED BY Zenon, <1>1, <2>1 DEF Untouched
  <1> HIDE DEF x, none
  <1>5. /\ Informed(client, x.s, x.w, up', x.out, subscription, none)
        /\ Untouched(client, x.s, up', x.out)
    BY Zenon, <1>2, <1>3, <1>4 DEF Fits, Untouched
  <1> QED BY Zenon, <1>2, <1>5, CopiesServerStep DEF none

LEMMA CopiesClientReading ==
    ASSUME SessionInv, CopiesInv, ClientReads
    PROVE  CopiesInv'
  <1> DEFINE v == ClientSide
             users == world.users
             topics == world.topics
             none == {}
             y == OnReadyRead(v, Head(down), subscription)
  <1>1. /\ v \in ClientSides /\ down \in Seq(DownMessage) /\ down # << >> /\ RefsOK(v.c)
        /\ v.c.state \notin {"NotConnected", "Connecting", "Closed"}
        /\ Consistent(v.c, server, users, v.out, down) /\ topics \in [Topics -> Nat]
        /\ Informed(v.c, server, topics, v.out, down, subscription, none)
    BY Zenon, CopiesOfSides DEF ClientReads
  <1>2. /\ ClientBecomes(y) /\ server' = server /\ world' = world /\ down' = Tail(down)
        /\ subscription' = subscription
    BY Zenon DEF ClientReads
  <1> HIDE DEF v, users, topics
  <1>3. y \in ClientSides
    BY Zenon, <1>1, ClientReadsOK
  <1>4. Informed(y.c, server, topics, y.out, Tail(down), subscription, none)
    BY Zenon, <1>1, <1>3, ReadingInforms
  <1>5. y.c.state \notin {"NotConnected", "Connecting"}
    <2>1. Head(down) \in DownMessage
      BY Zenon, <1>1, MessagesRead
    <2> QED BY Zenon, <1>1, <2>1, ReadingStays
  <1> HIDE DEF y, none
  <1>6. /\ Informed(y.c, server, topics, y.out, down', subscription, none)
        /\ Untouched(y.c, server, y.out, down')
    BY Zenon, <1>2, <1>4, <1>5 DEF Untouched
  <1> QED BY Zenon, <1>2, <1>6, CopiesClientStep DEF topics, none

(* The connection begins, and ends.                                        *)
LEMMA CopiesConnecting ==
    ASSUME SessionInv, CopiesInv, ConnectToHost
    PROVE  CopiesInv'
  <1> DEFINE d == [client EXCEPT !.state = "Connecting"]
             y == [c |-> d, out |-> up]
  <1>1. /\ client \in ClientEnds /\ Untouched(client, server, up, down)
        /\ client.state = "NotConnected"
    BY Zenon, CopiesOfSides DEF ConnectToHost
  <1>2. "NotConnected" \in {"NotConnected", "Connecting"} /\ ~ NewServerEnd.open
    BY DEF NewServerEnd
  <1>3. server = NewServerEnd /\ up = << >> /\ down = << >> /\ client.view = NothingKnown
    BY Zenon, <1>1, <1>2 DEF Untouched
  <1>4. d.view = client.view
    BY Zenon, <1>1 DEF ClientEnds
  <1>5. client' = d /\ UNCHANGED <<server, world, up, down, subscription>>
    BY Zenon DEF ConnectToHost
  <1>6. y.c = d /\ y.out = up
    OBVIOUS
  <1> HIDE DEF d, y
  <1>7. ClientBecomes(y)
    BY Zenon, <1>5, <1>6 DEF ClientBecomes
  <1>8. Informed(y.c, server, world.topics, y.out, down', subscription, {})
    BY Zenon, <1>2, <1>3 DEF Informed
  <1>9. Untouched(y.c, server, y.out, down')
    BY Zenon, <1>3, <1>4, <1>5, <1>6 DEF Untouched
  <1> QED BY Zenon, <1>5, <1>7, <1>8, <1>9, CopiesClientStep

LEMMA NewConnectionInforms ==
    ASSUME NEW d, d.state = "Handshake", d.view = NothingKnown, NEW s,
           s = [NewServerEnd EXCEPT !.open = TRUE], NEW w, NEW wanted
    PROVE  Informed(d, s, w, << >>, << [type |-> "Greeting"] >>, wanted, {})
  <1> DEFINE m == [type |-> "Greeting"]
             ds == << m >>
             us == << >>
             none == {}
  <1>1. m \in Untelling
    BY DEF Untelling, DownMessage
  <1>2. m.type = "Greeting"
    OBVIOUS
  <1>3. \A i \in 1..Len(ds) : ds[i] = m
    OBVIOUS
  <1>4. \A k \in 1..Len(us) : FALSE
    OBVIOUS
  <1>5. ~ s.events /\ ~ s.health /\ ~ s.pendingStatus
    BY DEF NewServerEnd
  <1>6. /\ d.view["health"] = 0 /\ d.view["scrobbling"] = Unknown
        /\ d.view["delayed"] = Unknown
    BY DEF NothingKnown, Topics
  <1>7. ~ On(0) /\ "Handshake" # "BinaryMode"
    BY DEF On
  <1> HIDE DEF m, ds, us, none
  <1>8. /\ \A t : NoneOf(ds, Bearing(t))
        /\ NoneOf(ds, OfDelay)
    BY Zenon, <1>1, <1>3, UntellingSets DEF NoneOf
  <1>9. \A i \in 1..Len(ds) : ds[i].type # "Status" /\ ds[i].type # "Scrobbling"
    BY <1>2, <1>3
  <1>10. WellFormed(ds) /\ ModeOK(s, us, ds)
    BY Zenon, <1>4, <1>5, <1>9 DEF WellFormed, ModeOK
  <1>11. HealthOK(d, s, w, us, ds, wanted, none)
    BY Zenon, <1>5, <1>6, <1>7, <1>8 DEF HealthOK
  <1>12. ScrobblingOK(d, s, w, ds, none)
    BY Zenon, <1>6, <1>8, <1>9 DEF ScrobblingOK
  <1>13. EventsTold(d, s, w, us, ds, none)
    BY Zenon, <1>4, <1>6, <1>7, <1>8 DEF EventsTold, EventsFirst, TopicOK, DelayOK, Unheard
  <1> QED BY Zenon, <1>10, <1>11, <1>12, <1>13 DEF Informed, m, ds, us, none

LEMMA CopiesAccepting ==
    ASSUME SessionInv, CopiesInv, Accept
    PROVE  CopiesInv'
  <1> DEFINE v == ServerSide
             x == NewConnection(v)
             d == [client EXCEPT !.state = "Handshake"]
             s == [NewServerEnd EXCEPT !.open = TRUE]
  <1>1. /\ v \in ServerSides /\ v.out = down /\ client \in ClientEnds
        /\ client.state = "Connecting" /\ Untouched(client, server, up, down)
    BY Zenon, CopiesOfSides DEF Accept
  <1>2. "Connecting" \in {"NotConnected", "Connecting"}
        /\ "Handshake" \notin {"NotConnected", "Connecting"}
    OBVIOUS
  <1>3. up = << >> /\ down = << >> /\ client.view = NothingKnown
    BY Zenon, <1>1, <1>2 DEF Untouched
  <1>4. d.view = client.view /\ d.state = "Handshake"
    BY Zenon, <1>1 DEF ClientEnds
  <1>5. ServerBecomes(x) /\ client' = d /\ up' = up /\ subscription' = subscription
    BY Zenon DEF Accept
  <1> HIDE DEF v, d
  <1>6. x.s = s /\ x.out = Append(down, [type |-> "Greeting"])
    BY Zenon, <1>1 DEF NewConnection, ServerSides
  <1>7. Append(<< >>, [type |-> "Greeting"]) = << [type |-> "Greeting"] >>
    OBVIOUS
  <1> HIDE DEF s, x
  <1>8. Informed(d, s, x.w, << >>, << [type |-> "Greeting"] >>, subscription, {})
    BY Zenon, <1>3, <1>4, NewConnectionInforms DEF s
  <1>9. /\ server' = s /\ down' = << [type |-> "Greeting"] >> /\ world'.topics = x.w
        /\ up' = << >>
    BY <1>3, <1>5, <1>6, <1>7 DEF ServerBecomes
  <1>10. Informed(client', server', world'.topics, up', down', subscription', {})
    BY Zenon, <1>5, <1>8, <1>9
  <1>11. Untouched(client', server', up', down')
    BY Zenon, <1>2, <1>4, <1>5 DEF Untouched
  <1> QED BY Zenon, <1>10, <1>11 DEF CopiesInv

LEMMA CopiesTerminating ==
    ASSUME SessionInv, CopiesInv, ServerShutdown \/ SocketDisconnected
    PROVE  CopiesInv'
  <1> DEFINE v == ServerSide
             x == TerminateConnection(v)
  <1>1. v \in ServerSides /\ server.open /\ Untouched(client, server, up, down)
    BY Zenon, CopiesOfSides DEF ServerShutdown, SocketDisconnected
  <1>2. ServerBecomes(x) /\ client' = client /\ up' = up /\ subscription' = subscription
    BY Zenon DEF ServerShutdown, SocketDisconnected
  <1>3. ~ NewServerEnd.open
    BY DEF NewServerEnd
  <1>4. client.state \notin {"NotConnected", "Connecting"}
    BY Zenon, <1>1, <1>3 DEF Untouched
  <1> HIDE DEF v
  <1>5. ~ x.s.open
    BY Zenon, <1>1, <1>3 DEF TerminateConnection, ServerSides
  <1> HIDE DEF x
  <1>6. Informed(client, x.s, x.w, up', x.out, subscription, {})
    BY Zenon, <1>5 DEF Informed
  <1>7. Untouched(client, x.s, up', x.out)
    BY Zenon, <1>4 DEF Untouched
  <1> QED BY Zenon, <1>2, <1>6, <1>7, CopiesServerStep

LEMMA CopiesOfNoMessage ==
    ASSUME CopiesInv, UNCHANGED <<client, server, up, down, subscription>>,
           world'.topics = world.topics
    PROVE  CopiesInv'
  <1>1. Informed(client', server', world'.topics, up', down', subscription', {})
    BY Zenon DEF CopiesInv
  <1>2. Untouched(client', server', up', down')
    BY Zenon DEF CopiesInv
  <1> QED BY Zenon, <1>1, <1>2 DEF CopiesInv

LEMMA CopiesNext ==
    ASSUME SessionInv, CopiesInv, [Next]_vars
    PROVE  CopiesInv'
  <1>1. CASE UNCHANGED vars
    BY Zenon, <1>1, CopiesOfNoMessage DEF vars
  <1>2. CASE Accept \/ SocketDisconnected \/ ConnectToHost
    BY Zenon, <1>2, CopiesAccepting, CopiesTerminating, CopiesConnecting
  <1>3. CASE OnSocketError
    BY Zenon, <1>3, EndingsHold, CopiesHolding
  <1>4. CASE ServerReads \/ ClientReads
    BY Zenon, <1>4, CopiesServerReading, CopiesClientReading
  <1>5. CASE Timers
    BY Zenon, <1>5, OthersTelling, CopiesTelling, EndingsHold, CopiesHolding DEF Timers
  <1>6. CASE \E task \in server.tasks : RunTask(task)
    BY Zenon, <1>6, OthersTelling, CopiesTelling
  <1>7. CASE Others
    <2>1. CASE ServerShutdown
      BY Zenon, <2>1, CopiesTerminating
    <2>2. CASE NetworkFallsSilent
      BY Zenon, <2>2, CopiesOfNoMessage DEF NetworkFallsSilent
    <2>3. CASE \E user \in Users : OtherUserRegisters(user)
      <3>1. PICK user \in Users : OtherUserRegisters(user)
        BY Zenon, <2>3
      <3>2. world'.topics = world.topics
        BY <3>1 DEF OtherUserRegisters, SessionInv, SessionTypeOK
      <3> QED BY Zenon, <3>1, <3>2, CopiesOfNoMessage DEF OtherUserRegisters
    <2>4. CASE DelayedStartTimer \/ \E t \in SharedTopics : OthersChange(t)
      BY Zenon, <2>4, OthersTelling, CopiesTelling
    <2> QED BY Zenon, <1>7, <2>1, <2>2, <2>3, <2>4 DEF Others
  <1>8. CASE User
    BY Zenon, <1>8, UserKeepsCopies, CopiesHolding
  <1> QED BY Zenon, <1>1, <1>2, <1>3, <1>4, <1>5, <1>6, <1>7, <1>8 DEF Next

LEMMA CopiesInit ==
    ASSUME Init
    PROVE  CopiesInv
  <1>1. /\ ~ server.open /\ client.view = NothingKnown
        /\ server = NewServerEnd /\ up = << >> /\ down = << >>
    BY DEF Init, NewServerEnd, NewClientEnd
  <1> QED BY Zenon, <1>1 DEF CopiesInv, Informed, Untouched

(* What the invariant says when nothing is on its way.                     *)
LEMMA CopiesOfInv ==
    ASSUME SessionInv, CopiesInv
    PROVE  CopiesAreCurrent
  <1> DEFINE none == {}
             w == world.topics
             view == client.view
             ds == << >>
  <1>0. /\ none = {} /\ (\A t : t \notin none)
        /\ \A k \in 1..Len(ds) : FALSE
    OBVIOUS
  <1> SUFFICES ASSUME server.open, client.state = "BinaryMode", up = ds, down = ds,
                      ~ server.pendingStatus
               PROVE  /\ Current("health")
                      /\ subscription = "All" => \A t \in Topics : Current(t)
    BY Zenon DEF CopiesAreCurrent, Quiet, BothOpen, IsConnected, ClientSide
  <1> HIDE DEF none, ds
  <1>1. client.state # "Closed"
    OBVIOUS
  <1>2. Informed(client, server, w, ds, ds, subscription, none)
    BY Zenon, <1>0 DEF CopiesInv
  <1>3. /\ HealthOK(client, server, w, ds, ds, subscription, none)
        /\ ScrobblingOK(client, server, w, ds, none)
        /\ subscription = "All" => EventsTold(client, server, w, ds, ds, none)
    BY Zenon, <1>1, <1>2 DEF Informed
  <1>4. /\ \A W, G : ~ LastIn(ds, W, G)
        /\ \A W : NoneOf(ds, W)
        /\ \A action : ~ IsAsked(action, ds)
    BY Zenon, <1>0 DEF LastIn, NoneOf, IsAsked
  <1>5. \A t, values : Told(t, values, view, ds) => view[t] \in values
    BY Zenon, <1>4 DEF Told
  <1> HIDE DEF w, view
  <1>6. Current("health")
    <2>1. Told("health", AsHealthy(w["health"]), view, ds)
      BY Zenon, <1>0, <1>3 DEF HealthOK, view
    <2>2. view["health"] \in AsHealthy(w["health"])
      BY Zenon, <1>5, <2>1
    <2>3. On(view["health"]) = On(w["health"])
      BY <2>2 DEF AsHealthy
    <2> QED BY <2>3 DEF Current, w, view
  <1>7. ASSUME subscription = "All", NEW t \in Topics
        PROVE  Current(t)
    <2>1. EventsTold(client, server, w, ds, ds, none)
      BY Zenon, <1>3, <1>7
    <2>2. CASE t = "delayed"
      <3>1. DelayTold(w["delayed"], view["delayed"], ds, ds)
        BY Zenon, <1>0, <1>4, <2>1 DEF EventsTold, DelayOK, view
      <3>2. On(w["delayed"]) => view["delayed"] = w["delayed"]
        BY Zenon, <1>4, <3>1 DEF DelayTold, ToldOn
      <3>3. ~ On(w["delayed"]) => view["delayed"] # Unknown /\ ~ Active(view["delayed"])
        BY Zenon, <1>4, <3>1 DEF DelayTold, ToldOff
      <3>4. IF On(w["delayed"]) THEN view["delayed"] = w["delayed"]
            ELSE view["delayed"] # Unknown /\ ~ Active(view["delayed"])
        BY Zenon, <3>2, <3>3
      <3> QED BY Zenon, <2>2, <3>4 DEF Current, w, view
    <2>3. CASE t = "health"
      BY Zenon, <1>6, <2>3
    <2>4. CASE t = "scrobbling"
      <3>1. view[t] # Unknown => Told(t, {w[t], Unknown}, view, ds)
        BY Zenon, <1>0, <1>3, <2>4 DEF ScrobblingOK, view
      <3>2. view[t] # Unknown => view[t] \in {w[t], Unknown}
        BY Zenon, <1>5, <3>1
      <3>3. view[t] # Unknown => view[t] = w[t]
        BY <3>2
      <3>4. t # "delayed" /\ t # "health"
        BY <2>4
      <3> QED BY Zenon, <2>4, <3>3, <3>4 DEF Current, w, view
    <2>5. CASE t \notin {"delayed", "health", "scrobbling"}
      <3>1. t \in PlainTopics
        BY <2>5 DEF PlainTopics
      <3>2. TopicOK(t, client, server, w, ds, ds, none)
        BY Zenon, <2>1, <3>1 DEF EventsTold
      <3>3. Told(t, {w[t]}, view, ds)
        BY Zenon, <1>0, <1>4, <3>2 DEF TopicOK, view
      <3>4. view[t] \in {w[t]}
        BY Zenon, <1>5, <3>3
      <3>5. view[t] = w[t]
        BY <3>4
      <3> QED BY Zenon, <2>5, <3>5 DEF Current, w, view
    <2> QED BY Zenon, <2>2, <2>3, <2>4, <2>5
  <1> QED BY Zenon, <1>6, <1>7

-----------------------------------------------------------------------------
(* The theorem.                                                            *)

(* What the controllers of a client show (player state, queue length,       *)
(* volume, delayed start, user, dynamic mode, wave, indexation, health and *)
(* scrobbling: UpdateView, ReceivedPlayerState, ReceivedDelayedStartInfo)  *)
(* is what the server has, whenever nothing is on its way.                 *)
THEOREM CopiesStayCurrent == FairSpec => []CopiesAreCurrent
  <1>1. Init => CopiesInv
    BY Zenon, CopiesInit
  <1>2. SessionInv /\ CopiesInv /\ [Next]_vars => CopiesInv'
    BY Zenon, CopiesNext
  <1>3. SessionInv /\ CopiesInv => CopiesAreCurrent
    BY Zenon, CopiesOfInv
  <1> QED BY <1>1, <1>2, <1>3, SessionInvariant, PTL DEF FairSpec
=============================================================================

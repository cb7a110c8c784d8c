------------------------- MODULE CustomerFeedProofs -------------------------
(***************************************************************************)
(* Proofs about CustomerFeed, for any servers, versions and numbers of     *)
(* lost connections: its types, that a connected customer misses nothing   *)
(* and, told it in order, shows it, and that its writers keep the contract *)
(* with the handlers.  The second and third are about rides no two         *)
(* statuses of which share a version.                                      *)
(***************************************************************************)
EXTENDS CustomerFeed, FiniteSetTheorems, TLAPS

-----------------------------------------------------------------------------
\* Sequences.

Elems(q) == {q[i] : i \in DOMAIN q}

LEMMA ElemsAppend ==
  ASSUME NEW S, NEW q \in Seq(S), NEW m \in S
  PROVE  /\ Append(q, m) \in Seq(S)
         /\ Elems(Append(q, m)) = Elems(q) \union {m}
<1>1. /\ Append(q, m) \in Seq(S)
      /\ DOMAIN Append(q, m) = 1..(Len(q) + 1)
      /\ DOMAIN q = 1..Len(q) /\ Len(q) \in Nat
      /\ \A i \in 1..Len(q) : Append(q, m)[i] = q[i]
      /\ Append(q, m)[Len(q) + 1] = m
  OBVIOUS
<1>2. 1..(Len(q) + 1) = 1..Len(q) \union {Len(q) + 1}
  BY <1>1
<1> QED
  BY <1>1, <1>2 DEF Elems

LEMMA ElemsTail ==
  ASSUME NEW S, NEW q \in Seq(S), q # <<>>
  PROVE  /\ Tail(q) \in Seq(S) /\ Head(q) \in S
         /\ Head(q) \in Elems(q) /\ Elems(Tail(q)) \subseteq Elems(q)
         /\ Elems(q) \subseteq Elems(Tail(q)) \union {Head(q)}
<1>1. /\ Tail(q) \in Seq(S) /\ Head(q) \in S /\ Head(q) = q[1]
      /\ Len(q) \in Nat \ {0} /\ DOMAIN q = 1..Len(q)
      /\ DOMAIN Tail(q) = 1..(Len(q) - 1)
      /\ \A i \in 1..(Len(q) - 1) : Tail(q)[i] = q[i + 1]
  OBVIOUS
<1>2. \A i \in 1..(Len(q) - 1) : i + 1 \in 1..Len(q)
  BY <1>1
<1>3. \A i \in 1..Len(q) : i = 1 \/ i - 1 \in 1..(Len(q) - 1)
  BY <1>1
<1>4. ASSUME NEW i \in 1..Len(q) PROVE q[i] \in Elems(Tail(q)) \union {Head(q)}
  <2>1. CASE i = 1
    BY <1>1, <2>1
  <2>2. CASE i # 1
    <3>1. i - 1 \in 1..(Len(q) - 1) /\ Tail(q)[i - 1] = q[i]
      BY <1>1, <1>3, <2>2
    <3> QED
      BY <1>1, <3>1 DEF Elems
  <2> QED
    BY <2>1, <2>2
<1> QED
  BY <1>1, <1>2, <1>4 DEF Elems

-----------------------------------------------------------------------------
\* Types.

\* The holder writes what the ride it read allows, and within the bound.
HolderOK ==
    LET h == actor["holder"] IN
    h.pc = "write" => /\ h.op \in Operations(h.snap.status)
                      /\ h.snap.version < MaxVersion

TypeInv == TypeOK /\ HolderOK

LEMMA Updates ==
  ASSUME NEW s, NEW op \in Operations(s), op # "BATCH"
  PROVE  op \in RideStatuses
  BY DEF Operations

LEMMA RequestedTyped == Requested \in News
  BY BoundsAssumption DEF Requested, News, Versions, RideStatuses

LEMMA TypeInit == Init => TypeInv
<1> SUFFICES ASSUME Init PROVE TypeInv
  OBVIOUS
<1>1. ride \in News /\ shown \in News /\ answer \in News
  BY RequestedTyped DEF Init
<1>2. pointer \in BOOLEAN /\ joined \in BOOLEAN /\ late \in BOOLEAN /\ shared \in BOOLEAN
  BY Zenon DEF Init
<1>3. drops \in 0..Drops /\ losses \in 0..Losses
  BY BoundsAssumption, LossesAssumption DEF Init
<1>4. /\ actor \in [Actors -> [pc : {"idle", "write", "reread", "cleanup", "mark", "publish"},
                               op : RideStatuses \union {"BATCH", "none"},
                               snap : News]]
      /\ actor["holder"].pc = "idle"
  BY RequestedTyped DEF Init, Idle, Actors
<1>5. told \subseteq RideStatuses
  BY DEF Init, RideStatuses
<1> QED
  BY <1>1, <1>2, <1>3, <1>4, <1>5 DEF Init, TypeOK, TypeInv, HolderOK

\* Only the holder's own read and write change a holder that is to write.
LEMMA HolderWaits ==
  ASSUME TypeOK, [Next]_vars, ~Write,
         \A op \in RideStatuses \union {"BATCH"} : ~Read(op),
         actor["holder"].pc = "write" \/ actor'["holder"].pc = "write"
  PROVE  actor'["holder"] = actor["holder"]
<1>1. CASE Accept
  BY <1>1 DEF Accept, TypeOK, Actors
<1>2. CASE Cleanup
  BY <1>2 DEF Cleanup, TypeOK, Actors
<1>3. ASSUME NEW a \in Actors, Announce(a) PROVE actor'["holder"] = actor["holder"]
  <2>1. \A b \in Actors : b # a => actor'[b] = actor[b]
    BY <1>3 DEF Announce, Reread, Mark, Publish, TypeOK
  <2>2. a = "holder" => actor["holder"].pc # "write" /\ actor'["holder"].pc # "write"
    BY <1>3 DEF Announce, Reread, Mark, Publish, TypeOK, Idle
  <2> QED
    BY <2>1, <2>2 DEF Actors
<1>4. CASE UNCHANGED actor
  BY <1>4
<1>5. ASSUME ~Accept, ~Cleanup, \A a \in Actors : ~Announce(a) PROVE UNCHANGED actor
  BY <1>5 DEF Next, vars, FanOut, Relay, SubscriptionLost, Connect, Disconnect,
              Hydrate, ReadPointer, ReadRide, Answer
<1> QED
  BY <1>1, <1>2, <1>3, <1>4, <1>5

LEMMA TypeStep == TypeInv /\ [Next]_vars => TypeInv'
<1> SUFFICES ASSUME TypeInv, [Next]_vars PROVE TypeInv'
  OBVIOUS
<1> USE DEF TypeOK, rideVars, feedVars, socketVars, appVars
<1>0. TypeOK /\ HolderOK
  BY DEF TypeInv
<1> DEFINE ActorTyped ==
      actor' \in [Actors -> [pc : {"idle", "write", "reread", "cleanup", "mark", "publish"},
                             op : RideStatuses \union {"BATCH", "none"},
                             snap : News]]
<1>1. ASSUME NEW op \in RideStatuses \union {"BATCH"}, Read(op) PROVE TypeInv'
  <2>1. ActorTyped
    BY <1>0, <1>1 DEF Read, Actors
  <2>2. TypeOK'
    BY <1>0, <1>1, <2>1 DEF Read
  <2>3. /\ actor'["holder"].op = op /\ actor'["holder"].snap = ride
        /\ op \in Operations(ride.status) /\ ride.version < MaxVersion
    BY <1>0, <1>1 DEF Read, Actors
  <2> QED
    BY <2>2, <2>3 DEF HolderOK, TypeInv
<1>2. CASE Write
  <2> DEFINE h == actor["holder"]
  <2>1. /\ h.pc = "write" /\ h.op \in Operations(h.snap.status)
        /\ h.snap \in News /\ h.snap.version < MaxVersion
        /\ h.op \in RideStatuses \union {"BATCH", "none"}
    BY <1>0, <1>2 DEF Write, HolderOK, Actors
  <2>2. ride' \in News
    BY <1>0, <1>2, <2>1, BoundsAssumption, Updates
       DEF Write, News, Versions, NextVersion
  <2>3. /\ ActorTyped
        /\ actor'["holder"].pc \in {"idle", "reread"}
    <3>1. CASE h.op = "BATCH"
      <4>1. actor' = [actor EXCEPT !["holder"] = Idle]
        BY <1>2, <3>1 DEF Write
      <4> QED
        BY <1>0, <4>1, RequestedTyped DEF Idle, Actors
    <3>2. CASE h.op # "BATCH"
      <4>1. actor' = [actor EXCEPT !["holder"] = [h EXCEPT !.pc = "reread"]]
        BY <1>2, <3>2 DEF Write
      <4> QED
        BY <1>0, <4>1 DEF Actors
    <3> QED
      BY <3>1, <3>2
  <2>4. shared' \in BOOLEAN
    BY <1>0, <1>2 DEF Write
  <2>5. TypeOK'
    BY <1>0, <1>2, <2>2, <2>3, <2>4 DEF Write
  <2> QED
    BY <2>3, <2>5 DEF HolderOK, TypeInv
<1>3. ASSUME ~Write, \A op \in RideStatuses \union {"BATCH"} : ~Read(op)
      PROVE  HolderOK'
  <2>1. actor'["holder"].pc = "write" => actor'["holder"] = actor["holder"]
    BY <1>0, <1>3, HolderWaits
  <2> QED
    BY <1>0, <2>1 DEF HolderOK
<1>4. ASSUME Accept PROVE TypeOK'
  <2>1. ride' \in News
    BY <1>0, <1>4, BoundsAssumption
       DEF Accept, News, Versions, NextVersion, RideStatuses
  <2>2. ActorTyped
    BY <1>0, <1>4, RequestedTyped DEF Accept, Actors, RideStatuses
  <2> QED
    BY <1>0, <1>4, <2>1, <2>2 DEF Accept
<1>5. ASSUME Cleanup PROVE TypeOK'
  BY <1>0, <1>5 DEF Cleanup, Actors
<1>6. ASSUME NEW a \in Actors, Announce(a) PROVE TypeOK'
  <2>1. CASE Reread(a)
    BY <1>0, <2>1 DEF Reread
  <2>2. CASE Mark(a)
    <3>1. actor[a].snap.version \in Versions
      BY <1>0 DEF News
    <3>2. marks' \subseteq Versions
      BY <1>0, <2>2, <3>1 DEF Mark
    <3>3. CASE actor[a].snap.version \in marks
      <4>1. actor' = [actor EXCEPT ![a] = Idle]
        BY <2>2, <3>3 DEF Mark
      <4>2. ActorTyped
        BY <1>0, <4>1, RequestedTyped DEF Idle
      <4> QED
        BY <1>0, <2>2, <3>2, <4>2 DEF Mark
    <3>4. CASE actor[a].snap.version \notin marks
      <4>1. actor' = [actor EXCEPT ![a] = [actor[a] EXCEPT !.pc = "publish"]]
        BY <2>2, <3>4 DEF Mark
      <4>2. ActorTyped
        BY <1>0, <4>1
      <4> QED
        BY <1>0, <2>2, <3>2, <4>2 DEF Mark
    <3> QED
      BY <3>3, <3>4
  <2>3. CASE Publish(a)
    <3>1. \A s \in Servers : Append(channel[s], actor[a].snap) \in Seq(News)
      BY <1>0
    <3>2. ActorTyped
      BY <1>0, <2>3, RequestedTyped DEF Publish, Idle
    <3> QED
      BY <1>0, <2>3, <3>1, <3>2 DEF Publish
  <2> QED
    BY <1>6, <2>1, <2>2, <2>3 DEF Announce
<1>7. ASSUME NEW m \in News, Shows(m) \/ UNCHANGED appVars
      PROVE  shown' \in News /\ told' \subseteq RideStatuses /\ late' \in BOOLEAN
  BY <1>0, <1>7 DEF Shows, News
<1>8. ASSUME NEW s \in Servers, FanOut(s) PROVE TypeOK'
  <2> DEFINE m == Head(channel[s])
  <2>1. m \in News /\ Tail(channel[s]) \in Seq(News)
    BY <1>0, <1>8, ElemsTail DEF FanOut
  <2>2. \A t \in Servers : Append(relay[t], m) \in Seq(News)
    BY <1>0, <2>1
  <2>3. Shows(m) \/ UNCHANGED appVars
    BY <1>8 DEF FanOut, Told
  <2>4. shown' \in News /\ told' \subseteq RideStatuses /\ late' \in BOOLEAN
    BY <1>7, <2>1, <2>3
  <2> HIDE DEF m
  <2>5. channel' = [channel EXCEPT ![s] = Tail(@)]
        /\ relay' = [t \in Servers |-> IF t \in Audience(s) \ {s}
                                         THEN Append(relay[t], m) ELSE relay[t]]
    BY <1>8 DEF FanOut, m
  <2>6. channel' \in [Servers -> Seq(News)] /\ relay' \in [Servers -> Seq(News)]
    BY <1>0, <2>1, <2>2, <2>5
  <2> QED
    BY <1>0, <1>8, <2>4, <2>6 DEF FanOut
<1>9. ASSUME NEW s \in Servers, Relay(s) PROVE TypeOK'
  <2>1. Head(relay[s]) \in News /\ Tail(relay[s]) \in Seq(News)
    BY <1>0, <1>9, ElemsTail DEF Relay
  <2>2. Shows(Head(relay[s])) \/ UNCHANGED appVars
    BY <1>9 DEF Relay, Told
  <2>3. shown' \in News /\ told' \subseteq RideStatuses /\ late' \in BOOLEAN
    BY <1>7, <2>1, <2>2
  <2> QED
    BY <1>0, <1>9, <2>1, <2>3 DEF Relay
<1>10. ASSUME NEW s \in Servers, SubscriptionLost(s) PROVE TypeOK'
  <2>1. <<>> \in Seq(News) /\ losses' \in 0..Losses
    BY <1>0, <1>10, LossesAssumption DEF SubscriptionLost
  <2> QED
    BY <1>0, <1>10, <2>1 DEF SubscriptionLost
<1>11. ASSUME NEW s \in Servers, Connect(s) PROVE TypeOK'
  BY <1>0, <1>11 DEF Connect, JoinsFirst
<1>12. ASSUME Disconnect PROVE TypeOK'
  <2>1. drops' \in 0..Drops
    BY <1>0, <1>12, BoundsAssumption DEF Disconnect
  <2>2. joined' \in BOOLEAN
    BY <1>12, Zenon DEF Disconnect
  <2> QED
    BY <1>0, <1>12, <2>1, <2>2 DEF Disconnect
<1>13. ASSUME ReadPointer \/ ReadRide PROVE TypeOK'
  BY <1>0, <1>13 DEF ReadPointer, ReadRide
<1>14. ASSUME Answer PROVE TypeOK'
  <2>1. shown' \in News /\ told' \subseteq RideStatuses /\ late' \in BOOLEAN
    BY <1>0, <1>7, <1>14 DEF Answer
  <2> QED
    BY <1>0, <1>14, <2>1, RequestedTyped DEF Answer
<1>15. ASSUME UNCHANGED vars PROVE TypeOK'
  BY <1>0, <1>15 DEF vars
<1> QED
  BY <1>1, <1>2, <1>3, <1>4, <1>5, <1>6, <1>8, <1>9, <1>10, <1>11, <1>12, <1>13,
     <1>14, <1>15 DEF Next, Hydrate, TypeInv

\* Every variable of the feed keeps its type.
THEOREM FeedTypeOK == Spec => []TypeOK
<1>1. TypeInv => TypeOK
  BY DEF TypeInv
<1> QED
  BY <1>1, TypeInit, TypeStep, PTL DEF Spec

-----------------------------------------------------------------------------
\* The inductive invariant.

\* The table of transitions has no cycle: a ride never returns to a status.
Rank == [s \in RideStatuses |->
    CASE s = "REQUESTED" -> 0 [] s = "DISPATCHING" -> 1 [] s = "ACCEPTED" -> 2
      [] s = "ARRIVING" -> 3 [] s = "ONGOING" -> 4 [] s = "COMPLETED" -> 5
      [] s = "CANCELLED" -> 6]

\* The ride and every copy of it, the first one always among them.
AllNews ==
    {ride, shown, answer, Requested} \union {actor[a].snap : a \in Actors}
    \union UNION {Elems(channel[s]) \union Elems(relay[s]) : s \in Servers}

\* Copies are no newer than the ride, and newer ones are further on.
InOrder ==
    /\ \A m \in AllNews : m.version <= ride.version
    /\ \A m, n \in AllNews :
         m.version <= n.version => Rank[m.status] <= Rank[n.status]

\* A copy that has the status of the ride.
Current(m) == m.status = ride.status

\* A connected socket has joined its room before anything is read for it.
SessionOK ==
    /\ home = NoServer <=> session = "off"
    /\ home # NoServer => joined

\* The servers that have not yet handled a current copy.
Carriers == {s \in Servers : \E m \in Elems(channel[s]) : Current(m)}

\* A connected customer was told the status, or it has been sent to it and cannot
\* be lost any more: the servers that missed it are fewer than all.
Reaching ==
    home # NoServer =>
      \/ ride.status \in told
      \/ session \in {"pointer", "snapshot", "fetch"}
      \/ session = "answer" /\ Current(answer)
      \/ \E m \in Elems(relay[home]) : Current(m)
      \/ \E a \in Actors : actor[a].pc = "publish" /\ Current(actor[a].snap)
      \/ Cardinality(Carriers) + losses >= Cardinality(Servers)

\* A handler is on its way to announcing the status.
Coming ==
    \E a \in Actors :
      \/ actor[a].pc = "reread"
      \/ /\ actor[a].pc \in {"cleanup", "mark"}
         /\ Current(actor[a].snap)
         /\ actor[a].snap.version \notin marks

\* A version that is marked is not newer than the ride, and is being sent.
MarksOK ==
    /\ \A v \in marks : v <= ride.version
    /\ ride.version \in marks => Reaching

Delivery == Reaching \/ Coming

\* Nothing but an accept gets between the holder's read and its write.
SnapOK ==
    LET h == actor["holder"] IN
    h.pc = "write" =>
      \/ ride = h.snap
      \/ /\ h.snap.status = "DISPATCHING"
         /\ ride = [status |-> "ACCEPTED", version |-> h.snap.version + 1]

\* Told in order, the customer was told nothing that is further on than what
\* the app shows.
ScreenOK == late \/ \A s \in told : Rank[s] <= Rank[shown.status]

\* What holds while no two statuses share a version.
Sound == SnapOK /\ InOrder /\ MarksOK /\ Delivery /\ ScreenOK

IInv == TypeInv /\ SessionOK /\ (shared \/ Sound)

-----------------------------------------------------------------------------
\* The order of the copies.

LEMMA RankValues ==
  /\ Rank["REQUESTED"] = 0 /\ Rank["DISPATCHING"] = 1 /\ Rank["ACCEPTED"] = 2
  /\ Rank["ARRIVING"] = 3 /\ Rank["ONGOING"] = 4 /\ Rank["COMPLETED"] = 5
  /\ Rank["CANCELLED"] = 6
  BY DEF Rank, RideStatuses

LEMMA Forward ==
  ASSUME NEW x, NEW y, <<x, y>> \in RideTransitions,
         y = "DISPATCHING" => x = "REQUESTED"
  PROVE  Rank[x] <= Rank[y]
<1>1. \/ x = "REQUESTED" /\ y \in {"DISPATCHING", "CANCELLED"}
      \/ x = "DISPATCHING" /\ y \in {"ACCEPTED", "CANCELLED"}
      \/ x = "ACCEPTED" /\ y \in {"ARRIVING", "CANCELLED"}
      \/ x = "ARRIVING" /\ y \in {"ONGOING", "CANCELLED"}
      \/ x = "ONGOING" /\ y \in {"COMPLETED", "CANCELLED"}
  BY DEF RideTransitions
<1> QED
  BY <1>1, RankValues

LEMMA RankFacts ==
  /\ \A s \in RideStatuses : Rank[s] \in 0..6
  /\ \A s, t \in RideStatuses : Rank[s] = Rank[t] => s = t
  BY DEF Rank, RideStatuses

LEMMA NewsTyped == TypeOK => AllNews \subseteq News
<1> SUFFICES ASSUME TypeOK PROVE AllNews \subseteq News
  OBVIOUS
<1>1. ASSUME NEW s \in Servers
      PROVE Elems(channel[s]) \subseteq News /\ Elems(relay[s]) \subseteq News
  BY DEF TypeOK, Elems
<1> QED
  BY <1>1, RequestedTyped DEF TypeOK, AllNews

\* No step makes news up: what is told was in the hash.
LEMMA NewsStep ==
  ASSUME TypeOK, TypeOK', Next
  PROVE  AllNews' \subseteq AllNews \union {ride'}
<1> USE DEF rideVars, feedVars, socketVars, appVars
<1>0. /\ \A a \in Actors : actor[a].snap \in AllNews
      /\ \A s \in Servers : Elems(channel[s]) \subseteq AllNews
      /\ \A s \in Servers : Elems(relay[s]) \subseteq AllNews
      /\ ride \in AllNews /\ shown \in AllNews /\ answer \in AllNews
      /\ Requested \in AllNews
  BY DEF AllNews
<1> DEFINE Kept ==
      /\ shown' \in AllNews \union {ride'} /\ answer' \in AllNews \union {ride'}
      /\ \A a \in Actors : actor'[a].snap \in AllNews \union {ride'}
      /\ \A s \in Servers : Elems(channel'[s]) \subseteq AllNews
      /\ \A s \in Servers : Elems(relay'[s]) \subseteq AllNews
<1> SUFFICES Kept
  BY DEF AllNews
<1>1. CASE Write
  <2>1. /\ UNCHANGED <<shown, answer, channel, relay>>
        /\ \A a \in Actors : actor'[a].snap \in {actor[a].snap, Requested}
    BY <1>1 DEF Write, TypeOK, Idle
  <2> QED
    BY <1>0, <2>1
<1>13. ASSUME NEW op \in RideStatuses \union {"BATCH"}, Read(op) PROVE Kept
  <2>1. /\ UNCHANGED <<shown, answer, channel, relay>>
        /\ \A a \in Actors : actor'[a].snap \in {actor[a].snap, ride}
    BY <1>13 DEF Read, TypeOK
  <2> QED
    BY <1>0, <2>1
<1>2. CASE Accept
  <2>1. /\ UNCHANGED <<shown, answer, channel, relay>>
        /\ \A a \in Actors : actor'[a].snap \in {actor[a].snap, Requested}
    BY <1>2 DEF Accept, TypeOK
  <2> QED
    BY <1>0, <2>1
<1>3. CASE Cleanup
  <2>1. /\ UNCHANGED <<shown, answer, channel, relay>>
        /\ \A a \in Actors : actor'[a].snap = actor[a].snap
    BY <1>3 DEF Cleanup, TypeOK
  <2> QED
    BY <1>0, <2>1
<1>4. ASSUME NEW b \in Actors, Reread(b) PROVE Kept
  <2>1. /\ UNCHANGED <<shown, answer, channel, relay>>
        /\ \A a \in Actors : actor'[a].snap \in {actor[a].snap, ride'}
    BY <1>4 DEF Reread, TypeOK
  <2> QED
    BY <1>0, <2>1
<1>5. ASSUME NEW b \in Actors, Mark(b) PROVE Kept
  <2>1. /\ UNCHANGED <<shown, answer, channel, relay>>
        /\ \A a \in Actors : actor'[a].snap \in {actor[a].snap, Requested}
    BY <1>5 DEF Mark, TypeOK, Idle
  <2> QED
    BY <1>0, <2>1
<1>6. ASSUME NEW b \in Actors, Publish(b) PROVE Kept
  <2>1. /\ UNCHANGED <<shown, answer, relay>>
        /\ \A a \in Actors : actor'[a].snap \in {actor[a].snap, Requested}
        /\ \A s \in Servers :
             Elems(channel'[s]) = Elems(channel[s]) \union {actor[b].snap}
    <3>1. \A s \in Servers : channel[s] \in Seq(News)
      BY DEF TypeOK
    <3>2. actor[b].snap \in News
      BY DEF TypeOK
    <3>3. \A s \in Servers : channel'[s] = Append(channel[s], actor[b].snap)
      BY <1>6 DEF Publish
    <3>4. \A s \in Servers :
            Elems(channel'[s]) = Elems(channel[s]) \union {actor[b].snap}
      <4> TAKE s \in Servers
      <4>1. Elems(Append(channel[s], actor[b].snap))
              = Elems(channel[s]) \union {actor[b].snap}
        BY <3>1, <3>2, ElemsAppend
      <4> QED
        BY <3>3, <4>1
    <3> QED
      BY <1>6, <3>4 DEF Publish, TypeOK, Idle
  <2> QED
    BY <1>0, <2>1
<1>7. ASSUME NEW t \in Servers, FanOut(t) PROVE Kept
  <2>1. /\ UNCHANGED <<actor, answer>>
        /\ shown' \in {shown, Head(channel[t])}
        /\ Head(channel[t]) \in AllNews
        /\ \A s \in Servers : Elems(channel'[s]) \subseteq Elems(channel[s])
        /\ \A s \in Servers :
             Elems(relay'[s]) \subseteq Elems(relay[s]) \union {Head(channel[t])}
    <3>1. channel[t] \in Seq(News) /\ channel[t] # <<>>
          /\ \A s \in Servers : relay[s] \in Seq(News)
      BY <1>7 DEF TypeOK, FanOut
    <3>2. /\ Head(channel[t]) \in Elems(channel[t]) /\ Head(channel[t]) \in News
          /\ Elems(Tail(channel[t])) \subseteq Elems(channel[t])
      BY <3>1, ElemsTail
    <3>3. \A s \in Servers : channel'[s] \in {channel[s], Tail(channel[s])}
          /\ (s # t => channel'[s] = channel[s])
      BY <1>7 DEF FanOut, TypeOK
    <3>4. \A s \in Servers : relay'[s] \in {relay[s], Append(relay[s], Head(channel[t]))}
      BY <1>7 DEF FanOut
    <3>5. \A s \in Servers :
            Elems(relay'[s]) \subseteq Elems(relay[s]) \union {Head(channel[t])}
      <4> TAKE s \in Servers
      <4>1. Elems(Append(relay[s], Head(channel[t])))
              = Elems(relay[s]) \union {Head(channel[t])}
        BY <3>1, <3>2, ElemsAppend
      <4> QED
        BY <3>4, <4>1
    <3> QED
      BY <1>0, <1>7, <3>2, <3>3, <3>5 DEF FanOut, Told, Shows
  <2> QED
    BY <1>0, <2>1
<1>8. ASSUME NEW t \in Servers, Relay(t) PROVE Kept
  <2>1. /\ UNCHANGED <<actor, answer, channel>>
        /\ shown' \in {shown, Head(relay[t])}
        /\ Head(relay[t]) \in AllNews
        /\ \A s \in Servers : Elems(relay'[s]) \subseteq Elems(relay[s])
    <3>1. relay[t] \in Seq(News) /\ relay[t] # <<>>
      BY <1>8 DEF TypeOK, Relay
    <3>2. /\ Head(relay[t]) \in Elems(relay[t])
          /\ Elems(Tail(relay[t])) \subseteq Elems(relay[t])
      BY <3>1, ElemsTail
    <3>3. \A s \in Servers : relay'[s] = IF s = t THEN Tail(relay[s]) ELSE relay[s]
      BY <1>8 DEF Relay, TypeOK
    <3> QED
      BY <1>0, <1>8, <3>2, <3>3 DEF Relay, Told, Shows
  <2> QED
    BY <1>0, <2>1
<1>9. ASSUME NEW t \in Servers, SubscriptionLost(t) PROVE Kept
  <2>1. /\ UNCHANGED <<shown, answer, actor, relay>>
        /\ \A s \in Servers : Elems(channel'[s]) \subseteq Elems(channel[s])
    <3>1. \A s \in Servers : channel'[s] = IF s = t THEN <<>> ELSE channel[s]
      BY <1>9 DEF SubscriptionLost, TypeOK
    <3>2. Elems(<<>>) = {}
      BY DEF Elems
    <3> QED
      BY <1>9, <3>1, <3>2 DEF SubscriptionLost
  <2> QED
    BY <1>0, <2>1
<1>10. ASSUME NEW t \in Servers, Connect(t) PROVE Kept
  <2>1. UNCHANGED <<shown, answer, actor, channel, relay>>
    BY <1>10 DEF Connect
  <2> QED
    BY <1>0, <2>1
<1>11. CASE Disconnect
  BY <1>0, <1>11 DEF Disconnect
<1>12. CASE Hydrate
  <2>1. UNCHANGED <<actor, channel, relay>> /\ shown' \in {shown, answer}
        /\ answer' \in {answer, ride', Requested}
    BY <1>12 DEF Hydrate, ReadPointer, ReadRide, Answer, Shows
  <2> QED
    BY <1>0, <2>1
<1> QED
  BY <1>0, <1>1, <1>2, <1>3, <1>4, <1>5, <1>6, <1>7, <1>8, <1>9, <1>10, <1>11, <1>12,
     <1>13 DEF Next, Announce

LEMMA InOrderInit == Init => InOrder
<1> SUFFICES ASSUME Init PROVE InOrder
  OBVIOUS
<1>1. \A s \in Servers : Elems(channel[s]) = {} /\ Elems(relay[s]) = {}
  BY DEF Init, Elems
<1>2. AllNews = {ride}
  BY <1>1 DEF Init, AllNews, Idle, Actors
<1>3. ride.version \in Nat /\ Rank[ride.status] \in 0..6
  BY RankFacts DEF Init, Requested, RideStatuses
<1> QED
  BY <1>2, <1>3 DEF InOrder

\* Nothing but an accept gets between the holder's read and its write: the
\* accept finds a ride of the status that the holder read.
LEMMA SnapStep ==
  ASSUME TypeInv, SnapOK, [Next]_vars PROVE SnapOK'
<1> USE DEF rideVars, feedVars, socketVars, appVars
<1>0. TypeOK
  BY DEF TypeInv
<1>1. ASSUME NEW op \in RideStatuses \union {"BATCH"}, Read(op) PROVE SnapOK'
  <2>1. actor'["holder"].snap = ride /\ ride' = ride
    BY <1>0, <1>1 DEF Read, TypeOK, Actors
  <2> QED
    BY <2>1 DEF SnapOK
<1>2. CASE Write
  <2>1. actor'["holder"].pc \in {"idle", "reread"}
    BY <1>0, <1>2 DEF Write, TypeOK, Actors, Idle
  <2> QED
    BY <2>1 DEF SnapOK
<1>3. ASSUME ~Write, \A op \in RideStatuses \union {"BATCH"} : ~Read(op)
      PROVE  SnapOK'
  <2>1. SUFFICES ASSUME actor'["holder"].pc = "write" PROVE SnapOK'
    BY DEF SnapOK
  <2>2. actor'["holder"] = actor["holder"]
    BY <1>0, <1>3, <2>1, HolderWaits
  <2>3. CASE Accept
    <3>1. ride.status = "DISPATCHING"
          /\ ride' = [status |-> "ACCEPTED", version |-> ride.version + 1]
      BY <2>3 DEF Accept, NextVersion
    <3> QED
      BY <2>1, <2>2, <3>1 DEF SnapOK
  <2>4. CASE ~Accept
    <3>1. ride' = ride
      BY <1>3, <2>4 DEF Next, vars, Cleanup, Announce, Reread, Mark, Publish, FanOut,
              Relay, SubscriptionLost, Connect, Disconnect, Hydrate, ReadPointer,
              ReadRide, Answer
    <3> QED
      BY <2>1, <2>2, <3>1 DEF SnapOK
  <2> QED
    BY <2>3, <2>4
<1> QED
  BY <1>1, <1>2, <1>3

\* What writes the hash and shares no version makes it a newer version, no
\* earlier in the table.
LEMMA WriteRide ==
  ASSUME TypeInv, SnapOK, Write, ~shared'
  PROVE  \/ ride' = ride /\ actor["holder"].op = "BATCH"
         \/ /\ ride'.version = ride.version + 1
            /\ Rank[ride.status] <= Rank[ride'.status]
            /\ actor["holder"].op = "BATCH" => ride'.status = ride.status
<1> DEFINE h == actor["holder"]
<1>1. /\ h.pc = "write" /\ h.op \in Operations(h.snap.status)
      /\ h.snap \in News /\ ride \in News
  BY DEF TypeInv, TypeOK, HolderOK, Write, Actors
<1>2. /\ ride' = [status |-> IF h.op = "BATCH" THEN ride.status ELSE h.op,
                  version |-> h.snap.version + 1]
      /\ h.op = "BATCH" \/ ride = h.snap
  BY DEF Write, NextVersion
<1>3. ride.status \in RideStatuses /\ Rank[ride.status] \in 0..6
  BY <1>1, RankFacts DEF News
<1>4. CASE h.op = "BATCH"
  <2>1. CASE ride = h.snap
    BY <1>2, <1>3, <1>4, <2>1
  <2>2. CASE ride = [status |-> "ACCEPTED", version |-> h.snap.version + 1]
    BY <1>2, <1>4, <2>2
  <2> QED
    BY <1>1, <2>1, <2>2 DEF SnapOK
<1>5. CASE h.op # "BATCH"
  <2>1. ride = h.snap /\ ride'.status = h.op /\ ride'.version = ride.version + 1
    BY <1>2, <1>5
  <2>2. /\ <<ride.status, h.op>> \in RideTransitions
        /\ h.op = "DISPATCHING" => ride.status = "REQUESTED"
    BY <1>1, <1>5, <2>1 DEF Operations
  <2>3. Rank[ride.status] <= Rank[h.op]
    BY <2>2, Forward
  <2> QED
    BY <1>5, <2>1, <2>3
<1> QED
  BY <1>4, <1>5

LEMMA RideStep ==
  ASSUME TypeInv, SnapOK, Next, ~shared'
  PROVE  \/ ride' = ride
         \/ /\ ride'.version = ride.version + 1
            /\ Rank[ride.status] <= Rank[ride'.status]
<1> USE DEF rideVars, feedVars, socketVars, appVars
<1>1. CASE Accept
  <2>1. ride.status = "DISPATCHING" /\ ride'.status = "ACCEPTED"
        /\ ride'.version = ride.version + 1
    BY <1>1 DEF Accept, NextVersion
  <2> QED
    BY <2>1, RankValues
<1>2. ASSUME ~Accept, ~Write PROVE ride' = ride
  BY <1>2 DEF Next, Read, Cleanup, Announce, Reread, Mark, Publish, FanOut, Relay,
              SubscriptionLost, Connect, Disconnect, Hydrate, ReadPointer,
              ReadRide, Answer
<1> QED
  BY <1>1, <1>2, WriteRide

LEMMA InOrderStep ==
  ASSUME TypeInv, TypeOK', SnapOK, InOrder, [Next]_vars, ~shared' PROVE InOrder'
<1>0. TypeOK
  BY DEF TypeInv
<1>1. CASE UNCHANGED vars
  BY <1>1 DEF vars, InOrder, AllNews, Elems
<1>2. CASE Next
  <2>1. AllNews' \subseteq AllNews \union {ride'} /\ ride \in AllNews
    BY <1>0, <1>2, NewsStep DEF AllNews
  <2>2. \A m \in AllNews \union {ride'} :
          m.version \in Nat /\ Rank[m.status] \in 0..6
    <3>1. AllNews \union {ride'} \subseteq News
      BY <1>0, NewsTyped DEF TypeOK
    <3>2. \A m \in News : m.version \in Nat /\ m.status \in RideStatuses
      BY BoundsAssumption DEF News, Versions
    <3> QED
      BY <3>1, <3>2, RankFacts
  <2>3. \A m \in AllNews : m.version <= ride.version
        /\ Rank[m.status] <= Rank[ride.status]
    BY <2>1, <2>2 DEF InOrder
  <2>4. CASE ride' = ride
    BY <2>1, <2>4 DEF InOrder
  <2>5. CASE /\ ride'.version = ride.version + 1
             /\ Rank[ride.status] <= Rank[ride'.status]
    <3>1. \A m \in AllNews : m.version < ride'.version
          /\ Rank[m.status] <= Rank[ride'.status]
      BY <2>1, <2>2, <2>3, <2>5
    <3>2. \A m \in AllNews : ~(ride'.version <= m.version)
      BY <2>2, <3>1
    <3> QED
      BY <2>1, <2>2, <3>1, <3>2 DEF InOrder
  <2> QED
    BY <1>2, <2>4, <2>5, RideStep
<1> QED
  BY <1>1, <1>2

\* A copy that is at least as new as a current one is current.
LEMMA Later ==
  ASSUME TypeOK, InOrder, NEW m \in AllNews, NEW n \in AllNews,
         m.version <= n.version, Current(m)
  PROVE  Current(n)
<1>1. ride \in AllNews /\ n.version <= ride.version
  BY DEF AllNews, InOrder
<1>2. Rank[m.status] <= Rank[n.status] /\ Rank[n.status] <= Rank[ride.status]
  BY <1>1 DEF InOrder
<1>3. n.status \in RideStatuses /\ ride.status \in RideStatuses
  BY <1>1, NewsTyped DEF News
<1> QED
  BY <1>2, <1>3, RankFacts DEF Current

-----------------------------------------------------------------------------
\* The connection.

LEMMA SessionStep == TypeOK /\ SessionOK /\ [Next]_vars => SessionOK'
<1> SUFFICES ASSUME TypeOK, SessionOK, [Next]_vars PROVE SessionOK'
  OBVIOUS
<1> USE DEF SessionOK, rideVars, feedVars, socketVars
<1>1. CASE UNCHANGED <<home, joined, session>>
  BY <1>1
<1>2. ASSUME NEW s \in Servers, Connect(s) PROVE SessionOK'
  BY <1>2, ServersAssumption DEF Connect, JoinsFirst
<1>3. CASE Disconnect
  BY <1>3, Zenon DEF Disconnect
<1>4. CASE ReadPointer
  BY <1>4 DEF ReadPointer
<1>5. CASE ReadRide
  BY <1>5 DEF ReadRide
<1>6. CASE Answer
  BY <1>6 DEF Answer
<1>7. ASSUME ~Disconnect, ~Hydrate, \A s \in Servers : ~Connect(s)
      PROVE UNCHANGED <<home, joined, session>>
  BY <1>7 DEF Next, vars, Read, Write, Accept, Cleanup, Announce, Reread, Mark, Publish,
              FanOut, Relay, SubscriptionLost
<1> QED
  BY <1>1, <1>2, <1>3, <1>4, <1>5, <1>6, <1>7 DEF Hydrate

-----------------------------------------------------------------------------
\* What is reaching the customer keeps reaching it, while the status stays.

LEMMA CarriersFinite ==
  /\ Carriers \subseteq Servers /\ IsFiniteSet(Carriers)
  /\ Cardinality(Carriers) \in Nat /\ Cardinality(Servers) \in Nat
<1>1. Carriers \subseteq Servers
  BY DEF Carriers
<1> QED
  BY <1>1, ServersAssumption, FS_Subset, FS_CardinalityType

\* A step that leaves alone what carries the status.
LEMMA ReachingKept ==
  ASSUME Reaching, ride'.status = ride.status,
         UNCHANGED <<home, told, session, answer, relay, channel, losses>>,
         \A a \in Actors : actor[a].pc = "publish" => actor'[a] = actor[a]
  PROVE  Reaching'
<1>1. Carriers' = Carriers
  BY DEF Carriers, Current
<1> QED
  BY <1>1 DEF Reaching, Current

LEMMA ReachingPublish ==
  ASSUME TypeOK, TypeOK', Reaching, NEW b \in Actors, Publish(b)
  PROVE  Reaching'
<1> USE DEF rideVars, feedVars, socketVars, appVars
<1>1. UNCHANGED <<ride, home, told, session, answer, relay, losses>>
      /\ \A a \in Actors : a # b => actor'[a] = actor[a]
  BY DEF Publish, TypeOK
<1>2. ASSUME NEW s \in Servers
      PROVE  Elems(channel'[s]) = Elems(channel[s]) \union {actor[b].snap}
  <2>1. channel[s] \in Seq(News) /\ actor[b].snap \in News
        /\ channel'[s] = Append(channel[s], actor[b].snap)
    BY DEF TypeOK, Publish
  <2> QED
    BY <2>1, ElemsAppend
<1>3. CASE Current(actor[b].snap)
  <2>1. Carriers' = Servers
    BY <1>1, <1>2, <1>3 DEF Carriers, Current
  <2>2. Cardinality(Servers) \in Nat /\ losses' \in Nat
    BY CarriersFinite DEF TypeOK
  <2>3. (Cardinality(Carriers) + losses >= Cardinality(Servers))'
    BY <2>1, <2>2
  <2> QED
    BY <2>3 DEF Reaching
<1>4. CASE ~Current(actor[b].snap)
  <2>1. Carriers' = Carriers
    BY <1>1, <1>2, <1>4 DEF Carriers, Current
  <2>2. \A a \in Actors : actor[a].pc = "publish" /\ Current(actor[a].snap)
          => actor'[a] = actor[a]
    BY <1>1, <1>4
  <2> QED
    BY <1>1, <2>1, <2>2 DEF Reaching, Current
<1> QED
  BY <1>3, <1>4

LEMMA ReachingFanOut ==
  ASSUME TypeOK, TypeOK', InOrder, SessionOK, Reaching,
         NEW t \in Servers, FanOut(t)
  PROVE  Reaching'
<1> USE DEF rideVars, feedVars, socketVars, appVars
<1> DEFINE m == Head(channel[t])
<1>1. UNCHANGED <<ride, actor, home, session, answer, losses>>
  BY DEF FanOut
<1>2. channel[t] \in Seq(News) /\ channel[t] # <<>>
      /\ \A s \in Servers : relay[s] \in Seq(News)
  BY DEF TypeOK, FanOut
<1>3. /\ m \in News /\ m \in Elems(channel[t])
      /\ Elems(Tail(channel[t])) \subseteq Elems(channel[t])
      /\ Elems(channel[t]) \subseteq Elems(Tail(channel[t])) \union {m}
  BY <1>2, ElemsTail
<1>5. \A s \in Servers : channel'[s] = IF s = t THEN Tail(channel[s]) ELSE channel[s]
  BY DEF FanOut, TypeOK
<1>6. \A s \in Servers : relay'[s] = IF s # t THEN Append(relay[s], m) ELSE relay[s]
  BY DEF FanOut, Audience
<1>7. /\ told \subseteq told'
      /\ home = t /\ joined => m.status \in told'
  BY DEF FanOut, Told, Shows
<1> HIDE DEF m
<1>8. ASSUME NEW s \in Servers, s # t
      PROVE  Elems(relay'[s]) = Elems(relay[s]) \union {m}
  BY <1>2, <1>3, <1>6, <1>8, ElemsAppend
<1>9. SUFFICES ASSUME home # NoServer PROVE Reaching'
  BY <1>1 DEF Reaching
<1>10. home \in Servers /\ joined
  BY <1>9 DEF TypeOK, SessionOK
<1>11. ride.status \in told => ride'.status \in told'
  BY <1>1, <1>7
<1>12. (\E n \in Elems(relay[home]) : Current(n))
         => (\E n \in Elems(relay[home]) : Current(n))'
  BY <1>1, <1>6, <1>8, <1>10 DEF Current
<1>13. CASE Current(m)
  <2>1. CASE home = t
    BY <1>1, <1>7, <1>10, <1>13, <2>1 DEF Reaching, Current
  <2>2. CASE home # t
    <3>1. m \in Elems(relay'[home'])
      BY <1>1, <1>8, <1>10, <2>2
    <3> QED
      BY <1>1, <1>13, <3>1 DEF Reaching, Current
  <2> QED
    BY <2>1, <2>2
<1>14. CASE ~Current(m)
  <2>1. \A s \in Servers : (\E n \in Elems(channel'[s]) : Current(n))
                             <=> (\E n \in Elems(channel[s]) : Current(n))
    BY <1>3, <1>5, <1>14
  <2>2. Carriers' = Carriers
    BY <1>1, <2>1 DEF Carriers, Current
  <2> QED
    BY <1>1, <1>9, <1>11, <1>12, <2>2 DEF Reaching, Current
<1> QED
  BY <1>13, <1>14

LEMMA ReachingRelay ==
  ASSUME TypeOK, TypeOK', InOrder, SessionOK, Reaching,
         NEW t \in Servers, Relay(t)
  PROVE  Reaching'
<1> USE DEF rideVars, feedVars, socketVars, appVars
<1> DEFINE m == Head(relay[t])
<1>1. UNCHANGED <<ride, actor, channel, home, session, answer, losses>>
  BY DEF Relay
<1>2. relay[t] \in Seq(News) /\ relay[t] # <<>>
  BY DEF TypeOK, Relay
<1>3. /\ m \in Elems(relay[t])
      /\ Elems(relay[t]) \subseteq Elems(Tail(relay[t])) \union {m}
  BY <1>2, ElemsTail
<1>5. \A s \in Servers : relay'[s] = IF s = t THEN Tail(relay[s]) ELSE relay[s]
  BY DEF Relay, TypeOK
<1>6. /\ told \subseteq told'
      /\ home = t /\ joined => m.status \in told'
  BY DEF Relay, Told, Shows
<1> HIDE DEF m
<1>7. SUFFICES ASSUME home # NoServer PROVE Reaching'
  BY <1>1 DEF Reaching
<1>8. home \in Servers /\ joined
  BY <1>7 DEF TypeOK, SessionOK
<1>9. ride.status \in told => ride'.status \in told'
  BY <1>1, <1>6
<1>10. (\E n \in Elems(relay[home]) : Current(n))
         => ride'.status \in told' \/ (\E n \in Elems(relay[home]) : Current(n))'
  <2>1. CASE home = t /\ Current(m)
    BY <1>1, <1>6, <1>8, <2>1 DEF Current
  <2>2. CASE ~(home = t /\ Current(m))
    BY <1>1, <1>3, <1>5, <1>8, <2>2 DEF Current
  <2> QED
    BY <2>1, <2>2
<1>11. Carriers' = Carriers
  BY <1>1 DEF Carriers, Current
<1> QED
  BY <1>1, <1>7, <1>9, <1>10, <1>11 DEF Reaching, Current

LEMMA ReachingLost ==
  ASSUME TypeOK, TypeOK', Reaching, NEW t \in Servers, SubscriptionLost(t)
  PROVE  Reaching'
<1> USE DEF rideVars, feedVars, socketVars, appVars
<1>1. /\ UNCHANGED <<ride, actor, relay, home, told, session, answer>>
      /\ losses' = losses + 1
  BY DEF SubscriptionLost
<1>2. \A s \in Servers : channel'[s] = IF s = t THEN <<>> ELSE channel[s]
  BY DEF SubscriptionLost, TypeOK
<1>3. Elems(<<>>) = {}
  BY DEF Elems
<1>4. Carriers' = Carriers \ {t}
  BY <1>1, <1>2, <1>3 DEF Carriers, Current
<1>5. Cardinality(Carriers \ {t}) >= Cardinality(Carriers) - 1
      /\ Cardinality(Carriers \ {t}) \in Nat
  <2>1. IsFiniteSet(Carriers \ {t})
        /\ Cardinality(Carriers \ {t})
             = IF t \in Carriers THEN Cardinality(Carriers) - 1 ELSE Cardinality(Carriers)
    BY CarriersFinite, FS_RemoveElement
  <2>2. Cardinality(Carriers \ {t}) \in Nat
    BY <2>1, FS_CardinalityType
  <2> QED
    BY <2>1, <2>2, CarriersFinite
<1>6. losses \in Nat
  BY DEF TypeOK
<1>7. Cardinality(Carriers) + losses >= Cardinality(Servers)
        => (Cardinality(Carriers) + losses >= Cardinality(Servers))'
  BY <1>1, <1>4, <1>5, <1>6, CarriersFinite
<1> QED
  BY <1>1, <1>7 DEF Reaching, Current

LEMMA ReachingHydrate ==
  ASSUME TypeOK, TypeOK', InOrder, Reaching, Hydrate
  PROVE  Reaching'
<1> USE DEF rideVars, feedVars, socketVars, appVars
<1>1. UNCHANGED <<ride, actor, channel, relay, home, losses>>
  BY DEF Hydrate, ReadPointer, ReadRide, Answer
<1>2. Carriers' = Carriers
  BY <1>1 DEF Carriers, Current
<1>3. CASE ReadPointer
  BY <1>3 DEF ReadPointer, Reaching
<1>4. CASE ReadRide
  BY <1>4 DEF ReadRide, Reaching, Current
<1>5. CASE Answer
  <2>1. session = "answer" /\ told' = told \union {answer.status}
    BY <1>5 DEF Answer, Shows
  <2>2. ride.status \in told \/ Current(answer) => ride'.status \in told'
    BY <1>1, <2>1 DEF Current
  <2> QED
    BY <1>1, <1>2, <2>1, <2>2 DEF Reaching, Current
<1> QED
  BY <1>3, <1>4, <1>5 DEF Hydrate

-----------------------------------------------------------------------------
\* What the handlers do about a status that nobody has been sent yet.

\* A write makes a version nobody has marked.
LEMMA NewVersion ==
  ASSUME TypeOK, MarksOK, ride'.version = ride.version + 1, UNCHANGED marks
  PROVE  MarksOK'
<1>1. ride.version \in Nat /\ \A v \in marks : v \in Nat /\ v <= ride.version
  BY BoundsAssumption DEF TypeOK, News, Versions, MarksOK
<1>2. \A v \in marks : v <= ride.version + 1 /\ v # ride.version + 1
  BY <1>1
<1> QED
  BY <1>2 DEF MarksOK

LEMMA WriteStep ==
  ASSUME TypeInv, TypeOK', SnapOK, MarksOK, Delivery, Write, ~shared'
  PROVE  MarksOK' /\ Delivery'
<1> USE DEF rideVars, feedVars, socketVars, appVars
<1>0. TypeOK
  BY DEF TypeInv
<1>1. actor["holder"].pc = "write"
      /\ UNCHANGED <<marks, home, told, session, answer, relay, channel, losses>>
  BY DEF Write
<1>2. \A a \in Actors : a # "holder" => actor'[a] = actor[a]
  BY <1>0 DEF Write, TypeOK
<1>3. ASSUME ride'.status = ride.status PROVE (Reaching => Reaching') /\ (Coming => Coming')
  <2>1. \A a \in Actors : actor[a].pc # "write" => actor'[a] = actor[a]
    BY <1>1, <1>2
  <2>2. Reaching => Reaching'
    BY <1>1, <1>3, <2>1, ReachingKept
  <2> QED
    BY <1>1, <1>3, <2>1, <2>2 DEF Coming, Current
<1>4. CASE ride' = ride
  BY <1>1, <1>3, <1>4 DEF MarksOK, Delivery
<1>5. CASE ride' # ride
  <2>1. /\ ride'.version = ride.version + 1
        /\ actor["holder"].op = "BATCH" => ride'.status = ride.status
    BY <1>5, WriteRide
  <2>2. MarksOK'
    BY <1>0, <1>1, <2>1, NewVersion
  <2>3. CASE actor["holder"].op # "BATCH"
    <3>1. actor'["holder"].pc = "reread" /\ "holder" \in Actors
      BY <1>0, <2>3 DEF Write, TypeOK, Actors
    <3> QED
      BY <2>2, <3>1 DEF Delivery, Coming
  <2>4. CASE actor["holder"].op = "BATCH"
    BY <1>3, <2>1, <2>2, <2>4 DEF Delivery
  <2> QED
    BY <2>3, <2>4
<1> QED
  BY <1>4, <1>5

LEMMA ReadStep ==
  ASSUME TypeOK, MarksOK, Delivery,
         NEW op \in RideStatuses \union {"BATCH"}, Read(op)
  PROVE  MarksOK' /\ Delivery'
<1> USE DEF rideVars, feedVars, socketVars, appVars
<1>1. UNCHANGED <<ride, marks, home, told, session, answer, relay, channel, losses>>
  BY DEF Read
<1>2. \A a \in Actors : actor[a].pc # "idle" => actor'[a] = actor[a]
  BY DEF Read, TypeOK
<1>3. Reaching => Reaching'
  BY <1>1, <1>2, ReachingKept
<1>4. Coming => Coming'
  BY <1>1, <1>2 DEF Coming, Current
<1> QED
  BY <1>1, <1>3, <1>4 DEF MarksOK, Delivery

LEMMA AcceptStep ==
  ASSUME TypeOK, TypeOK', MarksOK, Accept
  PROVE  MarksOK' /\ Delivery'
<1> USE DEF rideVars, feedVars, socketVars, appVars
<1>1. ride'.version = ride.version + 1 /\ UNCHANGED marks
  BY DEF Accept, NextVersion
<1>2. actor'["accept"].pc = "reread" /\ "accept" \in Actors
  BY DEF Accept, TypeOK, Actors
<1> QED
  BY <1>1, <1>2, NewVersion DEF Delivery, Coming

LEMMA CleanupStep ==
  ASSUME TypeOK, TypeOK', MarksOK, Delivery, Cleanup
  PROVE  MarksOK' /\ Delivery'
<1> USE DEF rideVars, feedVars, socketVars, appVars
<1>1. UNCHANGED <<ride, marks, home, told, session, answer, relay, channel, losses>>
  BY DEF Cleanup
<1>2. \A a \in Actors : /\ actor'[a].snap = actor[a].snap
                        /\ actor[a].pc # "cleanup" => actor'[a] = actor[a]
                        /\ actor[a].pc = "cleanup" => actor'[a].pc \in {"cleanup", "mark"}
  BY DEF Cleanup, TypeOK, Actors
<1>3. Reaching => Reaching'
  BY <1>1, <1>2, ReachingKept
<1>4. Coming => Coming'
  BY <1>1, <1>2 DEF Coming, Current
<1> QED
  BY <1>1, <1>3, <1>4 DEF MarksOK, Delivery

LEMMA RereadStep ==
  ASSUME TypeOK, TypeOK', MarksOK, NEW b \in Actors, Reread(b)
  PROVE  MarksOK' /\ Delivery'
<1> USE DEF rideVars, feedVars, socketVars, appVars
<1>1. UNCHANGED <<ride, marks, home, told, session, answer, relay, channel, losses>>
      /\ actor[b].pc = "reread"
      /\ \A a \in Actors : a # b => actor'[a] = actor[a]
  BY DEF Reread, TypeOK
<1>2. actor'[b].snap = ride' /\ actor'[b].pc \in {"cleanup", "mark"}
  BY DEF Reread, TypeOK
<1>3. Reaching => Reaching'
  BY <1>1, ReachingKept
<1>4. MarksOK'
  BY <1>1, <1>3 DEF MarksOK
<1>5. CASE ride.version \in marks
  BY <1>3, <1>4, <1>5 DEF MarksOK, Delivery
<1>6. CASE ride.version \notin marks
  BY <1>1, <1>2, <1>4, <1>6 DEF Delivery, Coming, Current
<1> QED
  BY <1>5, <1>6

\* Two copies of one version agree.
LEMMA SameVersion ==
  ASSUME TypeOK, InOrder, NEW m \in AllNews, NEW n \in AllNews,
         m.version = n.version, Current(m)
  PROVE  Current(n)
<1>1. m.version <= n.version
  BY NewsTyped, BoundsAssumption DEF News, Versions
<1> QED
  BY <1>1, Later

LEMMA MarkStep ==
  ASSUME TypeOK, TypeOK', InOrder, MarksOK, Delivery, NEW b \in Actors, Mark(b)
  PROVE  MarksOK' /\ Delivery'
<1> USE DEF rideVars, feedVars, socketVars, appVars
<1> DEFINE v == actor[b].snap.version
<1>1. /\ UNCHANGED <<ride, home, told, session, answer, relay, channel, losses>>
      /\ actor[b].pc = "mark" /\ marks' = marks \union {v}
      /\ \A a \in Actors : a # b => actor'[a] = actor[a]
      /\ v \notin marks => /\ actor'[b].snap = actor[b].snap
                           /\ actor'[b].pc = "publish"
  BY DEF Mark, TypeOK
<1>2. ride \in AllNews /\ \A a \in Actors : actor[a].snap \in AllNews
  BY DEF AllNews
<1>3. Reaching => Reaching'
  BY <1>1, ReachingKept
<1>4. ASSUME v \notin marks, Current(actor[b].snap) PROVE Reaching'
  BY <1>1, <1>4 DEF Reaching, Current
<1>5. MarksOK'
  <2>1. v <= ride.version
    BY <1>2 DEF InOrder
  <2>2. ASSUME v \notin marks, v = ride.version PROVE Reaching'
    <3>1. Current(ride)
      BY DEF Current
    <3>2. Current(actor[b].snap)
      BY <1>2, <2>2, <3>1, SameVersion
    <3> QED
      BY <1>4, <2>2, <3>2
  <2>3. ride.version \in marks' =>
          ride.version \in marks \/ (v = ride.version /\ v \notin marks)
    BY <1>1
  <2>4. ride'.version \in marks' => Reaching'
    BY <1>1, <1>3, <2>2, <2>3 DEF MarksOK
  <2>5. \A w \in marks' : w <= ride'.version
    BY <1>1, <2>1 DEF MarksOK
  <2> QED
    BY <2>4, <2>5 DEF MarksOK
<1>6. ASSUME Coming PROVE Delivery'
  <2>1. PICK a \in Actors :
          \/ actor[a].pc = "reread"
          \/ /\ actor[a].pc \in {"cleanup", "mark"}
             /\ Current(actor[a].snap)
             /\ actor[a].snap.version \notin marks
    BY <1>6 DEF Coming
  <2>2. CASE a = b
    BY <1>1, <1>4, <2>1, <2>2 DEF Delivery
  <2>3. CASE a # b /\ actor[a].pc # "reread" /\ actor[a].snap.version = v
    <3>1. Current(actor[b].snap)
      BY <1>2, <2>1, <2>3, SameVersion
    <3> QED
      BY <1>4, <2>1, <2>3, <3>1 DEF Delivery
  <2>4. CASE a # b /\ (actor[a].pc = "reread" \/ actor[a].snap.version # v)
    BY <1>1, <2>1, <2>4 DEF Delivery, Coming, Current
  <2> QED
    BY <2>2, <2>3, <2>4
<1> QED
  BY <1>3, <1>5, <1>6 DEF Delivery

\* A step that neither writes nor marks, and takes nobody off the way to
\* announcing.
LEMMA OtherStep ==
  ASSUME MarksOK, Delivery, UNCHANGED <<ride, marks>>, Reaching => Reaching',
         \A a \in Actors : actor[a].pc # "publish" => actor'[a] = actor[a]
  PROVE  MarksOK' /\ Delivery'
<1>1. Coming => Coming'
  BY DEF Coming, Current
<1> QED
  BY <1>1 DEF MarksOK, Delivery

LEMMA DeliveryStep ==
  ASSUME TypeInv, TypeOK', SnapOK, InOrder, SessionOK, MarksOK, Delivery,
         [Next]_vars, ~shared'
  PROVE  MarksOK' /\ Delivery'
<1>0. TypeOK
  BY DEF TypeInv
<1> USE DEF rideVars, feedVars, socketVars, appVars
<1>1. ASSUME NEW b \in Actors, Publish(b) PROVE MarksOK' /\ Delivery'
  <2>1. UNCHANGED <<ride, marks>>
        /\ \A a \in Actors : actor[a].pc # "publish" => actor'[a] = actor[a]
    BY <1>0, <1>1 DEF Publish, TypeOK
  <2> QED
    BY <1>0, <1>1, <2>1, ReachingPublish, OtherStep
<1>2. ASSUME NEW s \in Servers, FanOut(s) PROVE MarksOK' /\ Delivery'
  <2>1. UNCHANGED <<ride, marks, actor>>
    BY <1>2 DEF FanOut
  <2> QED
    BY <1>0, <1>2, <2>1, ReachingFanOut, OtherStep
<1>3. ASSUME NEW s \in Servers, Relay(s) PROVE MarksOK' /\ Delivery'
  <2>1. UNCHANGED <<ride, marks, actor>>
    BY <1>3 DEF Relay
  <2> QED
    BY <1>0, <1>3, <2>1, ReachingRelay, OtherStep
<1>4. ASSUME NEW s \in Servers, SubscriptionLost(s) PROVE MarksOK' /\ Delivery'
  <2>1. UNCHANGED <<ride, marks, actor>>
    BY <1>4 DEF SubscriptionLost
  <2> QED
    BY <1>0, <1>4, <2>1, ReachingLost, OtherStep
<1>5. ASSUME NEW s \in Servers, Connect(s) PROVE MarksOK' /\ Delivery'
  <2>1. UNCHANGED <<ride, marks, actor>> /\ session' = "pointer"
    BY <1>5 DEF Connect
  <2>2. Reaching'
    BY <2>1 DEF Reaching
  <2> QED
    BY <2>1, <2>2, OtherStep
<1>6. CASE Disconnect
  <2>1. UNCHANGED <<ride, marks, actor>> /\ home' = NoServer
    BY <1>6 DEF Disconnect
  <2>2. Reaching'
    BY <2>1 DEF Reaching
  <2> QED
    BY <2>1, <2>2, OtherStep
<1>7. CASE Hydrate
  <2>1. UNCHANGED <<ride, marks, actor>>
    BY <1>7 DEF Hydrate, ReadPointer, ReadRide, Answer
  <2> QED
    BY <1>0, <1>7, <2>1, ReachingHydrate, OtherStep
<1>8. CASE UNCHANGED vars
  <2>1. UNCHANGED <<ride, marks, actor, home, told, session, answer, relay,
                    channel, losses>>
    BY <1>8 DEF vars
  <2>2. Reaching => Reaching'
    BY <2>1, ReachingKept
  <2> QED
    BY <2>1, <2>2, OtherStep
<1> QED
  BY <1>0, <1>1, <1>2, <1>3, <1>4, <1>5, <1>6, <1>7, <1>8,
     ReadStep, WriteStep, AcceptStep, CleanupStep, RereadStep, MarkStep
     DEF Next, Announce

-----------------------------------------------------------------------------
\* What the app shows.

LEMMA ScreenStep ==
  ASSUME TypeOK, TypeOK', InOrder, ScreenOK, [Next]_vars PROVE ScreenOK'
<1> USE DEF rideVars, feedVars, socketVars
<1>1. CASE UNCHANGED appVars
  BY <1>1 DEF appVars, ScreenOK
<1>2. ASSUME NEW m \in AllNews, Shows(m) PROVE ScreenOK'
  <2>1. SUFFICES ASSUME ~late' PROVE \A s \in told' : Rank[s] <= Rank[shown'.status]
    BY DEF ScreenOK
  <2>2. ~late /\ ~(m.version < shown.version)
        /\ shown' = m /\ told' = told \union {m.status}
    BY <1>2, <2>1 DEF Shows
  <2>3. shown \in AllNews /\ m \in News /\ shown \in News
    BY NewsTyped DEF AllNews
  <2>4. shown.version <= m.version
    BY <2>2, <2>3, BoundsAssumption DEF News, Versions
  <2>5. Rank[shown.status] <= Rank[m.status]
    BY <2>3, <2>4 DEF InOrder
  <2>6. \A s \in told : s \in RideStatuses /\ Rank[s] <= Rank[shown.status]
    BY <2>2 DEF ScreenOK, TypeOK
  <2>7. \A s \in told \union {shown.status, m.status} : Rank[s] \in 0..6
    BY <2>3, <2>6, RankFacts DEF News
  <2>8. \A s \in told : Rank[s] <= Rank[m.status]
    BY <2>5, <2>6, <2>7
  <2> QED
    BY <2>2, <2>7, <2>8
<1>3. ASSUME NEW s \in Servers, FanOut(s) PROVE ScreenOK'
  <2>1. channel[s] \in Seq(News) /\ channel[s] # <<>>
    BY <1>3 DEF FanOut, TypeOK
  <2>2. Head(channel[s]) \in AllNews
    BY <2>1, ElemsTail DEF AllNews
  <2>3. UNCHANGED appVars \/ Shows(Head(channel[s]))
    BY <1>3 DEF FanOut, Told
  <2> QED
    BY <1>1, <1>2, <2>2, <2>3
<1>4. ASSUME NEW s \in Servers, Relay(s) PROVE ScreenOK'
  <2>1. relay[s] \in Seq(News) /\ relay[s] # <<>>
    BY <1>4 DEF Relay, TypeOK
  <2>2. Head(relay[s]) \in AllNews
    BY <2>1, ElemsTail DEF AllNews
  <2>3. UNCHANGED appVars \/ Shows(Head(relay[s]))
    BY <1>4 DEF Relay, Told
  <2> QED
    BY <1>1, <1>2, <2>2, <2>3
<1>5. CASE Answer
  BY <1>2, <1>5 DEF Answer, AllNews
<1>6. ASSUME ~Answer, \A s \in Servers : ~FanOut(s) /\ ~Relay(s)
      PROVE  UNCHANGED appVars
  BY <1>6 DEF Next, vars, appVars, Read, Write, Accept, Cleanup, Announce, Reread,
              Mark, Publish, SubscriptionLost, Connect, Disconnect, Hydrate,
              ReadPointer, ReadRide
<1> QED
  BY <1>1, <1>3, <1>4, <1>5, <1>6

-----------------------------------------------------------------------------

LEMMA FeedInit == Init => IInv
<1> SUFFICES ASSUME Init PROVE IInv
  OBVIOUS
<1>1. TypeInv /\ InOrder
  BY TypeInit, InOrderInit
<1>2. SessionOK
  BY ServersAssumption DEF Init, SessionOK
<1>3. SnapOK
  BY DEF Init, SnapOK, Idle, Actors
<1>4. Reaching
  BY DEF Init, Reaching, Requested
<1>5. MarksOK /\ Delivery
  BY <1>4 DEF Init, MarksOK, Delivery
<1>6. ScreenOK
  <2>1. Rank["REQUESTED"] <= Rank["REQUESTED"]
    BY RankValues
  <2> QED
    BY <2>1 DEF Init, ScreenOK, Requested
<1> QED
  BY <1>1, <1>2, <1>3, <1>5, <1>6 DEF IInv, Sound

LEMMA FeedStep == IInv /\ [Next]_vars => IInv'
<1> SUFFICES ASSUME IInv, [Next]_vars PROVE IInv'
  OBVIOUS
<1>1. TypeInv /\ TypeInv' /\ TypeOK /\ TypeOK' /\ SessionOK
  BY TypeStep DEF IInv, TypeInv
<1>2. SessionOK'
  BY <1>1, SessionStep
<1>3. ASSUME ~shared' PROVE Sound'
  <2>1. shared => shared'
    BY DEF Next, vars, rideVars, Read, Write, Accept, Cleanup, Announce, Reread,
           Mark, Publish, FanOut, Relay, SubscriptionLost, Connect, Disconnect,
           Hydrate, ReadPointer, ReadRide, Answer
  <2>2. Sound
    BY <1>3, <2>1 DEF IInv
  <2> QED
    BY <1>1, <1>3, <2>2, SnapStep, InOrderStep, DeliveryStep, ScreenStep DEF Sound
<1> QED
  BY <1>1, <1>2, <1>3 DEF IInv

\* With nothing on its way, all that is left of the delivery is that the
\* customer was told the status.
LEMMA FeedCaughtUp == IInv => CaughtUp
<1> SUFFICES ASSUME IInv, Settled, session = "done", ~shared
             PROVE  ride.status \in told
  BY DEF CaughtUp
<1>1. TypeOK /\ SessionOK /\ Sound
  BY DEF IInv, TypeInv
<1>2. home # NoServer /\ home \in Servers
  BY <1>1 DEF SessionOK, TypeOK
<1>3. \A s \in Servers : Elems(channel[s]) = {} /\ Elems(relay[s]) = {}
  BY DEF Settled, Elems
<1>4. Carriers = {}
  BY <1>3 DEF Carriers
<1>5. Cardinality(Carriers) = 0 /\ losses \in Nat /\ losses <= Losses
  BY <1>1, <1>4, FS_EmptySet, LossesAssumption DEF TypeOK
<1>6. ~(Cardinality(Carriers) + losses >= Cardinality(Servers))
  BY <1>5, CarriersFinite, LossesAssumption
<1>7. ~Coming
  BY DEF Settled, Coming
<1> QED
  BY <1>1, <1>2, <1>3, <1>6, <1>7 DEF Sound, Delivery, Reaching, Settled, Current

\* What was told in order ends with what the app shows, and the ride is no less
\* far on than that.
LEMMA FeedShown == IInv => ScreenIsCurrent
<1> SUFFICES ASSUME IInv, Settled, session = "done", ~shared, ~late
             PROVE  shown.status = ride.status
  BY DEF ScreenIsCurrent
<1>1. TypeOK /\ Sound
  BY DEF IInv, TypeInv
<1>2. ride.status \in told
  BY FeedCaughtUp DEF CaughtUp
<1>3. Rank[ride.status] <= Rank[shown.status]
  BY <1>1, <1>2 DEF Sound, ScreenOK
<1>4. shown \in AllNews /\ ride \in AllNews
  BY DEF AllNews
<1>5. Rank[shown.status] <= Rank[ride.status]
  BY <1>1, <1>4 DEF Sound, InOrder
<1>6. shown.status \in RideStatuses /\ ride.status \in RideStatuses
  BY <1>1 DEF TypeOK, News
<1>7. Rank[shown.status] \in 0..6 /\ Rank[ride.status] \in 0..6
  BY <1>6, RankFacts
<1>8. Rank[shown.status] = Rank[ride.status]
  BY <1>3, <1>5, <1>7
<1> QED
  BY <1>6, <1>8, RankFacts

\* Whatever the servers, the drops and the losses (fewer than the servers): a
\* connected customer to which nothing is on its way was told the ride's status,
\* if no handler wrote over an accept it had not read.
THEOREM FeedIsComplete == Spec => []CaughtUp
<1> QED
  BY FeedInit, FeedStep, FeedCaughtUp, PTL DEF Spec

\* The app, which shows what reached it last (emitRideStatusUpdate, or
\* sendCustomerSnapshot), shows the ride's status then, if that came in order.
THEOREM FeedShowsTheRide == Spec => []ScreenIsCurrent
<1> QED
  BY FeedInit, FeedStep, FeedShown, PTL DEF Spec

\* Every write of the ride here is one the contract with the handlers
\* (RideWrites, which RideDispatch implements) lets them do: transitionRide and
\* dispatchUnderLock by the status and with the version they read, whatever the
\* accept script wrote since.
THEOREM FeedFollowsTheContract == Spec => WritesAsAgreed
<1> DEFINE r == "ride"
<1> USE DEF rideVars
<1>1. Init => Writers!Init
  BY DEF Init, Writers!Init, Writers!Nothing, RideNow, HeldNow, Requested, Idle, Actors
<1>2. ASSUME TypeInv, [Next]_vars PROVE [Writers!Next]_(Writers!vars)
  <2> DEFINE h == actor["holder"]
  <2>0. TypeOK
    BY <1>2 DEF TypeInv
  <2>1. ASSUME NEW op \in RideStatuses \union {"BATCH"}, Read(op)
        PROVE  Writers!Next
    <3>1. ride' = ride /\ actor'["holder"].pc = "write" /\ actor'["holder"].snap = ride
      BY <2>0, <2>1 DEF Read, TypeOK, Actors
    <3>2. /\ HeldNow' = [HeldNow EXCEPT ![r] = RideNow[r]]
          /\ RideNow' = RideNow
      BY <3>1 DEF HeldNow, RideNow
    <3>3. Writers!Read(r)
      BY <3>2 DEF Writers!Read
    <3> QED
      BY <3>3 DEF Writers!Next
  <2>2. ASSUME Write PROVE Writers!Next
    <3> DEFINE new == [status |-> IF h.op = "BATCH" THEN ride.status ELSE h.op,
                       version |-> h.snap.version + 1]
    <3>1. /\ ride' = new /\ h.pc = "write" /\ h.op \in Operations(h.snap.status)
          /\ actor'["holder"].pc # "write"
      BY <1>2, <2>0, <2>2 DEF Write, NextVersion, TypeInv, HolderOK, TypeOK, Actors, Idle
    <3>2. /\ RideNow' = [RideNow EXCEPT ![r] = new] /\ RideNow[r] = ride
          /\ HeldNow[r] = h.snap
          /\ HeldNow' = [HeldNow EXCEPT ![r] = Writers!Nothing]
      BY <3>1 DEF RideNow, HeldNow, Writers!Nothing
    <3>3. h.op \in Writers!Operations(HeldNow[r].status)
      BY <3>1, <3>2
         DEF Writers!Operations, Operations, Writers!RideStatuses, RideStatuses,
             Writers!RideTransitions, RideTransitions
    <3>4. Writers!Write(r, h.op)
      BY <3>2, <3>3 DEF Writers!Write, Writers!Becomes
    <3>5. h.op \in Writers!RideStatuses \union {"BATCH"}
      BY <3>1, Updates DEF Writers!RideStatuses, RideStatuses
    <3> QED
      BY <3>4, <3>5 DEF Writers!Next
  <2>3. ASSUME ~Write, \A op \in RideStatuses \union {"BATCH"} : ~Read(op)
        PROVE  HeldNow' = HeldNow
    <3>1. actor["holder"].pc = "write" \/ actor'["holder"].pc = "write"
            => actor'["holder"] = actor["holder"]
      BY <1>2, <2>0, <2>3, HolderWaits
    <3> QED
      BY <3>1 DEF HeldNow
  <2>4. ASSUME Accept PROVE Writers!Next
    <3> DEFINE new == [status |-> "ACCEPTED", version |-> ride.version + 1]
    <3>1. ride' = new /\ ride.status = "DISPATCHING"
      BY <2>4 DEF Accept, NextVersion
    <3>2. HeldNow' = HeldNow
      <4>1. actor'["holder"] = actor["holder"]
        BY <2>0, <2>4 DEF Accept, TypeOK, Actors
      <4> QED
        BY <4>1 DEF HeldNow
    <3>3. RideNow' = [RideNow EXCEPT ![r] = new] /\ RideNow[r] = ride
      BY <3>1 DEF RideNow
    <3>4. HeldNow' = [HeldNow EXCEPT ![r] = HeldNow[r]]
      BY <3>2 DEF HeldNow
    <3>5. Writers!Accept(r)
      BY <3>1, <3>3, <3>4 DEF Writers!Accept, Writers!Becomes
    <3> QED
      BY <3>5 DEF Writers!Next
  <2>5. ASSUME ~Accept, ~Write, \A op \in RideStatuses \union {"BATCH"} : ~Read(op)
        PROVE  UNCHANGED Writers!vars
    <3>1. ride' = ride
      BY <1>2, <2>5
         DEF Next, vars, Cleanup, Announce, Reread, Mark, Publish, FanOut, Relay,
             SubscriptionLost, Connect, Disconnect, Hydrate, ReadPointer,
             ReadRide, Answer
    <3> QED
      BY <2>3, <2>5, <3>1 DEF RideNow, Writers!vars
  <2> QED
    BY <2>1, <2>2, <2>4, <2>5
<1>3. Spec => []TypeInv
  BY TypeInit, TypeStep, PTL DEF Spec
<1> QED
  BY <1>1, <1>2, <1>3, PTL DEF Spec, WritesAsAgreed, Writers!Spec
=============================================================================

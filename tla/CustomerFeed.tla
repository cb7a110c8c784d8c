---------------------------- MODULE CustomerFeed ----------------------------
(***************************************************************************)
(* How a change of a ride reaches its customer: the handlers publish it on *)
(* one Redis channel, every server that is subscribed emits it to the      *)
(* customer's room, and the adapter of that server relays the emit to the  *)
(* other servers.  The customer is connected to one server at a time, may  *)
(* drop the connection, and gets the ride anew after connecting: by the    *)
(* snapshot, if the pointer to the active ride is still there, or, as the  *)
(* frontend guide asks of the app, by fetching it over HTTP.  The app      *)
(* shows what reached it last: the guide has it replace its state, and     *)
(* nothing compares the versions that the news carry.                      *)
(***************************************************************************)
EXTENDS Naturals, Sequences, FiniteSets

INSTANCE RideStatus WITH Rides <- {}, Drivers <- {}, NoDriver <- 0

CONSTANTS
    Servers,        \* processes with a socket server
    NoServer,       \* where a customer without a connection is
    MaxVersion,     \* bound: versions of the ride
    Drops,          \* bound: connections the customer loses
    Losses          \* bound: times a server's subscription is interrupted

ASSUME ServersAssumption == IsFiniteSet(Servers) /\ NoServer \notin Servers
ASSUME BoundsAssumption == MaxVersion \in Nat \ {0} /\ Drops \in Nat

\* What all servers miss is lost for good; this is about fewer losses.
ASSUME LossesAssumption == Losses \in Nat /\ Losses < Cardinality(Servers)

Versions == 1..MaxVersion
News == [status : RideStatuses, version : Versions]

VARIABLES
    ride,       \* the hash of the customer's ride
    pointer,    \* whether the customer's active ride key is there
    actor,      \* actor[a]: the handler with the ride lock; the acceptRide
    marks,      \* versions whose ride-status dedupe key is set
    channel,    \* channel[s]: published, not yet handled by s
    relay,      \* relay[s]: emitted by other servers, not yet handled by s
    home,       \* the server the customer is connected to
    joined,     \* whether that socket is in the customer's room
    session,    \* what is next for this connection
    answer,     \* the ride that was read for the snapshot or the fetch
    shown,      \* the ride as the app shows it: the last news to reach it
    drops,      \* connections lost so far
    losses,     \* interruptions so far
    told,       \* (history) the statuses that reached the customer
    late,       \* (history) whether older news reached it after newer ones
    shared      \* (history) whether a handler changed the status of a ride that
                \* an accept had written since it read it

rideVars   == <<ride, pointer, shared>>
feedVars   == <<channel, relay>>
socketVars == <<home, joined, session, answer>>
appVars    == <<shown, told, late>>
vars == <<ride, pointer, actor, marks, channel, relay, home, joined, session,
          answer, shown, drops, losses, told, late, shared>>

Actors == {"holder", "accept"}
Ended(s) == s \in TerminalRideStatuses

Requested == [status |-> "REQUESTED", version |-> 1]
Idle == [pc |-> "idle", op |-> "none", snap |-> Requested]

\* The customer has just requested the ride; the ACK told it so.
Init ==
    /\ ride = Requested
    /\ pointer = TRUE
    /\ actor = [a \in Actors |-> Idle]
    /\ marks = {}
    /\ channel = [s \in Servers |-> <<>>]
    /\ relay = [s \in Servers |-> <<>>]
    /\ home \in Servers
    /\ joined = TRUE
    /\ session = "done"
    /\ answer = Requested
    /\ shown = Requested
    /\ drops = 0 /\ losses = 0
    /\ told = {"REQUESTED"}
    /\ late = FALSE /\ shared = FALSE

-----------------------------------------------------------------------------
\* The handlers: read, write, read back, clean up after a ride that ended,
\* publish.  (RideCopies has their failures.)

\* A handler gets the lock and reads the ride, or reads it again after closing a
\* lapsed batch; the accept, which takes no lock, may write it before it does.
Read(op) ==
    /\ actor["holder"].pc = "idle"
    /\ ride.version < MaxVersion
    /\ op \in Operations(ride.status)
    /\ actor' = [actor EXCEPT !["holder"] =
                    [pc |-> "write", op |-> op, snap |-> ride]]
    /\ UNCHANGED <<rideVars, marks, feedVars, socketVars, appVars, drops, losses>>

\* Mutant: the version is kept as text, and "1" + 1 is "11".
NextVersionText(v) == 10 * v + 1
NextVersion(v) == v + 1

\* A batch update leaves the status, and is not announced to the customer.
Write ==
    LET h == actor["holder"]
        batch == h.op = "BATCH"
    IN  /\ h.pc = "write"
        /\ ride' = [status |-> IF batch THEN ride.status ELSE h.op,
                    version |-> NextVersion(h.snap.version)]
        /\ shared' = (shared \/ (~batch /\ ride # h.snap))
        /\ actor' = [actor EXCEPT !["holder"] =
                        IF batch THEN Idle ELSE [h EXCEPT !.pc = "reread"]]
        /\ UNCHANGED <<pointer, marks, feedVars, socketVars, appVars, drops, losses>>

Accept ==
    /\ actor["accept"].pc = "idle"
    /\ ride.version < MaxVersion
    /\ ride.status = "DISPATCHING"
    /\ ride' = [status |-> "ACCEPTED", version |-> NextVersion(ride.version)]
    /\ actor' = [actor EXCEPT !["accept"] =
                    [pc |-> "reread", op |-> "ACCEPTED", snap |-> Requested]]
    /\ UNCHANGED <<pointer, shared, marks, feedVars, socketVars, appVars, drops,
                   losses>>

Reread(a) ==
    /\ actor[a].pc = "reread"
    /\ actor' = [actor EXCEPT ![a] =
                    [pc |-> IF Ended(actor[a].op) THEN "cleanup" ELSE "mark",
                     op |-> actor[a].op, snap |-> ride]]
    /\ UNCHANGED <<rideVars, marks, feedVars, socketVars, appVars, drops, losses>>

Cleanup ==
    /\ actor["holder"].pc = "cleanup"
    /\ pointer' = FALSE
    /\ actor' = [actor EXCEPT !["holder"].pc = "mark"]
    /\ UNCHANGED <<ride, shared, marks, feedVars, socketVars, appVars, drops, losses>>

Mark(a) ==
    LET v == actor[a].snap.version IN
    /\ actor[a].pc = "mark"
    /\ marks' = marks \union {v}
    /\ actor' = [actor EXCEPT ![a] =
                    IF v \in marks THEN Idle ELSE [actor[a] EXCEPT !.pc = "publish"]]
    /\ UNCHANGED <<rideVars, feedVars, socketVars, appVars, drops, losses>>

Publish(a) ==
    /\ actor[a].pc = "publish"
    /\ channel' = [s \in Servers |-> Append(channel[s], actor[a].snap)]
    /\ actor' = [actor EXCEPT ![a] = Idle]
    /\ UNCHANGED <<rideVars, marks, relay, socketVars, appVars, drops, losses>>

-----------------------------------------------------------------------------
\* The servers.

\* The app takes over what reaches it.
Shows(m) ==
    /\ shown' = m
    /\ told' = told \union {m.status}
    /\ late' = (late \/ m.version < shown.version)

\* Server s emits m to those of its own sockets that are in the room.
Told(s, m) == IF home = s /\ joined THEN Shows(m) ELSE UNCHANGED appVars

\* The servers an emit to a room goes to.  Mutant: io.local.
LocalOnly(s) == {s}
Audience(s) == Servers

FanOut(s) ==
    LET m == Head(channel[s]) IN
    /\ channel[s] # <<>>
    /\ channel' = [channel EXCEPT ![s] = Tail(@)]
    /\ relay' = [t \in Servers |-> IF t \in Audience(s) \ {s}
                                     THEN Append(relay[t], m) ELSE relay[t]]
    /\ Told(s, m)
    /\ UNCHANGED <<rideVars, actor, marks, socketVars, drops, losses>>

Relay(s) ==
    /\ relay[s] # <<>>
    /\ relay' = [relay EXCEPT ![s] = Tail(@)]
    /\ Told(s, Head(relay[s]))
    /\ UNCHANGED <<rideVars, actor, marks, channel, socketVars, drops, losses>>

\* A subscriber that has to reconnect misses what is published meanwhile.
SubscriptionLost(s) ==
    /\ losses < Losses
    /\ channel[s] # <<>>
    /\ losses' = losses + 1
    /\ channel' = [channel EXCEPT ![s] = <<>>]
    /\ UNCHANGED <<rideVars, actor, marks, relay, socketVars, appVars, drops>>

-----------------------------------------------------------------------------
\* The connection.

\* What is on its way to the customer is lost as if it had been emitted later.
Disconnect ==
    /\ home # NoServer
    /\ drops < Drops
    /\ drops' = drops + 1
    /\ home' = NoServer /\ joined' = FALSE
    /\ session' = "off"
    /\ UNCHANGED <<rideVars, actor, marks, feedVars, answer, appVars, losses>>

\* The socket joins the room before anything is awaited.  Mutant: afterwards.
JoinsLate == FALSE
JoinsFirst == TRUE

Connect(s) ==
    /\ home = NoServer
    /\ home' = s /\ joined' = JoinsFirst
    /\ session' = "pointer"
    /\ UNCHANGED <<rideVars, actor, marks, feedVars, answer, appVars, drops, losses>>

ReadPointer ==
    /\ session = "pointer"
    /\ session' = IF pointer THEN "snapshot" ELSE "fetch"
    /\ UNCHANGED <<rideVars, actor, marks, feedVars, home, joined, answer, appVars,
                   drops, losses>>

\* The snapshot of the connection handler, or (by the app) GET of the ride.
ReadRide ==
    /\ session \in {"snapshot", "fetch"}
    /\ answer' = ride
    /\ session' = "answer"
    /\ UNCHANGED <<rideVars, actor, marks, feedVars, home, joined, appVars, drops,
                   losses>>

Answer ==
    /\ session = "answer"
    /\ Shows(answer)
    /\ answer' = Requested
    /\ joined' = TRUE
    /\ session' = "done"
    /\ UNCHANGED <<rideVars, actor, marks, feedVars, home, drops, losses>>

-----------------------------------------------------------------------------

Announce(a) == Reread(a) \/ Mark(a) \/ Publish(a)

Hydrate == ReadPointer \/ ReadRide \/ Answer

Next ==
    \/ \E op \in RideStatuses \union {"BATCH"} : Read(op)
    \/ Write
    \/ Accept
    \/ Cleanup
    \/ \E a \in Actors : Announce(a)
    \/ \E s \in Servers :
         FanOut(s) \/ Relay(s) \/ SubscriptionLost(s) \/ Connect(s)
    \/ Disconnect
    \/ Hydrate

Spec == Init /\ [][Next]_vars

\* Handlers, servers and a connection that is being set up go on.
FairSpec ==
    /\ Spec
    /\ WF_vars(Write)
    /\ WF_vars(Cleanup)
    /\ \A a \in Actors : WF_vars(Announce(a))
    /\ \A s \in Servers : WF_vars(FanOut(s)) /\ WF_vars(Relay(s))
    /\ WF_vars(Hydrate)

-----------------------------------------------------------------------------
\* Every variable has its type.
TypeOK ==
    /\ ride \in News /\ shown \in News /\ answer \in News
    /\ pointer \in BOOLEAN /\ joined \in BOOLEAN
    /\ actor \in [Actors -> [pc : {"idle", "write", "reread", "cleanup", "mark", "publish"},
                             op : RideStatuses \union {"BATCH", "none"},
                             snap : News]]
    /\ marks \subseteq Versions
    /\ channel \in [Servers -> Seq(News)] /\ relay \in [Servers -> Seq(News)]
    /\ home \in Servers \union {NoServer}
    /\ session \in {"off", "pointer", "snapshot", "fetch", "answer", "done"}
    /\ drops \in 0..Drops /\ losses \in 0..Losses
    /\ told \subseteq RideStatuses
    /\ late \in BOOLEAN /\ shared \in BOOLEAN

RideNow == [r \in {"ride"} |-> ride]
HeldNow == [r \in {"ride"} |-> IF actor["holder"].pc = "write" THEN actor["holder"].snap
                               ELSE [status |-> "NONE", version |-> 0]]

Writers == INSTANCE RideWrites
    WITH Rides <- {"ride"}, Drivers <- {}, NoDriver <- 0,
         ride <- RideNow, snap <- HeldNow

\* The ride is written as the handlers write it, from what they read before
\* an accept as well.
WritesAsAgreed == Writers!Spec

\* Nothing is on its way to the customer.
Settled ==
    /\ \A a \in Actors : actor[a].pc \in {"idle", "write"}
    /\ \A s \in Servers : channel[s] = <<>> /\ relay[s] = <<>>

\* Once nothing is on its way, a connected customer was told the ride's status:
\* neither a change between the join and the snapshot, nor one announced while
\* the customer was away, nor one that a server missed is lost to it, unless a
\* handler wrote over an accept, so that two statuses share a version.
CaughtUp ==
    Settled /\ session = "done" /\ ~shared => ride.status \in told

\* The app shows the ride's status then, unless what it was told came out of
\* order: a snapshot read before an update and sent after it, an accept that is
\* announced after what followed it, a relay of what another server missed.
ScreenIsCurrent ==
    Settled /\ session = "done" /\ ~shared /\ ~late => shown.status = ride.status

\* "Customer receives ride_status_update with CANCELLED" (transitionRide and
\* its announcement), whoever wrote the ride at the same time.
EndIsTold ==
    Settled /\ session = "done" /\ Ended(ride.status) => ride.status \in told

\* A customer that is back for good is told the status of its ride, if no two
\* statuses share a version.
StaysInformed ==
    <>[](home # NoServer) => <>[](shared \/ ride.status \in told)
=============================================================================

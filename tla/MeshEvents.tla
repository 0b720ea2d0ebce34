----------------------------- MODULE MeshEvents -----------------------------
(***************************************************************************)
(* The in-process event bus of internal/mesh/mesh.go: RegisterService and  *)
(* AddRelationship publish a lifecycle event after the store took their    *)
(* change, subscribers receive on a bounded channel and may cancel.        *)
(*                                                                         *)
(* publish numbers the event before it takes the read lock of the bus and  *)
(* drops it for a subscriber whose channel is full; Subscribe and cancel   *)
(* take the write lock.  The store is reduced to the version of each       *)
(* subject it holds.  A send on a closed channel and a second close are    *)
(* panics in Go.                                                           *)
(***************************************************************************)
EXTENDS Integers, Sequences

CONSTANTS Subjects,       \* ids of services and relationships
          Publishers,     \* concurrent registering handlers
          Subscribers,    \* subscriptions, each made at most once
          Buffers,        \* buffer sizes asked for
          MaxPuts         \* bound on the changes of the store

ASSUME BuffersType == Buffers \subseteq Int
ASSUME MaxPutsType == MaxPuts \in Nat \ {0}

VARIABLES
    stored,    \* the version of each subject in the store, 0 before the first
    silent,    \* versions whose write failed: stored, but not published
    puts,      \* number of changes so far
    seq,       \* Mesh.seq
    pc,        \* progress of each publisher
    event,     \* the event it publishes
    todo,      \* the channels its loop has yet to visit
    readers,   \* publishers that hold Mesh.mu for reading
    subs,      \* Mesh.subs
    chan,      \* the channel of each subscription
    panicked   \* the process died of a send on, or a close of, a closed channel

store    == <<stored, silent, puts>>
handlers == <<pc, event, todo>>
vars     == <<store, seq, handlers, readers, subs, chan, panicked>>

NoEvent == [id |-> 0, by |-> "", subject |-> "", version |-> 0]

\* size, content and state of a channel; got, missed and base are history:
\* what was received, whether an event was dropped, and what the store held
\* when the subscription was made.
NoChan == [size |-> 0, buf |-> <<>>, closed |-> FALSE, got |-> <<>>,
           missed |-> FALSE, base |-> [s \in Subjects |-> 0]]

Init ==
    /\ stored = [s \in Subjects |-> 0] /\ silent = {} /\ puts = 0
    /\ seq = 0
    /\ pc = [p \in Publishers |-> "idle"]
    /\ event = [p \in Publishers |-> NoEvent]
    /\ todo = [p \in Publishers |-> {}]
    /\ readers = {} /\ subs = {}
    /\ chan = [c \in Subscribers |-> NoChan]
    /\ panicked = FALSE

-----------------------------------------------------------------------------
\* PutService or PutRelationship succeeded; publish is called.
Put(p) ==
    /\ pc[p] = "idle" /\ puts < MaxPuts
    /\ puts' = puts + 1
    /\ \E s \in Subjects :
         /\ stored' = [stored EXCEPT ![s] = puts']
         /\ event' = [event EXCEPT ![p] =
                [id |-> 0, by |-> p, subject |-> s, version |-> puts']]
    /\ pc' = [pc EXCEPT ![p] = "stamp"]
    /\ UNCHANGED <<silent, seq, todo, readers, subs, chan, panicked>>

\* The write failed: the store keeps the change, nothing is published.
PutFails(p) ==
    /\ pc[p] = "idle" /\ puts < MaxPuts
    /\ puts' = puts + 1
    /\ \E s \in Subjects : stored' = [stored EXCEPT ![s] = puts']
    /\ silent' = silent \cup {puts'}
    /\ UNCHANGED <<seq, handlers, readers, subs, chan, panicked>>

\* Mutant: the counter is read and not advanced.
StampRead(p) ==
    /\ pc[p] = "stamp"
    /\ event' = [event EXCEPT ![p].id = seq + 1]
    /\ pc' = [pc EXCEPT ![p] = "lock"]
    /\ UNCHANGED <<store, seq, todo, readers, subs, chan, panicked>>

\* publish numbers the event with an atomic increment...
Stamp(p) ==
    /\ pc[p] = "stamp"
    /\ seq' = seq + 1
    /\ event' = [event EXCEPT ![p].id = seq']
    /\ pc' = [pc EXCEPT ![p] = "lock"]
    /\ UNCHANGED <<store, todo, readers, subs, chan, panicked>>

\* ...takes the read lock, shared with other publishers...
RLock(p) ==
    /\ pc[p] = "lock"
    /\ readers' = readers \cup {p}
    /\ todo' = [todo EXCEPT ![p] = subs]
    /\ pc' = [pc EXCEPT ![p] = "send"]
    /\ UNCHANGED <<store, seq, event, subs, chan, panicked>>

\* Mutant: a full channel ends the loop.
SendOrReturn(p, c) ==
    /\ pc[p] = "send" /\ c \in todo[p]
    /\ \/ /\ Len(chan[c].buf) < chan[c].size
          /\ chan' = [chan EXCEPT ![c].buf = Append(@, event[p])]
          /\ todo' = [todo EXCEPT ![p] = @ \ {c}]
       \/ /\ Len(chan[c].buf) >= chan[c].size
          /\ chan' = [chan EXCEPT ![c].missed = TRUE]
          /\ todo' = [todo EXCEPT ![p] = {}]
    /\ UNCHANGED <<store, seq, pc, event, readers, subs, panicked>>

\* Mutant: the send waits for room.
SendBlocking(p, c) ==
    /\ pc[p] = "send" /\ c \in todo[p]
    /\ Len(chan[c].buf) < chan[c].size
    /\ chan' = [chan EXCEPT ![c].buf = Append(@, event[p])]
    /\ todo' = [todo EXCEPT ![p] = @ \ {c}]
    /\ UNCHANGED <<store, seq, pc, event, readers, subs, panicked>>

\* ...and visits the channels in the map's arbitrary order: a full one is
\* skipped.
Send(p, c) ==
    /\ pc[p] = "send" /\ c \in todo[p]
    /\ todo' = [todo EXCEPT ![p] = @ \ {c}]
    /\ panicked' = (panicked \/ chan[c].closed)
    /\ \/ /\ Len(chan[c].buf) < chan[c].size
          /\ chan' = [chan EXCEPT ![c].buf = Append(@, event[p])]
       \/ /\ Len(chan[c].buf) >= chan[c].size
          /\ chan' = [chan EXCEPT ![c].missed = TRUE]
    /\ UNCHANGED <<store, seq, pc, event, readers, subs>>

\* The deferred RUnlock, and the handler's return.
RUnlock(p) ==
    /\ pc[p] = "send" /\ todo[p] = {}
    /\ readers' = readers \ {p}
    /\ pc' = [pc EXCEPT ![p] = "idle"]
    /\ event' = [event EXCEPT ![p] = NoEvent]
    /\ UNCHANGED <<store, seq, todo, subs, chan, panicked>>

-----------------------------------------------------------------------------
\* Subscribe makes the channel, of size 1 at least, and registers it under the write lock.
Subscribe(c) ==
    /\ readers = {}
    /\ chan[c].size = 0
    /\ \E b \in Buffers : chan' = [chan EXCEPT
            ![c].size = IF b < 1 THEN 1 ELSE b, ![c].base = stored]
    /\ subs' = subs \cup {c}
    /\ UNCHANGED <<store, seq, handlers, readers, panicked>>

\* Mutant: cancel does not look whether it has run before.
CancelUnchecked(c) ==
    /\ readers = {}
    /\ chan[c].size > 0
    /\ subs' = subs \ {c}
    /\ chan' = [chan EXCEPT ![c].closed = TRUE]
    /\ panicked' = (panicked \/ chan[c].closed)
    /\ UNCHANGED <<store, seq, handlers, readers>>

\* cancel, which its holder may call any number of times: the first call
\* unregisters and closes the channel.
Cancel(c) ==
    /\ readers = {}
    /\ chan[c].size > 0
    /\ \/ /\ c \in subs
          /\ subs' = subs \ {c}
          /\ chan' = [chan EXCEPT ![c].closed = TRUE]
          /\ panicked' = (panicked \/ chan[c].closed)
       \/ /\ c \notin subs
          /\ UNCHANGED <<subs, chan, panicked>>
    /\ UNCHANGED <<store, seq, handlers, readers>>

\* The subscriber receives what is buffered, also after the close.
Receive(c) ==
    /\ chan[c].buf # <<>>
    /\ chan' = [chan EXCEPT ![c].buf = Tail(@), ![c].got = Append(@, Head(chan[c].buf))]
    /\ UNCHANGED <<store, seq, handlers, readers, subs, panicked>>

-----------------------------------------------------------------------------
Publish(p) == Stamp(p) \/ RLock(p) \/ (\E c \in Subscribers : Send(p, c)) \/ RUnlock(p)

Next ==
    \/ \E p \in Publishers : Put(p) \/ PutFails(p) \/ Publish(p)
    \/ \E c \in Subscribers : Subscribe(c) \/ Cancel(c) \/ Receive(c)

Spec == Init /\ [][Next]_vars

\* A handler that can run does run.  Nothing is assumed of subscribers.
FairSpec == Spec /\ \A p \in Publishers : WF_vars(Publish(p))

-----------------------------------------------------------------------------
(* Properties.                                                             *)

\* Everything a subscriber was sent, in order.
Log(c) == chan[c].got \o chan[c].buf

Event == [id : 0 .. MaxPuts, by : Publishers \cup {""},
          subject : Subjects \cup {""}, version : 0 .. MaxPuts]

\* Types; a channel never holds more than its size, which is at least 1.
TypeOK ==
    /\ stored \in [Subjects -> 0 .. MaxPuts]
    /\ silent \subseteq 1 .. MaxPuts /\ puts \in 0 .. MaxPuts /\ seq \in 0 .. MaxPuts
    /\ pc \in [Publishers -> {"idle", "stamp", "lock", "send"}]
    /\ event \in [Publishers -> Event]
    /\ todo \in [Publishers -> SUBSET Subscribers]
    /\ readers \subseteq Publishers /\ subs \subseteq Subscribers
    /\ panicked \in BOOLEAN
    /\ \A c \in Subscribers :
         /\ Len(chan[c].buf) <= chan[c].size
         /\ c \in subs => chan[c].size >= 1
         /\ \A i \in DOMAIN Log(c) : Log(c)[i] \in Event

\* No interleaving of publishing, subscribing and cancelling, cancelling twice
\* included, sends on a closed channel or closes one again.
NeverPanics == ~panicked

\* A subscriber sees no event number twice, and the events of one handler in
\* the order of its changes, though events of different handlers may overtake
\* each other between the numbering and the lock.
LogInPublisherOrder ==
    \A c \in Subscribers : \A i, j \in DOMAIN Log(c) : i < j =>
        /\ Log(c)[i].id # Log(c)[j].id
        /\ Log(c)[i].by = Log(c)[j].by => Log(c)[i].version < Log(c)[j].version

\* Between changes, a subscriber that never let its own channel fill up was
\* sent the event of the version the store now holds of every subject that
\* changed since it subscribed, whatever other subscribers do.  The exception
\* is a change whose write failed: it is in the store, and no event tells.
QuietNewsComplete ==
    (\A p \in Publishers : pc[p] = "idle") =>
        \A c \in subs : ~chan[c].missed =>
            \A s \in Subjects :
                \/ stored[s] = chan[c].base[s]
                \/ stored[s] \in silent
                \/ \E i \in DOMAIN Log(c) :
                      Log(c)[i].subject = s /\ Log(c)[i].version = stored[s]

\* A registering handler never waits for a subscriber.
PublishEnds == \A p \in Publishers : pc[p] # "idle" ~> pc[p] = "idle"
=============================================================================

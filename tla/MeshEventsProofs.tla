-------------------------- MODULE MeshEventsProofs --------------------------
(***************************************************************************)
(* Theorems about the event bus, for any number of publishers, subscribers *)
(* and changes.                                                            *)
(*                                                                         *)
(* Safety of the channels comes from the read lock: a publisher visits     *)
(* only channels that are registered, and none is unregistered while a     *)
(* publisher holds the lock (Visiting).  The order of events comes from    *)
(* what an event that is still on its way to a channel is ahead of         *)
(* (Ahead), and completeness from the fact that news a subscriber has not  *)
(* been sent is on its way (News).                                         *)
(***************************************************************************)
EXTENDS MeshEvents, SequenceTheorems, FiniteSetTheorems, TLAPS

Message == [id : Nat, by : Publishers \cup {""}, subject : Subjects \cup {""},
            version : Nat]

Channel == [size : Nat, buf : Seq(Message), closed : BOOLEAN, got : Seq(Message),
            missed : BOOLEAN, base : [Subjects -> Nat]]

BusType ==
    /\ stored \in [Subjects -> Nat] /\ puts \in Nat /\ seq \in Nat
    /\ pc \in [Publishers -> {"idle", "stamp", "lock", "send"}]
    /\ event \in [Publishers -> Message]
    /\ todo \in [Publishers -> SUBSET Subscribers]
    /\ subs \subseteq Subscribers
    /\ chan \in [Subscribers -> Channel]

\* A registered channel is open, a channel not made yet was never closed.
Open == \A c \in Subscribers : c \in subs \/ chan[c].size = 0 => ~chan[c].closed

\* A publisher in its loop holds the read lock, and has yet to visit only
\* channels that are registered.
Visiting ==
    \A p \in Publishers : /\ pc[p] = "send" <=> p \in readers
                          /\ pc[p] # "send" => todo[p] = {}
                          /\ todo[p] \subseteq subs

\* An event on its way is its publisher's, of a change that was made; once
\* numbered, its number is taken.
InFlight ==
    \A p \in Publishers :
        /\ pc[p] # "idle" => event[p].by = p /\ event[p].version \in 1 .. puts
        /\ pc[p] \in {"lock", "send"} => event[p].id \in 1 .. seq
        /\ \A q \in Publishers :
             p # q /\ {pc[p], pc[q]} \subseteq {"lock", "send"} => event[p].id # event[q].id

\* So was every event that was sent.
Logged ==
    \A c \in Subscribers : \A i \in DOMAIN Log(c) :
        Log(c)[i].id \in 1 .. seq /\ Log(c)[i].version \in 1 .. puts

\* p's event is on its way to c.
Pending(p, c) == pc[p] \in {"stamp", "lock"} \/ c \in todo[p]

\* An event on its way to a subscriber is newer than what its publisher sent
\* there before, and has a number of its own.
Ahead ==
    \A p \in Publishers, c \in Subscribers : Pending(p, c) =>
        \A i \in DOMAIN Log(c) :
            /\ Log(c)[i].by = p => Log(c)[i].version < event[p].version
            /\ pc[p] # "stamp" => Log(c)[i].id # event[p].id

\* c has been sent the event of the version of s in the store.
Told(c, s) == \E i \in DOMAIN Log(c) :
                 Log(c)[i].subject = s /\ Log(c)[i].version = stored[s]

\* What a subscriber that missed nothing has not been told is on its way,
\* unless nothing is published of it.
News ==
    \A c \in subs, s \in Subjects : ~chan[c].missed =>
        \/ stored[s] = chan[c].base[s]
        \/ stored[s] \in silent
        \/ Told(c, s)
        \/ \E p \in Publishers : /\ Pending(p, c)
                                 /\ event[p].subject = s /\ event[p].version = stored[s]

IndInv ==
    /\ BusType /\ Open /\ Visiting /\ InFlight /\ Logged /\ Ahead
    /\ NeverPanics /\ LogInPublisherOrder /\ News

-----------------------------------------------------------------------------
(* Facts about sequences.                                                  *)

\* A channel's log is a sequence of messages.
LEMMA LogType ==
    ASSUME BusType, NEW c \in Subscribers
    PROVE  Log(c) \in Seq(Message)
<1>1. chan[c] \in Channel
  BY DEF BusType
<1>2. chan[c].got \in Seq(Message) /\ chan[c].buf \in Seq(Message)
  BY <1>1 DEF Channel
<1>3. QED
  BY <1>2, ConcatProperties DEF Log

\* A send appends to the log.
LEMMA LogAppend ==
    ASSUME NEW g \in Seq(Message), NEW b \in Seq(Message), NEW e \in Message
    PROVE  g \o Append(b, e) = Append(g \o b, e)
<1>1. <<e>> \in Seq(Message)
  OBVIOUS
<1>2. g \o b \in Seq(Message)
  BY ConcatProperties
<1>3. Append(b, e) = b \o <<e>> /\ Append(g \o b, e) = (g \o b) \o <<e>>
  BY <1>2, AppendIsConcat
<1>4. QED
  BY <1>1, <1>3, ConcatAssociative

\* A receive leaves the log as it is.
LEMMA LogShift ==
    ASSUME NEW g \in Seq(Message), NEW b \in Seq(Message), b # << >>
    PROVE  /\ Append(g, Head(b)) \o Tail(b) = g \o b
           /\ Append(g, Head(b)) \in Seq(Message) /\ Tail(b) \in Seq(Message)
<1>1. Head(b) \in Message /\ Tail(b) \in Seq(Message) /\ <<Head(b)>> \in Seq(Message)
  BY HeadTailProperties
<1>2. b = <<Head(b)>> \o Tail(b)
  BY <1>1
<1>3. Append(g, Head(b)) = g \o <<Head(b)>>
  BY <1>1, AppendIsConcat
<1>4. Append(g, Head(b)) \in Seq(Message)
  BY <1>1, AppendProperties
<1>5. (g \o <<Head(b)>>) \o Tail(b) = g \o (<<Head(b)>> \o Tail(b))
  BY <1>1, ConcatAssociative
<1>6. QED
  BY <1>1, <1>2, <1>3, <1>4, <1>5

\* What Append adds comes last.
LEMMA AppendLast ==
    ASSUME NEW s \in Seq(Message), NEW e \in Message
    PROVE  /\ \A i \in DOMAIN Append(s, e) :
                 \/ i \in DOMAIN s /\ Append(s, e)[i] = s[i]
                 \/ i \notin DOMAIN s /\ Append(s, e)[i] = e
           /\ \A i, j \in DOMAIN Append(s, e) : i < j => i \in DOMAIN s
           /\ \A i \in DOMAIN s : i \in DOMAIN Append(s, e) /\ Append(s, e)[i] = s[i]
           /\ \E i \in DOMAIN Append(s, e) : Append(s, e)[i] = e
<1>1. /\ Len(Append(s, e)) = Len(s) + 1 /\ Append(s, e) \in Seq(Message)
      /\ \A i \in 1 .. Len(s) : Append(s, e)[i] = s[i]
      /\ Append(s, e)[Len(s) + 1] = e
  BY AppendProperties
<1>2. Len(s) \in Nat /\ DOMAIN s = 1 .. Len(s)
  BY LenProperties
<1>3. DOMAIN Append(s, e) = 1 .. (Len(s) + 1)
  BY <1>1, LenProperties
<1>4. QED
  BY <1>1, <1>2, <1>3

-----------------------------------------------------------------------------
\* The bus before the first change.
LEMMA IndInvInit == Init => IndInv
<1> SUFFICES ASSUME Init PROVE IndInv
  OBVIOUS
<1>1. NoEvent \in Message /\ NoChan \in Channel
  BY EmptySeq DEF NoEvent, NoChan, Message, Channel
<1>2. BusType
  BY <1>1 DEF Init, BusType
<1>3. \A c \in Subscribers : Log(c) = << >>
  BY EmptySeq, ConcatEmptySeq DEF Init, Log, NoChan
<1>4. \A c \in Subscribers : DOMAIN Log(c) = {}
  BY <1>3
<1>5. Open /\ Visiting /\ InFlight /\ NeverPanics
  BY DEF Init, Open, Visiting, InFlight, NeverPanics, NoChan
<1>6. Logged /\ Ahead /\ LogInPublisherOrder
  BY <1>4 DEF Logged, Ahead, LogInPublisherOrder
<1>7. News
  BY DEF Init, News
<1>8. QED
  BY <1>2, <1>5, <1>6, <1>7 DEF IndInv

\* A change of the store is newer than all that was sent; its event, if there
\* is one, is on its way to everybody.
LEMMA PutInv ==
    ASSUME IndInv, NEW p \in Publishers, Put(p) \/ PutFails(p)
    PROVE  IndInv'
<1>1. /\ pc[p] = "idle" /\ puts' = puts + 1
      /\ UNCHANGED <<seq, todo, readers, subs, chan, panicked>>
      /\ silent \subseteq silent'
  BY DEF Put, PutFails, handlers
<1>2. PICK s \in Subjects : stored' = [stored EXCEPT ![s] = puts']
  BY DEF Put, PutFails
<1>3. \/ UNCHANGED <<pc, event>> /\ puts' \in silent'
      \/ /\ pc' = [pc EXCEPT ![p] = "stamp"]
         /\ event'[p].by = p /\ event'[p].version = puts' /\ event' \in [Publishers -> Message]
         /\ \A q \in Publishers : q # p => event'[q] = event[q]
         /\ \E x \in Subjects : /\ stored' = [stored EXCEPT ![x] = puts']
                                /\ event'[p].subject = x
  <2>1. CASE PutFails(p)
    BY <2>1 DEF PutFails, handlers
  <2>2. CASE Put(p)
    <3>1. PICK x \in Subjects :
            /\ stored' = [stored EXCEPT ![x] = puts']
            /\ event' = [event EXCEPT ![p] =
                  [id |-> 0, by |-> p, subject |-> x, version |-> puts']]
      BY <2>2 DEF Put
    <3>2. puts' \in Nat
      BY <1>1 DEF IndInv, BusType
    <3>3. [id |-> 0, by |-> p, subject |-> x, version |-> puts'] \in Message
      BY <3>2 DEF Message
    <3>4. QED
      BY <2>2, <3>1, <3>3 DEF Put, IndInv, BusType
  <2>3. QED
    BY <2>1, <2>2
<1>4. \A c \in Subscribers : Log(c)' = Log(c)
  BY <1>1 DEF Log
<1>5. BusType'
  BY <1>1, <1>2, <1>3 DEF IndInv, BusType
<1>6. Open' /\ Visiting' /\ NeverPanics'
  BY <1>1, <1>3 DEF IndInv, BusType, Open, Visiting, NeverPanics
<1>7. InFlight'
  <2>1. puts \in Nat
    BY DEF IndInv, BusType
  <2>2. QED
    BY <1>1, <1>3, <2>1 DEF IndInv, BusType, InFlight
<1>8. Logged' /\ LogInPublisherOrder'
  <2>1. 1 .. puts \subseteq 1 .. puts'
    BY <1>1 DEF IndInv, BusType
  <2>2. QED
    BY <1>1, <1>4, <2>1 DEF IndInv, Logged, LogInPublisherOrder
<1>9. Ahead'
  <2> SUFFICES ASSUME NEW q \in Publishers, NEW c \in Subscribers, Pending(q, c)',
                      NEW i \in DOMAIN Log(c)
               PROVE  /\ Log(c)[i].by = q => Log(c)[i].version < event'[q].version
                      /\ pc'[q] # "stamp" => Log(c)[i].id # event'[q].id
    BY <1>4 DEF Ahead
  <2>1. Log(c)[i].version \in 1 .. puts /\ puts \in Nat
    BY DEF IndInv, Logged, BusType
  <2>2. CASE pc'[q] = pc[q] /\ event'[q] = event[q]
    BY <1>1, <2>2 DEF IndInv, Ahead, Pending
  <2>3. CASE q = p /\ pc' = [pc EXCEPT ![p] = "stamp"] /\ event'[p].version = puts'
    BY <1>1, <2>1, <2>3 DEF IndInv, BusType
  <2>4. QED
    BY <1>3, <2>2, <2>3 DEF IndInv, BusType
<1>10. News'
  <2> SUFFICES ASSUME NEW c \in subs, NEW x \in Subjects, ~chan[c].missed
               PROVE  \/ stored'[x] = chan[c].base[x]
                      \/ stored'[x] \in silent'
                      \/ Told(c, x)'
                      \/ \E q \in Publishers :
                           /\ Pending(q, c)'
                           /\ event'[q].subject = x /\ event'[q].version = stored'[x]
    BY <1>1 DEF News
  <2>1. c \in Subscribers /\ stored \in [Subjects -> Nat]
    BY DEF IndInv, BusType
  <2>2. CASE stored'[x] = stored[x]
    <3>1. Told(c, x) => Told(c, x)'
      BY <1>4, <2>1, <2>2 DEF Told
    <3>2. \A q \in Publishers : Pending(q, c) => Pending(q, c)' /\ event'[q] = event[q]
      BY <1>1, <1>3 DEF IndInv, BusType, Visiting, Pending
    <3>3. QED
      BY <1>1, <2>2, <3>1, <3>2 DEF IndInv, News
  <2>3. CASE stored'[x] # stored[x]
    <3>1. stored'[x] = puts'
      BY <1>2, <2>1, <2>3
    <3>2. CASE puts' \in silent'
      BY <3>1, <3>2
    <3>3. CASE /\ pc' = [pc EXCEPT ![p] = "stamp"] /\ event'[p].version = puts'
               /\ \E y \in Subjects : /\ stored' = [stored EXCEPT ![y] = puts']
                                      /\ event'[p].subject = y
      <4>1. event'[p].subject = x
        BY <2>1, <2>3, <3>3
      <4>2. Pending(p, c)'
        BY <3>3 DEF Pending, IndInv, BusType
      <4>3. QED
        BY <3>1, <3>3, <4>1, <4>2
    <3>4. QED
      BY <1>3, <3>2, <3>3
  <2>4. QED
    BY <2>2, <2>3
<1>11. QED
  BY <1>5, <1>6, <1>7, <1>8, <1>9, <1>10 DEF IndInv

\* The steps of publish but the sends.
LEMMA PublishInv ==
    ASSUME IndInv, NEW p \in Publishers, Stamp(p) \/ RLock(p) \/ RUnlock(p)
    PROVE  IndInv'
<1>1. UNCHANGED <<stored, silent, puts, subs, chan, panicked>>
  BY DEF Stamp, RLock, RUnlock, store
<1>2. \A c \in Subscribers : Log(c)' = Log(c)
  BY <1>1 DEF Log
<1>3. event[p] \in Message /\ event \in [Publishers -> Message]
  BY DEF IndInv, BusType
<1>4. \/ /\ Stamp(p) /\ pc[p] = "stamp" /\ pc' = [pc EXCEPT ![p] = "lock"]
         /\ seq' = seq + 1 /\ event'[p].id = seq' /\ event'[p].by = event[p].by
         /\ event'[p].subject = event[p].subject /\ event'[p].version = event[p].version
         /\ event' \in [Publishers -> Message]
         /\ \A q \in Publishers : q # p => event'[q] = event[q]
         /\ UNCHANGED <<todo, readers>>
      \/ /\ pc[p] = "lock" /\ pc' = [pc EXCEPT ![p] = "send"]
         /\ UNCHANGED <<seq, event>>
         /\ readers' = readers \cup {p} /\ todo' = [todo EXCEPT ![p] = subs]
      \/ /\ pc[p] = "send" /\ todo[p] = {} /\ pc' = [pc EXCEPT ![p] = "idle"]
         /\ seq' = seq /\ event' = [event EXCEPT ![p] = NoEvent]
         /\ readers' = readers \ {p} /\ todo' = todo
  <2>1. CASE Stamp(p)
    <3>1. event' = [event EXCEPT ![p] = [event[p] EXCEPT !.id = seq']]
      BY <1>3, <2>1 DEF Stamp
    <3>2. seq' \in Nat
      BY <2>1 DEF Stamp, IndInv, BusType
    <3>3. /\ [event[p] EXCEPT !.id = seq'] \in Message
          /\ [event[p] EXCEPT !.id = seq'].id = seq'
          /\ [event[p] EXCEPT !.id = seq'].by = event[p].by
          /\ [event[p] EXCEPT !.id = seq'].subject = event[p].subject
          /\ [event[p] EXCEPT !.id = seq'].version = event[p].version
      BY <1>3, <3>2 DEF Message
    <3>4. QED
      BY <1>3, <2>1, <3>1, <3>3 DEF Stamp
  <2>2. CASE RLock(p)
    BY <2>2 DEF RLock
  <2>3. CASE RUnlock(p)
    BY <2>3 DEF RUnlock
  <2>4. QED
    BY <2>1, <2>2, <2>3
<1>5. BusType'
  <2>1. NoEvent \in Message
    BY DEF NoEvent, Message
  <2>2. QED
    BY <1>1, <1>4, <2>1 DEF IndInv, BusType
<1>6. Open' /\ NeverPanics'
  BY <1>1 DEF IndInv, Open, NeverPanics
<1>7. Visiting'
  BY <1>1, <1>4 DEF IndInv, BusType, Visiting
<1>8. InFlight'
  <2>1. seq \in Nat
    BY DEF IndInv, BusType
  <2>2. \A q \in Publishers : pc[q] \in {"lock", "send"} => event[q].id \in 1 .. seq
    BY DEF IndInv, InFlight
  <2>3. QED
    BY <1>1, <1>4, <2>1, <2>2 DEF IndInv, BusType, InFlight
<1>9. Logged' /\ LogInPublisherOrder'
  <2>1. 1 .. seq \subseteq 1 .. seq'
    BY <1>4 DEF IndInv, BusType
  <2>2. QED
    BY <1>1, <1>2, <2>1 DEF IndInv, Logged, LogInPublisherOrder
<1>10. Ahead'
  <2> SUFFICES ASSUME NEW q \in Publishers, NEW c \in Subscribers, Pending(q, c)',
                      NEW i \in DOMAIN Log(c)
               PROVE  /\ Log(c)[i].by = q => Log(c)[i].version < event'[q].version
                      /\ pc'[q] # "stamp" => Log(c)[i].id # event'[q].id
    BY <1>2 DEF Ahead
  <2>1. Log(c)[i].id \in 1 .. seq /\ seq \in Nat
    BY DEF IndInv, Logged, BusType
  <2>2. Pending(q, c)
    BY <1>4 DEF Pending, IndInv, BusType
  <2>3. CASE q # p
    <3>1. pc'[q] = pc[q] /\ event'[q] = event[q]
      BY <1>4, <2>3 DEF IndInv, BusType
    <3>2. QED
      BY <2>2, <3>1 DEF IndInv, Ahead
  <2>4. CASE q = p
    <3>1. CASE pc[p] = "stamp"
      BY <1>4, <2>1, <2>2, <2>4, <3>1 DEF IndInv, BusType, Ahead
    <3>2. CASE pc[p] = "lock"
      BY <1>4, <2>2, <2>4, <3>2 DEF IndInv, Ahead
    <3>3. CASE pc[p] = "send"
      BY <1>4, <2>2, <2>4, <3>3 DEF IndInv, BusType, Pending
    <3>4. QED
      BY <1>4, <3>1, <3>2, <3>3
  <2>5. QED
    BY <2>3, <2>4
<1>11. News'
  <2> SUFFICES ASSUME NEW c \in subs, NEW x \in Subjects, ~chan[c].missed
               PROVE  \/ stored[x] = chan[c].base[x]
                      \/ stored[x] \in silent
                      \/ Told(c, x)'
                      \/ \E q \in Publishers :
                           /\ Pending(q, c)'
                           /\ event'[q].subject = x /\ event'[q].version = stored[x]
    BY <1>1 DEF News
  <2>1. c \in Subscribers
    BY DEF IndInv, BusType
  <2>2. Told(c, x) => Told(c, x)'
    BY <1>1, <1>2, <2>1 DEF Told
  <2>3. \A q \in Publishers : Pending(q, c) =>
          /\ Pending(q, c)'
          /\ event'[q].subject = event[q].subject
          /\ event'[q].version = event[q].version
    BY <1>4 DEF IndInv, BusType, Pending
  <2>4. QED
    BY <2>2, <2>3 DEF IndInv, News
<1>12. QED
  BY <1>5, <1>6, <1>7, <1>8, <1>9, <1>10, <1>11 DEF IndInv

\* A send appends the event to the log of a channel that is open, or marks a
\* full channel as having missed it.
LEMMA SendFacts ==
    ASSUME IndInv, NEW p \in Publishers, NEW c \in Subscribers, Send(p, c)
    PROVE  /\ chan' \in [Subscribers -> Channel] /\ ~panicked'
           /\ \A d \in Subscribers : /\ chan'[d].size = chan[d].size
                                     /\ chan'[d].closed = chan[d].closed
                                     /\ chan'[d].base = chan[d].base
                                     /\ d # c => chan'[d] = chan[d]
           /\ \/ Log(c)' = Append(Log(c), event[p]) /\ chan'[c].missed = chan[c].missed
              \/ Log(c)' = Log(c) /\ chan'[c].missed = TRUE
<1>1. /\ chan[c] \in Channel /\ event[p] \in Message /\ c \in subs
      /\ chan \in [Subscribers -> Channel]
  BY DEF IndInv, BusType, Visiting, Send
<1>2. /\ chan[c].got \in Seq(Message) /\ chan[c].buf \in Seq(Message)
      /\ Append(chan[c].buf, event[p]) \in Seq(Message)
  BY <1>1, AppendProperties DEF Channel
<1>3. ~panicked'
  BY <1>1 DEF IndInv, Open, NeverPanics, Send
<1>4. CASE chan' = [chan EXCEPT ![c].buf = Append(chan[c].buf, event[p])]
  <2> DEFINE n == [chan[c] EXCEPT !.buf = Append(chan[c].buf, event[p])]
  <2>1. chan' = [chan EXCEPT ![c] = n]
    BY <1>1, <1>4
  <2>2. /\ n \in Channel /\ n.size = chan[c].size /\ n.closed = chan[c].closed
        /\ n.base = chan[c].base /\ n.missed = chan[c].missed /\ n.got = chan[c].got
        /\ n.buf = Append(chan[c].buf, event[p])
    BY <1>1, <1>2 DEF Channel
  <2> HIDE DEF n
  <2>3. chan'[c] = n /\ \A d \in Subscribers : d # c => chan'[d] = chan[d]
    BY <1>1, <2>1
  <2>4. Log(c)' = Append(Log(c), event[p])
    BY <1>1, <1>2, <2>2, <2>3, LogAppend DEF Log
  <2>5. QED
    BY <1>1, <1>3, <2>1, <2>2, <2>3, <2>4
<1>5. CASE chan' = [chan EXCEPT ![c].missed = TRUE]
  <2> DEFINE n == [chan[c] EXCEPT !.missed = TRUE]
  <2>1. chan' = [chan EXCEPT ![c] = n]
    BY <1>1, <1>5
  <2>2. /\ n \in Channel /\ n.size = chan[c].size /\ n.closed = chan[c].closed
        /\ n.base = chan[c].base /\ n.missed = TRUE /\ n.got = chan[c].got
        /\ n.buf = chan[c].buf
    BY <1>1 DEF Channel
  <2> HIDE DEF n
  <2>3. chan'[c] = n /\ \A d \in Subscribers : d # c => chan'[d] = chan[d]
    BY <1>1, <2>1
  <2>4. Log(c)' = Log(c)
    BY <2>2, <2>3 DEF Log
  <2>5. QED
    BY <1>1, <1>3, <2>1, <2>2, <2>3, <2>4
<1>6. QED
  BY <1>4, <1>5 DEF Send

\* Send: the event was ahead of the log, and others still are.
LEMMA SendInv ==
    ASSUME IndInv, NEW p \in Publishers, NEW c \in Subscribers, Send(p, c)
    PROVE  IndInv'
<1>1. /\ pc[p] = "send" /\ c \in todo[p] /\ todo' = [todo EXCEPT ![p] = todo[p] \ {c}]
      /\ UNCHANGED <<stored, silent, puts, seq, pc, event, readers, subs>>
  BY DEF Send, store
<1>2. /\ chan' \in [Subscribers -> Channel] /\ ~panicked'
      /\ \A d \in Subscribers : /\ chan'[d].size = chan[d].size
                                /\ chan'[d].closed = chan[d].closed
                                /\ chan'[d].base = chan[d].base
                                /\ d # c => chan'[d] = chan[d]
      /\ \/ Log(c)' = Append(Log(c), event[p]) /\ chan'[c].missed = chan[c].missed
         \/ Log(c)' = Log(c) /\ chan'[c].missed = TRUE
  BY SendFacts
<1>3. \A d \in Subscribers : d # c => Log(d)' = Log(d)
  BY <1>2 DEF Log
<1>4. event[p] \in Message /\ Log(c) \in Seq(Message)
  BY LogType DEF IndInv, BusType
<1>5. /\ event[p].by = p /\ event[p].version \in 1 .. puts /\ event[p].id \in 1 .. seq
      /\ \A i \in DOMAIN Log(c) :
           /\ Log(c)[i].by = p => Log(c)[i].version < event[p].version
           /\ Log(c)[i].id # event[p].id
  BY <1>1 DEF IndInv, InFlight, Ahead, Pending
<1>6. \A i \in DOMAIN Log(c)' : \/ i \in DOMAIN Log(c) /\ Log(c)'[i] = Log(c)[i]
                                \/ i \notin DOMAIN Log(c) /\ Log(c)'[i] = event[p]
  BY <1>2, <1>4, AppendLast
<1>7. \A i, j \in DOMAIN Log(c)' : i < j => i \in DOMAIN Log(c)
  <2>1. CASE Log(c)' = Log(c)
    BY <2>1
  <2>2. CASE Log(c)' = Append(Log(c), event[p])
    BY <1>4, <2>2, AppendLast
  <2>3. QED
    BY <1>2, <2>1, <2>2
<1>8. BusType'
  BY <1>1, <1>2 DEF IndInv, BusType
<1>9. Open' /\ NeverPanics' /\ Visiting'
  BY <1>1, <1>2 DEF IndInv, BusType, Open, NeverPanics, Visiting
<1>10. InFlight'
  BY <1>1 DEF IndInv, InFlight
<1>11. Logged'
  <2> SUFFICES ASSUME NEW d \in Subscribers, NEW i \in DOMAIN Log(d)'
               PROVE  Log(d)'[i].id \in 1 .. seq /\ Log(d)'[i].version \in 1 .. puts
    BY <1>1 DEF Logged
  <2>1. CASE d # c
    BY <1>3, <2>1 DEF IndInv, Logged
  <2>2. CASE d = c
    BY <1>5, <1>6, <2>2 DEF IndInv, Logged
  <2>3. QED
    BY <2>1, <2>2
<1>12. LogInPublisherOrder'
  <2> SUFFICES ASSUME NEW d \in Subscribers, NEW i \in DOMAIN Log(d)',
                      NEW j \in DOMAIN Log(d)', i < j
               PROVE  /\ Log(d)'[i].id # Log(d)'[j].id
                      /\ Log(d)'[i].by = Log(d)'[j].by =>
                           Log(d)'[i].version < Log(d)'[j].version
    BY DEF LogInPublisherOrder
  <2>1. CASE d # c
    BY <1>3, <2>1 DEF IndInv, LogInPublisherOrder
  <2>2. CASE d = c
    <3>1. i \in DOMAIN Log(c) /\ Log(c)'[i] = Log(c)[i]
      BY <1>6, <1>7, <2>2
    <3>2. CASE j \in DOMAIN Log(c)
      BY <1>6, <2>2, <3>1, <3>2 DEF IndInv, LogInPublisherOrder
    <3>3. CASE j \notin DOMAIN Log(c)
      BY <1>5, <1>6, <2>2, <3>1, <3>3
    <3>4. QED
      BY <3>2, <3>3
  <2>3. QED
    BY <2>1, <2>2
<1>13. Ahead'
  <2> SUFFICES ASSUME NEW q \in Publishers, NEW d \in Subscribers, Pending(q, d)',
                      NEW i \in DOMAIN Log(d)'
               PROVE  /\ Log(d)'[i].by = q => Log(d)'[i].version < event[q].version
                      /\ pc[q] # "stamp" => Log(d)'[i].id # event[q].id
    BY <1>1 DEF Ahead
  <2>1. Pending(q, d) /\ (q = p => d # c)
    BY <1>1 DEF Pending, IndInv, BusType
  <2>2. CASE i \in DOMAIN Log(d) /\ Log(d)'[i] = Log(d)[i]
    BY <2>1, <2>2 DEF IndInv, Ahead
  <2>3. CASE d = c /\ Log(d)'[i] = event[p]
    <3>1. q # p /\ pc[q] \in {"stamp", "lock", "send"}
      BY <2>1, <2>3 DEF Pending, IndInv, Visiting
    <3>2. pc[q] # "stamp" => event[p].id # event[q].id
      BY <1>1, <3>1 DEF IndInv, InFlight
    <3>3. QED
      BY <1>5, <2>3, <3>1, <3>2
  <2>4. QED
    BY <1>3, <1>6, <2>2, <2>3
<1>14. News'
  <2> SUFFICES ASSUME NEW d \in subs, NEW x \in Subjects, ~chan'[d].missed
               PROVE  \/ stored[x] = chan[d].base[x]
                      \/ stored[x] \in silent
                      \/ Told(d, x)'
                      \/ \E q \in Publishers :
                           /\ Pending(q, d)'
                           /\ event[q].subject = x /\ event[q].version = stored[x]
    BY <1>1, <1>2 DEF News, IndInv, BusType
  <2>1. d \in Subscribers
    BY DEF IndInv, BusType
  <2>2. ~chan[d].missed /\ (d = c => Log(c)' = Append(Log(c), event[p]))
    BY <1>2, <2>1
  <2>3. Told(d, x) => Told(d, x)'
    <3>1. \A i \in DOMAIN Log(d) : i \in DOMAIN Log(d)' /\ Log(d)'[i] = Log(d)[i]
      BY <1>3, <1>4, <2>1, <2>2, AppendLast
    <3>2. QED
      BY <1>1, <3>1 DEF Told
  <2>4. ASSUME NEW q \in Publishers, Pending(q, d),
               event[q].subject = x, event[q].version = stored[x]
        PROVE  Pending(q, d)' \/ Told(d, x)'
    <3>1. CASE q = p /\ d = c
      <4>1. \E i \in DOMAIN Log(d)' : Log(d)'[i] = event[p]
        BY <1>4, <2>2, <3>1, AppendLast
      <4>2. QED
        BY <1>1, <2>4, <3>1, <4>1 DEF Told
    <3>2. CASE ~(q = p /\ d = c)
      BY <1>1, <2>4, <3>2 DEF Pending, IndInv, BusType
    <3>3. QED
      BY <3>1, <3>2
  <2>5. QED
    BY <2>2, <2>3, <2>4 DEF IndInv, News
<1>15. QED
  BY <1>8, <1>9, <1>10, <1>11, <1>12, <1>13, <1>14 DEF IndInv

\* Subscribe and cancel run when no publisher is in its loop; Receive moves an
\* event within the log.
LEMMA SubscriberInv ==
    ASSUME IndInv, NEW c \in Subscribers, Subscribe(c) \/ Cancel(c) \/ Receive(c)
    PROVE  IndInv'
<1>1. UNCHANGED <<stored, silent, puts, seq, pc, event, todo, readers>>
  BY DEF Subscribe, Cancel, Receive, store, handlers
<1>2. chan[c] \in Channel /\ chan \in [Subscribers -> Channel]
  BY DEF IndInv, BusType
<1>3. \E n \in Channel :
        /\ chan' = [chan EXCEPT ![c] = n]
        /\ n.got \o n.buf = chan[c].got \o chan[c].buf
        /\ n.missed = chan[c].missed
        /\ \/ /\ subs' = subs /\ n.closed = chan[c].closed /\ n.base = chan[c].base
              /\ n.size = chan[c].size
           \/ /\ subs' = subs \cup {c} /\ n.closed = FALSE /\ n.base = stored
              /\ readers = {}
           \/ subs' = subs \ {c} /\ readers = {} /\ n.size > 0
        /\ ~panicked'
  <2>1. CASE Subscribe(c)
    <3>1. PICK b \in Buffers : chan' = [chan EXCEPT
             ![c].size = IF b < 1 THEN 1 ELSE b, ![c].base = stored]
      BY <2>1 DEF Subscribe
    <3> DEFINE z == IF b < 1 THEN 1 ELSE b
               n == [chan[c] EXCEPT !.size = z, !.base = stored]
    <3>2. z \in Nat /\ stored \in [Subjects -> Nat]
      BY BuffersType DEF IndInv, BusType
    <3>3. chan' = [chan EXCEPT ![c] = n]
      BY <1>2, <3>1
    <3> HIDE DEF z
    <3>4. /\ n \in Channel /\ n.got = chan[c].got /\ n.buf = chan[c].buf
          /\ n.missed = chan[c].missed /\ n.closed = chan[c].closed /\ n.base = stored
      BY <1>2, <3>2 DEF Channel
    <3>5. ~chan[c].closed /\ readers = {} /\ subs' = subs \cup {c} /\ ~panicked'
      BY <2>1 DEF Subscribe, IndInv, Open, NeverPanics
    <3>6. n.closed = FALSE
      BY <1>2, <3>4, <3>5 DEF Channel
    <3> HIDE DEF n
    <3>7. QED
      BY <3>3, <3>4, <3>5, <3>6
  <2>2. CASE Cancel(c) /\ c \in subs
    <3> DEFINE n == [chan[c] EXCEPT !.closed = TRUE]
    <3>1. /\ subs' = subs \ {c} /\ chan' = [chan EXCEPT ![c] = n]
          /\ panicked' = (panicked \/ chan[c].closed) /\ readers = {} /\ chan[c].size > 0
      BY <1>2, <2>2 DEF Cancel
    <3>2. ~panicked'
      BY <2>2, <3>1 DEF IndInv, Open, NeverPanics
    <3>3. /\ n \in Channel /\ n.got = chan[c].got /\ n.buf = chan[c].buf
          /\ n.missed = chan[c].missed /\ n.size = chan[c].size
      BY <1>2 DEF Channel
    <3> HIDE DEF n
    <3>4. QED
      BY <3>1, <3>2, <3>3
  <2>3. CASE Cancel(c) /\ c \notin subs
    <3>1. chan' = [chan EXCEPT ![c] = chan[c]] /\ subs' = subs /\ ~panicked'
      BY <1>2, <2>3 DEF Cancel, IndInv, NeverPanics
    <3>2. QED
      BY <1>2, <3>1
  <2>4. CASE Receive(c)
    <3> DEFINE n == [chan[c] EXCEPT !.buf = Tail(chan[c].buf),
                                    !.got = Append(chan[c].got, Head(chan[c].buf))]
    <3>1. chan[c].got \in Seq(Message) /\ chan[c].buf \in Seq(Message) /\ chan[c].buf # << >>
      BY <1>2, <2>4 DEF Channel, Receive
    <3>2. /\ Append(chan[c].got, Head(chan[c].buf)) \o Tail(chan[c].buf)
               = chan[c].got \o chan[c].buf
          /\ Append(chan[c].got, Head(chan[c].buf)) \in Seq(Message)
          /\ Tail(chan[c].buf) \in Seq(Message)
      BY <3>1, LogShift
    <3>3. chan' = [chan EXCEPT ![c] = n]
      BY <1>2, <2>4 DEF Receive
    <3>4. /\ n \in Channel /\ n.buf = Tail(chan[c].buf)
          /\ n.got = Append(chan[c].got, Head(chan[c].buf))
          /\ n.missed = chan[c].missed /\ n.size = chan[c].size
          /\ n.closed = chan[c].closed /\ n.base = chan[c].base
      BY <1>2, <3>2 DEF Channel
    <3>5. subs' = subs /\ ~panicked'
      BY <2>4 DEF Receive, IndInv, NeverPanics
    <3> HIDE DEF n
    <3>6. QED
      BY <3>2, <3>3, <3>4, <3>5
  <2>5. QED
    BY <2>1, <2>2, <2>3, <2>4
<1>4. PICK n \in Channel :
        /\ chan' = [chan EXCEPT ![c] = n]
        /\ n.got \o n.buf = chan[c].got \o chan[c].buf
        /\ n.missed = chan[c].missed
        /\ \/ /\ subs' = subs /\ n.closed = chan[c].closed /\ n.base = chan[c].base
              /\ n.size = chan[c].size
           \/ /\ subs' = subs \cup {c} /\ n.closed = FALSE /\ n.base = stored
              /\ readers = {}
           \/ subs' = subs \ {c} /\ readers = {} /\ n.size > 0
        /\ ~panicked'
  BY <1>3
<1>5. chan'[c] = n /\ \A d \in Subscribers : d # c => chan'[d] = chan[d]
  BY <1>2, <1>4
<1>6. \A d \in Subscribers : Log(d)' = Log(d)
  BY <1>4, <1>5 DEF Log
<1>7. BusType'
  BY <1>1, <1>2, <1>4 DEF IndInv, BusType
<1>8. Open'
  <2>1. n.size \in Nat /\ chan[c].size \in Nat
    BY <1>2 DEF Channel
  <2>2. QED
    BY <1>4, <1>5, <2>1 DEF IndInv, Open
<1>9. Visiting' /\ NeverPanics'
  <2>1. readers = {} => \A p \in Publishers : todo[p] = {}
    BY DEF IndInv, Visiting
  <2>2. QED
    BY <1>1, <1>4, <2>1 DEF IndInv, Visiting, NeverPanics
<1>10. InFlight' /\ Logged' /\ Ahead' /\ LogInPublisherOrder'
  BY <1>1, <1>6 DEF IndInv, InFlight, Logged, Ahead, Pending, LogInPublisherOrder
<1>11. News'
  <2> SUFFICES ASSUME NEW d \in subs', NEW x \in Subjects, ~chan'[d].missed
               PROVE  \/ stored[x] = chan'[d].base[x]
                      \/ stored[x] \in silent
                      \/ Told(d, x)'
                      \/ \E q \in Publishers :
                           /\ Pending(q, d)'
                           /\ event[q].subject = x /\ event[q].version = stored[x]
    BY <1>1 DEF News
  <2>1. d \in Subscribers
    BY <1>7 DEF BusType
  <2>2. \A q \in Publishers : Pending(q, d)' <=> Pending(q, d)
    BY <1>1 DEF Pending
  <2>3. Told(d, x)' <=> Told(d, x)
    BY <1>1, <1>6, <2>1 DEF Told
  <2>4. CASE chan'[d].base = stored
    BY <2>4
  <2>5. CASE d \in subs /\ chan'[d].base = chan[d].base /\ chan'[d].missed = chan[d].missed
    BY <2>2, <2>3, <2>5 DEF IndInv, News
  <2>6. QED
    BY <1>4, <1>5, <2>1, <2>4, <2>5
<1>12. QED
  BY <1>7, <1>8, <1>9, <1>10, <1>11 DEF IndInv

-----------------------------------------------------------------------------
(* The theorems.                                                           *)

\* Every step preserves the invariant.
LEMMA IndInvNext == IndInv /\ [Next]_vars => IndInv'
<1> SUFFICES ASSUME IndInv, [Next]_vars PROVE IndInv'
  OBVIOUS
<1>1. CASE UNCHANGED vars
  <2>1. UNCHANGED <<stored, silent, puts, seq, pc, event, todo, readers, subs, chan, panicked>>
    BY <1>1 DEF vars, store, handlers
  <2>2. \A c \in Subscribers : Log(c)' = Log(c)
    BY <2>1 DEF Log
  <2>3. BusType' /\ Open' /\ Visiting' /\ InFlight' /\ NeverPanics'
    BY <2>1 DEF IndInv, BusType, Open, Visiting, InFlight, NeverPanics
  <2>4. Logged' /\ Ahead' /\ LogInPublisherOrder'
    BY <2>1, <2>2 DEF IndInv, Logged, Ahead, Pending, LogInPublisherOrder
  <2>5. subs \subseteq Subscribers
    BY DEF IndInv, BusType
  <2>6. News'
    BY <2>1, <2>2, <2>5 DEF IndInv, News, Told, Pending
  <2>7. QED
    BY <2>3, <2>4, <2>6 DEF IndInv
<1>2. QED
  BY <1>1, PutInv, PublishInv, SendInv, SubscriberInv, Zenon DEF Next, Publish

\* The invariant of the bus.
THEOREM Invariance == Spec => []IndInv
  BY IndInvInit, IndInvNext, PTL DEF Spec

\* publish never sends on a closed channel and cancel never closes one twice,
\* which would end the process.
THEOREM BusNeverPanics == Spec => []NeverPanics
<1>1. IndInv => NeverPanics
  BY DEF IndInv
<1>2. QED
  BY <1>1, Invariance, PTL

\* A subscriber sees each event number once, and each handler's events in the
\* order of its changes.
THEOREM PublisherOrder == Spec => []LogInPublisherOrder
<1>1. IndInv => LogInPublisherOrder
  BY DEF IndInv
<1>2. QED
  BY <1>1, Invariance, PTL

\* Between changes, a subscriber whose channel never filled up was sent what
\* the store holds, but for changes whose write failed.
THEOREM NewsComplete == Spec => []QuietNewsComplete
<1>1. ASSUME IndInv PROVE QuietNewsComplete
  <2>1. ASSUME \A p \in Publishers : pc[p] = "idle", NEW c
        PROVE  \A p \in Publishers : ~Pending(p, c)
    BY <1>1, <2>1 DEF IndInv, Visiting, Pending
  <2>2. QED
    BY <1>1, <2>1 DEF IndInv, News, Told, QuietNewsComplete
<1>2. QED
  BY <1>1, Invariance, PTL

-----------------------------------------------------------------------------
(* Type correctness.  That the event counter stays within the changes made *)
(* takes counting: an event is numbered at most once for each change, and  *)
(* the events still to be numbered are of changes made already.            *)

Unnumbered == {p \in Publishers : pc[p] = "stamp"}

Counted ==
    /\ puts <= MaxPuts /\ IsFiniteSet(Unnumbered)
    /\ seq + Cardinality(Unnumbered) <= puts

Valued ==
    /\ stored \in [Subjects -> 0 .. puts] /\ silent \subseteq 1 .. puts
    /\ readers \subseteq Publishers /\ panicked \in BOOLEAN
    /\ \A p \in Publishers : /\ pc[p] \in {"idle", "stamp"} => event[p].id = 0
                             /\ pc[p] = "idle" => event[p].version = 0

Sized ==
    \A c \in Subscribers : /\ Len(chan[c].buf) <= chan[c].size
                           /\ c \in subs => chan[c].size >= 1

LEMMA CountedNext ==
    ASSUME BusType, Counted, [Next]_vars
    PROVE  Counted'
<1>1. /\ pc \in [Publishers -> {"idle", "stamp", "lock", "send"}]
      /\ seq \in Nat /\ puts \in Nat
  BY DEF BusType
<1>2. Cardinality(Unnumbered) \in Nat
  BY FS_CardinalityType DEF Counted
<1>3. ASSUME NEW p \in Publishers, Put(p)
      PROVE  Counted'
  <2>1. Unnumbered' = Unnumbered \cup {p} /\ p \notin Unnumbered
    BY <1>1, <1>3 DEF Put, Unnumbered
  <2>2. /\ IsFiniteSet(Unnumbered')
        /\ Cardinality(Unnumbered') = Cardinality(Unnumbered) + 1
    BY <2>1, FS_AddElement DEF Counted
  <2>3. puts' = puts + 1 /\ puts < MaxPuts /\ seq' = seq
    BY <1>3 DEF Put
  <2>4. QED
    BY <1>1, <1>2, <2>2, <2>3, MaxPutsType DEF Counted
<1>4. ASSUME NEW p \in Publishers, Stamp(p)
      PROVE  Counted'
  <2>1. Unnumbered' = Unnumbered \ {p} /\ p \in Unnumbered
    BY <1>1, <1>4 DEF Stamp, Unnumbered
  <2>2. /\ IsFiniteSet(Unnumbered')
        /\ Cardinality(Unnumbered') = Cardinality(Unnumbered) - 1
    BY <2>1, FS_RemoveElement DEF Counted
  <2>3. puts' = puts /\ seq' = seq + 1
    BY <1>4 DEF Stamp, store
  <2>4. QED
    BY <1>1, <1>2, <2>2, <2>3, MaxPutsType DEF Counted
<1>5. ASSUME NEW p \in Publishers, RLock(p) \/ RUnlock(p)
      PROVE  Counted'
  <2>1. Unnumbered' = Unnumbered
    BY <1>1, <1>5 DEF RLock, RUnlock, Unnumbered
  <2>2. puts' = puts /\ seq' = seq
    BY <1>5 DEF RLock, RUnlock, store
  <2>3. QED
    BY <2>1, <2>2 DEF Counted
<1>6. ASSUME NEW p \in Publishers, PutFails(p)
      PROVE  Counted'
  <2>1. Unnumbered' = Unnumbered
    BY <1>6 DEF PutFails, handlers, Unnumbered
  <2>2. puts' = puts + 1 /\ puts < MaxPuts /\ seq' = seq
    BY <1>6 DEF PutFails
  <2>3. QED
    BY <1>1, <1>2, <2>1, <2>2, MaxPutsType DEF Counted
<1>7. ASSUME NEW c \in Subscribers,
             \/ \E p \in Publishers : Send(p, c)
             \/ Subscribe(c) \/ Cancel(c) \/ Receive(c)
      PROVE  Counted'
  <2>1. Unnumbered' = Unnumbered /\ puts' = puts /\ seq' = seq
    BY <1>7 DEF Send, Subscribe, Cancel, Receive, store, handlers, Unnumbered
  <2>2. QED
    BY <2>1 DEF Counted
<1>8. CASE UNCHANGED vars
  BY <1>8 DEF vars, store, handlers, Counted, Unnumbered
<1>9. QED
  BY <1>3, <1>4, <1>5, <1>6, <1>7, <1>8 DEF Next, Publish

LEMMA ValuedNext ==
    ASSUME BusType, Valued, [Next]_vars
    PROVE  Valued'
<1>1. /\ pc \in [Publishers -> {"idle", "stamp", "lock", "send"}]
      /\ event \in [Publishers -> Message]
      /\ puts \in Nat
  BY DEF BusType
<1>2. ASSUME NEW p \in Publishers, Put(p) \/ PutFails(p)
      PROVE  stored' \in [Subjects -> 0 .. puts'] /\ silent' \subseteq 1 .. puts'
  <2>1. PICK s \in Subjects : stored' = [stored EXCEPT ![s] = puts']
    BY <1>2 DEF Put, PutFails
  <2>2. puts' = puts + 1 /\ silent' \subseteq silent \cup {puts'}
    BY <1>2 DEF Put, PutFails
  <2>3. QED
    BY <1>1, <2>1, <2>2 DEF Valued
<1>3. ASSUME NEW p \in Publishers, Put(p)
      PROVE  Valued'
  <2>1. PICK s \in Subjects : event' = [event EXCEPT ![p] =
                [id |-> 0, by |-> p, subject |-> s, version |-> puts']]
    BY <1>3 DEF Put
  <2>2. pc' = [pc EXCEPT ![p] = "stamp"] /\ UNCHANGED <<readers, panicked>>
    BY <1>3 DEF Put
  <2>3. QED
    BY <1>1, <1>2, <1>3, <2>1, <2>2 DEF Valued
<1>4. ASSUME NEW p \in Publishers, PutFails(p)
      PROVE  Valued'
  BY <1>2, <1>4 DEF PutFails, handlers, Valued
<1>5. ASSUME NEW p \in Publishers, Stamp(p)
      PROVE  Valued'
  <2>1. \A q \in Publishers \ {p} : pc'[q] = pc[q] /\ event'[q] = event[q]
    BY <1>1, <1>5 DEF Stamp
  <2>2. pc'[p] = "lock" /\ UNCHANGED <<stored, silent, puts, readers, panicked>>
    BY <1>1, <1>5 DEF Stamp, store
  <2>3. QED
    BY <2>1, <2>2 DEF Valued
<1>6. ASSUME NEW p \in Publishers, RLock(p)
      PROVE  Valued'
  <2>1. \A q \in Publishers \ {p} : pc'[q] = pc[q]
    BY <1>1, <1>6 DEF RLock
  <2>2. pc'[p] = "send" /\ readers' = readers \cup {p}
    BY <1>1, <1>6 DEF RLock
  <2>3. UNCHANGED <<stored, silent, puts, event, panicked>>
    BY <1>6 DEF RLock, store
  <2>4. QED
    BY <2>1, <2>2, <2>3 DEF Valued
<1>7. ASSUME NEW p \in Publishers, RUnlock(p)
      PROVE  Valued'
  <2>1. \A q \in Publishers \ {p} : pc'[q] = pc[q] /\ event'[q] = event[q]
    BY <1>1, <1>7 DEF RUnlock
  <2>2. event'[p] = NoEvent /\ readers' \subseteq readers
    BY <1>1, <1>7 DEF RUnlock
  <2>3. UNCHANGED <<stored, silent, puts, panicked>>
    BY <1>7 DEF RUnlock, store
  <2>4. QED
    <3>1. event'[p].id = 0 /\ event'[p].version = 0
      <4>1. NoEvent.id = 0 /\ NoEvent.version = 0
        BY DEF NoEvent
      <4>2. QED
        BY <2>2, <4>1
    <3>2. \A q \in Publishers : /\ pc'[q] \in {"idle", "stamp"} => event'[q].id = 0
                                /\ pc'[q] = "idle" => event'[q].version = 0
      BY <2>1, <3>1 DEF Valued
    <3>3. QED
      BY <2>2, <2>3, <3>2 DEF Valued
<1>8. ASSUME NEW c \in Subscribers,
             \/ \E p \in Publishers : Send(p, c)
             \/ Subscribe(c) \/ Cancel(c) \/ Receive(c)
      PROVE  Valued'
  <2>1. UNCHANGED <<stored, silent, puts, readers, pc, event>>
    BY <1>8 DEF Send, Subscribe, Cancel, Receive, store, handlers
  <2>2. chan \in [Subscribers -> Channel]
    BY DEF BusType
  <2>3. chan[c].closed \in BOOLEAN
    BY <2>2 DEF Channel
  <2>4. panicked' \in BOOLEAN
    BY <1>8, <2>3 DEF Send, Subscribe, Cancel, Receive, Valued
  <2>5. QED
    BY <2>1, <2>4 DEF Valued
<1>9. CASE UNCHANGED vars
  BY <1>9 DEF vars, store, handlers, Valued
<1>10. QED
  BY <1>3, <1>4, <1>5, <1>6, <1>7, <1>8, <1>9 DEF Next, Publish

LEMMA SizedNext ==
    ASSUME BusType, Sized, [Next]_vars
    PROVE  Sized'
<1>1. chan \in [Subscribers -> Channel]
  BY DEF BusType
<1>2. \A c \in Subscribers : /\ chan[c].buf \in Seq(Message) /\ chan[c].size \in Nat
                             /\ Len(chan[c].buf) \in Nat
  BY <1>1, LenProperties DEF Channel
<1>3. ASSUME NEW p \in Publishers, NEW c \in Subscribers, Send(p, c)
      PROVE  Sized'
  <2>1. /\ chan'[c].size = chan[c].size
        /\ \/ chan'[c].buf = chan[c].buf
           \/ /\ Len(chan[c].buf) < chan[c].size
              /\ chan'[c].buf = Append(chan[c].buf, event[p])
    BY <1>1, <1>3 DEF Send, Channel
  <2>2. event[p] \in Message /\ subs' = subs
    BY <1>3 DEF BusType, Send
  <2>3. Len(Append(chan[c].buf, event[p])) = Len(chan[c].buf) + 1
    BY <1>2, <2>2, AppendProperties
  <2>4. Len(chan'[c].buf) <= chan'[c].size
    BY <1>2, <2>1, <2>3 DEF Sized
  <2>5. \A d \in Subscribers \ {c} : chan'[d] = chan[d]
    BY <1>1, <1>3 DEF Send
  <2>6. QED
    BY <2>1, <2>2, <2>4, <2>5 DEF Sized
<1>4. ASSUME NEW c \in Subscribers, Subscribe(c)
      PROVE  Sized'
  <2>1. PICK b \in Buffers : chan' = [chan EXCEPT
            ![c].size = IF b < 1 THEN 1 ELSE b, ![c].base = stored]
    BY <1>4 DEF Subscribe
  <2>2. b \in Int /\ subs' = subs \cup {c} /\ chan[c].size = 0
    BY <1>4, BuffersType DEF Subscribe
  <2>3. chan'[c].size >= 1 /\ chan'[c].buf = chan[c].buf
    BY <1>1, <2>1, <2>2 DEF Channel
  <2>4. Len(chan[c].buf) = 0
    BY <1>2, <2>2 DEF Sized
  <2>5. chan'[c].size \in Nat
    BY <1>1, <2>1, <2>2 DEF Channel
  <2>6. \A d \in Subscribers \ {c} : chan'[d] = chan[d]
    BY <1>1, <2>1
  <2>7. Len(chan'[c].buf) <= chan'[c].size
    BY <2>3, <2>4, <2>5
  <2>8. QED
    BY <2>2, <2>3, <2>6, <2>7 DEF Sized
<1>5. ASSUME NEW c \in Subscribers, Cancel(c)
      PROVE  Sized'
  <2>1. subs' \subseteq subs
    BY <1>5 DEF Cancel
  <2>2. \A d \in Subscribers : chan'[d].size = chan[d].size /\ chan'[d].buf = chan[d].buf
    <3>1. CASE chan' = [chan EXCEPT ![c].closed = TRUE]
      BY <1>1, <3>1 DEF Channel
    <3>2. CASE chan' = chan
      BY <3>2
    <3>3. QED
      BY <1>5, <3>1, <3>2 DEF Cancel
  <2>3. QED
    BY <2>1, <2>2 DEF Sized
<1>6. ASSUME NEW c \in Subscribers, Receive(c)
      PROVE  Sized'
  <2>1. /\ chan'[c].size = chan[c].size /\ chan'[c].buf = Tail(chan[c].buf)
        /\ \A d \in Subscribers \ {c} : chan'[d] = chan[d]
    BY <1>1, <1>6 DEF Receive, Channel
  <2>2. Len(Tail(chan[c].buf)) = Len(chan[c].buf) - 1
    BY <1>2, <1>6, HeadTailProperties DEF Receive
  <2>3. Len(chan'[c].buf) <= chan'[c].size
    <3>1. Len(chan[c].buf) <= chan[c].size /\ Len(chan[c].buf) \in Nat /\ chan[c].size \in Nat
      BY <1>2 DEF Sized
    <3>2. Len(chan'[c].buf) = Len(chan[c].buf) - 1 /\ chan'[c].size = chan[c].size
      BY <2>1, <2>2
    <3>3. QED
      BY <3>1, <3>2
  <2>4. subs' = subs
    BY <1>6 DEF Receive
  <2>5. QED
    BY <2>1, <2>3, <2>4 DEF Sized
<1>7. (\E p \in Publishers : Put(p) \/ PutFails(p) \/ Stamp(p) \/ RLock(p) \/ RUnlock(p))
        \/ UNCHANGED vars => Sized'
  <2>1. ASSUME NEW p \in Publishers,
               Put(p) \/ PutFails(p) \/ Stamp(p) \/ RLock(p) \/ RUnlock(p)
        PROVE  UNCHANGED <<chan, subs>>
    BY <2>1 DEF Put, PutFails, Stamp, RLock, RUnlock
  <2>2. UNCHANGED vars => UNCHANGED <<chan, subs>>
    BY DEF vars
  <2>3. UNCHANGED <<chan, subs>> => Sized'
    BY DEF Sized
  <2>4. QED
    BY <2>1, <2>2, <2>3
<1>8. QED
  BY <1>3, <1>4, <1>5, <1>6, <1>7, Zenon DEF Next, Publish

\* Event numbers never outrun the changes made, no channel holds more than its
\* size, and what subscribers are sent are events: TypeOK.
THEOREM BusTypes == Spec => []TypeOK
<1>1. Init => Counted /\ Valued /\ Sized
  <2> SUFFICES ASSUME Init PROVE Counted /\ Valued /\ Sized
    OBVIOUS
  <2>1. Unnumbered = {}
    BY DEF Init, Unnumbered
  <2>2. IsFiniteSet(Unnumbered) /\ Cardinality(Unnumbered) = 0
    BY <2>1, FS_EmptySet
  <2>3. Counted
    BY <2>2, MaxPutsType DEF Init, Counted
  <2>4. Valued
    <3>1. stored = [t \in Subjects |-> 0] /\ puts = 0 /\ silent = {} /\ readers = {}
          /\ panicked = FALSE
      BY DEF Init
    <3>2. \A p \in Publishers : event[p].id = 0 /\ event[p].version = 0
      BY DEF Init, NoEvent
    <3>3. stored \in [Subjects -> 0 .. puts]
      BY <3>1
    <3>4. QED
      BY <3>1, <3>2, <3>3 DEF Valued
  <2>5. Sized
    BY DEF Init, Sized, NoChan
  <2>6. QED
    BY <2>3, <2>4, <2>5
<1>2. IndInv => BusType
  BY DEF IndInv
<1>3. ASSUME IndInv, Counted, Valued, Sized
      PROVE  TypeOK
  <2>1. BusType /\ seq \in Nat /\ puts \in Nat /\ MaxPuts \in Nat
    BY <1>3, MaxPutsType DEF IndInv, BusType
  <2>2. seq <= puts /\ puts <= MaxPuts
    BY <1>3, <2>1, FS_CardinalityType DEF Counted
  <2>3. stored \in [Subjects -> 0 .. MaxPuts] /\ silent \subseteq 1 .. MaxPuts
    BY <1>3, <2>1, <2>2 DEF Valued
  <2>4. ASSUME NEW p \in Publishers
        PROVE  event[p] \in Event
    <3>1. event[p] \in Message /\ pc[p] \in {"idle", "stamp", "lock", "send"}
      BY <2>1 DEF BusType
    <3>2. event[p].id \in 0 .. MaxPuts /\ event[p].version \in 0 .. MaxPuts
      BY <1>3, <2>1, <2>2, <3>1 DEF IndInv, InFlight, Valued
    <3>3. QED
      BY <3>1, <3>2 DEF Message, Event
  <2>5. event \in [Publishers -> Event]
    BY <2>1, <2>4 DEF BusType
  <2>6. ASSUME NEW c \in Subscribers, NEW i \in DOMAIN Log(c)
        PROVE  Log(c)[i] \in Event
    <3>1. Log(c)[i] \in Message
      BY <2>1, LogType, ElementOfSeq, LenProperties
    <3>2. Log(c)[i].id \in 0 .. MaxPuts /\ Log(c)[i].version \in 0 .. MaxPuts
      BY <1>3, <2>1, <2>2 DEF IndInv, Logged
    <3>3. QED
      BY <3>1, <3>2 DEF Message, Event
  <2>7. QED
    BY <1>3, <2>1, <2>2, <2>3, <2>5, <2>6 DEF TypeOK, BusType, Valued, Sized
<1>4. IndInv /\ Counted /\ Valued /\ Sized /\ [Next]_vars => (Counted /\ Valued /\ Sized)'
  BY <1>2, CountedNext, ValuedNext, SizedNext
<1>5. QED
  BY <1>1, <1>3, <1>4, IndInvInit, IndInvNext, PTL DEF Spec
=============================================================================

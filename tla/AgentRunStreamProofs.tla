------------------------- MODULE AgentRunStreamProofs -------------------------
(***************************************************************************)
(* The event stream of a run: its shape, and that a client is given the    *)
(* published sequence when publishers follow one another.                  *)
(***************************************************************************)
EXTENDS AgentRunStream, SequenceTheorems, TLAPS

(* A connection replays no more than it read, and it read no more than there is. *)
Bounds == place <= taken /\ taken <= Len(buffer)

(* The sequence numbers in the buffer, and 0; one of them is the largest. *)
Numbers == {0} \cup {buffer[i].seq : i \in DOMAIN buffer}

Largest == \E n \in Numbers : \A m \in Numbers : n >= m

LEMMA EventFields == \A e \in Event : e.seq \in Nat /\ e.end \in BOOLEAN
  BY DEF Event

LEMMA YieldType ==
  ASSUME last \in Nat, queue \in Seq(Event), NEW e \in Event, Yield(e)
  PROVE  last' \in Nat /\ queue' \in Seq(Event)
<1>1. Append(queue, e) \in Seq(Event)
  BY AppendProperties
<1> QED BY <1>1, EventFields DEF Yield

LEMMA LastSequenceNat == ASSUME got \in Seq(Event) PROVE LastSequence(got) \in Nat
<1>1. CASE got # << >>
  <2>1. Len(got) \in 1 .. Len(got)
    BY <1>1, LenProperties, EmptySeq
  <2> QED BY <1>1, <2>1, ElementOfSeq, EventFields DEF LastSequence
<1> QED BY <1>1 DEF LastSequence

(* The largest number buffered, or 0. *)
LEMMA LargestBuffered ==
  ASSUME NEW S, S \subseteq Nat, NEW n \in S, \A y \in S : n >= y
  PROVE  Max(S) = n
<1>1. \A x \in S : (\A y \in S : x >= y) => x = n
  OBVIOUS
<1> QED BY <1>1 DEF Max

LEMMA BufferElement ==
  ASSUME TypeOK
  PROVE  /\ Len(buffer) \in Nat /\ DOMAIN buffer = 1 .. Len(buffer)
         /\ \A i \in 1 .. Len(buffer) : buffer[i] \in Event /\ buffer[i].seq \in Nat
         /\ Numbers \subseteq Nat
<1>1. Len(buffer) \in Nat /\ DOMAIN buffer = 1 .. Len(buffer)
  BY LenProperties DEF TypeOK
<1>2. \A i \in 1 .. Len(buffer) : buffer[i] \in Event
  BY ElementOfSeq DEF TypeOK
<1>3. \A i \in 1 .. Len(buffer) : buffer[i].seq \in Nat
  BY <1>2, EventFields
<1> QED BY <1>1, <1>2, <1>3 DEF Numbers

LEMMA SeedType ==
  ASSUME TypeOK, Bounds, Largest, NEW p \in Publishers, SeedSequence(p)
  PROVE  TypeOK' /\ Bounds' /\ Largest'
<1>1. Max(Numbers) \in Nat
  <2>1. PICK n \in Numbers : \A m \in Numbers : n >= m
    BY DEF Largest
  <2>2. Max(Numbers) = n
    BY <2>1, BufferElement, LargestBuffered
  <2> QED BY <2>1, <2>2, BufferElement
<1>2. /\ counter' = [counter EXCEPT ![p] = Max(Numbers)]
      /\ stage' = [stage EXCEPT ![p] = "open"]
      /\ UNCHANGED <<buffer, flight, channel, sub, subscribeVars, queue, clientVars>>
  BY DEF SeedSequence, Numbers
<1> QED BY <1>1, <1>2 DEF TypeOK, Bounds, Largest, Numbers, subscribeVars, clientVars

LEMMA PublishType ==
  ASSUME TypeOK, Bounds, Largest, NEW p \in Publishers,
         \/ \E end \in BOOLEAN : PublishPush(p, end)
         \/ PublishBroadcast(p) \/ PublisherLeaves(p)
  PROVE  TypeOK' /\ Bounds' /\ Largest'
<1>0. /\ counter[p] \in Nat /\ Len(buffer) \in Nat /\ place \in Nat /\ taken \in Nat
      /\ flight[p] \subseteq Event
  BY BufferElement DEF TypeOK
<1>1. ASSUME NEW end \in BOOLEAN, PublishPush(p, end) PROVE TypeOK' /\ Bounds' /\ Largest'
  <2> DEFINE e == [seq |-> counter[p] + 1, end |-> end]
  <2>1. e \in Event /\ e.seq \in Nat
    BY <1>0 DEF Event
  <2>2. /\ counter' = [counter EXCEPT ![p] = e.seq]
        /\ buffer' = Append(buffer, e)
        /\ flight' = [flight EXCEPT ![p] = {e}]
        /\ UNCHANGED <<stage, channel, sub, subscribeVars, queue, clientVars>>
    BY <1>1 DEF PublishPush
  <2> HIDE DEF e
  <2>3. buffer' \in Seq(Event) /\ Len(buffer') = Len(buffer) + 1
    BY <2>1, <2>2, AppendProperties DEF TypeOK
  <2>4. Numbers' = Numbers \cup {e.seq}
    <3>1. Append(buffer, e)[Len(buffer) + 1] = e
      BY <2>1, AppendProperties DEF TypeOK
    <3>2. \A i \in 1 .. Len(buffer) : Append(buffer, e)[i] = buffer[i]
      BY <2>1, AppendProperties DEF TypeOK
    <3>3. DOMAIN buffer' = (1 .. Len(buffer)) \cup {Len(buffer) + 1}
      BY <1>0, <2>3, LenProperties
    <3> QED BY <2>2, <3>1, <3>2, <3>3, BufferElement DEF Numbers
  <2>5. Largest'
    <3>1. PICK n \in Numbers : \A m \in Numbers : n >= m
      BY DEF Largest
    <3>2. n \in Nat /\ Numbers \subseteq Nat
      BY <3>1, BufferElement
    <3>3. CASE n >= e.seq
      BY <2>4, <3>1, <3>3 DEF Largest
    <3>4. CASE ~(n >= e.seq)
      <4>1. \A m \in Numbers : e.seq >= m
        BY <2>1, <3>1, <3>2, <3>4
      <4>2. e.seq >= e.seq
        BY <2>1
      <4> QED BY <2>4, <4>1, <4>2 DEF Largest
    <3> QED BY <3>3, <3>4
  <2> QED BY <1>0, <2>1, <2>2, <2>3, <2>5 DEF TypeOK, Bounds, subscribeVars, clientVars
<1>2. CASE PublishBroadcast(p)
  <2>1. PICK e \in flight[p] :
            /\ channel' = IF sub \in {"off", "done"} THEN channel ELSE Append(channel, e)
            /\ flight' = [flight EXCEPT ![p] = {}]
            /\ stage' = IF e.end THEN [stage EXCEPT ![p] = "closed"] ELSE stage
            /\ UNCHANGED <<buffer, counter, sub, subscribeVars, queue, clientVars>>
    BY <1>2 DEF PublishBroadcast
  <2>2. Append(channel, e) \in Seq(Event)
    BY <1>0, <2>1, AppendProperties DEF TypeOK
  <2> QED BY <2>1, <2>2 DEF TypeOK, Bounds, Largest, Numbers, subscribeVars, clientVars
<1>3. CASE PublisherLeaves(p)
  BY <1>3 DEF PublisherLeaves, TypeOK, Bounds, Largest, Numbers, subscribeVars, clientVars
<1> QED BY <1>1, <1>2, <1>3

LEMMA FollowType ==
  ASSUME TypeOK, Bounds, Largest, Follow \/ Send \/ Disconnect
  PROVE  TypeOK' /\ Bounds' /\ Largest'
<1>7. UNCHANGED buffer
  BY DEF Follow, Subscribe, ReadBuffer, ReplayEvent, ReplayOver, Listen, Send, Disconnect, publisherVars
<1>8. Largest'
  BY <1>7 DEF Largest, Numbers
<1> SUFFICES TypeOK' /\ Bounds'
  BY <1>8
<1>0. Len(buffer) \in Nat /\ LastSequence(got) \in Nat /\ << >> \in Seq(Event)
  BY BufferElement, LastSequenceNat, EmptySeq DEF TypeOK
<1>1. CASE Subscribe \/ ReadBuffer
  BY <1>0, <1>1
  DEF Subscribe, ReadBuffer, TypeOK, Bounds, publisherVars, subscribeVars, clientVars
<1>2. CASE ReplayEvent
  <2>1. buffer[place + 1] \in Event
    BY <1>2, BufferElement DEF ReplayEvent, TypeOK, Bounds
  <2>2. last' \in Nat /\ queue' \in Seq(Event)
    BY <1>2, <2>1, YieldType DEF ReplayEvent, TypeOK
  <2> QED BY <1>2, <2>2 DEF ReplayEvent, TypeOK, Bounds, publisherVars, clientVars
<1>3. CASE ReplayOver
  BY <1>0, <1>3 DEF ReplayOver, TypeOK, Bounds, publisherVars, subscribeVars, clientVars
<1>4. CASE Listen
  <2>1. Head(channel) \in Event /\ Tail(channel) \in Seq(Event)
    BY <1>4, HeadTailProperties DEF Listen, TypeOK
  <2>2. last' \in Nat /\ queue' \in Seq(Event)
    BY <1>4, <2>1, YieldType DEF Listen, TypeOK
  <2>3. channel' \in Seq(Event) /\ sub' \in {sub, "done"}
    BY <1>0, <1>4, <2>1 DEF Listen
  <2> QED BY <1>4, <2>2, <2>3 DEF Listen, TypeOK, Bounds, publisherVars, clientVars
<1>5. CASE Send
  <2>1. Head(queue) \in Event /\ Tail(queue) \in Seq(Event)
    BY <1>5, HeadTailProperties DEF Send, TypeOK
  <2>2. Append(got, Head(queue)) \in Seq(Event)
    BY <2>1, AppendProperties DEF TypeOK
  <2> QED BY <1>5, <2>1, <2>2 DEF Send, TypeOK, Bounds, publisherVars, subscribeVars
<1>6. CASE Disconnect
  BY <1>0, <1>6 DEF Disconnect, TypeOK, Bounds, publisherVars, subscribeVars
<1> QED BY <1>1, <1>2, <1>3, <1>4, <1>5, <1>6 DEF Follow

-----------------------------------------------------------------------------
(* Publishers that follow one another *)

(* The buffer is numbered from 1 without a gap, one publisher at a time is at work, it *)
(* counts what the buffer holds, and what it has pushed and not broadcast is the last  *)
(* event.                                                                              *)
Published ==
  /\ \A i \in 1 .. Len(buffer) : buffer[i].seq = i
  /\ \A p, q \in Publishers : stage[p] = "open" /\ stage[q] = "open" => p = q
  /\ \A p \in Publishers : stage[p] = "open" => counter[p] = Len(buffer)
  /\ \A p \in Publishers : flight[p] # {} =>
       stage[p] = "open" /\ Len(buffer) > 0 /\ flight[p] = {buffer[Len(buffer)]}

(* How much of the buffer has been broadcast. *)
Broadcast == IF \E p \in Publishers : flight[p] # {} THEN Len(buffer) - 1 ELSE Len(buffer)

(* What the client has is the beginning of the buffer, and what is queued for it *)
(* follows on, up to the last number yielded.                                    *)
Received ==
  /\ Len(got) <= Len(buffer)
  /\ \A i \in 1 .. Len(got) : got[i] = buffer[i]
  /\ sub = "off" => queue = << >> /\ channel = << >>
  /\ sub # "off" => /\ Len(got) + Len(queue) = last /\ last <= Len(buffer)
                    /\ \A i \in 1 .. Len(queue) : queue[i] = buffer[Len(got) + i]

(* The channel holds the latest broadcasts, and begins no later than what the replay *)
(* will have yielded.                                                                *)
Queued ==
  sub \in {"subscribed", "replay", "live"} =>
    /\ Len(channel) <= Broadcast
    /\ \A j \in 1 .. Len(channel) : channel[j] = buffer[Broadcast - Len(channel) + j]
    /\ sub = "replay" => Broadcast - Len(channel) <= taken /\ place <= last
    /\ sub = "live" => Broadcast - Len(channel) <= last

InOrder == ~Overlap => Published /\ Received /\ Queued

-----------------------------------------------------------------------------
LEMMA TypeStep == TypeOK /\ Bounds /\ Largest /\ [Next]_vars => TypeOK' /\ Bounds' /\ Largest'
<1>1. CASE UNCHANGED vars
  BY <1>1
  DEF TypeOK, Bounds, Largest, Numbers, vars, publisherVars, subscribeVars, clientVars
<1> QED BY <1>1, SeedType, PublishType, FollowType DEF Next, Publish

(* The stream's buffer, channel, queue and numbers keep their shape in every reachable *)
(* state, for any number of publishers, overlapping or not.                            *)
THEOREM StreamTypeCorrect == Spec => [](TypeOK /\ Bounds /\ Largest)
<1>1. Init => TypeOK /\ Bounds /\ Largest
  <2> SUFFICES ASSUME Init PROVE TypeOK /\ Bounds /\ Largest
    OBVIOUS
  <2>1. << >> \in Seq(Event) /\ Len(<< >>) = 0 /\ DOMAIN << >> = {}
    BY EmptySeq
  <2>2. Numbers = {0}
    BY <2>1 DEF Init, Numbers
  <2> QED BY <2>1, <2>2 DEF Init, TypeOK, Bounds, Largest
<1> QED BY <1>1, TypeStep, PTL DEF Spec

(* What a publisher pushes gets the next number of the buffer, and joins it in flight. *)
LEMMA PushInOrder ==
  ASSUME TypeOK, Bounds, Published, Received, Queued, NEW p \in Publishers,
         NEW end \in BOOLEAN, PublishPush(p, end)
  PROVE  Published' /\ Received' /\ Queued'
<1> DEFINE e == [seq |-> counter[p] + 1, end |-> end]
<1>0. /\ Len(buffer) \in Nat /\ Len(got) \in Nat /\ Len(queue) \in Nat /\ Len(channel) \in Nat
      /\ last \in Nat /\ taken \in Nat
      /\ counter \in [Publishers -> Nat] /\ flight \in [Publishers -> SUBSET Event]
  BY BufferElement, LenProperties DEF TypeOK
<1>1. counter[p] = Len(buffer) /\ stage[p] = "open" /\ \A q \in Publishers : flight[q] = {}
  BY <1>0 DEF PublishPush, Published
<1>2. e \in Event /\ e.seq = Len(buffer) + 1
  BY <1>0, <1>1 DEF Event
<1>3. /\ counter' = [counter EXCEPT ![p] = e.seq]
      /\ buffer' = Append(buffer, e)
      /\ flight' = [flight EXCEPT ![p] = {e}]
      /\ UNCHANGED <<stage, channel, sub, taken, place, last, queue, got>>
  BY DEF PublishPush, subscribeVars, clientVars
<1> HIDE DEF e
<1>4. /\ Len(buffer') = Len(buffer) + 1
      /\ \A i \in 1 .. Len(buffer) : buffer'[i] = buffer[i]
      /\ buffer'[Len(buffer) + 1] = e
  BY <1>2, <1>3, AppendProperties DEF TypeOK
<1>5. Published'
  <2>1. \A i \in 1 .. Len(buffer') : buffer'[i].seq = i
    BY <1>0, <1>2, <1>4 DEF Published
  <2>2. \A q \in Publishers : stage'[q] = "open" => q = p
    BY <1>1, <1>3 DEF Published
  <2>3. counter'[p] = Len(buffer')
    BY <1>0, <1>2, <1>3, <1>4
  <2>4. \A q \in Publishers : flight'[q] # {} => q = p /\ flight'[q] = {buffer'[Len(buffer')]}
    BY <1>0, <1>1, <1>3, <1>4
  <2> QED BY <1>0, <1>1, <1>3, <1>4, <2>1, <2>2, <2>3, <2>4 DEF Published
<1>6. Received'
  BY <1>0, <1>3, <1>4 DEF Received
<1>7. Queued'
  <2>1. Broadcast = Len(buffer) /\ Broadcast' = Len(buffer)
    <3>1. flight'[p] # {}
      BY <1>0, <1>3
    <3> QED BY <1>0, <1>1, <1>4, <3>1 DEF Broadcast
  <2> QED BY <1>0, <1>3, <1>4, <2>1 DEF Queued
<1> QED BY <1>5, <1>6, <1>7

LEMMA BroadcastInOrder ==
  ASSUME TypeOK, Bounds, Published, Received, Queued, NEW p \in Publishers, PublishBroadcast(p)
  PROVE  Published' /\ Received' /\ Queued'
<1>0. /\ Len(buffer) \in Nat /\ Len(got) \in Nat /\ Len(queue) \in Nat /\ Len(channel) \in Nat
      /\ last \in Nat /\ taken \in Nat
      /\ stage \in [Publishers -> {"new", "open", "closed"}]
      /\ flight \in [Publishers -> SUBSET Event]
  BY BufferElement, LenProperties DEF TypeOK
<1>1. PICK e \in flight[p] :
          /\ channel' = IF sub \in {"off", "done"} THEN channel ELSE Append(channel, e)
          /\ flight' = [flight EXCEPT ![p] = {}]
          /\ stage' = IF e.end THEN [stage EXCEPT ![p] = "closed"] ELSE stage
          /\ UNCHANGED <<buffer, counter, sub, taken, place, last, queue, got>>
  BY DEF PublishBroadcast, subscribeVars, clientVars
<1>2. Len(buffer) > 0 /\ e = buffer[Len(buffer)] /\ e \in Event /\ stage[p] = "open"
  BY <1>0, <1>1 DEF Published
<1>3. \A q \in Publishers : q # p => flight[q] = {} /\ stage[q] # "open"
  BY <1>2 DEF Published
<1>4. \A q \in Publishers : flight'[q] = {} /\ (stage'[q] = "open" => stage[q] = "open")
  BY <1>0, <1>1, <1>3
<1>5. Published'
  BY <1>1, <1>4 DEF Published
<1>6. Received'
  BY <1>1 DEF Received
<1>7. Queued'
  <2>1. Broadcast = Len(buffer) - 1 /\ Broadcast' = Len(buffer)
    BY <1>1, <1>4 DEF Broadcast
  <2>2. CASE sub \in {"off", "done"}
    BY <1>1, <2>2 DEF Queued
  <2>3. CASE sub \notin {"off", "done"}
    <3>1. /\ Len(channel') = Len(channel) + 1
          /\ \A j \in 1 .. Len(channel) : channel'[j] = channel[j]
          /\ channel'[Len(channel) + 1] = e
      BY <1>1, <1>2, <2>3, AppendProperties DEF TypeOK
    <3>2. sub \in {"subscribed", "replay", "live"}
      BY <2>3 DEF TypeOK
    <3>3. Len(channel') <= Broadcast' /\ Broadcast' - Len(channel') = Broadcast - Len(channel)
      BY <1>0, <2>1, <3>1, <3>2 DEF Queued
    <3>4. ASSUME NEW j \in 1 .. Len(channel')
          PROVE  channel'[j] = buffer[Broadcast' - Len(channel') + j]
      <4>1. CASE j \in 1 .. Len(channel)
        BY <3>1, <3>2, <3>3, <4>1 DEF Queued
      <4>2. CASE j = Len(channel) + 1
        BY <1>0, <1>2, <2>1, <3>1, <4>2
      <4> QED BY <1>0, <3>1, <4>1, <4>2
    <3> QED BY <1>1, <3>2, <3>3, <3>4 DEF Queued
  <2> QED BY <2>2, <2>3
<1> QED BY <1>5, <1>6, <1>7

LEMMA SeedInOrder ==
  ASSUME TypeOK, Bounds, Largest, Published, Received, Queued, ~Overlap,
         NEW p \in Publishers, SeedSequence(p)
  PROVE  Published' /\ Received' /\ Queued'
<1>0. /\ counter \in [Publishers -> Nat] /\ stage \in [Publishers -> {"new", "open", "closed"}]
      /\ Len(buffer) \in Nat
  BY BufferElement DEF TypeOK
<1>1. /\ counter' = [counter EXCEPT ![p] = Max(Numbers)]
      /\ stage' = [stage EXCEPT ![p] = "open"]
      /\ \A q \in Publishers : stage[q] # "open"
      /\ UNCHANGED <<buffer, flight, channel, sub, taken, place, last, queue, got>>
  BY DEF SeedSequence, Numbers, subscribeVars, clientVars
<1>2. Max(Numbers) = Len(buffer)
  <2>1. Len(buffer) \in Numbers
    <3>1. CASE Len(buffer) # 0
      <4>1. Len(buffer) \in 1 .. Len(buffer)
        BY <1>0, <3>1
      <4>2. buffer[Len(buffer)].seq = Len(buffer) /\ Len(buffer) \in DOMAIN buffer
        BY <4>1, BufferElement DEF Published
      <4> QED BY <4>2 DEF Numbers
    <3> QED BY <3>1 DEF Numbers
  <2>2. \A m \in Numbers : Len(buffer) >= m
    BY <1>0, BufferElement DEF Numbers, Published
  <2> QED BY <2>1, <2>2, BufferElement, LargestBuffered
<1>3. Published'
  BY <1>0, <1>1, <1>2 DEF Published
<1>4. Broadcast' = Broadcast
  BY <1>1 DEF Broadcast
<1> QED BY <1>1, <1>3, <1>4 DEF Received, Queued

LEMMA LeaveInOrder ==
  ASSUME TypeOK, Published, Received, Queued, NEW p \in Publishers, PublisherLeaves(p)
  PROVE  Published' /\ Received' /\ Queued'
<1>0. stage \in [Publishers -> {"new", "open", "closed"}]
  BY DEF TypeOK
<1>1. /\ stage[p] = "open" /\ flight[p] = {}
      /\ stage' = [stage EXCEPT ![p] = "closed"]
      /\ UNCHANGED <<buffer, counter, flight, channel, sub, taken, place, last, queue, got>>
  BY DEF PublisherLeaves, subscribeVars, clientVars
<1>2. Published'
  BY <1>0, <1>1 DEF Published
<1>3. Broadcast' = Broadcast
  BY <1>1 DEF Broadcast
<1> QED BY <1>1, <1>2, <1>3 DEF Received, Queued

(* An event numbered at most one above the last one yielded joins the queue in its *)
(* place, or is a repetition.                                                      *)
LEMMA YieldInOrder ==
  ASSUME TypeOK, Published, Received, sub # "off",
         NEW k \in 1 .. Len(buffer), k <= last + 1, Yield(buffer[k])
  PROVE  /\ last' \in Nat /\ last <= last' /\ k <= last' /\ last' <= Len(buffer)
         /\ Len(got) + Len(queue') = last'
         /\ \A i \in 1 .. Len(queue') : queue'[i] = buffer[Len(got) + i]
<1>0. Len(buffer) \in Nat /\ Len(got) \in Nat /\ Len(queue) \in Nat /\ last \in Nat
  BY BufferElement, LenProperties DEF TypeOK
<1>1. buffer[k].seq = k /\ buffer[k] \in Event
  BY BufferElement DEF Published
<1>2. CASE k <= last
  <2>1. UNCHANGED <<last, queue>>
    BY <1>1, <1>2 DEF Yield
  <2> QED BY <1>0, <1>2, <2>1 DEF Received
<1>3. CASE ~(k <= last)
  <2>1. k = last + 1
    BY <1>0, <1>3
  <2>2. last' = k /\ queue' = Append(queue, buffer[k])
    BY <1>1, <1>3 DEF Yield
  <2>3. /\ Len(queue') = Len(queue) + 1
        /\ \A i \in 1 .. Len(queue) : queue'[i] = queue[i]
        /\ queue'[Len(queue) + 1] = buffer[k]
    BY <1>1, <2>2, AppendProperties DEF TypeOK
  <2>4. Len(got) + Len(queue) = last /\ \A i \in 1 .. Len(queue) : queue[i] = buffer[Len(got) + i]
    BY DEF Received
  <2>5. ASSUME NEW i \in 1 .. Len(queue') PROVE queue'[i] = buffer[Len(got) + i]
    <3>1. CASE i \in 1 .. Len(queue)
      BY <2>3, <2>4, <3>1
    <3>2. CASE i = Len(queue) + 1
      <4>1. Len(got) + i = k
        BY <1>0, <2>1, <2>4, <3>2
      <4> QED BY <2>3, <3>2, <4>1
    <3> QED BY <1>0, <2>3, <3>1, <3>2
  <2> QED BY <1>0, <2>1, <2>2, <2>3, <2>4, <2>5
<1> QED BY <1>2, <1>3

LEMMA ConnectInOrder ==
  ASSUME TypeOK, Published, Received, Queued, Subscribe \/ ReadBuffer \/ Disconnect
  PROVE  Published' /\ Received' /\ Queued'
<1>0. /\ Len(buffer) \in Nat /\ Len(got) \in Nat /\ Len(queue) \in Nat /\ Len(channel) \in Nat
      /\ last \in Nat /\ Len(<< >>) = 0
  BY BufferElement, LenProperties, EmptySeq DEF TypeOK
<1>1. UNCHANGED <<buffer, counter, stage, flight, got>>
  BY DEF Subscribe, ReadBuffer, Disconnect, publisherVars, clientVars
<1>2. Published' /\ Broadcast' = Broadcast
  BY <1>1 DEF Published, Broadcast
<1>3. Broadcast <= Len(buffer) /\ 0 <= Broadcast /\ Broadcast \in Int
  BY <1>0 DEF Broadcast, Published
<1>4. CASE Subscribe
  <2>1. queue = << >> /\ channel = << >> /\ UNCHANGED <<queue, channel>>
    BY <1>4 DEF Subscribe, Received, publisherVars, clientVars
  <2>2. LastSequence(got) = Len(got)
    <3>1. CASE got = << >>
      BY <1>0, <3>1 DEF LastSequence
    <3>2. CASE got # << >>
      <4>1. Len(got) \in 1 .. Len(got) /\ Len(got) \in 1 .. Len(buffer)
        BY <1>0, <3>2, EmptySeq DEF TypeOK, Received
      <4>2. got[Len(got)].seq = Len(got)
        BY <4>1 DEF Received, Published
      <4> QED BY <3>2, <4>2 DEF LastSequence
    <3> QED BY <3>1, <3>2
  <2>3. last' = Len(got) /\ sub' = "subscribed"
    BY <1>4, <2>2 DEF Subscribe
  <2>4. Received'
    BY <1>0, <1>1, <2>1, <2>3 DEF Received
  <2>5. Queued'
    BY <1>0, <1>2, <1>3, <2>1, <2>3 DEF Queued
  <2> QED BY <1>2, <2>4, <2>5
<1>5. CASE ReadBuffer
  <2>1. /\ sub = "subscribed" /\ sub' = "replay" /\ taken' = Len(buffer) /\ place' = 0
        /\ UNCHANGED <<channel, last, queue>>
    BY <1>5 DEF ReadBuffer
  <2>2. Received'
    BY <1>1, <2>1 DEF Received
  <2>3. Queued'
    BY <1>0, <1>1, <1>2, <1>3, <2>1 DEF Queued
  <2> QED BY <1>2, <2>2, <2>3
<1>6. CASE Disconnect
  <2>1. sub' = "off" /\ channel' = << >> /\ queue' = << >>
    BY <1>6 DEF Disconnect
  <2>2. Received'
    BY <1>1, <2>1 DEF Received
  <2>3. Queued'
    BY <2>1 DEF Queued
  <2> QED BY <1>2, <2>2, <2>3
<1> QED BY <1>4, <1>5, <1>6

LEMMA ReplayInOrder ==
  ASSUME TypeOK, Bounds, Published, Received, Queued, ReplayEvent \/ ReplayOver
  PROVE  Published' /\ Received' /\ Queued'
<1>0. /\ Len(buffer) \in Nat /\ Len(got) \in Nat /\ Len(channel) \in Nat
      /\ last \in Nat /\ taken \in Nat /\ place \in Nat
  BY BufferElement, LenProperties DEF TypeOK
<1>1. UNCHANGED <<buffer, counter, stage, flight, got, taken>>
  BY DEF ReplayEvent, ReplayOver, publisherVars, subscribeVars, clientVars
<1>2. Published' /\ Broadcast' = Broadcast
  BY <1>1 DEF Published, Broadcast
<1>3. Broadcast \in Int
  BY <1>0 DEF Broadcast
<1>4. CASE ReplayEvent
  <2>1. /\ sub = "replay" /\ place < taken /\ place' = place + 1 /\ Yield(buffer[place + 1])
        /\ UNCHANGED <<channel, sub>>
    BY <1>4 DEF ReplayEvent
  <2>2. place + 1 \in 1 .. Len(buffer) /\ place + 1 <= last + 1
    BY <1>0, <2>1 DEF Bounds, Queued
  <2>3. /\ last' \in Nat /\ place + 1 <= last' /\ last' <= Len(buffer)
        /\ Len(got) + Len(queue') = last'
        /\ \A i \in 1 .. Len(queue') : queue'[i] = buffer[Len(got) + i]
    BY <2>1, <2>2, YieldInOrder
  <2>4. Received'
    BY <1>1, <2>1, <2>3 DEF Received
  <2>5. Queued'
    BY <1>1, <1>2, <2>1, <2>3 DEF Queued
  <2> QED BY <1>2, <2>4, <2>5
<1>5. CASE ReplayOver
  <2>1. /\ sub = "replay" /\ place = taken /\ UNCHANGED <<last, queue>>
        /\ sub' = "done" \/ (sub' = "live" /\ UNCHANGED channel)
    BY <1>5 DEF ReplayOver, subscribeVars
  <2>2. Received'
    BY <1>1, <2>1 DEF Received
  <2>3. Queued'
    BY <1>0, <1>1, <1>2, <1>3, <2>1 DEF Queued
  <2> QED BY <1>2, <2>2, <2>3
<1> QED BY <1>4, <1>5

LEMMA ListenInOrder ==
  ASSUME TypeOK, Published, Received, Queued, Listen
  PROVE  Published' /\ Received' /\ Queued'
<1> DEFINE start == Broadcast - Len(channel)
<1>0. /\ Len(buffer) \in Nat /\ Len(got) \in Nat /\ Len(channel) \in Nat \ {0}
      /\ last \in Nat
  BY BufferElement, LenProperties, EmptySeq DEF TypeOK, Listen
<1>1. /\ UNCHANGED <<buffer, counter, stage, flight, got>>
      /\ sub = "live" /\ channel # << >> /\ Yield(Head(channel))
      /\ sub' = "done" \/ (sub' = "live" /\ channel' = Tail(channel))
  BY DEF Listen, publisherVars, clientVars
<1>2. Published' /\ Broadcast' = Broadcast
  BY <1>1 DEF Published, Broadcast
<1>3. Broadcast \in Int /\ Broadcast <= Len(buffer)
  BY <1>0 DEF Broadcast
<1>4. /\ Len(channel) <= Broadcast /\ start <= last
      /\ \A j \in 1 .. Len(channel) : channel[j] = buffer[start + j]
  BY <1>1 DEF Queued
<1>5. start + 1 \in 1 .. Len(buffer) /\ start + 1 <= last + 1 /\ start \in Nat
  BY <1>0, <1>3, <1>4
<1>6. Head(channel) = buffer[start + 1]
  <2>1. Head(channel) = channel[1] /\ 1 \in 1 .. Len(channel)
    BY <1>0, <1>1 DEF TypeOK
  <2> QED BY <1>4, <2>1
<1>7. /\ last' \in Nat /\ start + 1 <= last' /\ last' <= Len(buffer)
      /\ Len(got) + Len(queue') = last'
      /\ \A i \in 1 .. Len(queue') : queue'[i] = buffer[Len(got) + i]
  BY <1>1, <1>5, <1>6, YieldInOrder
<1>8. Received'
  BY <1>1, <1>7 DEF Received
<1>9. Queued'
  <2>1. CASE sub' = "done"
    BY <2>1 DEF Queued
  <2>2. CASE sub' = "live" /\ channel' = Tail(channel)
    <3>1. /\ Len(channel') = Len(channel) - 1
          /\ \A j \in 1 .. Len(channel') : channel'[j] = channel[j + 1]
      BY <1>1, <2>2, HeadTailProperties DEF TypeOK
    <3>2. Broadcast' - Len(channel') = start + 1 /\ Len(channel') <= Broadcast'
      BY <1>0, <1>2, <1>3, <1>4, <3>1
    <3>3. ASSUME NEW j \in 1 .. Len(channel') PROVE channel'[j] = buffer[start + 1 + j]
      <4>1. j + 1 \in 1 .. Len(channel) /\ start + (j + 1) = start + 1 + j
        BY <1>0, <1>5, <3>1
      <4>2. channel[j + 1] = buffer[start + (j + 1)]
        BY <1>4, <4>1
      <4> QED BY <3>1, <4>1, <4>2
    <3> QED BY <1>1, <1>7, <2>2, <3>2, <3>3 DEF Queued
  <2> QED BY <1>1, <2>1, <2>2
<1> QED BY <1>2, <1>8, <1>9

LEMMA SendInOrder ==
  ASSUME TypeOK, Published, Received, Queued, Send
  PROVE  Published' /\ Received' /\ Queued'
<1>0. Len(buffer) \in Nat /\ Len(got) \in Nat /\ Len(queue) \in Nat \ {0} /\ last \in Nat
  BY BufferElement, LenProperties, EmptySeq DEF TypeOK, Send
<1>1. /\ UNCHANGED <<buffer, counter, stage, flight, channel, sub, taken, place, last>>
      /\ queue # << >> /\ got' = Append(got, Head(queue)) /\ queue' = Tail(queue)
  BY DEF Send, publisherVars, subscribeVars
<1>2. Published' /\ Broadcast' = Broadcast
  BY <1>1 DEF Published, Broadcast
<1>3. sub # "off"
  BY <1>1 DEF Received
<1>4. /\ Len(got) + Len(queue) = last /\ last <= Len(buffer)
      /\ \A i \in 1 .. Len(queue) : queue[i] = buffer[Len(got) + i]
      /\ \A i \in 1 .. Len(got) : got[i] = buffer[i]
  BY <1>3 DEF Received
<1>5. Head(queue) = buffer[Len(got) + 1] /\ Head(queue) \in Event
  <2>1. Head(queue) = queue[1] /\ 1 \in 1 .. Len(queue) /\ Head(queue) \in Event
    BY <1>0, <1>1, HeadTailProperties DEF TypeOK
  <2> QED BY <1>4, <2>1
<1>6. /\ Len(got') = Len(got) + 1
      /\ \A i \in 1 .. Len(got) : got'[i] = got[i]
      /\ got'[Len(got) + 1] = buffer[Len(got) + 1]
  BY <1>1, <1>5, AppendProperties DEF TypeOK
<1>7. /\ Len(queue') = Len(queue) - 1
      /\ \A i \in 1 .. Len(queue') : queue'[i] = queue[i + 1]
  BY <1>1, HeadTailProperties DEF TypeOK
<1>8. Received'
  <2>1. \A i \in 1 .. Len(got') : got'[i] = buffer[i]
    BY <1>0, <1>4, <1>6
  <2>2. ASSUME NEW i \in 1 .. Len(queue') PROVE queue'[i] = buffer[Len(got') + i]
    <3>1. i + 1 \in 1 .. Len(queue) /\ Len(got) + (i + 1) = Len(got') + i
      BY <1>0, <1>6, <1>7
    <3> QED BY <1>4, <1>7, <3>1
  <2>3. Len(got') + Len(queue') = last /\ Len(got') <= Len(buffer)
    <3>1. Len(got') = Len(got) + 1 /\ Len(queue') = Len(queue) - 1
      BY <1>6, <1>7
    <3>2. Len(got) + Len(queue) = last /\ last <= Len(buffer) /\ Len(queue) >= 1
      BY <1>0, <1>4
    <3> QED BY <1>0, <3>1, <3>2
  <2> QED BY <1>1, <1>3, <1>4, <2>1, <2>2, <2>3 DEF Received
<1>9. Queued'
  BY <1>1, <1>2 DEF Queued
<1> QED BY <1>2, <1>8, <1>9

LEMMA OrderStep ==
  TypeOK /\ Bounds /\ Largest /\ InOrder /\ [Next]_vars => InOrder'
<1> SUFFICES ASSUME TypeOK, Bounds, Largest, [Next]_vars, ~Overlap, Published, Received, Queued
             PROVE  Published' /\ Received' /\ Queued'
  BY DEF InOrder
<1>1. CASE UNCHANGED vars
  BY <1>1
  DEF vars, publisherVars, subscribeVars, clientVars, Published, Received, Queued, Broadcast
<1> QED
  BY <1>1, SeedInOrder, PushInOrder, BroadcastInOrder, LeaveInOrder, ConnectInOrder, ReplayInOrder,
     ListenInOrder, SendInOrder
  DEF Next, Publish, Follow

LEMMA OrderInvariant == Spec => []InOrder
<1>1. Init => InOrder
  <2> SUFFICES ASSUME Init PROVE Published /\ Received /\ Queued
    BY DEF InOrder
  <2>1. Len(<< >>) = 0
    BY EmptySeq
  <2> QED BY <2>1 DEF Init, Published, Received, Queued
<1> QED BY <1>1, OrderStep, StreamTypeCorrect, PTL DEF Spec

(* While publishers follow one another, whatever a client received is the beginning of  *)
(* what was published: lost connections, lost queues and publications that fall between *)
(* the subscription, the read of the buffer and the replay leave no gap, no repetition. *)
THEOREM StreamNoGapNoRepeat == Spec => []NoGapNoRepeat
<1>1. TypeOK /\ InOrder => NoGapNoRepeat
  <2> SUFFICES ASSUME TypeOK, InOrder, ~Overlap
               PROVE  Len(got) <= Len(buffer) /\ \A i \in DOMAIN got : got[i] = buffer[i]
    BY DEF NoGapNoRepeat
  <2>1. DOMAIN got = 1 .. Len(got)
    BY LenProperties DEF TypeOK
  <2> QED BY <2>1 DEF InOrder, Received
<1> QED BY <1>1, OrderInvariant, StreamTypeCorrect, PTL

(* A live connection misses nothing: what it has not yielded is in its channel or about *)
(* to be broadcast.                                                                     *)
THEOREM StreamNothingMissed == Spec => []NothingMissed
<1>1. TypeOK /\ InOrder => NothingMissed
  <2> SUFFICES ASSUME TypeOK, InOrder, ~Overlap, sub = "live", NEW i \in DOMAIN buffer,
                      ~(buffer[i].seq <= last)
               PROVE  \/ \E j \in DOMAIN channel : channel[j] = buffer[i]
                      \/ \E p \in Publishers : buffer[i] \in flight[p]
    BY DEF NothingMissed
  <2>0. /\ Published /\ Queued /\ i \in 1 .. Len(buffer) /\ buffer[i].seq = i
        /\ Len(buffer) \in Nat /\ last \in Nat /\ Len(channel) \in Nat
        /\ DOMAIN channel = 1 .. Len(channel)
    BY BufferElement, LenProperties DEF InOrder, Published, TypeOK
  <2>1. i > last /\ Broadcast \in Int
    BY <2>0 DEF Broadcast
  <2>2. CASE i <= Broadcast
    <3> DEFINE j == i - (Broadcast - Len(channel))
    <3>1. j \in 1 .. Len(channel) /\ Broadcast - Len(channel) + j = i
      BY <2>0, <2>1, <2>2 DEF Queued
    <3>2. channel[j] = buffer[Broadcast - Len(channel) + j]
      BY <2>0, <3>1 DEF Queued
    <3> QED BY <2>0, <3>1, <3>2
  <2>3. CASE ~(i <= Broadcast)
    <3>1. PICK p \in Publishers : flight[p] # {}
      BY <2>0, <2>3 DEF Broadcast
    <3>2. Broadcast = Len(buffer) - 1
      BY <3>1 DEF Broadcast
    <3>3. i = Len(buffer) /\ flight[p] = {buffer[Len(buffer)]}
      BY <2>0, <2>3, <3>1, <3>2 DEF Published
    <3> QED BY <3>3
  <2> QED BY <2>2, <2>3
<1> QED BY <1>1, OrderInvariant, StreamTypeCorrect, PTL

=============================================================================

---------------------------- MODULE AgentRunStream ----------------------------
(***************************************************************************)
(* The replayable event stream of one agent run                            *)
(* (services/agent_run_stream.py, services/agent_loop_events.py).          *)
(*                                                                         *)
(* Publishers (the worker passes of the run, the stop endpoint, the task's *)
(* crash handler) each own an AgentRunStream instance with a sequence      *)
(* counter of its own, seeded from the Redis list that buffers the events. *)
(* A publication is two Redis commands: RPUSH to the buffer, then PUBLISH  *)
(* to the channel.  A subscriber (one SSE client) opens the channel, reads *)
(* the buffer once, yields what it read event by event, then follows the   *)
(* channel, and drops every event whose sequence number is not above the   *)
(* last one it yielded.  A yielded event waits in a bounded queue until it *)
(* is sent.  The client may lose its connection, the queue with it, and    *)
(* come back with the number of the last event it received.                *)
(*                                                                         *)
(* An event is its sequence number and whether it is the terminal run_end. *)
(* Buffer expiry (24 h, 10 min after run_end) is outside the model.        *)
(***************************************************************************)
EXTENDS Naturals, Sequences, FiniteSetsExt

CONSTANTS
  Publishers,     \* the AgentRunStream instances that publish for this run
  MaxSeq,         \* bound on the sequence numbers
  MaxReconnects,  \* bound on the client's reconnections
  Window,         \* events yielded and not yet sent: the queue and the one being put
  Overlap         \* TRUE: a publisher may start while another is publishing

ASSUME StreamAssumption ==
  /\ MaxSeq \in Nat \ {0}
  /\ MaxReconnects \in Nat
  /\ Window \in Nat \ {0}
  /\ Overlap \in BOOLEAN

VARIABLES
  buffer,      \* the Redis list: the events pushed so far
  counter,     \* counter[p]: the publisher's _sequence
  stage,       \* stage[p]: "new", then "open" once seeded, "closed" at the end
  flight,      \* flight[p]: pushed and not yet broadcast, at most one event
  channel,     \* what Pub/Sub has delivered and subscribe() has not read
  sub,         \* the place in subscribe()
  taken,       \* how much of the buffer the connection read: it only grows
  place,       \* how much of that it has replayed
  last,        \* last_sequence: the number of the last event yielded
  queue,       \* event_queue: yielded and not yet sent
  got,         \* the events the client received, over all its connections
  reconnects   \* connections lost so far

publisherVars == <<buffer, counter, stage, flight>>
subscribeVars == <<taken, place, last>>
clientVars == <<got, reconnects>>
vars == <<publisherVars, channel, sub, subscribeVars, queue, clientVars>>

(* run_end is in the buffer. *)
Ended == \E i \in DOMAIN buffer : buffer[i].end

(* The number a client comes back with. *)
LastSequence(s) == IF s = << >> THEN 0 ELSE s[Len(s)].seq

Init ==
  /\ buffer = << >>
  /\ counter = [p \in Publishers |-> 0]
  /\ stage = [p \in Publishers |-> "new"]
  /\ flight = [p \in Publishers |-> {}]
  /\ channel = << >>
  /\ sub = "off"
  /\ taken = 0 /\ place = 0 /\ last = 0
  /\ queue = << >>
  /\ got = << >>
  /\ reconnects = 0

-----------------------------------------------------------------------------
(* Publishers *)

(* seed_sequence: continue after the largest buffered number.  The run's   *)
(* own passes follow one another; with Overlap the stop endpoint or the    *)
(* crash handler may start while a pass still publishes.                   *)
SeedSequence(p) ==
  /\ stage[p] = "new"
  /\ ~Ended
  /\ Overlap \/ \A q \in Publishers : stage[q] # "open"
  /\ counter' = [counter EXCEPT
                   ![p] = Max({0} \cup {buffer[i].seq : i \in DOMAIN buffer})]
  /\ stage' = [stage EXCEPT ![p] = "open"]
  /\ UNCHANGED <<buffer, flight, channel, sub, subscribeVars, queue, clientVars>>

(* publish, up to RPUSH: stamp the next number and push.  The instance's   *)
(* asyncio lock keeps one publication of p in flight.  Only the actor that *)
(* won the run's terminal transition publishes run_end, so there is one;   *)
(* the last number is kept for it.                                         *)
PublishPush(p, end) ==
  /\ stage[p] = "open" /\ flight[p] = {}
  /\ Ended => ~end
  /\ counter[p] < IF end THEN MaxSeq ELSE MaxSeq - 1
  /\ LET e == [seq |-> counter[p] + 1, end |-> end] IN
       /\ counter' = [counter EXCEPT ![p] = e.seq]
       /\ buffer' = Append(buffer, e)
       /\ flight' = [flight EXCEPT ![p] = {e}]
  /\ UNCHANGED <<stage, channel, sub, subscribeVars, queue, clientVars>>

(* publish, PUBLISH: only the connections of that moment receive the event.*)
PublishBroadcast(p) ==
  \E e \in flight[p] :
    /\ channel' = IF sub \in {"off", "done"} THEN channel ELSE Append(channel, e)
    /\ flight' = [flight EXCEPT ![p] = {}]
    /\ stage' = IF e.end THEN [stage EXCEPT ![p] = "closed"] ELSE stage
    /\ UNCHANGED <<buffer, counter, sub, subscribeVars, queue, clientVars>>

(* The pass parks the run, or its work for the run is over. *)
PublisherLeaves(p) ==
  /\ stage[p] = "open" /\ flight[p] = {}
  /\ stage' = [stage EXCEPT ![p] = "closed"]
  /\ UNCHANGED <<buffer, counter, flight, channel, sub, subscribeVars, queue, clientVars>>

-----------------------------------------------------------------------------
(* The subscriber *)

(* Mutant: the number last yielded to the old connection, sent or not. *)
SubscribeAfterYielded ==
  /\ sub = "off"
  /\ sub' = "subscribed"
  /\ UNCHANGED <<publisherVars, channel, subscribeVars, queue, clientVars>>

(* A new connection, with the number of the last event received. *)
Subscribe ==
  /\ sub = "off"
  /\ sub' = "subscribed"
  /\ last' = LastSequence(got)
  /\ UNCHANGED <<publisherVars, channel, taken, place, queue, clientVars>>

(* LRANGE: everything buffered so far. *)
ReadBuffer ==
  /\ sub = "subscribed"
  /\ sub' = "replay"
  /\ taken' = Len(buffer)
  /\ place' = 0
  /\ UNCHANGED <<publisherVars, channel, last, queue, clientVars>>

(* An event at or below the last number yielded is dropped; a newer one is *)
(* yielded into the queue, when there is room.                             *)
Yield(e) ==
  IF e.seq <= last
  THEN UNCHANGED <<last, queue>>
  ELSE /\ Len(queue) < Window
       /\ last' = e.seq
       /\ queue' = Append(queue, e)

(* One turn of the loop over what was read. *)
ReplayEvent ==
  /\ sub = "replay" /\ place < taken
  /\ Yield(buffer[place + 1])
  /\ place' = place + 1
  /\ UNCHANGED <<publisherVars, channel, sub, taken, clientVars>>

(* Mutant: the end is not looked for in the buffer. *)
ReplayGoesOn ==
  /\ sub = "replay" /\ place = taken
  /\ sub' = "live"
  /\ UNCHANGED <<publisherVars, channel, subscribeVars, queue, clientVars>>

(* The replay is over, and the stream too when it ended in run_end. *)
ReplayOver ==
  /\ sub = "replay" /\ place = taken
  /\ IF taken > 0 /\ buffer[taken].end
     THEN sub' = "done" /\ channel' = << >>
     ELSE sub' = "live" /\ UNCHANGED channel
  /\ UNCHANGED <<publisherVars, subscribeVars, queue, clientVars>>

(* Mutant: the other messages received with this one are dropped. *)
ListenDrains ==
  /\ sub = "live" /\ channel # << >>
  /\ Yield(Head(channel))
  /\ sub' = IF Head(channel).seq > last /\ Head(channel).end THEN "done" ELSE sub
  /\ channel' = << >>
  /\ UNCHANGED <<publisherVars, taken, place, clientVars>>

(* One turn of the listen loop; run_end, once yielded, ends it. *)
Listen ==
  /\ sub = "live" /\ channel # << >>
  /\ Yield(Head(channel))
  /\ IF Head(channel).seq > last /\ Head(channel).end
     THEN sub' = "done" /\ channel' = << >>
     ELSE sub' = sub /\ channel' = Tail(channel)
  /\ UNCHANGED <<publisherVars, taken, place, clientVars>>

(* sse_events sends the next event of the queue. *)
Send ==
  /\ queue # << >>
  /\ got' = Append(got, Head(queue))
  /\ queue' = Tail(queue)
  /\ UNCHANGED <<publisherVars, channel, sub, subscribeVars, reconnects>>

(* The client has its stream to the end. *)
StreamOver == sub = "done" /\ queue = << >>

(* The connection is lost (the consumer is cancelled; finally: unsubscribe,*)
(* close) and what was queued for it too; the client will reconnect with   *)
(* after_sequence = the last number it was given.                          *)
Disconnect ==
  /\ sub # "off" /\ ~StreamOver
  /\ reconnects < MaxReconnects
  /\ reconnects' = reconnects + 1
  /\ sub' = "off"
  /\ channel' = << >> /\ queue' = << >>
  /\ UNCHANGED <<publisherVars, subscribeVars, got>>

Publish(p) ==
  \/ SeedSequence(p)
  \/ \E end \in BOOLEAN : PublishPush(p, end)
  \/ PublishBroadcast(p)
  \/ PublisherLeaves(p)

Follow == Subscribe \/ ReadBuffer \/ ReplayEvent \/ ReplayOver \/ Listen

Next ==
  \/ \E p \in Publishers : Publish(p)
  \/ Follow \/ Send
  \/ Disconnect

(* A publication once begun is finished, the client's tasks are scheduled  *)
(* and it reads what it is sent; nothing makes a publisher publish.        *)
Fairness ==
  /\ WF_vars(Follow) /\ WF_vars(Send)
  /\ \A p \in Publishers : WF_vars(PublishBroadcast(p))

Spec == Init /\ [][Next]_vars /\ Fairness

-----------------------------------------------------------------------------
(* Properties *)

Event == [seq: Nat, end: BOOLEAN]

(* Every variable keeps its shape. *)
TypeOK ==
  /\ buffer \in Seq(Event)
  /\ counter \in [Publishers -> Nat]
  /\ stage \in [Publishers -> {"new", "open", "closed"}]
  /\ flight \in [Publishers -> SUBSET Event]
  /\ channel \in Seq(Event)
  /\ sub \in {"off", "subscribed", "replay", "live", "done"}
  /\ taken \in Nat /\ place \in Nat /\ last \in Nat
  /\ queue \in Seq(Event)
  /\ got \in Seq(Event)
  /\ reconnects \in Nat

(* While publishers follow one another, what the client has been given is  *)
(* always the published sequence from its first event, with no gap, no     *)
(* repetition and no reordering, whatever reconnections, in the middle of  *)
(* a replay too, and whatever publications fall between subscribe(), the   *)
(* LRANGE, the replay and the listen loop.                                 *)
NoGapNoRepeat ==
  ~Overlap => Len(got) <= Len(buffer) /\ \A i \in DOMAIN got : got[i] = buffer[i]

(* An event above the last one yielded is still on its way to a live       *)
(* connection: in the channel, or about to be broadcast.                   *)
NothingMissed ==
  ~Overlap /\ sub = "live" =>
    \A i \in DOMAIN buffer :
      \/ buffer[i].seq <= last
      \/ \E j \in DOMAIN channel : channel[j] = buffer[i]
      \/ \E p \in Publishers : buffer[i] \in flight[p]

(* "Replay and follow one durable run until its terminal event": once      *)
(* run_end is in the buffer, the client's stream comes to its end.         *)
StreamTerminates == Ended ~> StreamOver
===============================================================================

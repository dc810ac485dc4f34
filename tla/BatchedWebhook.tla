--------------------------- MODULE BatchedWebhook ---------------------------
(***************************************************************************)
(* BatchedWebhookService: events are buffered for each destination and     *)
(* sent in batches, when a buffer is full or when its timer fires.  An     *)
(* emit runs without interruption until it waits for the batches it        *)
(* filled; the answers to batches come in any order, and an error drops    *)
(* the batch.                                                              *)
(***************************************************************************)
EXTENDS Integers, Sequences, FiniteSets, SequencesExt

CONSTANTS
  Events, Urls,
  Endpoints,    \* Endpoints[e]: the destinations of the owner of event e
  MaxBatchSize,
  Emitters,     \* those who emit and wait
  MaxSending    \* bound on the batches under way

ASSUME WebhookAssumption ==
  /\ IsFiniteSet(Urls)
  /\ Endpoints \in [Events -> SUBSET Urls]
  /\ MaxBatchSize \in Nat \ {0}
  /\ MaxSending \in Nat
  /\ "none" \notin Emitters

VARIABLES
  buffers, \* the events buffered for each destination
  timers,  \* the destinations with a timer running
  sending, \* the batches under way, in the order they left, each with the emitter that waits
  owed     \* history: the emissions for each destination that no answer has settled

busVars == <<buffers, timers, sending, owed>>

Batch == [url : Urls, events : Seq(Events), for : Emitters \cup {"none"}]

BusTypeOK ==
  /\ buffers \in [Urls -> Seq(Events)]
  /\ timers \subseteq Urls
  /\ sending \in Seq(Batch)
  /\ owed \in [Urls -> [Events -> Nat]]

BusInit ==
  /\ buffers = [u \in Urls |-> <<>>]
  /\ timers = {}
  /\ sending = <<>>
  /\ owed = [u \in Urls |-> [e \in Events |-> 0]]

-----------------------------------------------------------------------------

Places(e, s) == {i \in DOMAIN s : s[i] = e}
Times(e, s) == Cardinality(Places(e, s))

\* The batches of these destinations are under way; their buffers are empty and their
\* timers cleared.
Flush(urls, from, who) ==
  /\ buffers' = [u \in Urls |-> IF u \in urls THEN <<>> ELSE from[u]]
  /\ sending' = sending \o SetToSeq({[url |-> u, events |-> from[u], for |-> who] : u \in urls})

\* Slip: the timer outlives its batch.
EmitKeepsTimer(e, who) ==
  LET pushed == [u \in Urls |-> IF u \in Endpoints[e] THEN Append(buffers[u], e) ELSE buffers[u]]
      full == {u \in Endpoints[e] : Len(pushed[u]) >= MaxBatchSize} IN
  /\ Len(sending) + Cardinality(full) <= MaxSending
  /\ Flush(full, pushed, who)
  /\ timers' = timers \cup (Endpoints[e] \ full)
  /\ owed' = [u \in Urls |-> IF u \in Endpoints[e] THEN [owed[u] EXCEPT ![e] = @ + 1] ELSE owed[u]]

\* emit.  Without destinations the event is dropped.
Emit(e, who) ==
  LET pushed == [u \in Urls |-> IF u \in Endpoints[e] THEN Append(buffers[u], e) ELSE buffers[u]]
      full == {u \in Endpoints[e] : Len(pushed[u]) >= MaxBatchSize} IN
  /\ Len(sending) + Cardinality(full) <= MaxSending
  /\ Flush(full, pushed, who)
  /\ timers' = (timers \cup Endpoints[e]) \ full
  /\ owed' = [u \in Urls |-> IF u \in Endpoints[e] THEN [owed[u] EXCEPT ![e] = @ + 1] ELSE owed[u]]

\* An emit returns when the batches it filled are answered, one way or the other.
Emitted(who) == \A i \in DOMAIN sending : sending[i].for # who

\* The timer of a destination fires.
Fire(u) ==
  /\ u \in timers
  /\ Len(sending) < MaxSending
  /\ Flush({u}, buffers, "none")
  /\ timers' = timers \ {u}
  /\ UNCHANGED owed

\* dispose flushes every buffer that holds something.
Dispose ==
  LET urls == {u \in Urls : buffers[u] # <<>>} IN
  /\ urls # {}
  /\ Len(sending) + Cardinality(urls) <= MaxSending
  /\ Flush(urls, buffers, "none")
  /\ timers' = timers \ urls
  /\ UNCHANGED owed

\* A batch is accepted, refused or timed out.  An error goes to a callback; nothing is kept.
Answer ==
  \E i \in DOMAIN sending :
    /\ sending' = RemoveAt(sending, i)
    /\ owed' = [owed EXCEPT ![sending[i].url] =
         [e \in Events |-> @[e] - Times(e, sending[i].events)]]
    /\ UNCHANGED <<buffers, timers>>

\* The process dies: what was buffered is lost, and no one waits for what is under way.
BusDies == buffers' = [u \in Urls |-> <<>>] /\ timers' = {} /\ sending' = <<>>
           /\ owed' = [u \in Urls |-> [e \in Events |-> 0]]

BusStep == (\E u \in Urls : Fire(u)) \/ Answer

-----------------------------------------------------------------------------
(* Properties.                                                             *)

\* Where the batches under way to a destination hold an event.
Sent(e, u, batches) ==
  UNION {{i} \X Places(e, batches[i].events) : i \in {j \in DOMAIN batches : batches[j].url = u}}

\* Flushes by size, by timer and by dispose neither lose, repeat nor strand an event: every
\* emission is, until it is answered, in exactly one buffer or batch of each of its
\* destinations, and a buffer holds something exactly while its timer runs, and less than a
\* batch.
BuffersAccount ==
  \A u \in Urls :
    /\ u \in timers <=> buffers[u] # <<>>
    /\ Len(buffers[u]) < MaxBatchSize
    /\ \A e \in Events :
         owed[u][e] = Times(e, buffers[u]) + Cardinality(Sent(e, u, sending))

=============================================================================

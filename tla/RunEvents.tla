------------------------------- MODULE RunEvents -------------------------------
(***************************************************************************)
(* The events of one run and the sockets that watch it.  emitRunEvent      *)
(* takes the next sequence number (from a cache, or by counting what is    *)
(* stored), appends the event and then tells the listeners of that moment. *)
(* The executor, its unawaited output callbacks and cancelWorkflowRun emit *)
(* concurrently.  A socket replays the stored events after its cursor,     *)
(* reads the status of the run and subscribes, with awaits in between.     *)
(*                                                                         *)
(* Storage is the embedder's and may complete calls in any order.          *)
(***************************************************************************)
EXTENDS Integers, FiniteSets, FiniteSetsExt

CONSTANTS Emission,  \* the emitRunEvent calls made for the run
          Accepted,  \* the one for run.accepted
          Final,     \* the one for the terminal event
          Early,     \* those of cancel calls, which need not wait for Accepted
          Socket,    \* the connections that subscribe to the run
          MayRestart \* whether the process may die and be started again

ASSUME EventsAssumption ==
  /\ IsFiniteSet(Emission) /\ IsFiniteSet(Socket)
  /\ Accepted \in Emission /\ Final \in Emission /\ Accepted # Final
  /\ Early \subseteq Emission \ {Accepted, Final}
  /\ MayRestart \in BOOLEAN

VARIABLES ended,     \* storage: the status of the run is terminal
          stored,    \* storage: the events appended
          seq,       \* seq[e]: the sequence number of e, 0 before it has one
          cached,    \* runSequences.get(runId), 0 when absent
          pc,        \* pc[e]: where emission e stands
          seen,      \* seen[e]: the number of events e has counted
          at,        \* at[c]: where the subscription of socket c stands
          cursor,    \* cursor[c]: the afterSequence c has asked for
          got,       \* got[c]: the events the client behind c has been sent
          done,      \* the sockets that were sent the done message
          connected, \* the sockets whose connection is up
          entry,     \* runListeners.get(runId): a set of listeners, 0 when absent
          members,   \* members[g]: the listeners in the g-th set made for the run
          setOf,     \* setOf[c]: the set the listener of c was added to
          restarted,
          doubt      \* history: numbering was raced or interrupted

numbering == <<stored, seq, cached, pc, seen, doubt>>
viewers == <<at, cursor, got, done, connected>>
listening == <<entry, members, setOf>>
vars == <<ended, numbering, viewers, listening, restarted>>

Number == 0..2 * Cardinality(Emission)
SetId == 0..Cardinality(Socket)

TypeOK ==
  /\ ended \in BOOLEAN
  /\ stored \subseteq Emission
  /\ seq \in [Emission -> Number] /\ seen \in [Emission -> Number]
  /\ cached \in Number
  /\ pc \in [Emission -> {"new", "counted", "numbered", "stored", "over", "lost"}]
  /\ at \in [Socket -> {"off", "replay", "status", "subscribe", "live", "closed"}]
  /\ cursor \in [Socket -> Number]
  /\ got \in [Socket -> SUBSET Emission]
  /\ done \subseteq Socket /\ connected \subseteq Socket
  /\ entry \in SetId /\ members \in [SetId -> SUBSET Socket] /\ setOf \in [Socket -> SetId]
  /\ restarted \in BOOLEAN /\ doubt \in BOOLEAN

Init ==
  /\ ended = FALSE /\ stored = {}
  /\ seq = [e \in Emission |-> 0] /\ seen = [e \in Emission |-> 0] /\ cached = 0
  /\ pc = [e \in Emission |-> "new"]
  /\ at = [c \in Socket |-> "off"] /\ cursor = [c \in Socket |-> 0]
  /\ got = [c \in Socket |-> {}] /\ done = {} /\ connected = {}
  /\ entry = 0 /\ members = [g \in SetId |-> {}] /\ setOf = [c \in Socket |-> 0]
  /\ restarted = FALSE /\ doubt = FALSE

-----------------------------------------------------------------------------
(* emitRunEvent.                                                           *)

\* finalizeRun and cancelWorkflowRun write the status before they emit.
EndRun ==
  /\ ~ended /\ pc[Accepted] = "over"
  /\ ended' = TRUE
  /\ UNCHANGED <<numbering, viewers, listening, restarted>>

\* The process that was executing the run is still there, or e needs none.
MayEmit(e) ==
  /\ pc[e] = "new"
  /\ e \notin Early \cup {Accepted} => pc[Accepted] = "over"
  /\ e = Final => ended
  /\ restarted => e \in Early \cup {Final}

\* Mutant: the list is counted from zero.
CountEventsOffByOne(e) ==
  /\ MayEmit(e) /\ cached = 0
  /\ seen' = [seen EXCEPT ![e] = Cardinality(stored) - 1]
  /\ pc' = [pc EXCEPT ![e] = "counted"]
  /\ UNCHANGED <<ended, stored, seq, cached, doubt, viewers, listening, restarted>>

\* nextRunSequence without a cached number lists the stored events ...
CountEvents(e) ==
  /\ MayEmit(e) /\ cached = 0
  /\ seen' = [seen EXCEPT ![e] = Cardinality(stored)]
  /\ pc' = [pc EXCEPT ![e] = "counted"]
  /\ doubt' = (doubt \/ \E f \in Emission : pc[f] = "counted")
  /\ UNCHANGED <<ended, stored, seq, cached, viewers, listening, restarted>>

\* ... and sets the cache when the list arrives, whatever it holds by then.
SetSequence(e) ==
  /\ pc[e] = "counted"
  /\ seq' = [seq EXCEPT ![e] = seen[e] + 1]
  /\ cached' = seen[e] + 1
  /\ pc' = [pc EXCEPT ![e] = "numbered"]
  /\ UNCHANGED <<ended, stored, seen, doubt, viewers, listening, restarted>>

\* Mutant: the number is taken but the cache is not advanced.
TakeSequenceStale(e) ==
  /\ MayEmit(e) /\ cached > 0
  /\ seq' = [seq EXCEPT ![e] = cached + 1]
  /\ pc' = [pc EXCEPT ![e] = "numbered"]
  /\ UNCHANGED <<ended, stored, cached, seen, doubt, viewers, listening, restarted>>

\* With a cached number it takes the next one at once.
TakeSequence(e) ==
  /\ MayEmit(e) /\ cached > 0
  /\ seq' = [seq EXCEPT ![e] = cached + 1]
  /\ cached' = cached + 1
  /\ pc' = [pc EXCEPT ![e] = "numbered"]
  /\ UNCHANGED <<ended, stored, seen, doubt, viewers, listening, restarted>>

\* appendWorkflowRunEvent has its effect ...
Append(e) ==
  /\ pc[e] = "numbered"
  /\ stored' = stored \cup {e}
  /\ pc' = [pc EXCEPT ![e] = "stored"]
  /\ UNCHANGED <<ended, seq, cached, seen, doubt, viewers, listening, restarted>>

\* Mutant: the terminal event does not release its listeners.
NotifyKeepsSockets(e) ==
  /\ pc[e] = "stored"
  /\ pc' = [pc EXCEPT ![e] = "over"]
  /\ got' = [c \in Socket |-> IF c \in members[entry] THEN got[c] \cup {e} ELSE got[c]]
  /\ UNCHANGED <<ended, stored, seq, cached, seen, doubt, at, cursor, done, connected,
                 listening, restarted>>

\* ... and returns: the listeners of now are called.  On the terminal event
\* each sends done, closes and disconnects, which closes once more.
Notify(e) ==
  LET told == members[entry] IN
  /\ pc[e] = "stored"
  /\ pc' = [pc EXCEPT ![e] = "over"]
  /\ got' = [c \in Socket |-> IF c \in told \cap connected THEN got[c] \cup {e} ELSE got[c]]
  /\ IF e = Final
     THEN /\ done' = done \cup (told \cap connected)
          /\ connected' = connected \ told
          /\ at' = [c \in Socket |-> IF c \in told THEN "closed" ELSE at[c]]
          /\ members' = [members EXCEPT ![entry] = {}]
          /\ entry' = 0
     ELSE UNCHANGED <<done, connected, at, members, entry>>
  /\ UNCHANGED <<ended, stored, seq, cached, seen, doubt, cursor, setOf, restarted>>

-----------------------------------------------------------------------------
(* handleRunSubscription for socket c, from the point where it is allowed. *)

\* A client asks for everything, or for what follows the last event it was
\* sent over an earlier connection.
Connect(c, d) ==
  /\ at[c] = "off" /\ pc[Accepted] # "new"
  /\ connected' = connected \cup {c}
  /\ IF d = c
     THEN UNCHANGED <<cursor, got>>
     ELSE /\ at[d] # "off" /\ d \notin connected /\ got[d] # {}
          /\ cursor' = [cursor EXCEPT ![c] = Max({seq[e] : e \in got[d]})]
          /\ got' = [got EXCEPT ![c] = got[d]]
  /\ at' = [at EXCEPT ![c] = "replay"]
  /\ UNCHANGED <<ended, numbering, done, listening, restarted>>

\* replayRunEvents.
Replay(c) ==
  /\ at[c] = "replay"
  /\ got' = [got EXCEPT ![c] = IF c \in connected
                               THEN @ \cup {e \in stored : seq[e] > cursor[c]} ELSE @]
  /\ at' = [at EXCEPT ![c] = "status"]
  /\ UNCHANGED <<ended, numbering, cursor, done, connected, listening, restarted>>

\* readWorkflowRun: a run that has ended needs no subscription.
ReadStatus(c) ==
  /\ at[c] = "status"
  /\ IF ended
     THEN /\ done' = done \cup ({c} \cap connected) /\ connected' = connected \ {c}
          /\ at' = [at EXCEPT ![c] = "closed"]
     ELSE at' = [at EXCEPT ![c] = "subscribe"] /\ UNCHANGED <<done, connected>>
  /\ UNCHANGED <<ended, numbering, cursor, got, listening, restarted>>

\* subscribeWorkflowRun: the listener joins the set of the run, or a new one.
Subscribe(c) ==
  LET g == IF entry # 0 THEN entry ELSE 1 + Cardinality({d \in Socket : setOf[d] # 0}) IN
  /\ at[c] = "subscribe"
  /\ entry' = g
  /\ members' = [members EXCEPT ![g] = @ \cup {c}]
  /\ setOf' = [setOf EXCEPT ![c] = g]
  /\ at' = [at EXCEPT ![c] = "live"]
  /\ UNCHANGED <<ended, numbering, cursor, got, done, connected, restarted>>

\* Mutant: close() drops the set of the run whoever is still in it.
DisconnectDropsSet(c) ==
  /\ c \in connected
  /\ connected' = connected \ {c}
  /\ IF at[c] = "live"
     THEN at' = [at EXCEPT ![c] = "closed"] /\ entry' = 0
          /\ members' = [members EXCEPT ![setOf[c]] = @ \ {c}]
     ELSE UNCHANGED <<at, entry, members>>
  /\ UNCHANGED <<ended, numbering, cursor, got, done, setOf, restarted>>

\* The connection breaks.  Only a live socket has a disconnect handler; an
\* earlier break goes unnoticed and the handler goes on.
Disconnect(c) ==
  /\ c \in connected
  /\ connected' = connected \ {c}
  /\ IF at[c] = "live"
     THEN /\ at' = [at EXCEPT ![c] = "closed"]
          /\ members' = [members EXCEPT ![setOf[c]] = @ \ {c}]
          /\ entry' = IF members[setOf[c]] \subseteq {c} THEN 0 ELSE entry
     ELSE UNCHANGED <<at, entry, members>>
  /\ UNCHANGED <<ended, numbering, cursor, got, done, setOf, restarted>>

\* The process is started anew: sockets, listeners, the cache and the emissions
\* under way are gone.
Restart ==
  /\ MayRestart /\ ~restarted
  /\ restarted' = TRUE
  /\ pc' = [e \in Emission |-> IF pc[e] \in {"counted", "numbered"} THEN "lost"
                               ELSE IF pc[e] = "stored" THEN "over" ELSE pc[e]]
  /\ doubt' = (doubt \/ \E e \in Emission : pc[e] = "numbered")
  /\ cached' = 0
  /\ at' = [c \in Socket |-> IF at[c] = "off" THEN "off" ELSE "closed"]
  /\ connected' = {} /\ entry' = 0 /\ members' = [g \in SetId |-> {}]
  /\ UNCHANGED <<ended, stored, seq, seen, cursor, got, done, setOf>>

Emit(e) == CountEvents(e) \/ SetSequence(e) \/ TakeSequence(e) \/ Append(e) \/ Notify(e)
Handle(c) == Replay(c) \/ ReadStatus(c) \/ Subscribe(c)

Next ==
  \/ EndRun
  \/ \E e \in Emission : Emit(e)
  \/ \E c \in Socket : Handle(c) \/ Disconnect(c) \/ \E d \in Socket : Connect(c, d)
  \/ Restart

Spec == Init /\ [][Next]_vars

\* Storage answers; the run, while its process lives, comes to an end.
FairSpec ==
  /\ Spec
  /\ WF_vars(~restarted /\ EndRun)
  /\ \A e \in Emission : WF_vars((e \in Early => pc[e] # "new") /\ Emit(e))
  /\ \A c \in Socket : WF_vars(Handle(c))

-----------------------------------------------------------------------------
(* Properties.                                                             *)

\* The numbers handed out are 1, 2, 3, ... with no repetition and no gap, the
\* cursor's premise (runtime_support.ts:38-51), across a restart too, unless
\* two emissions counted at once or a restart lost a number that was taken.
UniqueSequences ==
  ~doubt =>
    LET numbered == {e \in Emission : seq[e] > 0} IN
    {seq[e] : e \in numbered} = 1..Cardinality(numbered)

\* Whoever else comes and goes, a live socket is in the set of listeners that
\* the next event is sent to (api.ts:219-235): no close() of another drops it.
\* None is sent away as done before the run has ended, by either of the two ways
\* (socket_subscription.ts:208-215, 279-284).
StaysReachable ==
  /\ \A c \in Socket : at[c] = "live" => setOf[c] = entry /\ c \in members[entry]
  /\ done # {} => ended

\* A socket that subscribes before the terminal event is sent to the listeners
\* is released in the end.
LiveSocketIsReleased ==
  \A c \in Socket : (at[c] = "live" /\ pc[Final] # "over") ~> (at[c] = "closed" \/ restarted)

\* What the documentation of the replay leads one to expect: a client that was
\* sent the terminal event was sent all that came before it.
CaughtUp ==
  \A c \in Socket : Final \in got[c] => \A e \in stored : seq[e] < seq[Final] => e \in got[c]
===============================================================================

------------------------------- MODULE Events -------------------------------
(* The stream of events (api/events.go): triggers notify a channel of          *)
(* PostgreSQL when a release or a report is stored, one listener of the server *)
(* hands every notification to a broadcaster, which puts it into the buffer of *)
(* each connected client and skips the clients whose buffer is full.            *)
EXTENDS Naturals, Sequences, FiniteSets, SequencesExt

CONSTANTS Clients,
          Buffer,               \* the capacity of a client's channel
          MaxEvents, MaxFailures \* bounds: notifications; lost connections of the listener

ASSUME EventsAssumption == Buffer \in Nat \ {0} /\ MaxEvents \in Nat

VARIABLES open,      \* transactions under way that have stored a row: its event
          committed, \* history: events in the order of their commits
          wire,      \* notifications on their way to the listener
          listening, \* the goroutine of ListenForNotifications runs
          buffer,    \* per connected client, its channel
          got,       \* per connected client, what it was sent
          since,     \* history, per client: how many events were broadcast before it subscribed
          sentOut,   \* history: the events broadcast
          skipped,   \* history, per client: the events it missed
          failures

eventVars == <<open, committed, wire, listening, buffer, got, since, sentOut, skipped, failures>>

EventsInit == /\ open = {} /\ committed = <<>> /\ wire = <<>> /\ listening = FALSE
              /\ buffer = [c \in {} |-> <<>>] /\ got = [c \in {} |-> <<>>] /\ since = [c \in {} |-> 0]
              /\ sentOut = <<>> /\ skipped = [c \in {} |-> <<>>] /\ failures = 0
Connected == DOMAIN buffer
Started == Len(committed) + Cardinality(open)

\* a transaction stores a release, or completes a report; the trigger queues the
\* notification, which PostgreSQL sends at the commit and forgets at a rollback
NotifyReleaseCreated == /\ Started < MaxEvents
                        /\ \E e \in 1..MaxEvents : /\ e \notin open \cup Range(committed)
                                                   /\ open' = open \cup {e}
                        /\ UNCHANGED <<committed, wire, listening, buffer, got, since, sentOut, skipped, failures>>
Commit(e) == /\ e \in open /\ open' = open \ {e} /\ committed' = Append(committed, e)
             /\ wire' = IF listening THEN Append(wire, e) ELSE wire
             /\ UNCHANGED <<listening, buffer, got, since, sentOut, skipped, failures>>
Rollback(e) == /\ e \in open /\ open' = open \ {e}
               /\ UNCHANGED <<committed, wire, listening, buffer, got, since, sentOut, skipped, failures>>

\* LISTEN when the server starts; any error of the connection ends the goroutine
Listen == /\ ~listening /\ failures = 0 /\ listening' = TRUE
          /\ UNCHANGED <<open, committed, wire, buffer, got, since, sentOut, skipped, failures>>
ListenerFails == /\ listening /\ failures < MaxFailures /\ failures' = failures + 1
                 /\ listening' = FALSE /\ wire' = <<>>
                 /\ UNCHANGED <<open, committed, buffer, got, since, sentOut, skipped>>
\* Mutant: a full buffer makes room by giving up its oldest event.
SendDropsOldest(evt) ==
  LET Fits(c) == Len(buffer[c]) < Buffer
  IN  /\ buffer' = [c \in Connected |-> IF Fits(c) THEN Append(buffer[c], evt) ELSE Append(Tail(buffer[c]), evt)]
      /\ sentOut' = Append(sentOut, evt) /\ UNCHANGED skipped
\* Send, under the read lock: no client comes or goes meanwhile
Send(evt) ==
  LET Fits(c) == Len(buffer[c]) < Buffer
  IN  /\ buffer' = [c \in Connected |-> IF Fits(c) THEN Append(buffer[c], evt) ELSE buffer[c]]
      /\ skipped' = [c \in Connected |-> IF Fits(c) THEN skipped[c] ELSE Append(skipped[c], evt)]
      /\ sentOut' = Append(sentOut, evt)
ListenForNotifications == /\ listening /\ wire # <<>> /\ wire' = Tail(wire) /\ Send(Head(wire))
                          /\ UNCHANGED <<open, committed, listening, got, since, failures>>

\* GET /events: a stream begins, writes what its channel holds, and ends
Subscribe(c) == LET And(f, v) == [d \in Connected \cup {c} |-> IF d = c THEN v ELSE f[d]]
                IN  /\ c \notin Connected /\ buffer' = And(buffer, <<>>) /\ got' = And(got, <<>>)
                    /\ since' = And(since, Len(sentOut)) /\ skipped' = And(skipped, <<>>)
                    /\ UNCHANGED <<open, committed, wire, listening, sentOut, failures>>
Stream(c) == /\ c \in Connected /\ buffer[c] # <<>>
             /\ got' = [got EXCEPT ![c] = Append(@, Head(buffer[c]))] /\ buffer' = [buffer EXCEPT ![c] = Tail(@)]
             /\ UNCHANGED <<open, committed, wire, listening, since, sentOut, skipped, failures>>
Unsubscribe(c) == LET Less(f) == [d \in Connected \ {c} |-> f[d]]
                  IN  /\ c \in Connected /\ buffer' = Less(buffer) /\ got' = Less(got)
                      /\ since' = Less(since) /\ skipped' = Less(skipped)
                      /\ UNCHANGED <<open, committed, wire, listening, sentOut, failures>>

EventsNext == \/ NotifyReleaseCreated \/ Listen \/ ListenerFails \/ ListenForNotifications
              \/ \E e \in open : Commit(e) \/ Rollback(e)
              \/ \E c \in Clients : Subscribe(c) \/ Stream(c) \/ Unsubscribe(c)
EventsSpec == EventsInit /\ [][EventsNext]_eventVars

-----------------------------------------------------------------------------
\* A client is sent what was committed since it subscribed, in the order of the
\* commits, once each, and nothing that was rolled back; it misses an event only
\* while as many as its buffer holds are waiting; and without a failure of the
\* listener every event committed since it listens is broadcast or on its way.
StreamFaithful ==
  /\ \A c \in Connected :
       LET mine == got[c] \o buffer[c]
           due == SubSeq(sentOut, since[c] + 1, Len(sentOut))
       IN  /\ IsInjective(mine) /\ Range(mine) = Range(due) \ Range(skipped[c])
           /\ \A i, j \in DOMAIN mine : i < j =>
                \E x, y \in DOMAIN due : x < y /\ due[x] = mine[i] /\ due[y] = mine[j]
           /\ skipped[c] # <<>> => Len(mine) >= Buffer
  /\ IsSuffix(sentOut \o wire, committed) \/ failures > 0
  /\ \A e \in open : e \notin Range(sentOut \o wire)
=============================================================================

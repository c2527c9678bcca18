-------------------------- MODULE IngestionProofs --------------------------
(***************************************************************************)
(* Proofs about Ingestion, for any sources, versions, changelogs, numbers  *)
(* of concurrent requests and bounds.                                      *)
(*                                                                         *)
(* The outbox rests on three facts of InsertRelease: the unique key, the   *)
(* foreign key, and the jobs being inserted in the transaction of the row. *)
(* The SELECT that precedes it plays no part.                              *)
(***************************************************************************)
EXTENDS Ingestion, TLAPS

\* A poller at work knows its source, and in IngestRelease the result it stores.
PollersOK ==
    \A p \in Poller : /\ pc[p] \notin {"idle", "next"} => at[p] \in Source
                      /\ pc[p] = "write" => cur[p] \in Version /\ batch[p][cur[p]] # Absent

\* Nothing was ever inserted for a source that does not exist yet.
Untouched ==
    \A s \in Source, v \in Version :
        src[s] = "none" => news[s][v] = 0 /\ checks[s][v] = 0

Typed == TypeOK /\ PollersOK
Safe  == OutboxExact /\ DeletedLeavesNothing /\ Untouched
IInv  == Typed /\ Safe

USE DEF tables, local, bounds, Goto
-----------------------------------------------------------------------------
\* No poll, no request and no crash leaves the types.
LEMMA NextTyped == Typed /\ [Next]_vars => Typed'
<1> SUFFICES ASSUME Typed, [Next]_vars PROVE Typed'
    OBVIOUS
<1>0. /\ Absent \in Entry /\ Nothing \in [Version -> Entry]
      /\ Orch \in Poller /\ Request \subseteq Poller
    BY DEF Entry, Nothing, Poller
<1> USE <1>0 DEF Typed, TypeOK, PollersOK
<1>1. ASSUME NEW s \in Source, NEW v \in Version, NEW e \in Entry, Publish(s, v, e)
      PROVE  Typed'
    BY <1>1 DEF Publish
<1>2. ASSUME NEW s \in Source, Elapse(s) PROVE Typed'
    BY <1>2 DEF Elapse
<1>3. ASSUME NEW s \in Source, DeleteSource(s) PROVE Typed'
    BY <1>3 DEF DeleteSource, Administer
<1>4. ASSUME Tick PROVE Typed'
    BY <1>4 DEF Tick
<1>5. ASSUME NextSource PROVE Typed'
  <2>1. CASE Goto(Orch, "idle") /\ UNCHANGED <<plan, at>>
      BY <1>5, <2>1 DEF NextSource
  <2>2. ASSUME NEW s \in plan,
               plan' = plan \ {s}, at' = [at EXCEPT ![Orch] = s], Goto(Orch, "fetch")
        PROVE  Typed'
    <3>1. s \in Source
        BY <2>2
    <3> QED  BY <1>5, <2>2, <3>1 DEF NextSource
  <2> QED  BY <1>5, <2>1, <2>2 DEF NextSource
<1>6. ASSUME Crash PROVE Typed'
    BY <1>6 DEF Crash, Fault
<1>7. ASSUME NEW p \in Poller, Fetch(p) PROVE Typed'
  <2>1. at[p] \in Source /\ feed[at[p]] \in [Version -> Entry]
      BY <1>7 DEF Fetch
  <2>2. /\ batch' \in [Poller -> [Version -> Entry]]
        /\ \A q \in Poller : q # p => batch'[q] = batch[q]
      BY <1>7, <2>1 DEF Fetch
  <2>a. /\ \E q \in {"status", "failed"} : pc' = [pc EXCEPT ![p] = q]
        /\ UNCHANGED <<feed, src, due, tables, plan, at, cur, old>>
      BY <1>7 DEF Fetch
  <2>b. edits' \in Nat /\ admin' \in Nat /\ faults' \in Nat
      BY <1>7 DEF Fetch, Fault
  <2>3. /\ pc' \in [Poller -> {"idle", "next", "fetch", "status", "failed", "select", "write"}]
        /\ pc'[p] \in {"status", "failed"}
        /\ \A q \in Poller : q # p => pc'[q] = pc[q]
        /\ edits' \in Nat /\ admin' \in Nat /\ faults' \in Nat
        /\ UNCHANGED <<feed, src, due, tables, plan, at, cur, old>>
      BY <2>a, <2>b
  <2>4. TypeOK'
      BY <2>2, <2>3
  <2>5. PollersOK'
      BY <2>1, <2>2, <2>3
  <2> QED  BY <2>4, <2>5
<1>8. ASSUME NEW p \in Poller, PollStatus(p) PROVE Typed'
    BY <1>8 DEF PollStatus, AfterPoll, Fault
<1>9. ASSUME NEW p \in Poller, Select(p) PROVE Typed'
  <2>1. CASE batch[p] = Nothing /\ Goto(p, AfterPoll(p)) /\ UNCHANGED <<cur, old>>
      BY <1>9, <2>1 DEF Select, AfterPoll
  <2>2. ASSUME NEW v \in Version,
               batch[p][v] # Absent,
               cur' = [cur EXCEPT ![p] = v],
               old' = [old EXCEPT ![p] = releases[at[p]][v]],
               Goto(p, "write")
        PROVE  Typed'
    <3>0. /\ pc[p] = "select" /\ batch[p][v] # Absent
          /\ UNCHANGED <<feed, src, due, tables, plan, at, batch, bounds>>
        BY <1>9, <2>2 DEF Select
    <3>1. at[p] \in Source
        BY <3>0
    <3>2. releases[at[p]][v] \in Entry
        BY <3>1
    <3>3. TypeOK'
        BY <2>2, <3>0, <3>2
    <3>4. PollersOK'
        BY <2>2, <3>0, <3>1
    <3> QED  BY <3>3, <3>4
  <2> QED  BY <1>9, <2>1, <2>2 DEF Select
<1>10. ASSUME NEW p \in Poller, Processed(p), pc[p] = "write"
       PROVE  /\ batch' \in [Poller -> [Version -> Entry]]
              /\ cur' \in [Poller -> Version \cup {NoVersion}]
              /\ old' \in [Poller -> Entry]
              /\ pc' = [pc EXCEPT ![p] = "select"]
              /\ \A q \in Poller : pc'[q] = "write" => cur'[q] = cur[q] /\ batch'[q] = batch[q]
    BY <1>10 DEF Processed
<1>11. ASSUME NEW p \in Poller, Write(p) PROVE Typed'
  <2> DEFINE s == at[p]  v == cur[p]  e == batch[p][v]
  <2>0. /\ pc[p] = "write" /\ s \in Source /\ v \in Version /\ e \in Entry
        /\ Processed(p) /\ UNCHANGED <<feed, src, due, plan, at, bounds>>
      BY <1>11 DEF Write
  <2>1. /\ releases' \in [Source -> [Version -> Entry]]
        /\ news' \in [Source -> [Version -> Nat]]
        /\ updates' \in [Source -> [Version -> Nat]]
        /\ checks' \in [Source -> [Version -> Nat]]
    <3> HIDE DEF s, v, e
    <3>1. CASE InsertRelease(s, v, e)
        BY <2>0, <3>1 DEF InsertRelease
    <3>2. CASE UpdateRelease(s, v, old[p], e)
        BY <2>0, <3>2 DEF UpdateRelease
    <3> QED  BY <1>11, <3>1, <3>2 DEF Write, s, v, e
  <2> HIDE DEF s, v, e
  <2> QED  BY <2>0, <2>1, <1>10
<1>12. ASSUME NEW p \in Poller, WriteFails(p) PROVE Typed'
  <2>0. /\ pc[p] = "write" /\ UNCHANGED <<feed, src, due, tables, plan, at>>
        /\ edits' \in Nat /\ admin' \in Nat /\ faults' \in Nat
      BY <1>12 DEF WriteFails, Fault
  <2>1. CASE p = Orch
    <3>1. /\ batch' = [batch EXCEPT ![p] = Nothing]
          /\ cur' = [cur EXCEPT ![p] = NoVersion]
          /\ old' = [old EXCEPT ![p] = Absent]
          /\ pc' = [pc EXCEPT ![p] = "next"]
        BY <1>12, <2>1 DEF WriteFails
    <3>2. TypeOK'
        BY <2>0, <3>1
    <3>3. PollersOK'
        BY <2>0, <3>1
    <3> QED  BY <3>2, <3>3
  <2>2. CASE p # Orch
    <3>1. Processed(p)
        BY <1>12, <2>2 DEF WriteFails
    <3> QED  BY <2>0, <3>1, <1>10
  <2> QED  BY <2>1, <2>2
<1>13. ASSUME NEW p \in Request, NEW s \in Source,
              CreateSource(p, s) \/ UpdateSource(p, s) \/ FetchReleases(p, s)
       PROVE  Typed'
  <2>1. /\ p \in Poller /\ Administer /\ StartPoll(p, s)
        /\ due' \in SUBSET Source
        /\ src' \in [Source -> {"none", "enabled", "disabled", "deleted"}]
      BY <1>13 DEF CreateSource, UpdateSource, FetchReleases
  <2> QED  BY <2>1 DEF Administer, StartPoll
<1>14. ASSUME UNCHANGED vars PROVE Typed'
    BY <1>14 DEF vars
<1> QED
    BY <1>1, <1>2, <1>3, <1>4, <1>5, <1>6, <1>7, <1>8, <1>9, <1>11, <1>12, <1>13, <1>14
    DEF Next, PollStep

\* What Safe says of one release.
RowSafe(s, v) ==
    /\ Exists(s) /\ releases[s][v] = Absent => news[s][v] = 0 /\ checks[s][v] = 0
    /\ Exists(s) /\ releases[s][v] # Absent => news[s][v] = 1 /\ checks[s][v] = 1
    /\ ~Exists(s) => releases[s][v] = Absent
    /\ src[s] = "none" => news[s][v] = 0 /\ checks[s][v] = 0

LEMMA SafeRows ==
    /\ Safe <=> \A s \in Source, v \in Version : RowSafe(s, v)
    /\ Safe' <=> \A s \in Source, v \in Version : RowSafe(s, v)'
BY DEF Safe, OutboxExact, DeletedLeavesNothing, Untouched, RowSafe

\* Only InsertRelease, CreateSource and DeleteSource touch what Safe speaks of.
LEMMA NextSafe == ASSUME Typed, Safe, [Next]_vars PROVE Safe'
<1> SUFFICES ASSUME NEW x \in Source, NEW y \in Version PROVE RowSafe(x, y)'
    BY SafeRows
<1>0. RowSafe(x, y)
    BY SafeRows
<1> USE <1>0 DEF RowSafe, Exists, Typed, TypeOK
<1>1. ASSUME UNCHANGED <<src, releases, news, checks>> PROVE RowSafe(x, y)'
    BY <1>1
<1>2. ASSUME NEW p \in Poller, Write(p) PROVE RowSafe(x, y)'
  <2> DEFINE s == at[p]  v == cur[p]  e == batch[p][v]
  <2>0. s \in Source /\ v \in Version /\ UNCHANGED src /\ e # Absent
      BY <1>2 DEF Write, PollersOK
  <2> HIDE DEF s, v, e
  <2>1. CASE InsertRelease(s, v, e)
      BY <2>0, <2>1 DEF InsertRelease
  <2>2. CASE UpdateRelease(s, v, old[p], e)
      BY <2>0, <2>2 DEF UpdateRelease
  <2> QED  BY <1>2, <2>1, <2>2 DEF Write, s, v, e
<1>3. ASSUME NEW p \in Request, NEW s \in Source, CreateSource(p, s) \/ UpdateSource(p, s)
      PROVE  RowSafe(x, y)'
  <2>1. PICK how \in {"enabled", "disabled"} : src' = [src EXCEPT ![s] = how]
      BY <1>3 DEF CreateSource, UpdateSource
  <2>2. UNCHANGED <<releases, news, checks>> /\ (src[s] = "none" \/ Exists(s))
      BY <1>3 DEF CreateSource, UpdateSource, StartPoll
  <2> QED  BY <2>1, <2>2
<1>4. ASSUME NEW s \in Source, DeleteSource(s) PROVE RowSafe(x, y)'
    BY <1>4 DEF DeleteSource, Nothing
<1>5. \/ \E p \in Poller : Write(p)
      \/ \E p \in Request, s \in Source : CreateSource(p, s) \/ UpdateSource(p, s)
      \/ \E s \in Source : DeleteSource(s)
      \/ UNCHANGED <<src, releases, news, checks>>
    BY DEF Next, PollStep, Publish, Elapse, Tick, NextSource, Crash, Fetch, PollStatus,
           Select, WriteFails, FetchReleases, StartPoll, vars
<1> QED  BY <1>1, <1>2, <1>3, <1>4, <1>5

LEMMA InitIInv == Init => IInv
BY ConstantsAssumption
   DEF Init, IInv, Typed, TypeOK, PollersOK, Safe, OutboxExact, DeletedLeavesNothing,
       Untouched, Exists, Nothing, Poller, Entry, Changelog

\* Every reachable state is typed, and every poller at work knows its source.
THEOREM Invariance == Spec => []IInv
<1>1. IInv /\ [Next]_vars => IInv'
    BY NextTyped, NextSafe DEF IInv
<1> QED  BY <1>1, InitIInv, PTL DEF Spec

\* Polls, requests and crashes keep the tables and the pollers in their types: in
\* particular every poller is always at a step it can leave.
THEOREM TypeCorrect == Spec => []TypeOK
<1>1. IInv => TypeOK
    BY DEF IInv, Typed
<1> QED  BY <1>1, Invariance, PTL

\* The transactional outbox: whatever polls run at the same time, fail or die,
\* a stored release of an existing source has exactly one first notification
\* job and exactly one gate check, and nothing else has one.
THEOREM OutboxCorrect == Spec => []OutboxExact
<1>1. IInv => OutboxExact
    BY DEF IInv, Safe
<1> QED  BY <1>1, Invariance, PTL

\* No poll that outlives its source stores a release for it.
THEOREM NoOrphans == Spec => []DeletedLeavesNothing
<1>1. IInv => DeletedLeavesNothing
    BY DEF IInv, Safe
<1> QED  BY <1>1, Invariance, PTL
-----------------------------------------------------------------------------
(* Updates.  What IngestRelease has SELECTed is still what the table holds *)
(* when it writes as long as the orchestrator alone polls: with a second   *)
(* poller it need not be, and the run IngestionReprocess shows the update  *)
(* that gets no job.                                                       *)

\* What the SELECT returned is what the row holds, unless the row has gone.
Current ==
    pc[Orch] = "write" => releases[at[Orch]][cur[Orch]] \in {old[Orch], Absent}

\* The same where no source is ever deleted.
Exact ==
    /\ admin <= MaxAdmin
    /\ pc[Orch] = "write" => releases[at[Orch]][cur[Orch]] = old[Orch]

\* Between the SELECT and the write of a sole poller only a deletion of the
\* source touches the table.
LEMMA SoleWrite ==
    ASSUME Request = {}, Typed, [Next]_vars, pc'[Orch] = "write"
    PROVE  \/ old'[Orch] = releases'[at'[Orch]][cur'[Orch]]
           \/ /\ pc[Orch] = "write" /\ UNCHANGED <<at, cur, old>>
              /\ UNCHANGED releases \/ \E s \in Source : DeleteSource(s)
<1> USE DEF Typed, TypeOK, PollersOK
<1>0. Poller = {Orch}
    BY DEF Poller
<1>1. ASSUME Select(Orch) PROVE old'[Orch] = releases'[at'[Orch]][cur'[Orch]]
  <2>1. PICK v \in Version : /\ cur' = [cur EXCEPT ![Orch] = v]
                             /\ old' = [old EXCEPT ![Orch] = releases[at[Orch]][v]]
      BY <1>0, <1>1 DEF Select, AfterPoll
  <2>2. UNCHANGED <<at, releases>>
      BY <1>1 DEF Select
  <2> QED  BY <1>0, <2>1, <2>2
<1>2. ASSUME Fetch(Orch) \/ PollStatus(Orch) \/ Write(Orch) \/ WriteFails(Orch) PROVE FALSE
    BY <1>0, <1>2 DEF Fetch, PollStatus, AfterPoll, Write, WriteFails, Processed
<1>3. ASSUME Tick \/ NextSource \/ Crash PROVE FALSE
    BY <1>0, <1>3 DEF Tick, NextSource, Crash
<1>4. \/ Select(Orch)
      \/ Fetch(Orch) \/ PollStatus(Orch) \/ Write(Orch) \/ WriteFails(Orch)
      \/ Tick \/ NextSource \/ Crash
      \/ /\ UNCHANGED <<pc, at, cur, old>>
         /\ UNCHANGED releases \/ \E s \in Source : DeleteSource(s)
    BY <1>0 DEF Next, PollStep, Publish, Elapse, DeleteSource, vars
<1> QED  BY <1>1, <1>2, <1>3, <1>4

LEMMA CurrentKept == ASSUME Request = {}, Typed, Current, [Next]_vars PROVE Current'
<1> SUFFICES ASSUME pc'[Orch] = "write"
             PROVE  releases'[at'[Orch]][cur'[Orch]] \in {old'[Orch], Absent}
    BY DEF Current
<1>1. CASE old'[Orch] = releases'[at'[Orch]][cur'[Orch]]
    BY <1>1
<1>2. CASE pc[Orch] = "write" /\ UNCHANGED <<at, cur, old, releases>>
    BY <1>2 DEF Current
<1>3. ASSUME pc[Orch] = "write", UNCHANGED <<at, cur, old>>, NEW s \in Source, DeleteSource(s)
      PROVE  releases'[at'[Orch]][cur'[Orch]] \in {old'[Orch], Absent}
  <2>1. /\ at[Orch] \in Source /\ cur[Orch] \in Version
        /\ releases[at[Orch]][cur[Orch]] \in {old[Orch], Absent}
      BY <1>3 DEF Current, Typed, PollersOK, Poller
  <2>2. releases' = [releases EXCEPT ![s] = Nothing]
      BY <1>3 DEF DeleteSource
  <2>3. CASE s = at[Orch]
      BY <1>3, <2>1, <2>2, <2>3 DEF Nothing, Typed, TypeOK
  <2>4. CASE s # at[Orch]
      BY <1>3, <2>1, <2>2, <2>4 DEF Typed, TypeOK
  <2> QED  BY <2>3, <2>4
<1> QED  BY <1>1, <1>2, <1>3, SoleWrite

LEMMA ExactKept ==
    ASSUME Request = {}, MaxAdmin = 0, Typed, Exact, [Next]_vars PROVE Exact'
<1>1. admin = 0
    BY DEF Exact, Typed, TypeOK
<1>2. ~\E s \in Source : DeleteSource(s)
    BY <1>1 DEF DeleteSource, Administer
<1>3. UNCHANGED admin
    BY <1>1, <1>2
    DEF Next, PollStep, Publish, Elapse, Tick, NextSource, Crash, Fault, Fetch, PollStatus,
        Select, Write, WriteFails, vars
<1> QED  BY <1>1, <1>2, <1>3, SoleWrite DEF Exact

\* What one write does to one changelog and to its jobs, when the SELECT of the
\* same transaction still holds.
LEMMA WriteTellsUpdates ==
    ASSUME Typed, Write(Orch), NEW x \in Source, NEW y \in Version
    PROVE  /\ releases[at[Orch]][cur[Orch]] \in {old[Orch], Absent} =>
                (releases[x][y] # Absent /\ releases'[x][y] \in Text \ {releases[x][y]}
                   => updates'[x][y] = updates[x][y] + 1)
           /\ releases[at[Orch]][cur[Orch]] = old[Orch] =>
                (updates'[x][y] # updates[x][y] => releases'[x][y] # releases[x][y])
<1> USE ConstantsAssumption DEF Typed, TypeOK, PollersOK
<1> DEFINE s == at[Orch]  v == cur[Orch]  e == batch[Orch][v]
<1>0. s \in Source /\ v \in Version /\ e \in Entry /\ e # Absent
  <2>1. Orch \in Poller /\ pc[Orch] = "write"
      BY DEF Write, Poller
  <2>2. batch[Orch] \in [Version -> Entry]
      BY <2>1
  <2> QED  BY <2>1, <2>2
<1> HIDE DEF s, v, e
<1>1. CASE old[Orch] = Absent /\ InsertRelease(s, v, e)
  <2>1. /\ releases[s][v] = Absent /\ UNCHANGED updates
        /\ releases' = [releases EXCEPT ![s][v] = e]
      BY <1>1 DEF InsertRelease
  <2>2. (x = s /\ y = v) \/ releases'[x][y] = releases[x][y]
      BY <1>0, <2>1
  <2> QED  BY <2>1, <2>2
<1>2. CASE old[Orch] # Absent /\ UpdateRelease(s, v, old[Orch], e)
  <2>1. /\ releases' = [releases EXCEPT ![s][v] = IF @ = Absent THEN @ ELSE e]
        /\ updates' = [updates EXCEPT ![s][v] =
                         IF e # Empty /\ e # old[Orch] THEN @ + 1 ELSE @]
      BY <1>2 DEF UpdateRelease
  <2>2. CASE x = s /\ y = v
    <3>1. /\ releases'[x][y] = IF releases[s][v] = Absent THEN Absent ELSE e
          /\ updates'[x][y] = IF e # Empty /\ e # old[Orch] THEN updates[s][v] + 1 ELSE updates[s][v]
        BY <1>0, <2>1, <2>2
    <3>2. releases[s][v] # Absent /\ releases'[x][y] \in Text => e # Empty
        BY <3>1
    <3> QED  BY <1>2, <2>2, <3>1, <3>2 DEF s, v
  <2>3. CASE ~(x = s /\ y = v)
      BY <1>0, <2>1, <2>3
  <2> QED  BY <2>2, <2>3
<1> QED  BY <1>1, <1>2 DEF Write, s, v, e

\* What else a step of the system does to stored changelogs is to delete them.
LEMMA OnlyWritesUpdate ==
    ASSUME Request = {}, Typed, [Next]_vars, ~Write(Orch),
           NEW x \in Source, NEW y \in Version
    PROVE  /\ releases'[x][y] \in {releases[x][y], Absent}
           /\ updates' = updates
<1> USE DEF Typed, TypeOK
<1>1. ASSUME NEW s \in Source, DeleteSource(s) PROVE releases'[x][y] \in {releases[x][y], Absent}
    BY <1>1 DEF DeleteSource, Nothing
<1>2. /\ UNCHANGED releases \/ \E s \in Source : DeleteSource(s)
      /\ UNCHANGED updates
    BY DEF Next, Poller, PollStep, Publish, Elapse, Tick, NextSource, Crash, Fetch, PollStatus,
           Select, WriteFails, DeleteSource, vars
<1> QED  BY <1>1, <1>2

\* "Updated releases are re-processed", as long as the orchestrator alone polls:
\* a stored changelog is replaced by another text only together with a job, even
\* if the source is deleted while a poll is under way.
THEOREM SolePollerReprocesses ==
    ASSUME Request = {} PROVE Spec => ChangeReprocessed
<1>1. Init => Typed /\ Current
    BY InitIInv DEF IInv, Init, Current, Poller
<1>2. (Typed /\ Current) /\ [Next]_vars => (Typed /\ Current)'
    BY NextTyped, CurrentKept
<1>3. Typed /\ Current /\ [Next]_vars =>
        [\A s \in Source, v \in Version :
           releases[s][v] # Absent /\ releases'[s][v] \in Text \ {releases[s][v]}
           => updates'[s][v] = updates[s][v] + 1]_vars
  <2> SUFFICES ASSUME Typed, Current, [Next]_vars, NEW s \in Source, NEW v \in Version,
                      releases[s][v] # Absent, releases'[s][v] \in Text \ {releases[s][v]}
               PROVE  updates'[s][v] = updates[s][v] + 1
      OBVIOUS
  <2>1. Write(Orch)
      BY OnlyWritesUpdate, ConstantsAssumption DEF Changelog
  <2>2. releases[at[Orch]][cur[Orch]] \in {old[Orch], Absent}
      BY <2>1 DEF Current, Write
  <2> QED  BY <2>1, <2>2, WriteTellsUpdates
<1> QED  BY <1>1, <1>2, <1>3, PTL DEF Spec, ChangeReprocessed

\* "Only re-notify when changelog content was meaningfully added or changed", as
\* long as the orchestrator alone polls and no source is deleted: a job for an
\* update comes with a changelog that differs from the stored one.
THEOREM SolePollerNoIdleUpdates ==
    ASSUME Request = {}, MaxAdmin = 0 PROVE Spec => UpdateMeansChange
<1>1. Init => Typed /\ Exact
    BY InitIInv, ConstantsAssumption DEF IInv, Init, Exact, Poller
<1>2. (Typed /\ Exact) /\ [Next]_vars => (Typed /\ Exact)'
    BY NextTyped, ExactKept
<1>3. Typed /\ Exact /\ [Next]_vars =>
        [\A s \in Source, v \in Version :
           updates'[s][v] # updates[s][v] => releases'[s][v] # releases[s][v]]_vars
  <2> SUFFICES ASSUME Typed, Exact, [Next]_vars, NEW s \in Source, NEW v \in Version,
                      updates'[s][v] # updates[s][v]
               PROVE  releases'[s][v] # releases[s][v]
      OBVIOUS
  <2>1. Write(Orch)
      BY OnlyWritesUpdate
  <2>2. releases[at[Orch]][cur[Orch]] = old[Orch]
      BY <2>1 DEF Exact, Write
  <2> QED  BY <2>1, <2>2, WriteTellsUpdates
<1> QED  BY <1>1, <1>2, <1>3, PTL DEF Spec, UpdateMeansChange
=============================================================================

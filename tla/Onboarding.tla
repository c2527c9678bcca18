----------------------------- MODULE Onboarding -----------------------------
(* Dependency scans of a repository (internal/onboard, api/onboard.go): a      *)
(* request looks for an active scan and, when there is none, stores one with   *)
(* its job; the worker fetches files, asks the LLM and writes the status       *)
(* column, without looking at it and often without looking at the error.       *)
(* One repository; applying a scan is an action of Catalog.                    *)
EXTENDS Naturals, FiniteSets

CONSTANTS Requests,      \* requests for a scan of the repository
          Extractors,    \* whether an LLM is configured: the values to check
          MaxScans, MaxAttempts, MaxOutages \* bounds: scans; River's attempts; crashes, timeouts, failing writes

ASSUME OnboardingAssumption == Extractors \subseteq BOOLEAN /\ MaxAttempts \in Nat \ {0} /\ MaxScans \in Nat

VARIABLES llm,     \* the extractor exists; fixed at start
          scans,   \* onboard_scans: status and whether results are stored; 1, 2, ... in order of creation
          work,    \* the scan_dependencies job of each: state, attempt, where the worker is
          asking,  \* the requests
          lost,    \* history: scans one of whose status writes was lost
          raced,   \* history: two requests were between their check and their insert at once
          outages

onboardVars == <<llm, scans, work, asking, lost, raced, outages>>
Scans == 1..MaxScans
Stored == {s \in Scans : scans[s].status # "none"}
Active == {s \in Stored : scans[s].status \in {"pending", "processing"}}

OnboardInit == /\ llm \in Extractors
               /\ scans = [s \in Scans |-> [status |-> "none", results |-> FALSE]]
               /\ work = [s \in Scans |-> [state |-> "none", attempt |-> 0, at |-> "none"]]
               /\ asking = [q \in Requests |-> "idle"] /\ lost = {} /\ raced = FALSE /\ outages = 0

\* POST /onboard/scan.  The check: 409 with the active scan, if any
ActiveScanForRepo(q) ==
  /\ asking[q] = "idle"
  /\ asking' = [asking EXCEPT ![q] = IF Active = {} THEN "create" ELSE "conflict"]
  /\ raced' = (raced \/ (Active = {} /\ \E p \in Requests : asking[p] = "create"))
  /\ UNCHANGED <<scans, work, lost, outages>>
\* the row and its job in one transaction
CreateOnboardScan(q) ==
  /\ asking[q] = "create" /\ asking' = [asking EXCEPT ![q] = "idle"]
  /\ \E s \in Scans : /\ Stored = 1..(s - 1)
                      /\ scans' = [scans EXCEPT ![s] = [status |-> "pending", results |-> FALSE]]
                      /\ work' = [work EXCEPT ![s] = [state |-> "queued", attempt |-> 0, at |-> "none"]]
  /\ UNCHANGED <<lost, raced, outages>>
\* the 409 goes out, or the client asks for GET /onboard/scans/{id} later
GetOnboardScan(q) == /\ asking[q] = "conflict" /\ asking' = [asking EXCEPT ![q] = "idle"]
                     /\ UNCHANGED <<scans, work, lost, raced, outages>>

-----------------------------------------------------------------------------
At(s, place) == work[s].state = "running" /\ work[s].at = place
Step(s, place) == work' = [work EXCEPT ![s].at = place]
\* Work returns: nil, an error, or JobCancel
Returns(s, how) ==
  LET after == CASE how = "nil" -> "completed" [] how = "cancel" -> "cancelled"
                 [] OTHER -> IF work[s].attempt < MaxAttempts THEN "queued" ELSE "discarded"
  IN  work' = [work EXCEPT ![s] = [state |-> after, attempt |-> @.attempt, at |-> "none"]]
\* one write of the status column; other columns follow it
UpdateOnboardScanStatus(s, status) == scans' = [scans EXCEPT ![s] = [status |-> status, results |-> status = "completed"]]
Outage == outages < MaxOutages /\ outages' = outages + 1
\* the write succeeds, or it is lost: the database fails, or the context is at its deadline
Write(s, status, whenDone, whenLost) ==
  \/ UpdateOnboardScanStatus(s, status) /\ Returns(s, whenDone) /\ UNCHANGED <<asking, lost, raced, outages>>
  \/ /\ Outage /\ lost' = lost \cup {s} /\ Returns(s, whenLost)
     /\ UNCHANGED <<scans, asking, raced>>

StartWork(s) == /\ work[s].state = "queued"
                /\ work' = [work EXCEPT ![s] = [state |-> "running", attempt |-> @.attempt + 1, at |-> "mark"]]
                /\ UNCHANGED <<scans, asking, lost, raced, outages>>
MarkProcessing(s) ==
  /\ At(s, "mark")
  /\ \/ UpdateOnboardScanStatus(s, "processing") /\ Step(s, "fetch") /\ UNCHANGED <<asking, lost, raced, outages>>
     \/ Outage /\ lost' = lost \cup {s} /\ Returns(s, "error") /\ UNCHANGED <<scans, asking, raced>>
\* branch, tree and files, one request each, any of which may fail
FetchDependencyFiles(s) ==
  /\ At(s, "fetch")
  /\ Step(s, "failed") \/ Step(s, "empty") \/ Step(s, IF llm THEN "extract" ELSE "cancel")
  /\ UNCHANGED <<scans, asking, lost, raced, outages>>
\* the LLM and the parsing of its answer
Extract(s) == /\ At(s, "extract") /\ (Step(s, "failed") \/ Step(s, "results"))
              /\ UNCHANGED <<scans, asking, lost, raced, outages>>
WriteFailed(s) == At(s, "failed") /\ Write(s, "failed", "error", "error")
WriteEmpty(s) == At(s, "empty") /\ Write(s, "completed", "nil", "nil")
\* Mutant: without an extractor the job is cancelled and the scan left as it is.
WriteCancelledNot(s) == /\ At(s, "cancel") /\ Returns(s, "cancel")
                        /\ UNCHANGED <<scans, asking, lost, raced, outages>>
WriteCancelled(s) == At(s, "cancel") /\ Write(s, "failed", "cancel", "cancel")
WriteCompleted(s) == At(s, "results") /\ Write(s, "completed", "nil", "error")
\* the process dies, before the job is marked completed too: the attempt is used up
WorkerDies(s) == /\ Outage /\ work[s].state = "running" /\ Returns(s, "error")
                 /\ lost' = lost \cup {s} /\ UNCHANGED <<scans, asking, raced>>
\* ... after the last write, which the next attempt overwrites
DiesAfterWrite(s) == /\ Outage /\ At(s, "results") /\ UpdateOnboardScanStatus(s, "completed") /\ Returns(s, "error")
                     /\ UNCHANGED <<asking, lost, raced>>

OnboardNext == /\ \/ \E q \in Requests : ActiveScanForRepo(q) \/ CreateOnboardScan(q) \/ GetOnboardScan(q)
                  \/ \E s \in Scans : \/ StartWork(s) \/ MarkProcessing(s) \/ FetchDependencyFiles(s) \/ Extract(s)
                                      \/ WriteFailed(s) \/ WriteEmpty(s) \/ WriteCancelled(s) \/ WriteCompleted(s)
                                      \/ WorkerDies(s) \/ DiesAfterWrite(s)
               /\ UNCHANGED llm
OnboardSpec == OnboardInit /\ [][OnboardNext]_onboardVars

-----------------------------------------------------------------------------
Ended(s) == work[s].state \in {"completed", "cancelled", "discarded"}

\* A scan whose job has ended is decided, so that the repository can be scanned
\* again, unless a status write was lost on the way: completed with results when
\* the job completed, failed when it was cancelled, and nothing undecided when
\* River gave it up.  And two scans of the repository are active at once only when
\* two requests passed the check together, or River tries one again that had
\* failed in between.
ScanDecided ==
  /\ \A s \in Stored : Ended(s) /\ s \notin lost =>
       /\ s \notin Active
       /\ work[s].state = "completed" => scans[s].results
       /\ work[s].state = "cancelled" => scans[s].status = "failed"
  /\ ~raced => \A s, t \in Active : s < t => work[s].attempt > 1
=============================================================================

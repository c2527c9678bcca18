------------------------------- MODULE Todos -------------------------------
(* The TODOs of releases (internal/api/todos.go and the TODO methods of      *)
(* pgstore.go): notify jobs and agent runs create them, users acknowledge,    *)
(* resolve and reopen them, alone or with all older ones of the same source   *)
(* (source releases) or project (semantic releases).  The first statement of  *)
(* such a request is unconditional; the cascade is a statement of its own     *)
(* whose error is dropped.                                                     *)
EXTENDS Naturals, FiniteSets

CONSTANTS Releases, Semantics, \* source releases and semantic releases that may exist
          GroupOf,             \* the source of a release, the project of a semantic release
          Users,               \* requests in flight at the same time
          Times,               \* release times; equal ones happen (a missing date is stored as the zero time)
          MaxSteps             \* bound on requests, faults and deletions

Items == Releases \cup Semantics
ASSUME TodosAssumption == /\ Releases \cap Semantics = {} /\ Times \subseteq Nat /\ MaxSteps \in Nat
                          /\ "nobody" \notin Users

VARIABLES when,   \* release time of the items that are stored
          todos,  \* the rows of release_todos, by item: status and whether the two times are set
          req,    \* per user: what is under way, and whether its group was touched by others since
          steps

todoVars == <<when, todos, req, steps>>

NoReq == [pc |-> "idle", verb |-> "none", item |-> "none", cascade |-> FALSE, touched |-> FALSE]
Fresh == [status |-> "pending", acked |-> FALSE, resolved |-> FALSE]
\* the columns the two kinds of UPDATE set; the other time stays
Acknowledged(t) == [status |-> "acknowledged", acked |-> TRUE, resolved |-> t.resolved]
Resolved(t) == [status |-> "resolved", acked |-> t.acked, resolved |-> TRUE]

TodosInit == /\ when = [i \in {} |-> 0] /\ todos = [i \in {} |-> Fresh]
             /\ req = [u \in Users |-> NoReq] /\ steps = 0

Put(f, i, v) == [j \in DOMAIN f \cup {i} |-> IF j = i THEN v ELSE f[j]]
Drop(f, S) == [j \in DOMAIN f \ S |-> f[j]]
\* requests in flight other than u's notice that something happened to item i
Touch(i, u) == [v \in Users |-> IF v # u /\ req[v].pc # "idle" /\ i \in Items /\ req[v].item \in Items
                                   /\ GroupOf[req[v].item] = GroupOf[i]
                                THEN [req[v] EXCEPT !.touched = TRUE] ELSE req[v]]
Count == steps < MaxSteps /\ steps' = steps + 1

\* a release or semantic release is stored, or its date changes on a later poll
StoreItem(i, t) == /\ (i \in DOMAIN when => when[i] # t /\ i \in Releases)
                   /\ when' = Put(when, i, t) /\ req' = Touch(i, "nobody")
                   /\ Count /\ UNCHANGED todos
\* its TODO: ON CONFLICT keeps the row that exists
CreateReleaseTodo(i) == /\ i \in Releases \cap DOMAIN when /\ i \notin DOMAIN todos
                        /\ todos' = Put(todos, i, Fresh) /\ req' = Touch(i, "nobody")
                        /\ UNCHANGED <<when, steps>>
CreateSemanticReleaseTodo(i) == /\ i \in Semantics \cap DOMAIN when /\ i \notin DOMAIN todos
                                /\ todos' = Put(todos, i, Fresh) /\ req' = Touch(i, "nobody")
                                /\ UNCHANGED <<when, steps>>
\* the item is deleted and its TODO with it
DeleteItem(i) == /\ i \in DOMAIN when /\ Count
                 /\ when' = Drop(when, {i}) /\ todos' = Drop(todos, {i}) /\ req' = Touch(i, "nobody")

\* a TODO that is not there: 404 and nothing else
Start(u, verb, i, cascade, row) ==
  /\ req[u].pc = "idle" /\ i \in DOMAIN todos /\ Count
  /\ todos' = [todos EXCEPT ![i] = row]
  /\ req' = [Touch(i, u) EXCEPT ![u] = [pc |-> IF cascade THEN "cascade" ELSE "done", verb |-> verb, item |-> i,
                                        cascade |-> cascade, touched |-> FALSE]]
  /\ UNCHANGED when
AcknowledgeTodo(u, i, cascade) ==
  Start(u, "acknowledged", i, cascade, Acknowledged(todos[i]))
ResolveTodo(u, i, cascade) ==
  Start(u, "resolved", i, cascade, Resolved(todos[i]))
ReopenTodo(u, i) == Start(u, "pending", i, FALSE, Fresh)

\* Mutant: released_at < instead of <=.
OlderStrictly(i) == {j \in DOMAIN when \ {i} : /\ i \in DOMAIN when
                                               /\ (j \in Releases) = (i \in Releases)
                                               /\ GroupOf[j] = GroupOf[i] /\ when[j] < when[i]}
\* the others of the same kind and group that are not newer
Older(i) == {j \in DOMAIN when \ {i} : /\ i \in DOMAIN when
                                       /\ (j \in Releases) = (i \in Releases)
                                       /\ GroupOf[j] = GroupOf[i] /\ when[j] <= when[i]}
Sweep(u, from, row(_)) ==
  LET hit == {j \in Older(req[u].item) \cap DOMAIN todos : req[u].item \in DOMAIN todos /\ todos[j].status \in from}
      others == {v \in Users \ {u} : req[v].pc # "idle" /\ \E j \in hit : GroupOf[j] = GroupOf[req[v].item]}
  IN  /\ todos' = [j \in DOMAIN todos |-> IF j \in hit THEN row(todos[j]) ELSE todos[j]]
      /\ req' = [v \in Users |-> IF v = u THEN [req[v] EXCEPT !.pc = "done"]
                                 ELSE IF v \in others THEN [req[v] EXCEPT !.touched = TRUE] ELSE req[v]]
      /\ UNCHANGED <<when, steps>>
\* Mutant: the cascade has no condition on the status.
AcknowledgeCascadeAll(u) ==
  req[u].pc = "cascade" /\ req[u].verb = "acknowledged" /\ Sweep(u, {"pending", "acknowledged", "resolved"}, Acknowledged)
AcknowledgeCascade(u) ==
  req[u].pc = "cascade" /\ req[u].verb = "acknowledged" /\ Sweep(u, {"pending"}, Acknowledged)
ResolveCascade(u) ==
  req[u].pc = "cascade" /\ req[u].verb = "resolved" /\ Sweep(u, {"pending", "acknowledged"}, Resolved)
\* the cascade fails; the error is dropped and the answer is 200 all the same
CascadeFails(u) == /\ req[u].pc = "cascade" /\ Count
                   /\ req' = [req EXCEPT ![u] = [@ EXCEPT !.pc = "done", !.touched = TRUE]]
                   /\ UNCHANGED <<when, todos>>
\* the answer goes out
Reply(u) == req[u].pc = "done" /\ req' = [req EXCEPT ![u] = NoReq] /\ UNCHANGED <<when, todos, steps>>

TodosNext == \/ \E i \in Items : \/ \E t \in Times : StoreItem(i, t)
                                 \/ CreateReleaseTodo(i) \/ CreateSemanticReleaseTodo(i) \/ DeleteItem(i)
             \/ \E u \in Users : \/ \E i \in Items : \/ \E c \in BOOLEAN : AcknowledgeTodo(u, i, c) \/ ResolveTodo(u, i, c)
                                                     \/ ReopenTodo(u, i)
                                 \/ AcknowledgeCascade(u) \/ ResolveCascade(u) \/ CascadeFails(u) \/ Reply(u)
TodosSpec == TodosInit /\ [][TodosNext]_todoVars

-----------------------------------------------------------------------------
\* the list a user works from: TODOs of source releases with a status, and, when
\* aggregated, only the latest of each source
ListTodos(status) == {i \in DOMAIN todos \cap Releases : todos[i].status = status}
Latest(S) == {i \in S : \A j \in S : GroupOf[j] = GroupOf[i] => when[j] <= when[i]}

\* When a user acknowledges or resolves a TODO with cascade and nothing else
\* happens to its source, the aggregated list of pending TODOs offers no older
\* one of that source afterwards: the two definitions of "older", of the list and
\* of the cascade, agree, and no status is left out.
NothingOlderPopsUp ==
  \A u \in Users : req[u].pc = "done" /\ req[u].cascade /\ ~req[u].touched =>
    \A j \in Latest(ListTodos("pending")) \cup (IF req[u].verb = "resolved" THEN Latest(ListTodos("acknowledged")) ELSE {}) :
      GroupOf[j] = GroupOf[req[u].item] /\ req[u].item \in Releases => when[j] > when[req[u].item]

\* user u's step is what changes item i
AskedFor(i, u) ==
  /\ req'[u] # req[u]
  /\ \/ req[u].pc = "idle" /\ req'[u].item = i
     \/ /\ req[u].pc = "cascade" /\ req'[u].pc = "done"
        /\ GroupOf[i] = GroupOf[req[u].item] /\ when[i] <= when[req[u].item]
        /\ (i \in Releases) = (req[u].item \in Releases)
        /\ todos[i].status # "resolved" /\ todos'[i].status # "pending"
\* A status changes only by a request for that TODO or by a cascade from one of
\* the same kind and group that is at least as new, and a cascade neither wakes a
\* TODO up nor takes back that it was resolved.
OnlyAskedFor ==
  [][\A i \in DOMAIN todos \cap DOMAIN todos' : todos'[i] # todos[i] => \E u \in Users : AskedFor(i, u)]_todoVars
=============================================================================

---------------------------- MODULE TodosProofs ----------------------------
(***************************************************************************)
(* Proofs about Todos, for any releases, groups, users and times.          *)
(***************************************************************************)
EXTENDS Todos, TLAPS

Row == [status : {"pending", "acknowledged", "resolved"}, acked : BOOLEAN, resolved : BOOLEAN]
Request == [pc : {"idle", "cascade", "done"}, verb : {"none", "acknowledged", "resolved", "pending"},
            item : Items \cup {"none"}, cascade : BOOLEAN, touched : BOOLEAN]

TodosTypeOK ==
    /\ DOMAIN when \subseteq Items
    /\ when \in [DOMAIN when -> Nat]
    /\ DOMAIN todos \subseteq DOMAIN when
    /\ todos \in [DOMAIN todos -> Row]
    /\ req \in [Users -> Request]

\* A request that cascades is to acknowledge or to resolve a TODO, and as long as
\* nobody else touches the group, that TODO is there with the status it was given.
OwnStatus ==
    \A u \in Users : req[u].pc # "idle" =>
        /\ req[u].item \in Items
        /\ req[u].cascade => req[u].verb \in {"acknowledged", "resolved"}
        /\ req[u].pc = "cascade" => req[u].cascade
        /\ ~req[u].touched => /\ req[u].item \in DOMAIN todos
                              /\ todos[req[u].item].status = req[u].verb

\* What a cascade looks for.
Sought(verb) == IF verb = "resolved" THEN {"pending", "acknowledged"} ELSE {"pending"}
Peer(i, j) == (j \in Releases) = (i \in Releases) /\ GroupOf[j] = GroupOf[i]

\* After it, none of the older TODOs is as it looked for.
Swept ==
    \A u \in Users : req[u].pc = "done" /\ req[u].cascade /\ ~req[u].touched =>
        \A j \in DOMAIN todos \ {req[u].item} :
            Peer(req[u].item, j) /\ when[j] <= when[req[u].item] => todos[j].status \notin Sought(req[u].verb)

IInv == TodosTypeOK /\ OwnStatus /\ Swept

USE TodosAssumption DEF Items
-----------------------------------------------------------------------------
LEMMA InitIInv == TodosInit => IInv
BY DEF TodosInit, IInv, TodosTypeOK, OwnStatus, Swept, NoReq, Row, Request

\* Touching the group of an item leaves the requests as they were but for the mark,
\* which it sets on every other request of the group that is under way.
LEMMA TouchIs ==
    ASSUME TodosTypeOK, NEW i \in Items, NEW u
    PROVE  /\ Touch(i, u) \in [Users -> Request]
           /\ \A v \in Users :
                /\ Touch(i, u)[v].pc = req[v].pc /\ Touch(i, u)[v].verb = req[v].verb
                /\ Touch(i, u)[v].item = req[v].item /\ Touch(i, u)[v].cascade = req[v].cascade
                /\ ~Touch(i, u)[v].touched =>
                     /\ ~req[v].touched
                     /\ v = u \/ req[v].pc = "idle" \/ req[v].item \notin Items \/ GroupOf[req[v].item] # GroupOf[i]
<1>1. ASSUME NEW r \in Request
      PROVE  /\ [r EXCEPT !.touched = TRUE] \in Request
             /\ [r EXCEPT !.touched = TRUE].pc = r.pc /\ [r EXCEPT !.touched = TRUE].verb = r.verb
             /\ [r EXCEPT !.touched = TRUE].item = r.item /\ [r EXCEPT !.touched = TRUE].cascade = r.cascade
             /\ [r EXCEPT !.touched = TRUE].touched
    BY DEF Request
<1>2. ASSUME NEW v \in Users
      PROVE  req[v] \in Request
    BY DEF TodosTypeOK
<1> QED  BY <1>1, <1>2 DEF Touch

-----------------------------------------------------------------------------
\* Something happens to item i that no request does: whoever is at work in its group
\* notices, and the rest of the tables stays.
LEMMA OutsideKeeps ==
    ASSUME IInv, NEW i \in Items, req' = Touch(i, "nobody"),
           TodosTypeOK',
           \A j \in Items \ {i} : /\ j \in DOMAIN when' <=> j \in DOMAIN when
                                  /\ j \in DOMAIN todos' <=> j \in DOMAIN todos
                                  /\ j \in DOMAIN when => when'[j] = when[j]
                                  /\ j \in DOMAIN todos => todos'[j] = todos[j]
    PROVE  IInv'
<1>1. \A v \in Users :
        /\ req'[v].pc = req[v].pc /\ req'[v].verb = req[v].verb
        /\ req'[v].item = req[v].item /\ req'[v].cascade = req[v].cascade
        /\ ~req'[v].touched /\ req[v].pc # "idle" =>
             /\ ~req[v].touched
             /\ req[v].item \in Items => GroupOf[req[v].item] # GroupOf[i]
    BY TouchIs DEF IInv
<1>2. OwnStatus'
    <2> SUFFICES ASSUME NEW u \in Users, req'[u].pc # "idle"
                 PROVE  /\ req'[u].item \in Items
                        /\ req'[u].cascade => req'[u].verb \in {"acknowledged", "resolved"}
                        /\ req'[u].pc = "cascade" => req'[u].cascade
                        /\ ~req'[u].touched => /\ req'[u].item \in DOMAIN todos'
                                               /\ todos'[req'[u].item].status = req'[u].verb
        BY DEF OwnStatus
    <2>1. /\ req'[u].item \in Items
          /\ req'[u].cascade => req'[u].verb \in {"acknowledged", "resolved"}
          /\ req'[u].pc = "cascade" => req'[u].cascade
        BY <1>1 DEF IInv, OwnStatus
    <2>2. ASSUME ~req'[u].touched
          PROVE  req'[u].item \in DOMAIN todos' /\ todos'[req'[u].item].status = req'[u].verb
        <3>1. req[u].item \in Items \ {i}
            BY <1>1, <2>1, <2>2
        <3>2. req[u].item \in DOMAIN todos /\ todos[req[u].item].status = req[u].verb
            BY <1>1, <2>2 DEF IInv, OwnStatus
        <3> QED  BY <1>1, <3>1, <3>2
    <2> QED  BY <2>1, <2>2
<1>3. Swept'
    <2> SUFFICES ASSUME NEW u \in Users, req'[u].pc = "done", req'[u].cascade, ~req'[u].touched,
                        NEW j \in DOMAIN todos' \ {req'[u].item},
                        Peer(req'[u].item, j), when'[j] <= when'[req'[u].item]
                 PROVE  todos'[j].status \notin Sought(req'[u].verb)
        BY DEF Swept, Peer
    <2>1. req[u].item \in DOMAIN todos /\ req[u].item \in Items
        BY <1>1 DEF IInv, OwnStatus
    <2>2. j \in Items
        BY DEF TodosTypeOK
    <2>3. j # i /\ req[u].item # i
        BY <1>1, <2>1 DEF Peer
    <2>4. j \in DOMAIN todos /\ j # req[u].item /\ Peer(req[u].item, j) /\ when[j] <= when[req[u].item]
        BY <1>1, <2>1, <2>2, <2>3 DEF IInv, TodosTypeOK
    <2>5. todos[j].status \notin Sought(req[u].verb)
        BY <1>1, <2>4 DEF IInv, Swept
    <2> QED  BY <1>1, <2>2, <2>3, <2>4, <2>5
<1> QED  BY <1>2, <1>3 DEF IInv

LEMMA OutsideSteps ==
    ASSUME IInv, NEW i \in Items,
           \/ \E t \in Times : StoreItem(i, t)
           \/ CreateReleaseTodo(i) \/ CreateSemanticReleaseTodo(i) \/ DeleteItem(i)
    PROVE  IInv'
<1>1. Fresh \in Row
    BY DEF Fresh, Row
<1>2. req' = Touch(i, "nobody") /\ req' \in [Users -> Request]
    BY TouchIs DEF IInv, StoreItem, CreateReleaseTodo, CreateSemanticReleaseTodo, DeleteItem
<1>3. CASE \E t \in Times : StoreItem(i, t)
    <2> PICK t \in Times : StoreItem(i, t)
        BY <1>3
    <2>1. when' = Put(when, i, t) /\ todos' = todos
        BY DEF StoreItem
    <2>2. TodosTypeOK'
        BY <1>2, <2>1 DEF IInv, TodosTypeOK, Put
    <2> QED  BY <1>2, <2>1, <2>2, OutsideKeeps DEF Put
<1>4. CASE CreateReleaseTodo(i) \/ CreateSemanticReleaseTodo(i)
    <2>1. when' = when /\ todos' = Put(todos, i, Fresh) /\ i \in DOMAIN when
        BY <1>4 DEF CreateReleaseTodo, CreateSemanticReleaseTodo
    <2>2. TodosTypeOK'
        BY <1>1, <1>2, <2>1 DEF IInv, TodosTypeOK, Put
    <2> QED  BY <1>2, <2>1, <2>2, OutsideKeeps DEF Put
<1>5. CASE DeleteItem(i)
    <2>1. when' = Drop(when, {i}) /\ todos' = Drop(todos, {i})
        BY <1>5 DEF DeleteItem
    <2>2. TodosTypeOK'
        BY <1>2, <2>1 DEF IInv, TodosTypeOK, Drop
    <2> QED  BY <1>2, <2>1, <2>2, OutsideKeeps DEF Drop
<1> QED  BY <1>3, <1>4, <1>5

-----------------------------------------------------------------------------
\* A request writes its TODO; the others of the group that are at work notice.
LEMMA StartKeeps ==
    ASSUME IInv, NEW u \in Users, NEW i \in Items, NEW verb \in {"acknowledged", "resolved", "pending"},
           NEW cascade \in BOOLEAN, cascade => verb \in {"acknowledged", "resolved"},
           NEW row \in Row, row.status = verb, Start(u, verb, i, cascade, row)
    PROVE  IInv'
<1> DEFINE mine == [pc |-> IF cascade THEN "cascade" ELSE "done", verb |-> verb, item |-> i,
                    cascade |-> cascade, touched |-> FALSE]
<1>1. mine \in Request
    BY DEF Request
<1>2. /\ req[u].pc = "idle" /\ i \in DOMAIN todos /\ when' = when
      /\ todos' = [todos EXCEPT ![i] = row]
      /\ req' = [Touch(i, u) EXCEPT ![u] = mine]
    BY DEF Start
<1>3. TodosTypeOK'
    BY <1>1, <1>2, TouchIs DEF IInv, TodosTypeOK
<1>4. req'[u] = mine
    BY <1>2, TouchIs DEF IInv
<1>5. \A v \in Users \ {u} :
        /\ req'[v].pc = req[v].pc /\ req'[v].verb = req[v].verb
        /\ req'[v].item = req[v].item /\ req'[v].cascade = req[v].cascade
        /\ ~req'[v].touched /\ req[v].pc # "idle" =>
             /\ ~req[v].touched
             /\ req[v].item \in Items => GroupOf[req[v].item] # GroupOf[i]
    BY <1>2, TouchIs DEF IInv
<1>6. /\ DOMAIN todos' = DOMAIN todos /\ todos'[i].status = verb
      /\ \A j \in DOMAIN todos \ {i} : todos'[j] = todos[j]
    BY <1>2 DEF IInv, TodosTypeOK
<1>7. OwnStatus'
    <2>1. ASSUME NEW v \in Users \ {u}, req'[v].pc # "idle"
          PROVE  /\ req'[v].item \in Items
                 /\ req'[v].cascade => req'[v].verb \in {"acknowledged", "resolved"}
                 /\ req'[v].pc = "cascade" => req'[v].cascade
        BY <1>5, <2>1 DEF IInv, OwnStatus
    <2>2. ASSUME NEW v \in Users \ {u}, req'[v].pc # "idle", ~req'[v].touched
          PROVE  req'[v].item \in DOMAIN todos' /\ todos'[req'[v].item].status = req'[v].verb
        <3>1. req[v].item # i
            BY <1>5, <2>2
        <3>2. req[v].item \in DOMAIN todos /\ todos[req[v].item].status = req[v].verb
            BY <1>5, <2>2 DEF IInv, OwnStatus
        <3> QED  BY <1>5, <1>6, <3>1, <3>2
    <2>3. /\ req'[u].item \in Items
          /\ req'[u].cascade => req'[u].verb \in {"acknowledged", "resolved"}
          /\ req'[u].pc = "cascade" => req'[u].cascade
          /\ req'[u].item \in DOMAIN todos' /\ todos'[req'[u].item].status = req'[u].verb
        BY <1>2, <1>4, <1>6
    <2> QED  BY <2>1, <2>2, <2>3 DEF OwnStatus
<1>8. Swept'
    <2> SUFFICES ASSUME NEW v \in Users, req'[v].pc = "done", req'[v].cascade, ~req'[v].touched,
                        NEW j \in DOMAIN todos' \ {req'[v].item},
                        Peer(req'[v].item, j), when'[j] <= when'[req'[v].item]
                 PROVE  todos'[j].status \notin Sought(req'[v].verb)
        BY DEF Swept, Peer
    <2>1. v # u
        BY <1>4
    <2>2. j # i
        BY <1>5, <2>1 DEF IInv, OwnStatus, Peer
    <2>3. todos[j].status \notin Sought(req[v].verb)
        BY <1>2, <1>5, <1>6, <2>1 DEF IInv, Swept
    <2> QED  BY <1>5, <1>6, <2>1, <2>2, <2>3
<1> QED  BY <1>3, <1>7, <1>8 DEF IInv

LEMMA StartSteps ==
    ASSUME IInv, NEW u \in Users, NEW i \in Items, NEW cascade \in BOOLEAN,
           AcknowledgeTodo(u, i, cascade) \/ ResolveTodo(u, i, cascade) \/ ReopenTodo(u, i)
    PROVE  IInv'
<1>1. i \in DOMAIN todos
    BY DEF AcknowledgeTodo, ResolveTodo, ReopenTodo, Start
<1>2. /\ Acknowledged(todos[i]) \in Row /\ Acknowledged(todos[i]).status = "acknowledged"
      /\ Resolved(todos[i]) \in Row /\ Resolved(todos[i]).status = "resolved"
      /\ Fresh \in Row /\ Fresh.status = "pending"
    BY <1>1 DEF IInv, TodosTypeOK, Row, Acknowledged, Resolved, Fresh
<1>3. CASE AcknowledgeTodo(u, i, cascade)
    BY <1>2, <1>3, StartKeeps DEF AcknowledgeTodo
<1>4. CASE ResolveTodo(u, i, cascade)
    BY <1>2, <1>4, StartKeeps DEF ResolveTodo
<1>5. CASE ReopenTodo(u, i)
    BY <1>2, <1>5, StartKeeps DEF ReopenTodo
<1> QED  BY <1>3, <1>4, <1>5

-----------------------------------------------------------------------------
\* What a cascade of user u does to the rows in hit: they are the peers that are not
\* newer and are as it looks for, all of them if its own TODO is still there.
Sweeps(u, hit) ==
    /\ hit \subseteq DOMAIN todos \ {req[u].item}
    /\ \A j \in hit : /\ Peer(req[u].item, j) /\ when[j] <= when[req[u].item]
                      /\ todos[j].status \in Sought(req[u].verb)
                      /\ todos'[j].status = req[u].verb
    /\ req[u].item \in DOMAIN todos =>
         \A j \in DOMAIN todos \ {req[u].item} :
           /\ Peer(req[u].item, j) /\ when[j] <= when[req[u].item]
           /\ todos[j].status \in Sought(req[u].verb)
           => j \in hit
    /\ DOMAIN todos' = DOMAIN todos /\ todos' \in [DOMAIN todos -> Row]
    /\ \A j \in DOMAIN todos \ hit : todos'[j] = todos[j]
    /\ when' = when

\* It ends with its answer due; requests of a group it hit notice.
Notices(u, hit) ==
    /\ req' \in [Users -> Request]
    /\ \A v \in Users :
         /\ req'[v].verb = req[v].verb /\ req'[v].item = req[v].item /\ req'[v].cascade = req[v].cascade
         /\ req'[v].pc = IF v = u THEN "done" ELSE req[v].pc
         /\ ~req'[v].touched => ~req[v].touched
         /\ ~req'[v].touched /\ v # u /\ req[v].pc # "idle" =>
              \A j \in hit : GroupOf[j] # GroupOf[req[v].item]

LEMMA CascadeSweeps ==
    ASSUME IInv, NEW u \in Users, AcknowledgeCascade(u) \/ ResolveCascade(u)
    PROVE  /\ req[u].pc = "cascade" /\ req[u].verb \in {"acknowledged", "resolved"}
           /\ \E hit : Sweeps(u, hit) /\ Notices(u, hit)
<1> DEFINE hit == {j \in Older(req[u].item) \cap DOMAIN todos :
                     req[u].item \in DOMAIN todos /\ todos[j].status \in Sought(req[u].verb)}
           others == {v \in Users \ {u} : req[v].pc # "idle" /\ \E j \in hit : GroupOf[j] = GroupOf[req[v].item]}
           After(t) == IF req[u].verb = "acknowledged" THEN Acknowledged(t) ELSE Resolved(t)
<1>1. req[u].pc = "cascade" /\ req[u].verb \in {"acknowledged", "resolved"}
    BY DEF AcknowledgeCascade, ResolveCascade
<1>2. /\ todos' = [j \in DOMAIN todos |-> IF j \in hit THEN After(todos[j]) ELSE todos[j]]
      /\ req' = [v \in Users |-> IF v = u THEN [req[v] EXCEPT !.pc = "done"]
                                 ELSE IF v \in others THEN [req[v] EXCEPT !.touched = TRUE] ELSE req[v]]
      /\ when' = when
    BY DEF AcknowledgeCascade, ResolveCascade, Sweep, Sought
<1>3. \A t \in Row : After(t) \in Row /\ After(t).status = req[u].verb
    BY <1>1 DEF Row, Acknowledged, Resolved
<1> HIDE DEF After
<1>4. Sweeps(u, hit)
    BY <1>1, <1>2, <1>3 DEF IInv, TodosTypeOK, Sweeps, Older, Peer
<1>5. ASSUME NEW r \in Request
      PROVE  /\ [r EXCEPT !.touched = TRUE] \in Request /\ [r EXCEPT !.pc = "done"] \in Request
             /\ [r EXCEPT !.touched = TRUE].pc = r.pc /\ [r EXCEPT !.touched = TRUE].verb = r.verb
             /\ [r EXCEPT !.touched = TRUE].item = r.item /\ [r EXCEPT !.touched = TRUE].cascade = r.cascade
             /\ [r EXCEPT !.touched = TRUE].touched
             /\ [r EXCEPT !.pc = "done"].pc = "done" /\ [r EXCEPT !.pc = "done"].verb = r.verb
             /\ [r EXCEPT !.pc = "done"].item = r.item /\ [r EXCEPT !.pc = "done"].cascade = r.cascade
             /\ [r EXCEPT !.pc = "done"].touched = r.touched
    BY DEF Request
<1>6. \A v \in Users : req[v] \in Request
    BY DEF IInv, TodosTypeOK
<1> HIDE DEF hit
<1>7. Notices(u, hit)
    BY <1>2, <1>5, <1>6 DEF Notices
<1> QED  BY <1>1, <1>4, <1>7

LEMMA CascadeKeeps ==
    ASSUME IInv, NEW u \in Users, AcknowledgeCascade(u) \/ ResolveCascade(u)
    PROVE  IInv'
<1>1. req[u].pc = "cascade" /\ req[u].verb \in {"acknowledged", "resolved"}
    BY CascadeSweeps
<1> PICK hit : Sweeps(u, hit) /\ Notices(u, hit)
    BY CascadeSweeps
<1>2. TodosTypeOK'
    BY DEF IInv, TodosTypeOK, Sweeps, Notices
<1>3. \A v \in Users : req[v].pc # "idle" => req[v].item \in Items
    BY DEF IInv, OwnStatus
<1>4. ASSUME NEW v \in Users, v # u, req[v].pc # "idle", ~req'[v].touched,
             NEW j \in DOMAIN todos, GroupOf[j] = GroupOf[req[v].item]
      PROVE  todos'[j] = todos[j]
    BY <1>4 DEF Sweeps, Notices
<1>5. OwnStatus'
    <2> SUFFICES ASSUME NEW v \in Users, req'[v].pc # "idle"
                 PROVE  /\ req'[v].item \in Items
                        /\ req'[v].cascade => req'[v].verb \in {"acknowledged", "resolved"}
                        /\ req'[v].pc = "cascade" => req'[v].cascade
                        /\ ~req'[v].touched => /\ req'[v].item \in DOMAIN todos'
                                               /\ todos'[req'[v].item].status = req'[v].verb
        BY DEF OwnStatus
    <2>1. req[v].pc # "idle" /\ (req'[v].pc = "cascade" => req[v].pc = "cascade")
        BY <1>1 DEF Notices
    <2>2. /\ req'[v].item \in Items
          /\ req'[v].cascade => req'[v].verb \in {"acknowledged", "resolved"}
          /\ req'[v].pc = "cascade" => req'[v].cascade
        BY <2>1 DEF IInv, OwnStatus, Notices
    <2>3. ASSUME ~req'[v].touched
          PROVE  req'[v].item \in DOMAIN todos' /\ todos'[req'[v].item].status = req'[v].verb
        <3>1. req[v].item \in DOMAIN todos /\ todos[req[v].item].status = req[v].verb
            BY <2>1, <2>3 DEF IInv, OwnStatus, Notices
        <3>2. todos'[req[v].item] = todos[req[v].item]
            BY <1>4, <2>1, <2>3, <3>1 DEF Sweeps
        <3> QED  BY <3>1, <3>2 DEF Sweeps, Notices
    <2> QED  BY <2>2, <2>3
<1>6. Swept'
    <2> SUFFICES ASSUME NEW v \in Users, req'[v].pc = "done", req'[v].cascade, ~req'[v].touched,
                        NEW j \in DOMAIN todos' \ {req'[v].item},
                        Peer(req'[v].item, j), when'[j] <= when'[req'[v].item]
                 PROVE  todos'[j].status \notin Sought(req'[v].verb)
        BY DEF Swept, Peer
    <2>1. /\ j \in DOMAIN todos \ {req[v].item} /\ Peer(req[v].item, j) /\ when[j] <= when[req[v].item]
          /\ req'[v].verb = req[v].verb /\ ~req[v].touched /\ req[v].cascade
        BY DEF Sweeps, Notices
    <2>2. CASE v = u
        <3>1. req[u].item \in DOMAIN todos
            BY <1>1, <2>1, <2>2 DEF IInv, OwnStatus
        <3>2. CASE j \in hit
            BY <1>1, <2>1, <2>2, <3>2 DEF Sweeps, Sought
        <3>3. CASE j \notin hit
            BY <2>1, <2>2, <3>1, <3>3 DEF Sweeps
        <3> QED  BY <3>2, <3>3
    <2>3. CASE v # u
        <3>1. req[v].pc = "done"
            BY <2>3 DEF Notices
        <3>2. todos'[j] = todos[j]
            BY <1>4, <2>1, <2>3, <3>1 DEF Peer
        <3>3. todos[j].status \notin Sought(req[v].verb)
            BY <2>1, <3>1 DEF IInv, Swept
        <3> QED  BY <2>1, <3>2, <3>3
    <2> QED  BY <2>2, <2>3
<1> QED  BY <1>2, <1>5, <1>6 DEF IInv

\* A request that ends, with its cascade undone or its answer sent.
LEMMA EndKeeps ==
    ASSUME IInv, NEW u \in Users, CascadeFails(u) \/ Reply(u)
    PROVE  IInv'
<1>1. ASSUME NEW r \in Request
      PROVE  /\ [r EXCEPT !.pc = "done", !.touched = TRUE] \in Request
             /\ [r EXCEPT !.pc = "done", !.touched = TRUE].verb = r.verb
             /\ [r EXCEPT !.pc = "done", !.touched = TRUE].item = r.item
             /\ [r EXCEPT !.pc = "done", !.touched = TRUE].cascade = r.cascade
             /\ [r EXCEPT !.pc = "done", !.touched = TRUE].touched
             /\ [r EXCEPT !.pc = "done", !.touched = TRUE].pc = "done"
    BY DEF Request
<1> DEFINE failed == [req[u] EXCEPT !.pc = "done", !.touched = TRUE]
<1>2. /\ failed \in Request /\ failed.touched /\ failed.pc = "done" /\ failed.verb = req[u].verb
      /\ failed.item = req[u].item /\ failed.cascade = req[u].cascade
    BY <1>1 DEF IInv, TodosTypeOK
<1>3. NoReq \in Request /\ NoReq.pc = "idle"
    BY DEF NoReq, Request
<1>4. /\ when' = when /\ todos' = todos
      /\ req[u].pc # "idle"
      /\ req' = [req EXCEPT ![u] = failed] \/ req' = [req EXCEPT ![u] = NoReq]
    BY DEF CascadeFails, Reply
<1> HIDE DEF failed
<1>5. TodosTypeOK'
    BY <1>2, <1>3, <1>4 DEF IInv, TodosTypeOK
<1>6. \A v \in Users : req'[v] = req[v] \/ req'[v].pc = "idle" \/ (v = u /\ req'[v] = failed)
    BY <1>3, <1>4 DEF IInv, TodosTypeOK
<1>7. OwnStatus'
    BY <1>2, <1>4, <1>6 DEF IInv, OwnStatus
<1>8. Swept'
    BY <1>2, <1>4, <1>6 DEF IInv, Swept, Peer
<1> QED  BY <1>5, <1>7, <1>8 DEF IInv

-----------------------------------------------------------------------------
LEMMA NextIInv == IInv /\ [TodosNext]_todoVars => IInv'
<1> SUFFICES ASSUME IInv, [TodosNext]_todoVars PROVE IInv'
    OBVIOUS
<1>1. CASE UNCHANGED todoVars
    BY <1>1 DEF IInv, todoVars, TodosTypeOK, OwnStatus, Swept, Peer
<1>2. ASSUME NEW i \in Items,
             \/ \E t \in Times : StoreItem(i, t)
             \/ CreateReleaseTodo(i) \/ CreateSemanticReleaseTodo(i) \/ DeleteItem(i)
      PROVE  IInv'
    BY <1>2, OutsideSteps
<1>3. ASSUME NEW u \in Users, NEW i \in Items,
             \/ \E c \in BOOLEAN : AcknowledgeTodo(u, i, c) \/ ResolveTodo(u, i, c)
             \/ ReopenTodo(u, i)
      PROVE  IInv'
    BY <1>3, StartSteps
<1>4. ASSUME NEW u \in Users, AcknowledgeCascade(u) \/ ResolveCascade(u)
      PROVE  IInv'
    BY <1>4, CascadeKeeps
<1>5. ASSUME NEW u \in Users, CascadeFails(u) \/ Reply(u)
      PROVE  IInv'
    BY <1>5, EndKeeps
<1> QED  BY <1>1, <1>2, <1>3, <1>4, <1>5 DEF TodosNext

\* Rows, requests and release times are what they are declared to be, and no TODO
\* is left without its release.
THEOREM TodosTypeCorrect == TodosSpec => []TodosTypeOK
<1>1. IInv => TodosTypeOK  BY DEF IInv
<1> QED  BY <1>1, InitIInv, NextIInv, PTL DEF TodosSpec

\* The aggregated list offers nothing that an undisturbed cascade was asked to take
\* away, for any releases, groups, users, times and number of requests.
THEOREM NoOlderTodoReappears == TodosSpec => []NothingOlderPopsUp
<1>1. IInv => NothingOlderPopsUp
    <2> SUFFICES ASSUME IInv, NEW u \in Users, req[u].pc = "done", req[u].cascade, ~req[u].touched,
                        NEW j \in Latest(ListTodos("pending"))
                                  \cup (IF req[u].verb = "resolved" THEN Latest(ListTodos("acknowledged")) ELSE {}),
                        GroupOf[j] = GroupOf[req[u].item], req[u].item \in Releases
                 PROVE  when[j] > when[req[u].item]
        BY DEF NothingOlderPopsUp
    <2>1. j \in DOMAIN todos /\ j \in Releases /\ todos[j].status \in Sought(req[u].verb)
        BY DEF Latest, ListTodos, Sought
    <2>2. /\ req[u].item \in DOMAIN todos /\ todos[req[u].item].status = req[u].verb
          /\ req[u].verb \in {"acknowledged", "resolved"}
        BY DEF IInv, OwnStatus
    <2>3. j # req[u].item
        BY <2>1, <2>2 DEF Sought
    <2>4. ~(when[j] <= when[req[u].item])
        BY <2>1, <2>3 DEF IInv, Swept, Peer
    <2>5. when[j] \in Nat /\ when[req[u].item] \in Nat
        BY <2>1, <2>2 DEF IInv, TodosTypeOK
    <2> QED  BY <2>4, <2>5
<1> QED  BY <1>1, InitIInv, NextIInv, PTL DEF TodosSpec

\* A status changes only for a TODO somebody asked about, or an older peer of it, and
\* no cascade wakes a TODO up or takes back that it was resolved.
THEOREM StatusOnlyAskedFor == TodosSpec => OnlyAskedFor
<1> DEFINE Only == \A i \in DOMAIN todos \cap DOMAIN todos' : todos'[i] # todos[i] => \E u \in Users : AskedFor(i, u)
<1>1. IInv /\ [TodosNext]_todoVars => [Only]_todoVars
    <2> SUFFICES ASSUME IInv, TodosNext, NEW k \in DOMAIN todos, k \in DOMAIN todos', todos'[k] # todos[k]
                 PROVE  \E u \in Users : AskedFor(k, u)
        OBVIOUS
    <2>1. ASSUME NEW i \in Items,
                 \/ \E t \in Times : StoreItem(i, t)
                 \/ CreateReleaseTodo(i) \/ CreateSemanticReleaseTodo(i) \/ DeleteItem(i)
          PROVE  FALSE
        BY <2>1 DEF StoreItem, CreateReleaseTodo, CreateSemanticReleaseTodo, DeleteItem, Put, Drop
    <2>2. ASSUME NEW u \in Users, NEW i \in Items, NEW verb, NEW c, NEW row, Start(u, verb, i, c, row)
          PROVE  AskedFor(k, u)
        <3>1. req[u].pc = "idle" /\ todos' = [todos EXCEPT ![i] = row] /\ i \in DOMAIN todos
            BY <2>2 DEF Start
        <3>2. k = i
            BY <3>1 DEF IInv, TodosTypeOK
        <3>3. req'[u] = [pc |-> IF c THEN "cascade" ELSE "done", verb |-> verb, item |-> i, cascade |-> c, touched |-> FALSE]
            BY <2>2, TouchIs DEF IInv, Start
        <3>4. req'[u].pc # "idle" /\ req'[u].item = i
            BY <3>3
        <3> QED  BY <3>1, <3>2, <3>4 DEF AskedFor
    <2>3. ASSUME NEW u \in Users, AcknowledgeCascade(u) \/ ResolveCascade(u)
          PROVE  AskedFor(k, u)
        <3> PICK hit : Sweeps(u, hit) /\ Notices(u, hit)
            BY <2>3, CascadeSweeps
        <3>1. req[u].pc = "cascade" /\ req[u].verb \in {"acknowledged", "resolved"} /\ req'[u].pc = "done"
            BY <2>3, CascadeSweeps DEF Notices
        <3>2. k \in hit
            BY DEF Sweeps
        <3>3. /\ Peer(req[u].item, k) /\ when[k] <= when[req[u].item]
              /\ todos[k].status # "resolved" /\ todos'[k].status # "pending"
            BY <3>1, <3>2 DEF Sweeps, Sought
        <3> QED  BY <3>1, <3>3 DEF AskedFor, Peer
    <2>4. ASSUME NEW u \in Users, CascadeFails(u) \/ Reply(u)
          PROVE  FALSE
        BY <2>4 DEF CascadeFails, Reply
    <2> QED  BY <2>1, <2>2, <2>3, <2>4 DEF TodosNext, AcknowledgeTodo, ResolveTodo, ReopenTodo
<1> QED  BY <1>1, InitIInv, NextIInv, PTL DEF TodosSpec, OnlyAskedFor
=============================================================================

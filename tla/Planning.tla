------------------------------ MODULE Planning ------------------------------
(***************************************************************************)
(* How the multi-worker switch divides its ports among workers             *)
(* (switch_mp/scheduler.hpp, make_plan() of switch_mp/runtime.hpp): each   *)
(* port's two directions are jobs with a cost, grouped by role; roles are  *)
(* split over workers while the budget lasts; and each plan resolves, for  *)
(* every port, the queues to the ports it may send to.  A queue lives on   *)
(* in the next plan if the pair of ports does.                             *)
(***************************************************************************)
EXTENDS Naturals, Sequences, FiniteSets, FiniteSetsExt, SequencesExt, Functions

CONSTANTS
  Names,          \* names of ports
  Rulesets,       \* [mappings, exits, trunks, back]: pairs of sets of names, roles, default_back
  Budget, WorkPerThread, RxWeight, TxWeight, AdapterWeight, TrunkWeight,
  MaxPorts, MaxPlans   \* bounds

VARIABLES
  ports,          \* plan_->ports: sequence of [name, generation]
  rules,
  links,          \* plan_->links: for pairs of generations, the plan the queue was made for
  owners,         \* assignment.owners: <<worker of RX, worker of TX>> of each port
  tasks,          \* plan_->workers: rx and tx tasks, and jobs
  version,        \* of the plan
  generation      \* counts ports
vars == <<ports, rules, links, owners, tasks, version, generation>>

Roles == 1 .. 4         \* RX, TX, RXa, TXa
WorkerIds == 1 .. Budget

\* make_plan(): an exit is an adapter, whatever else it is.
KindOf(r, name) ==
  IF name \in Rulesets[r].exits THEN "adapter" ELSE IF name \in Rulesets[r].trunks THEN "trunk" ELSE "tunnel"
Direction(role) == 2 - (role % 2)
Base(kind) == [tunnel |-> 1, adapter |-> AdapterWeight, trunk |-> TrunkWeight][kind]
Cost(kind, role) == Base(kind) * IF Direction(role) = 1 THEN RxWeight ELSE TxWeight
\* The ports with a job of the role, and the role's costs together.
Jobs(kinds, role) == SelectSeq([i \in DOMAIN kinds |-> i], LAMBDA i : (kinds[i] = "tunnel") = (role <= 2))
Total(kinds, role) == FoldLeft(LAMBDA t, i : t + Cost(kinds[i], role), 0, Jobs(kinds, role))

-----------------------------------------------------------------------------
\* schedule(): roles that exceed the target are split, the most loaded first.
Splittable(kinds, total, shards) ==
  {r \in Roles : shards[r] < Len(Jobs(kinds, r)) /\ total[r] > WorkPerThread * shards[r]}
RoomToSplit(shards) == FoldLeft(LAMBDA a, b : a + b, 0, shards) < Budget
RECURSIVE Split(_, _, _)
Split(kinds, total, shards) ==
  LET rs == Splittable(kinds, total, shards)
      best == CHOOSE r \in rs : \A s \in rs :
                LET a == total[r] * shards[s]
                    b == total[s] * shards[r] IN a > b \/ (a = b /\ r <= s) IN
  IF rs = {} \/ ~RoomToSplit(shards) THEN shards ELSE Split(kinds, total, [shards EXCEPT ![best] = @ + 1])
Shards(kinds) ==
  LET some == IF Jobs(kinds, 3) = <<>> THEN 0 ELSE 1 IN
  Split(kinds, [r \in Roles |-> Total(kinds, r)], <<1, 1, some, some>>)

LeastLoaded(loads) == CHOOSE i \in DOMAIN loads : \A j \in DOMAIN loads : loads[i] < loads[j] \/ (loads[i] = loads[j] /\ i <= j)
\* Jobs of a role, the costly first, each to the least loaded of the role's workers.
JobOrder(kinds, role) ==
  SelectSeq(Jobs(kinds, role), LAMBDA i : kinds[i] = "trunk" /\ TrunkWeight >= AdapterWeight)
  \o SelectSeq(Jobs(kinds, role), LAMBDA i : kinds[i] # "trunk")
  \o SelectSeq(Jobs(kinds, role), LAMBDA i : kinds[i] = "trunk" /\ TrunkWeight < AdapterWeight)

\* One shard after the other gets a worker of its own, or one that has least to do.
GiveWorkers(s, n) ==
  FoldLeft(LAMBDA t, i : IF t.next <= Budget THEN [t EXCEPT !.next = @ + 1, !.mine = Append(@, t.next)]
                                             ELSE [t EXCEPT !.mine = Append(@, LeastLoaded(t.loads))],
           [s EXCEPT !.mine = <<>>], [i \in 1 .. n |-> i])
GiveJobs(kinds, role, s) ==
  FoldLeft(LAMBDA t, p : LET shard == LeastLoaded(t.local)
                             cost == Cost(kinds[p], role) IN
             [t EXCEPT !.owners[p][Direction(role)] = t.mine[shard], !.local[shard] = @ + cost, !.loads[t.mine[shard]] = @ + cost],
           [s EXCEPT !.local = [i \in DOMAIN s.mine |-> 0]], JobOrder(kinds, role))
\* A tunnel and an adapter alone: one worker for each way through.
PairOfPorts(kinds) ==
  /\ Len(kinds) = 2 /\ Budget >= 2 /\ Range(kinds) = {"tunnel", "adapter"}
  /\ Total(kinds, 1) + Total(kinds, 4) <= WorkPerThread /\ Total(kinds, 3) + Total(kinds, 2) <= WorkPerThread
Schedule(kinds) ==
  IF PairOfPorts(kinds) THEN [i \in 1 .. 2 |-> IF kinds[i] = "tunnel" THEN <<1, 2>> ELSE <<2, 1>>]
  ELSE LET shards == Shards(kinds)
           start == [next |-> 1, mine |-> <<>>, local |-> <<>>, loads |-> [w \in WorkerIds |-> 0], owners |-> [i \in DOMAIN kinds |-> <<0, 0>>]] IN
       FoldLeft(LAMBDA s, role : GiveJobs(kinds, role, GiveWorkers(s, shards[role])), start, <<1, 2, 3, 4>>).owners

-----------------------------------------------------------------------------
\* The targets a port's mappings resolve to, and itself where frames may go back.
Targets(r, ps, p) ==
  {q \in Range(ps) : \/ \E m \in Rulesets[r].mappings : p.name \in m[1] /\ q.name \in m[2]
                     \/ Rulesets[r].back /\ q = p}
\* link_for(): the queue of the plan in force, or a new one.
LinkFor(key) == IF key \in DOMAIN links THEN links[key] ELSE version + 1
\* RX and TX tasks take turns in a worker's jobs.
JobList(rx, tx) ==
  FoldLeft(LAMBDA js, i : js \o (IF i <= Len(rx) THEN <<<<"rx", i>>>> ELSE <<>>) \o (IF i <= Len(tx) THEN <<<<"tx", i>>>> ELSE <<>>),
           <<>>, [i \in 1 .. Max({Len(rx), Len(tx)}) |-> i])

\* Variant: every route leads to the owner of the source.
RxTaskNear(r, ps, os, i) ==
  [port |-> ps[i].generation, routes |-> {[target |-> q.generation, owner |-> os[i][2]] : q \in Targets(r, ps, ps[i])}]
RxTask(r, ps, os, i) ==
  [port |-> ps[i].generation,
   routes |-> {[target |-> q.generation, owner |-> os[CHOOSE j \in DOMAIN ps : ps[j] = q][2]] : q \in Targets(r, ps, ps[i])}]
TxTask(keys, ps, i) == [port |-> ps[i].generation, incoming |-> {k \in keys : k[2] = ps[i].generation}]
WorkerPlan(r, ps, os, keys, w) ==
  LET Mine(d) == SelectSeq([i \in DOMAIN ps |-> i], LAMBDA i : os[i][d] = w)
      rxs == Mine(1)
      txs == Mine(2)
      rx == [n \in DOMAIN rxs |-> RxTask(r, ps, os, rxs[n])]
      tx == [n \in DOMAIN txs |-> TxTask(keys, ps, txs[n])] IN
  [rx |-> rx, tx |-> tx, jobs |-> JobList(rx, tx)]

\* make_plan() and publish()
Plan(r, ps) ==
  LET keys == {<<p.generation, q.generation>> : p, q \in Range(ps)}
      used == {k \in keys : \E p, q \in Range(ps) : k = <<p.generation, q.generation>> /\ q \in Targets(r, ps, p)} IN
  /\ ports' = ps /\ rules' = r
  /\ owners' = Schedule([i \in DOMAIN ps |-> KindOf(r, ps[i].name)])
  /\ links' = [k \in used |-> LinkFor(k)]
  /\ version < MaxPlans /\ version' = version + 1
  /\ tasks' = [w \in WorkerIds |-> WorkerPlan(r, ps, owners', used, w)]

Init ==
  /\ rules \in DOMAIN Rulesets /\ ports = <<>> /\ links = <<>> /\ owners = <<>> /\ version = 0 /\ generation = 0
  /\ tasks = [w \in WorkerIds |-> [rx |-> <<>>, tx |-> <<>>, jobs |-> <<>>]]

\* Publications: a port joins, ports go, rules are loaded.
Join(name) ==
  /\ Len(ports) < MaxPorts /\ \A p \in Range(ports) : p.name # name
  /\ generation' = generation + 1
  /\ Plan(rules, Append(ports, [name |-> name, generation |-> generation']))
Leave(gone) == gone # {} /\ Plan(rules, SelectSeq(ports, LAMBDA p : p \notin gone)) /\ UNCHANGED generation
Load(r) == r # rules /\ Plan(r, ports) /\ UNCHANGED generation

Next ==
  \/ \E name \in Names : Join(name)
  \/ \E gone \in SUBSET Range(ports) : Leave(gone)
  \/ \E r \in DOMAIN Rulesets : Load(r)
Spec == Init /\ [][Next]_vars
-----------------------------------------------------------------------------
\* Both directions of every port are served by one worker each, once in a round of its jobs; where
\* a mapping leads there is a queue, which the worker the sender wakes takes from.
Wired ==
  /\ \A p \in Range(ports) : \A side \in {"rx", "tx"} :
       Cardinality({<<w, n>> \in WorkerIds \X (1 .. Len(ports)) : n \in DOMAIN tasks[w][side] /\ tasks[w][side][n].port = p.generation}) = 1
  /\ \A w \in WorkerIds : \A side \in {"rx", "tx"} : \A n \in DOMAIN tasks[w][side] :
       Cardinality({j \in DOMAIN tasks[w].jobs : tasks[w].jobs[j] = <<side, n>>}) = 1
  /\ \A w \in WorkerIds : \A n \in DOMAIN tasks[w].rx : \A route \in tasks[w].rx[n].routes :
       LET key == <<tasks[w].rx[n].port, route.target>> IN
       /\ key \in DOMAIN links
       /\ \E t \in Range(tasks[route.owner].tx) : t.port = route.target /\ key \in t.incoming

\* The costs that fall to worker w under a division `of` of jobs among workers.
LoadOf(cost, of, w) == MapThenSumSet(LAMBDA i : cost[i], {i \in DOMAIN cost : of[i] = w})
\* The worker with most work of a role has at most 4/3 - 1/(3n) of what the worker with most work
\* has under any division of the role among the same n workers, hence under the best.
NearBest ==
  LET kinds == [i \in DOMAIN ports |-> KindOf(rules, ports[i].name)] IN
  \A role \in Roles :
    LET js == Range(Jobs(kinds, role))
        cost == [i \in js |-> Cost(kinds[i], role)]
        of == [i \in js |-> owners[i][Direction(role)]]
        ws == Range(of)
        n == Cardinality(ws)
        most == Max({LoadOf(cost, of, w) : w \in ws} \cup {0}) IN
    js # {} => \A any \in [js -> ws] : \E w \in ws : 3 * n * most <= (4 * n - 1) * LoadOf(cost, any, w)

\* The queue between two ports stays the same one as long as both stay and something leads from the
\* one to the other: what waits in it is not lost to other ports coming and going.
KeepsQueues == \A k \in DOMAIN links \cap DOMAIN links' : links'[k] = links[k]
=============================================================================

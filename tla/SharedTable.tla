----------------------------- MODULE SharedTable -----------------------------
(***************************************************************************)
(* One shard of the divert workers' shared flow table                      *)
(* (divert/shared_flows.hpp): a pool of nodes in shared memory with hash   *)
(* chains, a free list, counters and one undo record, guarded by a robust  *)
(* mutex.  Every write to it is a step of its own, so a worker can be      *)
(* killed between any two; the next to lock restores the node named by     *)
(* "dirty" and rebuilds the indexes.  One worker holds the lock at a time, *)
(* so the state has one holder and the writes it has still to make.        *)
(***************************************************************************)
EXTENDS Naturals, Sequences, FiniteSets

CONSTANTS
  Keys, Values,
  Own,           \* from keys to the values of that flow: a route holds its flow
  KindOf,        \* the class of a value, each with its own quota
  Bucket,        \* from keys to chains
  Slots, Quota,
  MaxCrashes     \* bound on workers killed

Kinds == {KindOf[v] : v \in Values}
Buckets == {Bucket[k] : k \in Keys}
Nodes == 1..Slots

VARIABLES
  mem,       \* the shard: node (key, value, next, present), head, free, count, dirty, undo
  mutex,     \* "free", "held", "dead" (its owner died), "recovering" (taken from a dead owner
             \* and not yet consistent) or "lost": unlocked in that state, no one can lock it
  todo,      \* writes the holder has still to make
  at,        \* the node it works on
  idle,      \* keys whose entry was not touched for the idle time
  crashes

vars == <<mem, mutex, todo, at, idle, crashes>>

Blank == [key |-> CHOOSE k \in Keys : TRUE, value |-> CHOOSE v \in Values : TRUE, next |-> 0, present |-> FALSE]

Init ==
  /\ mem = [node |-> [i \in Nodes |-> [Blank EXCEPT !.next = IF i < Slots THEN i + 1 ELSE 0]],
            head |-> [b \in Buckets |-> 0], free |-> 1, count |-> [k \in Kinds |-> 0], dirty |-> 0, undo |-> Blank]
  /\ mutex = "free" /\ todo = <<>> /\ at = 0 /\ idle = {} /\ crashes = 0

\* A chain as the code follows it; Slots links are enough if it ends at all.
Chain(first) ==
  LET link[n \in 0..Slots] == IF n = 0 THEN first ELSE IF link[n - 1] = 0 THEN 0 ELSE mem.node[link[n - 1]].next
  IN {link[n] : n \in 0..Slots}

Find(k) ==
  LET hits == {i \in Chain(mem.head[Bucket[k]]) \ {0} : mem.node[i].key = k}
  IN IF hits = {} THEN 0 ELSE CHOOSE i \in hits : TRUE

-----------------------------------------------------------------------------
(* The writes of an operation, in the order the code makes them; those of  *)
(* a struct copy in an order that leaves the most telling torn node.       *)
Begin == <<<<"undo">>, <<"dirty">>>>

Insert(k, v) == <<<<"take">>>> \o Begin
                \o <<<<"pop">>, <<"mark", k>>, <<"key", k>>, <<"value", v>>, <<"head", k>>, <<"count", v>>, <<"commit">>>>
Update(i, v) == <<<<"select", i>>>> \o Begin \o <<<<"value", v>>, <<"commit">>>>
EraseOf(i) == <<<<"select", i>>>> \o Begin
              \o <<<<"unlink">>, <<"uncount">>, <<"clear">>, <<"push">>, <<"free">>, <<"commit">>>>

\* expire(): the idle entries among the next 64, which are some of the shard's.
Stale == {i \in Nodes : mem.node[i].present /\ mem.node[i].key \in idle}
Expire(swept) ==
  LET order[S \in SUBSET swept] == IF S = {} THEN <<>> ELSE LET i == CHOOSE x \in S : TRUE IN EraseOf(i) \o order[S \ {i}]
  IN order[swept]

Room(v) == mem.count[KindOf[v]] < Quota /\ mem.free # 0

\* learn() and classify(): an idle entry is erased and inserted afresh, a live one updated;
\* when the shard is full the idle entries swept go first.  No caller changes the kind of an entry.
Learn(k, v, swept) ==
  LET i == Find(k)
      after == {j \in Nodes \ swept : mem.node[j].present /\ KindOf[mem.node[j].value] = KindOf[v]}
  IN IF i # 0 /\ k \in idle THEN EraseOf(i) \o Insert(k, v)
     ELSE IF i # 0 THEN Update(i, v)
     ELSE IF Room(v) THEN Insert(k, v)
     ELSE IF Cardinality(after) < Quota /\ (mem.free # 0 \/ swept # {}) THEN Expire(swept) \o Insert(k, v) ELSE Expire(swept)

RebuildSteps == [i \in 1..(Slots + 1) |-> IF i = 1 THEN <<"reset">> ELSE <<"link", Slots + 2 - i>>]
\* Variant: the index is not rebuilt.
LockWithoutRebuild == <<<<"restore">>, <<"commit">>, <<"consistent">>>>
Recover == <<<<"restore">>>> \o RebuildSteps \o <<<<"commit">>, <<"consistent">>>>

-----------------------------------------------------------------------------
(* Locked's constructor and an operation under the lock.                   *)
Held == mutex \in {"held", "recovering"}

Lock ==
  /\ ~Held
  /\ IF mutex = "lost" THEN UNCHANGED vars      \* ENOTRECOVERABLE: check() throws
     ELSE /\ mutex' = (IF mutex = "dead" THEN "recovering" ELSE "held") /\ at' = 0
          /\ IF mutex = "dead" THEN todo' = Recover
             ELSE \E swept \in SUBSET Stale :
                    \/ \E k \in Keys : \E v \in Own[k] : todo' = Learn(k, v, swept)
                    \/ todo' = Expire(swept)
          /\ UNCHANGED <<mem, idle, crashes>>

LinkNode(i) ==
  LET n == mem.node[i]
      b == Bucket[n.key]
  IN IF n.present
     THEN [mem EXCEPT !.node[i].next = mem.head[b], !.head[b] = i, !.count[KindOf[n.value]] = @ + 1]
     ELSE [mem EXCEPT !.node[i].next = mem.free, !.free = i]

Unlink ==
  LET b == Bucket[mem.node[at].key]
  IN IF mem.head[b] = at THEN [mem EXCEPT !.head[b] = mem.node[at].next]
     ELSE LET p == CHOOSE j \in Chain(mem.head[b]) \ {0} : mem.node[j].next = at
          IN [mem EXCEPT !.node[p].next = mem.node[at].next]

Written(w) ==
  CASE w[1] \in {"take", "select", "consistent"} -> mem
    [] w[1] = "undo" -> [mem EXCEPT !.undo = mem.node[at]]
    [] w[1] = "dirty" -> [mem EXCEPT !.dirty = at]
    [] w[1] = "commit" -> [mem EXCEPT !.dirty = 0, !.undo = Blank]      \* undo is dead data now
    [] w[1] = "pop" -> [mem EXCEPT !.free = mem.node[at].next]
    [] w[1] = "key" -> [mem EXCEPT !.node[at].key = w[2]]
    [] w[1] = "mark" -> [mem EXCEPT !.node[at].next = mem.head[Bucket[w[2]]], !.node[at].present = TRUE]
    [] w[1] = "head" -> [mem EXCEPT !.head[Bucket[w[2]]] = at]
    [] w[1] = "count" -> [mem EXCEPT !.count[KindOf[w[2]]] = @ + 1]
    [] w[1] = "value" -> [mem EXCEPT !.node[at].value = w[2]]
    [] w[1] = "unlink" -> Unlink
    [] w[1] = "uncount" -> [mem EXCEPT !.count[KindOf[mem.node[at].value]] = @ - 1]
    [] w[1] = "clear" -> [mem EXCEPT !.node[at] = [Blank EXCEPT !.next = mem.node[at].next]]   \* absent: key and value are not read
    [] w[1] = "push" -> [mem EXCEPT !.node[at].next = mem.free]
    [] w[1] = "free" -> [mem EXCEPT !.free = at]
    [] w[1] = "restore" -> IF mem.dirty = 0 THEN mem ELSE [mem EXCEPT !.node[mem.dirty] = mem.undo]
    [] w[1] = "reset" -> [mem EXCEPT !.head = [b \in Buckets |-> 0], !.free = 0, !.count = [k \in Kinds |-> 0]]
    [] w[1] = "link" -> LinkNode(w[2])

Step ==
  /\ Held /\ todo # <<>>
  /\ LET w == Head(todo)
     IN /\ mem' = Written(w)
        /\ at' = IF w[1] = "take" THEN mem.free ELSE IF w[1] = "select" THEN w[2] ELSE at
        /\ idle' = IF w[1] = "value" THEN idle \ {mem.node[at].key} ELSE idle
        /\ mutex' = IF w[1] = "consistent" THEN "held" ELSE mutex
  /\ todo' = Tail(todo)
  /\ UNCHANGED crashes

Unlock ==
  /\ Held /\ todo = <<>>
  /\ mutex' = (IF mutex = "held" THEN "free" ELSE "lost") /\ at' = 0
  /\ UNCHANGED <<mem, todo, idle, crashes>>

\* The holder is killed: the kernel hands the mutex on with EOWNERDEAD.
Crash ==
  /\ Held /\ crashes < MaxCrashes
  /\ mutex' = "dead" /\ todo' = <<>> /\ at' = 0 /\ crashes' = crashes + 1
  /\ UNCHANGED <<mem, idle>>

Age == /\ mutex = "free" /\ \E i \in Nodes : mem.node[i].present /\ mem.node[i].key \notin idle /\ idle' = idle \union {mem.node[i].key}
       /\ UNCHANGED <<mem, mutex, todo, at, crashes>>

Next == Lock \/ Step \/ Unlock \/ Crash \/ Age
Spec == Init /\ [][Next]_vars /\ WF_vars(Lock) /\ WF_vars(Step) /\ WF_vars(Unlock)

-----------------------------------------------------------------------------
\* The entries the table stands for: an uncommitted node counts as its undo record.
Committed == [i \in Nodes |-> IF i = mem.dirty THEN mem.undo ELSE mem.node[i]]
Content == {<<Committed[i].key, Committed[i].value>> : i \in {j \in Nodes : Committed[j].present}}

\* What the table promises its workers: a map from flows to values that changes one entry
\* at a time and holds at most Quota entries of each kind.
Holds(k) == \E e \in Content : e[1] = k
OfKind(x) == {e \in Content : KindOf[e[2]] = x}
Without(k) == {e \in Content : e[1] # k}

MapInsert(k, v) == ~Holds(k) /\ Cardinality(OfKind(KindOf[v])) < Quota /\ Content' = Content \union {<<k, v>>}
MapUpdate(k, v) == (\E e \in OfKind(KindOf[v]) : e[1] = k) /\ Content' = Without(k) \union {<<k, v>>}
MapErase(k) == Holds(k) /\ Content' = Without(k)

\* Every operation is atomic whatever a killed worker left behind: the table changes
\* only by whole entries, at the commit of an operation, and an entry is one a worker gave for its flow.
StepsAtomic ==
  \/ \E k \in Keys : MapErase(k) \/ \E v \in Own[k] : MapInsert(k, v) \/ MapUpdate(k, v)
  \/ Content' = Content

\* Between operations the indexes agree with the nodes: each present node is on the chain of
\* its key and on no other, absent ones are free, no flow has two entries, counters are right.
IndexSound ==
  mutex = "free" =>
    /\ mem.dirty = 0
    /\ \A b \in Buckets : Chain(mem.head[b]) \ {0} = {i \in Nodes : mem.node[i].present /\ Bucket[mem.node[i].key] = b}
    /\ Chain(mem.free) \ {0} = {i \in Nodes : ~mem.node[i].present}
    /\ \A i, j \in Nodes : mem.node[i].present /\ mem.node[j].present /\ mem.node[i].key = mem.node[j].key => i = j
    /\ \A k \in Kinds : mem.count[k] = Cardinality({i \in Nodes : mem.node[i].present /\ KindOf[mem.node[i].value] = k})

=============================================================================

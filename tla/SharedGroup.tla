---------------------------- MODULE SharedGroup ----------------------------
(***************************************************************************)
(* How workers join and leave the group that shares one flow file          *)
(* (divert/shared_flows.hpp, class SharedFlows).  Byte 0 of the file is    *)
(* locked while a worker enters, and a byte of its own as long as it       *)
(* stays; the kernel drops both when it dies, at whatever step.            *)
(***************************************************************************)
EXTENDS Naturals, FiniteSets, FiniteSetsExt

CONSTANTS
  Procs,      \* processes that open the file
  Slots,      \* bytes for workers (16)
  Ids,        \* worker IDs
  Configs,    \* groups with their capacities
  None,
  MaxOpens, MaxCrashes   \* bounds of a behaviour

VARIABLES
  at,         \* where each process stands in the constructor, or "in"
  self,       \* its configuration, and what it has found out
  entering,   \* holder of byte 0
  slots,      \* holders of the other bytes
  file,       \* the header and the state of the tables
  opens, crashes

vars == <<at, self, entering, slots, file, opens, crashes>>

Nobody == [id |-> None, config |-> None, live |-> FALSE, slot |-> None, epoch |-> 0]

(* An empty file; `epoch' counts how often its header was made.            *)
Init ==
  /\ at = [p \in Procs |-> "out"] /\ self = [p \in Procs |-> Nobody]
  /\ entering = None /\ slots = [s \in Slots |-> None]
  /\ file = [epoch |-> 0, ready |-> FALSE, tables |-> FALSE, config |-> None,
             workers |-> [s \in Slots |-> None]]
  /\ opens = 0 /\ crashes = 0
-----------------------------------------------------------------------------
Occupied == {s \in Slots : slots[s] # None}
Go(p, where) == at' = [at EXCEPT ![p] = where]
Know(p, what) == self' = [self EXCEPT ![p] = what]

(* Unmapped and closed: every lock of the process is gone.                 *)
Closed(p) ==
  /\ Go(p, "out") /\ Know(p, Nobody)
  /\ entering' = IF entering = p THEN None ELSE entering
  /\ slots' = [s \in Slots |-> IF slots[s] = p THEN None ELSE slots[s]]

Open(p, id, config) ==
  /\ at[p] = "out" /\ opens < MaxOpens
  /\ opens' = opens + 1
  /\ Go(p, "lock") /\ Know(p, [Nobody EXCEPT !.id = id, !.config = config])
  /\ UNCHANGED <<entering, slots, file, crashes>>

Lock(p) ==
  /\ at[p] = "lock" /\ entering = None
  /\ entering' = p
  /\ Go(p, "look")
  /\ UNCHANGED <<self, slots, file, opens, crashes>>

(* Is anybody there, and which byte is free?                               *)
Look(p) ==
  /\ at[p] = "look"
  /\ IF Occupied = Slots
       THEN Closed(p)
       ELSE /\ Know(p, [self[p] EXCEPT !.live = Occupied # {}, !.slot = Min(Slots \ Occupied)])
            /\ Go(p, IF Occupied # {} THEN "verify" ELSE "header")
            /\ UNCHANGED <<entering, slots>>
  /\ UNCHANGED <<file, opens, crashes>>

(* A group that lives: same build and configuration, and an ID of one's own.*)
Verify(p) ==
  /\ at[p] = "verify"
  /\ IF ~file.ready \/ file.config # self[p].config
        \/ \E s \in Occupied : file.workers[s] = self[p].id
       THEN Closed(p)
       ELSE /\ Know(p, [self[p] EXCEPT !.epoch = file.epoch])
            /\ Go(p, "slot")
            /\ UNCHANGED <<entering, slots>>
  /\ UNCHANGED <<file, opens, crashes>>

(* Nobody there: the file is resized, and gets a new header, then tables,  *)
(* then the mark that it is ready.                                         *)
Header(p) ==
  /\ at[p] = "header"
  /\ file' = [epoch |-> file.epoch + 1, ready |-> FALSE, tables |-> FALSE,
              config |-> self[p].config, workers |-> [s \in Slots |-> None]]
  /\ Know(p, [self[p] EXCEPT !.epoch = file.epoch + 1])
  /\ Go(p, "tables")
  /\ UNCHANGED <<entering, slots, opens, crashes>>

Tables(p) ==
  /\ at[p] = "tables"
  /\ file' = [file EXCEPT !.tables = TRUE]
  /\ Go(p, "ready")
  /\ UNCHANGED <<self, entering, slots, opens, crashes>>

Ready(p) ==
  /\ at[p] = "ready"
  /\ file' = [file EXCEPT !.ready = TRUE]
  /\ Go(p, "slot")
  /\ UNCHANGED <<self, entering, slots, opens, crashes>>

Slot(p) ==
  /\ at[p] = "slot"
  /\ slots' = [slots EXCEPT ![self[p].slot] = p]
  /\ Go(p, "name")
  /\ UNCHANGED <<self, entering, file, opens, crashes>>

Name(p) ==
  /\ at[p] = "name"
  /\ file' = [file EXCEPT !.workers[self[p].slot] = self[p].id]
  /\ Go(p, "unlock")
  /\ UNCHANGED <<self, entering, slots, opens, crashes>>

Unlock(p) ==
  /\ at[p] = "unlock"
  /\ entering' = None
  /\ Go(p, "in")
  /\ UNCHANGED <<self, slots, file, opens, crashes>>

Leave(p) ==
  /\ at[p] = "in"
  /\ Closed(p)
  /\ UNCHANGED <<file, opens, crashes>>

Crash(p) ==
  /\ at[p] \notin {"out", "in"} /\ crashes < MaxCrashes
  /\ crashes' = crashes + 1
  /\ Closed(p)
  /\ UNCHANGED <<file, opens>>

Steps(p) == \/ Lock(p) \/ Look(p) \/ Verify(p) \/ Header(p) \/ Tables(p) \/ Ready(p)
            \/ Slot(p) \/ Name(p) \/ Unlock(p)

Next ==
  \E p \in Procs :
    \/ \E id \in Ids, config \in Configs : Open(p, id, config)
    \/ Steps(p) \/ Leave(p) \/ Crash(p)

Spec == Init /\ [][Next]_vars

(* A process that is not killed goes on, and one that waits for byte 0 is  *)
(* woken when it is free: the kernel queues the waiters.                   *)
FairSpec == Spec /\ \A p \in Procs : WF_vars(Steps(p)) /\ SF_vars(Lock(p))
-----------------------------------------------------------------------------
Attached == {p \in Procs : at[p] \in {"slot", "name", "unlock", "in"}}

(* All workers that use the file use the same tables, made for their       *)
(* configuration and complete: nobody makes them anew under a worker, and  *)
(* an opener that died half-way leaves nothing a later one would take.     *)
OneGroup ==
  \A p \in Attached :
    /\ file.ready /\ file.tables
    /\ self[p].epoch = file.epoch /\ self[p].config = file.config

(* Each worker of the group holds a byte of its own under its own ID, and  *)
(* the header names it.                                                    *)
OwnPlace ==
  \A p, q \in Procs : at[p] = "in" =>
    /\ slots[self[p].slot] = p /\ file.workers[self[p].slot] = self[p].id
    /\ at[q] = "in" /\ q # p => self[p].id # self[q].id

(* Who opens the file is in the group before long, or is refused or dead.  *)
Settles == \A p \in Procs : at[p] = "lock" ~> at[p] \in {"in", "out"}
=============================================================================

----------------------------- MODULE TunProvider -----------------------------
(***************************************************************************)
(* How a process comes by its TUN devices: it opens them itself, forks a   *)
(* child that opens them in another network namespace (tun_provider.hpp,   *)
(* adapter_tuns.hpp), or asks a helper process (tun_helper_main.cpp); the  *)
(* others pass the descriptors over a socket (tun_fd_socket.hpp).  Every   *)
(* step may fail.  A device lasts as long as a descriptor of it.           *)
(***************************************************************************)
EXTENDS Naturals, Sequences, SequencesExt

CONSTANTS
  Requests,   \* number of interfaces wanted
  Room        \* messages that the socket holds

VARIABLES
  how,        \* "direct", "child" (for an adapter), "tunnel" (a child for a tunnel) or "helper"
  patterns,   \* interfaces whose name the kernel completes ("tun%d")
  pc,         \* of the process: "start", "open", "receive", "reap", "fail", "adopt", "done" or "failed"
  child,      \* the other one: "none", "ready", "open", "send", "exited", "broke" or "reaped"
  made,       \* devices the other one holds, in order
  socket,     \* messages on their way
  ends,       \* the ends of the socket that are open
  received,   \* descriptors received, not yet of a device (closed ones are 0)
  owned,      \* devices of the process
  leaked      \* descriptors nobody will close before the process ends

vars == <<how, patterns, pc, child, made, socket, ends, received, owned, leaked>>

asked == <<how, patterns>>

(* A tunnel has one device.                                                *)
Wanted == IF how \in {"tunnel", "helper"} THEN 1 ELSE Requests
Forks == how \in {"child", "tunnel"}

Init ==
  /\ how \in {"direct", "child", "tunnel", "helper"} /\ patterns \in SUBSET (1 .. Requests)
  /\ pc = "start" /\ child = "none"
  /\ made = <<>> /\ socket = <<>> /\ ends = {} /\ received = <<>> /\ owned = <<>> /\ leaked = {}
-----------------------------------------------------------------------------
(* open() without a namespace: a device that fails takes the earlier ones  *)
(* with it, but not its own descriptor if it got as far as the MTU.        *)
OpenDirect ==
  LET n == Len(owned) + 1
  IN  /\ how = "direct" /\ pc \in {"start", "open"}
      /\ \/ owned' = owned \o <<n>> /\ pc' = (IF n = Wanted THEN "done" ELSE "open") /\ UNCHANGED leaked
         \/ owned' = <<>> /\ pc' = "failed" /\ (leaked' = {n} \/ UNCHANGED leaked)
      /\ UNCHANGED <<asked, child, made, socket, ends, received>>

(* socketpair() and fork(), which may fail.                                *)
Fork ==
  /\ Forks /\ pc = "start"
  /\ \/ pc' = "failed" /\ UNCHANGED <<child, ends>>
     \/ pc' = "receive" /\ child' = "open" /\ ends' = {"ours", "theirs"}
  /\ UNCHANGED <<asked, made, socket, received, owned, leaked>>

(* The helper listens on its path, for one client.                         *)
Listen ==
  /\ how = "helper" /\ child = "none" /\ child' \in {"ready", "broke"}
  /\ UNCHANGED <<asked, pc, made, socket, ends, received, owned, leaked>>

(* connect(): refused unless the helper is there.                          *)
Connect ==
  /\ how = "helper" /\ pc = "start"
  /\ IF child = "ready" THEN /\ pc' = "receive" /\ child' = "open" /\ ends' = {"ours", "theirs"}
                        ELSE pc' = "failed" /\ UNCHANGED <<child, ends>>
  /\ UNCHANGED <<asked, made, socket, received, owned, leaked>>
-----------------------------------------------------------------------------
(* The end of the other process closes its descriptors and its socket.     *)
Exit(end) == child' = end /\ made' = <<>> /\ ends' = ends \ {"theirs"}

(* create_and_send_many(): all devices are made before the first is sent.  *)
ChildOpens ==
  /\ child = "open"
  /\ \/ /\ made' = Append(made, Len(made) + 1)
        /\ child' = IF Len(made) + 1 = Wanted THEN "send" ELSE "open"
        /\ UNCHANGED ends
     \/ Exit("broke")
  /\ UNCHANGED <<asked, pc, socket, received, owned, leaked>>

(* send(): waits for room; an error if nobody will read it.                *)
ChildSends ==
  /\ child = "send" /\ made # <<>>
  /\ \/ /\ "ours" \in ends /\ Len(socket) < Room
        /\ LET n == Wanted - Len(made) + 1
           IN  socket' = Append(socket, [device |-> n, renamed |-> n \in patterns])
        /\ made' = Tail(made) /\ UNCHANGED <<child, ends>>
     \/ "ours" \notin ends /\ Exit("broke") /\ UNCHANGED socket
  /\ UNCHANGED <<asked, pc, received, owned, leaked>>

ChildExits ==
  /\ child = "send" /\ made = <<>>
  /\ Exit("exited")
  /\ UNCHANGED <<asked, pc, socket, received, owned, leaked>>

(* Killed, at any moment.                                                  *)
ChildDies ==
  /\ child \in {"ready", "open", "send"}
  /\ Exit("broke")
  /\ UNCHANGED <<asked, pc, socket, received, owned, leaked>>
-----------------------------------------------------------------------------
CloseAll(seq) == [i \in DOMAIN seq |-> [seq[i] EXCEPT !.device = 0]]

(* receive(): one descriptor, made non-blocking.  At the last one our end  *)
(* is closed.                                                              *)
Receive ==
  /\ pc = "receive" /\ socket # <<>>
  /\ received' = Append(received, Head(socket))
  /\ socket' = Tail(socket)
  /\ IF Len(received') < Wanted THEN UNCHANGED <<pc, ends>>
     ELSE pc' = (IF Forks THEN "reap" ELSE "adopt") /\ ends' = ends \ {"ours"}
  /\ UNCHANGED <<asked, child, made, owned, leaked>>

(* The end of the socket, an interrupted call, or fcntl() failing: the     *)
(* descriptor at hand, those before it and our end are closed, and what is *)
(* still under way goes with the socket.                                   *)
ReceiveFails ==
  /\ pc = "receive" /\ (socket # <<>> \/ "theirs" \notin ends)
  /\ received' = CloseAll(received) /\ socket' = <<>> /\ ends' = ends \ {"ours"}
  /\ pc' = IF Forks THEN "fail" ELSE "failed"
  /\ UNCHANGED <<asked, child, made, owned, leaked>>

(* wait_child(): a child that did not end well spoils what it has sent.    *)
Reap ==
  /\ pc \in {"reap", "fail"} /\ child \in {"exited", "broke"}
  /\ child' = "reaped"
  /\ IF pc = "reap" /\ child = "exited" THEN pc' = "adopt" /\ UNCHANGED received
     ELSE pc' = "failed" /\ received' = CloseAll(received)
  /\ UNCHANGED <<asked, made, socket, ends, owned, leaked>>

(* Variant: only what is left is closed, not what was adopted.             *)
AdoptKeeping ==
  LET n == Len(owned) + 1
  IN  /\ pc = "adopt"
      /\ IF received[n].renamed /\ how # "tunnel"
         THEN pc' = "failed" /\ received' = CloseAll(received) /\ UNCHANGED owned
         ELSE /\ owned' = Append(owned, received[n].device)
              /\ received' = [received EXCEPT ![n].device = 0]
              /\ pc' = IF n = Wanted THEN "done" ELSE "adopt"
      /\ UNCHANGED <<asked, child, made, socket, ends, leaked>>

(* The descriptors become devices one by one.  A name other than the one   *)
(* asked for closes all, those of the devices made so far included; only a *)
(* tunnel that has forked a child takes the name as it is.                 *)
Adopt ==
  LET n == Len(owned) + 1
  IN  /\ pc = "adopt"
      /\ IF received[n].renamed /\ how # "tunnel"
         THEN pc' = "failed" /\ received' = CloseAll(received) /\ owned' = <<>>
         ELSE /\ owned' = Append(owned, received[n].device)
              /\ received' = [received EXCEPT ![n].device = 0]
              /\ pc' = IF n = Wanted THEN "done" ELSE "adopt"
      /\ UNCHANGED <<asked, child, made, socket, ends, leaked>>

Ours == OpenDirect \/ Fork \/ Connect \/ Receive \/ ReceiveFails \/ Reap \/ Adopt
Theirs == Listen \/ ChildOpens \/ ChildSends \/ ChildExits
Next == Ours \/ Theirs \/ ChildDies
Spec == Init /\ [][Next]_vars
-----------------------------------------------------------------------------
Devices(seq) == {seq[i].device : i \in DOMAIN seq} \ {0}
Alive == ToSet(made) \cup Devices(socket) \cup Devices(received) \cup ToSet(owned) \cup leaked

(* All or nothing: a process that has its devices has each of them once,   *)
(* in the order asked for; one that failed holds no descriptor (but for    *)
(* the one a failing constructor leaves), and once the other process is    *)
(* gone no device is left behind (tun_provider.hpp:112-130,                *)
(* adapter_tuns.hpp:37-49).                                                *)
AllOrNothing ==
  /\ pc = "done" => owned = [i \in 1 .. Wanted |-> i] /\ Devices(received) = {}
  /\ pc = "failed" => /\ owned = <<>> /\ Devices(received) = {}
                      /\ child \in {"none", "exited", "broke", "reaped"} => Alive \subseteq leaked

(* A forked child is waited for on every path (tun_provider.hpp:119, :124).*)
ChildReaped == Forks /\ pc \in {"adopt", "done", "failed"} => child \in {"none", "reaped"}

=============================================================================

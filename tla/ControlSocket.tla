--------------------------- MODULE ControlSocket ---------------------------
(***************************************************************************)
(* The local control socket of every daemon (control_socket.hpp): a few    *)
(* non-blocking clients inside the daemon's loop.  One call of             *)
(* handle_dispatch() is Begin, one step per epoll event, and End.          *)
(* Records are abstracted to the declared length of their command and the  *)
(* length of a piece of its body.  What a peer does is chosen when the     *)
(* loop looks; a second record read in the same turn is read in the next.  *)
(***************************************************************************)
EXTENDS Naturals, FiniteSets

CONSTANTS
  Fds,            \* descriptors the kernel gives to clients, the lowest free one first
  MaxClients,     \* max_clients
  MaxConnects, MaxFailures   \* bounds on connections and on failed accepts and allocations of a run

VARIABLES
  clients,      \* clients_: client of a descriptor
  listening,    \* listening_
  backoff,      \* accept_backoff_ is not ready
  inside,       \* handle_dispatch() is running
  events,       \* epoll events not handled yet: descriptor and the connection it meant
  waiting,      \* connections in the listen queue
  accepted,     \* number of the last accepted connection
  connects, failures,
  executed      \* executions: connection, command and the length of body it had

vars == <<clients, listening, backoff, inside, events, waiting, accepted, connects, failures, executed>>
world == <<waiting, connects, failures>>
Closed == [at |-> "none"]
Listener == 0

\* Commands by name: length of the body, sent on to a peer or not.
Commands == {"show", "load", "remote"}
LengthOf(cmd) == CASE cmd = "show" -> 0 [] cmd = "load" -> 2 [] cmd = "remote" -> 1
Open == {fd \in Fds : clients[fd] # Closed}
Accepted(n) == [at |-> "header", conn |-> n, cmd |-> "show", got |-> 0, late |-> FALSE]
Responding(c) == [c EXCEPT !.at = "responding", !.late = FALSE]

Init ==
  /\ clients = [fd \in Fds |-> Closed] /\ listening = TRUE /\ backoff = FALSE /\ inside = FALSE /\ events = {}
  /\ waiting = 0 /\ accepted = 0 /\ connects = 0 /\ failures = 0 /\ executed = {}

-----------------------------------------------------------------------------
\* maintain(): expired clients go, then the listener is watched while there is room.
Kept == [fd \in Fds |-> IF clients[fd] # Closed /\ clients[fd].late THEN Closed ELSE clients[fd]]
Room(cs) == Cardinality({fd \in Fds : cs[fd] # Closed}) < MaxClients /\ ~backoff

\* handle_dispatch() up to epoll_wait(): finished remote requests become responses.
Begin ==
  /\ ~inside /\ inside' = TRUE /\ listening' = Room(Kept)
  /\ \E done \in SUBSET {fd \in Fds : Kept[fd] # Closed /\ Kept[fd].at = "pending"} :
       clients' = [fd \in Fds |-> IF fd \in done THEN Responding(Kept[fd]) ELSE Kept[fd]]
  /\ \E ready \in SUBSET {fd \in Fds : clients'[fd] # Closed} :
       events' = {[fd |-> fd, conn |-> clients'[fd].conn] : fd \in ready}
                 \cup (IF listening' /\ waiting > 0 THEN {[fd |-> Listener, conn |-> 0]} ELSE {})
  /\ UNCHANGED <<backoff, world, accepted, executed>>

AcceptOne ==
  /\ waiting > 0 /\ \E fd \in Fds \ Open : (\A g \in Fds \ Open : fd <= g) /\ clients' = [clients EXCEPT ![fd] = Accepted(accepted + 1)]
  /\ accepted' = accepted + 1 /\ waiting' = waiting - 1 /\ UNCHANGED <<backoff, failures>>
\* AcceptBackoff::failed(); the next maintain() stops listening.
AcceptFails ==
  /\ failures < MaxFailures /\ failures' = failures + 1 /\ backoff' = TRUE /\ UNCHANGED <<clients, accepted, waiting>>
\* The poll set does not take it.
AcceptLost ==
  /\ waiting > 0 /\ failures < MaxFailures /\ failures' = failures + 1
  /\ accepted' = accepted + 1 /\ waiting' = waiting - 1 /\ UNCHANGED <<clients, backoff>>
Accept(e) ==
  /\ inside /\ e \in events /\ e.fd = Listener /\ events' = events \ {e}
  /\ AcceptOne \/ AcceptFails \/ AcceptLost
  /\ UNCHANGED <<listening, inside, connects, executed>>

Remove(fd) == clients' = [clients EXCEPT ![fd] = Closed]
Update(fd, c) == clients' = [clients EXCEPT ![fd] = c]

\* The body is complete: the command is executed, or submitted to the peer and awaited.
Ran(c) == executed \cup {[conn |-> c.conn, len |-> c.got, cmd |-> c.cmd]}
Complete(fd, c) ==
  /\ executed' = Ran(c)
  /\ IF c.cmd = "remote"
     THEN Update(fd, [c EXCEPT !.at = "pending", !.late = FALSE]) \/ Remove(fd)  \* REQUEST could not be sent
     ELSE Update(fd, Responding(c))
\* A plausible bug: the last piece of the body is not waited for.
ProceedShort(fd, c) == IF c.got + 1 >= LengthOf(c.cmd) THEN Complete(fd, c) ELSE Update(fd, c) /\ UNCHANGED executed
Proceed(fd, c) == IF c.got = LengthOf(c.cmd) THEN Complete(fd, c) ELSE Update(fd, c) /\ UNCHANGED executed

\* A record is read: a header, or a piece of the body; an error is a response.
Read(fd, c) ==
  \/ UNCHANGED <<clients, executed>>                      \* EAGAIN
  \/ Remove(fd) /\ UNCHANGED executed                     \* closed by the peer
  \/ Update(fd, Responding(c)) /\ UNCHANGED executed      \* too large, or not understood
  \/ c.at = "header" /\ \E cmd \in Commands : Proceed(fd, [c EXCEPT !.at = "body", !.cmd = cmd])
  \/ /\ c.at = "body" /\ \E n \in 1 .. 3 :
        IF n > LengthOf(c.cmd) - c.got THEN Update(fd, Responding(c)) /\ UNCHANGED executed
        ELSE Proceed(fd, [c EXCEPT !.got = @ + n])

Client(e) ==
  /\ inside /\ e \in events /\ e.fd # Listener /\ events' = events \ {e}
  /\ LET c == clients[e.fd] IN
     \/ c = Closed /\ UNCHANGED <<clients, executed>>
     \/ c # Closed /\ c.at = "pending" /\ Remove(e.fd) /\ UNCHANGED executed   \* EPOLLRDHUP
     \/ /\ c # Closed /\ c.at = "responding" /\ UNCHANGED executed                           \* flush()
        /\ UNCHANGED clients \/ Remove(e.fd)
     \/ c # Closed /\ c.at \in {"header", "body"} /\ Read(e.fd, c)
  /\ UNCHANGED <<listening, backoff, inside, world, accepted>>

\* bad_alloc ends the call: the client is removed, before its command is executed or when its
\* response cannot be made, and the other events are left to the next call.
Throws(e) ==
  /\ inside /\ e \in events /\ events' = {} /\ inside' = FALSE
  /\ \/ e.fd = Listener /\ AcceptLost /\ UNCHANGED executed
     \/ /\ e.fd # Listener /\ clients[e.fd].at \in {"header", "body"} /\ Remove(e.fd)
        /\ failures < MaxFailures /\ failures' = failures + 1
        /\ LET c == clients[e.fd] IN
           \/ UNCHANGED executed
           \/ executed' = Ran(IF c.at = "header" THEN [c EXCEPT !.cmd = "show"] ELSE [c EXCEPT !.got = LengthOf(c.cmd)])
        /\ UNCHANGED <<backoff, waiting, accepted>>
  /\ UNCHANGED <<listening, connects>>

\* The maintain() at the end, and that of the next poll_fd().
End ==
  /\ inside /\ events = {} /\ inside' = FALSE /\ clients' = Kept /\ listening' = Room(Kept)
  /\ UNCHANGED <<backoff, events, world, accepted, executed>>

-----------------------------------------------------------------------------
Connect ==
  /\ connects < MaxConnects /\ connects' = connects + 1 /\ waiting' = waiting + 1
  /\ UNCHANGED <<clients, listening, backoff, inside, events, accepted, failures, executed>>
\* A client's deadline passes: five seconds, or two hours for a remote request.
Expire(fd) ==
  /\ fd \in Open /\ ~clients[fd].late /\ Update(fd, [clients[fd] EXCEPT !.late = TRUE])
  /\ UNCHANGED <<listening, backoff, inside, events, world, accepted, executed>>
Retry ==
  /\ backoff /\ backoff' = FALSE
  /\ UNCHANGED <<clients, listening, inside, events, world, accepted, executed>>

Loop == Begin \/ (\E e \in events : Accept(e) \/ Client(e) \/ Throws(e)) \/ End
Next == Loop \/ Connect \/ Retry \/ \E fd \in Fds : Expire(fd)
Spec ==
  /\ Init /\ [][Next]_vars /\ WF_vars(Loop) /\ WF_vars(Retry)
  /\ \A fd \in Fds : WF_vars(Expire(fd))

-----------------------------------------------------------------------------
\* A descriptor closed and given out again within one call is not confused: an event waiting
\* to be handled means the connection it was reported for.
EventsCurrent ==
  \A e \in events : e.fd # Listener /\ clients[e.fd] # Closed => clients[e.fd].conn = e.conn

\* A command runs at most once per connection and with the whole body it declared.
WholeCommands ==
  \A x \in executed : x.len = LengthOf(x.cmd) /\ \A y \in executed : x.conn = y.conn => x = y

=============================================================================

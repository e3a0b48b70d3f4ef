------------------------------ MODULE Service -------------------------------
(***************************************************************************)
(* service.c: the status API in the daemon's poll loop.  A round of the    *)
(* loop asks poll for events, does other work, and then goes through the   *)
(* clients poll told about before it accepts new ones.                     *)
(*                                                                         *)
(* Of a request only its length matters: until it is answered it has       *)
(* neither a line feed nor a NUL.  Of a response only its length and what  *)
(* of it is sent.  Sockets and peers are free to do what they may at any   *)
(* moment, so every result of recv and send is possible whenever it is     *)
(* called, and poll may report any event.                                  *)
(***************************************************************************)
EXTENDS Naturals, Sequences, FiniteSets

CONSTANTS Conns,        \* connections of peers
          Limit,        \* cfg->srv_max_listen
          Room,         \* SERVICE_MAX_REQUEST - 1
          MaxResponse,  \* SERVICE_MAX_RESPONSE
          Batch,        \* accepted connections per round (16)
          None

ASSUME ServiceAssumption ==
  /\ Limit \in Nat \ {0} /\ Room \in Nat \ {0} /\ MaxResponse \in Nat \ {0} /\ Batch \in Nat \ {0}
  /\ None \notin Conns \cup Nat

Slots == 0 .. Limit - 1

\* What poll reports of a client: what it was asked for (POLLIN without, POLLOUT
\* with a response), a hang-up, with or without that, or an error.
Events == {"none", "ready", "hup", "err"}

VARIABLES clients,     \* clients[s]: conn, used, sent, len of the response, deadline passed
          queue,       \* connections waiting in the listener
          fds,         \* connections for which the daemon holds a descriptor
          poll_slots,  \* the slot of each client in this poll
          polled,      \* history: the connection of each when poll was called
          knock,       \* POLLIN on the listener in this poll
          over,        \* slots whose deadline is past at the time read by dispatch
          n,           \* loop counter: clients or batch
          pc

vars == <<clients, queue, fds, poll_slots, polled, knock, over, n, pc>>

\* A slot with fd = -1.
Closed == [conn |-> None, used |-> 0, sent |-> 0, len |-> None, late |-> FALSE]

Open(c) == c.conn # None
OpenSlots == {s \in Slots : Open(clients[s])}

\* service_init: the listener is there, every slot is free.
Init ==
  /\ clients = [s \in Slots |-> Closed]
  /\ queue = {} /\ fds = {}
  /\ poll_slots = <<>> /\ polled = <<>>
  /\ knock = FALSE /\ over = {}
  /\ n = 0 /\ pc = "poll"

-----------------------------------------------------------------------------
(* Peers and time.                                                         *)

Connect(c) ==
  /\ pc # "down"
  /\ c \notin queue \cup fds
  /\ queue' = queue \cup {c}
  /\ UNCHANGED <<clients, fds, poll_slots, polled, knock, over, n, pc>>

\* Five seconds have passed since the client was accepted.
Expire(s) ==
  /\ Open(clients[s]) /\ ~clients[s].late
  /\ clients' = [clients EXCEPT ![s].late = TRUE]
  /\ UNCHANGED <<queue, fds, poll_slots, polled, knock, over, n, pc>>

-----------------------------------------------------------------------------
(* The loop.                                                               *)

\* service_pollfds, which takes the open slots in ascending order, and poll, which
\* returns after 250 ms at the latest.
Poll ==
  /\ pc = "poll"
  /\ \E p \in [1 .. Cardinality(OpenSlots) -> OpenSlots] :
       /\ \A j, k \in DOMAIN p : j < k => p[j] < p[k]
       /\ poll_slots' = p
       /\ polled' = [k \in DOMAIN p |-> clients[p[k]].conn]
  /\ knock' = (queue # {})
  /\ pc' = "work"
  /\ UNCHANGED <<clients, queue, fds, over, n>>

\* Signals and packets come first; then service_dispatch reads the clock.
Dispatch ==
  /\ pc = "work"
  /\ over' = {s \in Slots : clients[s].late}
  /\ n' = 1
  /\ pc' = "clients"
  /\ UNCHANGED <<clients, queue, fds, poll_slots, polled, knock>>

\* The length of what service_command answers; too long an answer is replaced by a
\* short one, QUIT has an empty one.
Answer == {IF l > MaxResponse THEN 1 ELSE l : l \in 0 .. MaxResponse + 1}

Replied(c) == {[c EXCEPT !.len = l] : l \in Answer}

\* A line, or the end of the input (also with nothing new, u = used).
Completed(c) == UNION {Replied([c EXCEPT !.used = u]) : u \in c.used .. Room}

\* A part of a line.
Continued(c) == {[c EXCEPT !.used = u] : u \in c.used + 1 .. Room - 1}

\* Mutants of Received: a full buffer is not answered ...
ReceivedNoLimit(c, event) ==
  IF c.len # None \/ event \notin {"ready", "hup"} THEN {c}
  ELSE {c, Closed} \cup Completed(c) \cup {[c EXCEPT !.used = u] : u \in c.used + 1 .. Room}

\* ... or a second request is read while the answer is being sent.
ReceivedAgain(c, event) ==
  IF event \notin {"ready", "hup"} THEN {c}
  ELSE {c, Closed} \cup Completed(c) \cup Continued(c)

\* What may have become of client c after the part of the loop that reads: nothing
\* to read or EAGAIN; an error or a NUL; a line; a part of one; a buffer full without one.
Received(c, event) ==
  IF c.len # None \/ event \notin {"ready", "hup"} THEN {c}
  ELSE {c, Closed} \cup Completed(c) \cup Continued(c) \cup {[c EXCEPT !.used = Room, !.len = 1]}

\* ... and after the part that writes: EAGAIN; an error or all sent; a part sent.
\* An empty response needs no event.
Sent(c, event, asked) ==
  IF c.len = None THEN {c}
  ELSE IF event = "hup" \/ (event = "ready" /\ asked = "OUT")
  THEN {c, Closed} \cup {[c EXCEPT !.sent = b] : b \in c.sent + 1 .. c.len - 1}
  ELSE {IF c.len = 0 THEN Closed ELSE c}

\* Mutant of PollSlot: the clients are taken in order, without poll_slots.
PollSlotByPosition(k) == k - 1

PollSlot(k) == poll_slots[k]

\* Mutant of Overdue: only a client that has an event is looked at.
OverdueIfActive(s, event) == (s \in over /\ event # "none") \/ event = "err"

\* Past its deadline, POLLERR or POLLNVAL.
Overdue(s, event) == s \in over \/ event = "err"

\* One client of this poll.  Nothing but its deadline has changed since poll was
\* called, so the event may be chosen now.
Serve ==
  /\ pc = "clients" /\ n <= Len(polled)
  /\ LET s == PollSlot(n)
         asked == IF clients[s].len = None THEN "IN" ELSE "OUT"
     IN  \E e \in Events :
         \E c \in IF Overdue(s, e) THEN {Closed}
                  ELSE UNION {Sent(d, e, asked) : d \in Received(clients[s], e)} :
           /\ clients' = [clients EXCEPT ![s] = c]
           /\ fds' = IF Open(c) THEN fds ELSE fds \ {clients[s].conn}
  /\ n' = n + 1
  /\ UNCHANGED <<queue, poll_slots, polled, knock, over, pc>>

\* The values of this round are not used again.
Served ==
  /\ pc = "clients" /\ n > Len(polled)
  /\ n' = 0
  /\ pc' = IF knock THEN "accept" ELSE "poll"
  /\ poll_slots' = <<>> /\ polled' = <<>> /\ knock' = FALSE /\ over' = {}
  /\ UNCHANGED <<clients, queue, fds>>

FirstFree(s) == s \in Slots \ OpenSlots /\ \A t \in 0 .. s - 1 : t \in OpenSlots

\* Mutant of Admit: a connection too many is forgotten, not closed.
AdmitForgets(c) ==
  /\ fds' = fds \cup {c}
  /\ \/ OpenSlots = Slots /\ UNCHANGED clients
     \/ \E s \in Slots : FirstFree(s) /\ clients' = [clients EXCEPT ![s] = [Closed EXCEPT !.conn = c]]

\* The first free slot, or none: then the connection is closed.
Admit(c) ==
  \/ OpenSlots = Slots /\ UNCHANGED <<clients, fds>>
  \/ \E s \in Slots :
       /\ FirstFree(s)
       /\ clients' = [clients EXCEPT ![s] = [Closed EXCEPT !.conn = c]]
       /\ fds' = fds \cup {c}

\* One accept4 of the batch.
Accept ==
  /\ pc = "accept" /\ n < Batch
  /\ \E c \in queue : queue' = queue \ {c} /\ Admit(c)
  /\ n' = n + 1
  /\ UNCHANGED <<poll_slots, polled, knock, over, pc>>

\* The queue is empty, accept4 fails, or the batch is full.
Accepted ==
  /\ pc = "accept"
  /\ n' = 0 /\ pc' = "poll"
  /\ UNCHANGED <<clients, queue, fds, poll_slots, polled, knock, over>>

\* The loop was left after its work: service_end.  The listener's queue goes with it.
service_end ==
  /\ pc = "work"
  /\ clients' = [s \in Slots |-> Closed]
  /\ queue' = {}
  /\ fds' = fds \ {clients[s].conn : s \in OpenSlots}
  /\ pc' = "down"
  /\ UNCHANGED <<poll_slots, polled, knock, over, n>>

Loop == Poll \/ Dispatch \/ Serve \/ Served \/ Accept \/ Accepted

Next ==
  \/ Loop
  \/ service_end
  \/ \E c \in Conns : Connect(c)
  \/ \E s \in Slots : Expire(s)

Spec == Init /\ [][Next]_vars

\* The loop goes round, at least four times a second, and time passes.
FairSpec == Spec /\ WF_vars(Loop) /\ \A s \in Slots : WF_vars(Expire(s))

-----------------------------------------------------------------------------
(* Properties.                                                             *)

\* Every descriptor the daemon holds is in exactly one slot, so none leaks and none
\* is closed twice, also when more peers connect than there are slots.
DescriptorsExact ==
  /\ fds = {clients[s].conn : s \in OpenSlots}
  /\ \A s, t \in OpenSlots : clients[s].conn = clients[t].conn => s = t

\* An event of poll is applied to the connection it was reported for, although
\* slots are closed and reused all the time (poll_slots).
EventsReachTheirClient ==
  pc \in {"work", "clients"} =>
    \A k \in 1 .. Len(polled) :
       pc = "work" \/ k >= n => clients[PollSlot(k)].conn = polled[k]

\* recv is never called with no room: its 0 would be taken for the end of the
\* request, and a request cut off at the limit would be executed.
RoomToReceive == \A s \in OpenSlots : clients[s].len = None => clients[s].used < Room

\* One answer per connection: once there is a response it stays the same and is
\* sent from the front to the end, until the connection is closed.
OneAnswer ==
  [][\A s \in Slots :
       clients[s].len # None /\ Open(clients'[s]) =>
         /\ clients'[s].len = clients[s].len
         /\ clients'[s].sent >= clients[s].sent]_vars

\* "Each client has a five-second total deadline" (api.md): every connection ends,
\* be its peer silent, slow or busy.
ConnectionsEnd == \A c \in Conns : c \in fds ~> c \notin fds

=============================================================================

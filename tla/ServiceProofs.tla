---------------------------- MODULE ServiceProofs ---------------------------
(***************************************************************************)
(* Proofs about Service: descriptors, events and requests of the status    *)
(* API, for any number of peers, slots and bytes.                          *)
(***************************************************************************)
EXTENDS Service, FiniteSetTheorems, TLAPS

Client == [conn : Conns \cup {None}, used : Nat, sent : Nat, len : Nat \cup {None}, late : BOOLEAN]

HasRoom(c) == IF Open(c) THEN c.len = None => c.used < Room ELSE c.len = None

\* What a turn of the loop of service_dispatch may make of a client.
Turn(c, d) ==
  \/ d = Closed
  \/ /\ d \in Client /\ Open(d) /\ d.conn = c.conn
     /\ HasRoom(c) => HasRoom(d)
     /\ c.len # None => d.len = c.len /\ d.sent >= c.sent

LEMMA ClosedIsClient == Closed \in Client /\ ~Open(Closed) /\ HasRoom(Closed)
BY ServiceAssumption DEF Closed, Client, Open, HasRoom

LEMMA AnswerIsNat == Answer \subseteq Nat
BY ServiceAssumption DEF Answer

LEMMA UsedTurn ==
  ASSUME NEW c \in Client, Open(c), c.len = None, NEW u \in Nat, NEW d, d = [c EXCEPT !.used = u]
  PROVE  /\ d \in Client /\ Open(d) /\ d.conn = c.conn /\ d.len = None
         /\ u < Room => Turn(c, d)
BY DEF Turn, Client, HasRoom, Open

LEMMA RepliedTurn ==
  ASSUME NEW c \in Client, Open(c), c.len = None, NEW u \in Nat, NEW d \in Replied([c EXCEPT !.used = u])
  PROVE  Turn(c, d)
<1> DEFINE b == [c EXCEPT !.used = u]
<1>1. b \in Client /\ Open(b) /\ b.conn = c.conn
  BY UsedTurn, Zenon
<1> HIDE DEF b
<1>2. PICK l \in Answer : d = [b EXCEPT !.len = l]
  BY Zenon DEF Replied, b
<1>3. l \in Nat /\ l # None
  BY AnswerIsNat, ServiceAssumption
<1> QED
  BY <1>1, <1>2, <1>3 DEF Turn, Client, HasRoom, Open

LEMMA ReceivedTurn ==
  ASSUME NEW c \in Client, Open(c), NEW e, NEW d \in Received(c, e)
  PROVE  Turn(c, d)
<1>1. CASE d = c
  BY <1>1 DEF Turn, Client
<1>2. CASE d = Closed
  BY <1>2, Zenon DEF Turn
<1>3. ASSUME c.len = None, NEW u \in c.used .. Room, d \in Replied([c EXCEPT !.used = u])
      PROVE  Turn(c, d)
  <2>1. u \in Nat
    BY <1>3, ServiceAssumption DEF Client
  <2> QED
    BY <1>3, <2>1, RepliedTurn, Zenon
<1>4. ASSUME c.len = None, NEW u \in c.used + 1 .. Room - 1, d = [c EXCEPT !.used = u]
      PROVE  Turn(c, d)
  <2>1. u \in Nat /\ u < Room
    BY <1>4, ServiceAssumption DEF Client
  <2> QED
    BY <1>4, <2>1, UsedTurn, Zenon
<1>5. ASSUME c.len = None, d = [c EXCEPT !.used = Room, !.len = 1]
      PROVE  Turn(c, d)
  <2>1. Room \in Nat /\ 1 \in Nat /\ 1 # None
    BY ServiceAssumption
  <2> QED
    BY <1>5, <2>1, Zenon DEF Turn, Client, HasRoom, Open
<1>6. \/ d = c \/ d = Closed
      \/ c.len = None /\ \E u \in c.used .. Room : d \in Replied([c EXCEPT !.used = u])
      \/ c.len = None /\ \E u \in c.used + 1 .. Room - 1 : d = [c EXCEPT !.used = u]
      \/ c.len = None /\ d = [c EXCEPT !.used = Room, !.len = 1]
  <2>1. \/ d = c \/ d = Closed
        \/ c.len = None /\ (d \in Completed(c) \/ d \in Continued(c))
        \/ c.len = None /\ d = [c EXCEPT !.used = Room, !.len = 1]
    BY Zenon DEF Received
  <2> QED
    BY <2>1, Zenon DEF Completed, Continued
<1> QED
  BY <1>1, <1>2, <1>3, <1>4, <1>5, <1>6, Zenon

LEMMA SentTurn ==
  ASSUME NEW c \in Client, Open(c) \/ c = Closed, NEW e, NEW a, NEW d \in Sent(c, e, a)
  PROVE  Turn(c, d)
<1>1. CASE d = c
  BY <1>1 DEF Turn, Client
<1>2. CASE d = Closed
  BY <1>2, Zenon DEF Turn
<1>3. ASSUME c.len # None, c # Closed, NEW b \in c.sent + 1 .. c.len - 1, d = [c EXCEPT !.sent = b]
      PROVE  Turn(c, d)
  BY <1>3, ServiceAssumption DEF Turn, Client, HasRoom, Open
<1>4. c = Closed => d = c
  BY DEF Sent, Closed
<1> QED
  BY <1>1, <1>2, <1>3, <1>4, Zenon DEF Sent

LEMMA TurnTurn ==
  ASSUME NEW c \in Client, NEW d, NEW b, Turn(c, d), Turn(d, b)
  PROVE  Turn(c, b)
<1>1. CASE b = Closed
  BY <1>1, Zenon DEF Turn
<1>2. CASE d = Closed
  BY <1>2 DEF Turn, Closed, HasRoom, Open, Client
<1>3. CASE d # Closed /\ b # Closed
  BY <1>3 DEF Turn, Client, HasRoom, Open
<1> QED
  BY <1>1, <1>2, <1>3, Zenon

-----------------------------------------------------------------------------
(* The invariant.                                                          *)

\* The slots of a poll are different, and those still to be served hold what was polled.
Polled ==
  pc \in {"work", "clients"} =>
    /\ Len(polled) \in Nat
    /\ \A k \in 1 .. Len(polled) : poll_slots[k] \in Slots /\ polled[k] \in Conns
    /\ \A j, k \in 1 .. Len(polled) : poll_slots[j] = poll_slots[k] => j = k
    /\ EventsReachTheirClient

SInv ==
  /\ clients \in [Slots -> Client] /\ queue \subseteq Conns /\ fds \subseteq Conns
  /\ n \in Nat /\ pc \in {"poll", "work", "clients", "accept", "down"}
  /\ queue \cap fds = {}
  /\ pc = "clients" => n > 0
  /\ DescriptorsExact
  /\ \A s \in Slots : HasRoom(clients[s])
  /\ Polled

LEMMA ServeTurn ==
  ASSUME SInv, Serve
  PROVE  \E c : /\ Turn(clients[poll_slots[n]], c)
               /\ clients' = [clients EXCEPT ![poll_slots[n]] = c]
               /\ fds' = IF Open(c) THEN fds ELSE fds \ {clients[poll_slots[n]].conn}
<1> DEFINE s == poll_slots[n]
           asked == IF clients[s].len = None THEN "IN" ELSE "OUT"
<1>1. n \in 1 .. Len(polled)
  BY DEF SInv, Serve, Polled
<1>2. s \in Slots /\ clients[s].conn = polled[n] /\ polled[n] \in Conns
  <2>1. pc = "clients" /\ n >= n
    BY DEF Serve, SInv
  <2> QED
    BY <1>1, <2>1, Zenon DEF SInv, Polled, EventsReachTheirClient, PollSlot
<1>3. clients[s] \in Client /\ Open(clients[s])
  BY <1>2, ServiceAssumption DEF SInv, Open
<1> HIDE DEF s
<1>4. PICK e \in Events :
        \E c \in IF Overdue(s, e) THEN {Closed}
                 ELSE UNION {Sent(d, e, asked) : d \in Received(clients[s], e)} :
          /\ clients' = [clients EXCEPT ![s] = c]
          /\ fds' = IF Open(c) THEN fds ELSE fds \ {clients[s].conn}
  BY Zenon DEF Serve, PollSlot, s
<1> HIDE DEF asked
<1>5. PICK c : /\ \/ c = Closed
                  \/ \E d \in Received(clients[s], e) : c \in Sent(d, e, asked)
               /\ clients' = [clients EXCEPT ![s] = c]
               /\ fds' = IF Open(c) THEN fds ELSE fds \ {clients[s].conn}
  BY <1>4, Zenon
<1>6. Turn(clients[s], c)
  <2>1. CASE c = Closed
    BY <2>1, Zenon DEF Turn
  <2>2. ASSUME NEW d \in Received(clients[s], e), c \in Sent(d, e, asked)
        PROVE  Turn(clients[s], c)
    <3>1. Turn(clients[s], d)
      BY <1>3, ReceivedTurn, Zenon
    <3>2. d \in Client /\ (Open(d) \/ d = Closed)
      BY <3>1, ClosedIsClient, Zenon DEF Turn
    <3>3. Turn(d, c)
      BY <2>2, <3>2, SentTurn, Zenon
    <3> QED
      BY <1>3, <3>1, <3>3, TurnTurn, Zenon
  <2> QED
    BY <1>5, <2>1, <2>2, Zenon
<1> QED
  BY <1>5, <1>6, Zenon DEF s

\* A slot that was open stays as it is, changes as Turn says, or is closed.
LEMMA CloseKeeps ==
  ASSUME SInv, NEW s \in Slots, Open(clients[s]), NEW c, Turn(clients[s], c),
         clients' = [clients EXCEPT ![s] = c],
         fds' = IF Open(c) THEN fds ELSE fds \ {clients[s].conn}
  PROVE  /\ clients' \in [Slots -> Client] /\ fds' \subseteq fds
         /\ DescriptorsExact' /\ \A t \in Slots : HasRoom(clients'[t])
<1>1. c \in Client /\ (c = Closed \/ c.conn = clients[s].conn)
  BY ClosedIsClient, Zenon DEF Turn
<1>2. clients \in [Slots -> Client]
  BY Zenon DEF SInv
<1>3. /\ clients' \in [Slots -> Client]
      /\ clients'[s] = c /\ \A t \in Slots \ {s} : clients'[t] = clients[t]
  BY <1>1, <1>2
<1>4. HasRoom(c)
  BY ClosedIsClient, Zenon DEF Turn, SInv, HasRoom
<1>5. \A t \in Slots : HasRoom(clients'[t])
  BY <1>3, <1>4, Zenon DEF SInv
<1>6. fds' \subseteq fds
  BY Zenon
<1>7. CASE Open(c)
  <2>1. c.conn = clients[s].conn
    BY <1>1, <1>7, ClosedIsClient, Zenon
  <2>2. \A t \in Slots : clients'[t].conn = clients[t].conn
    BY <1>3, <2>1, Zenon
  <2>3. OpenSlots' = OpenSlots
    BY <2>2, Zenon DEF OpenSlots, Open
  <2>4. DescriptorsExact'
    <3>1. {clients'[t].conn : t \in OpenSlots} = {clients[t].conn : t \in OpenSlots}
      BY <2>2 DEF OpenSlots
    <3>2. fds' = fds
      BY <1>7, Zenon
    <3> QED
      BY <2>2, <2>3, <3>1, <3>2 DEF SInv, DescriptorsExact, OpenSlots
  <2> QED
    BY <1>3, <1>5, <1>6, <2>4, Zenon
<1>8. CASE ~Open(c)
  <2>1. OpenSlots' = OpenSlots \ {s}
    BY <1>3, <1>8, Zenon DEF OpenSlots
  <2>2. \A t \in OpenSlots' : clients'[t] = clients[t]
    BY <1>3, <2>1, Zenon DEF OpenSlots
  <2>3. fds' = fds \ {clients[s].conn}
    BY <1>8, Zenon
  <2>4. s \in OpenSlots
    BY Zenon DEF OpenSlots
  <2>5. DescriptorsExact
    BY Zenon DEF SInv
  <2>6. DescriptorsExact'
    BY <2>1, <2>2, <2>3, <2>4, <2>5 DEF DescriptorsExact
  <2> QED
    BY <1>3, <1>5, <1>6, <2>6, Zenon
<1> QED
  BY <1>7, <1>8, Zenon

\* Steps that leave the clients alone.
LEMMA FrameS ==
  ASSUME SInv, UNCHANGED <<clients, fds>>
  PROVE  /\ clients' \in [Slots -> Client] /\ fds' \subseteq Conns
         /\ DescriptorsExact' /\ \A s \in Slots : HasRoom(clients'[s])
<1>1. UNCHANGED DescriptorsExact
  BY DEF DescriptorsExact, OpenSlots
<1> QED
  BY <1>1, Zenon DEF SInv

\* ... and the poll.
LEMMA FramePolled ==
  ASSUME Polled, \A s \in Slots : clients'[s].conn = clients[s].conn,
         UNCHANGED <<poll_slots, polled, n, pc>>
  PROVE  Polled'
BY Zenon DEF Polled, EventsReachTheirClient, PollSlot

LEMMA PollStep ==
  ASSUME SInv, Poll
  PROVE  SInv'
<1>1. PICK p \in [1 .. Cardinality(OpenSlots) -> OpenSlots] :
        /\ \A j, k \in DOMAIN p : j < k => p[j] < p[k]
        /\ poll_slots' = p
        /\ polled' = [k \in DOMAIN p |-> clients[p[k]].conn]
  BY Zenon DEF Poll
<1> DEFINE m == Cardinality(OpenSlots)
<1>2. m \in Nat
  <2>1. IsFiniteSet(Slots)
    BY FS_Interval, ServiceAssumption DEF Slots
  <2>2. OpenSlots \in SUBSET Slots
    BY Zenon DEF OpenSlots
  <2> QED
    BY <2>1, <2>2, FS_Subset, FS_CardinalityType, Zenon
<1> HIDE DEF m
<1>3. p \in [1 .. m -> OpenSlots]
  BY Zenon DEF m
<1>4. /\ DOMAIN p = 1 .. m /\ \A k \in 1 .. m : p[k] \in OpenSlots
      /\ polled' = [k \in 1 .. m |-> clients[p[k]].conn]
  BY <1>1, <1>3, Zenon
<1>5. Len(polled') = m
  BY <1>2, <1>4
<1>6. \A k \in 1 .. m : /\ poll_slots'[k] \in Slots /\ polled'[k] \in Conns
                        /\ polled'[k] = clients[poll_slots'[k]].conn
  <2>1. ASSUME NEW k \in 1 .. m
        PROVE  polled'[k] = clients[p[k]].conn /\ p[k] \in Slots /\ clients[p[k]].conn \in Conns
    <3>1. p[k] \in Slots /\ clients[p[k]].conn # None
      BY <1>4, Zenon DEF OpenSlots, Open
    <3>2. clients[p[k]] \in Client
      BY <3>1, Zenon DEF SInv
    <3>3. clients[p[k]].conn \in Conns
      BY <3>1, <3>2 DEF Client
    <3> QED
      BY <1>4, <3>1, <3>3, Zenon
  <2> QED
    BY <1>1, <2>1, Zenon
<1>7. \A j, k \in 1 .. m : poll_slots'[j] = poll_slots'[k] => j = k
  <2>1. \A k \in 1 .. m : p[k] \in Nat
    BY <1>4, ServiceAssumption DEF OpenSlots, Slots
  <2>2. \A j, k \in 1 .. m : j < k => p[j] < p[k]
    BY <1>1, <1>4, Zenon
  <2>3. \A j, k \in 1 .. m : p[j] = p[k] => j = k
    BY <1>2, <2>1, <2>2
  <2> QED
    BY <1>1, <2>3, Zenon
<1>8. UNCHANGED <<clients, queue, fds, n>> /\ pc' = "work"
  BY Zenon DEF Poll
<1>9. Polled'
  BY <1>2, <1>5, <1>6, <1>7, <1>8, Zenon DEF Polled, EventsReachTheirClient, PollSlot
<1>10. /\ clients' \in [Slots -> Client] /\ fds' \subseteq Conns
       /\ DescriptorsExact' /\ \A s \in Slots : HasRoom(clients'[s])
  BY <1>8, FrameS, Zenon
<1> QED
  BY <1>8, <1>9, <1>10, Zenon DEF SInv

LEMMA ServeStep ==
  ASSUME SInv, Serve
  PROVE  SInv'
<1> DEFINE s == poll_slots[n]
<1>1. n \in 1 .. Len(polled)
  BY DEF SInv, Serve, Polled
<1>2. s \in Slots /\ clients[s].conn = polled[n] /\ polled[n] \in Conns
  <2>1. pc = "clients" /\ n >= n
    BY DEF Serve, SInv
  <2> QED
    BY <1>1, <2>1, Zenon DEF SInv, Polled, EventsReachTheirClient, PollSlot
<1>3. Open(clients[s])
  BY <1>2, ServiceAssumption DEF Open
<1>4. PICK c : /\ Turn(clients[s], c)
               /\ clients' = [clients EXCEPT ![s] = c]
               /\ fds' = IF Open(c) THEN fds ELSE fds \ {clients[s].conn}
  BY ServeTurn, Zenon
<1>5. /\ clients' \in [Slots -> Client] /\ fds' \subseteq fds
      /\ DescriptorsExact' /\ \A t \in Slots : HasRoom(clients'[t])
  <2> HIDE DEF s
  <2> QED
    BY <1>2, <1>3, <1>4, CloseKeeps, Zenon
<1>6. pc = "clients" /\ n' = n + 1 /\ UNCHANGED <<queue, poll_slots, polled, knock, over, pc>>
  BY Zenon DEF Serve
<1>7. \A t \in Slots : t # s => clients'[t] = clients[t]
  BY <1>4, Zenon DEF SInv
<1>8. Polled'
  <2>1. /\ Len(polled) \in Nat
        /\ \A k \in 1 .. Len(polled) : poll_slots[k] \in Slots /\ polled[k] \in Conns
        /\ \A j, k \in 1 .. Len(polled) : poll_slots[j] = poll_slots[k] => j = k
        /\ \A k \in 1 .. Len(polled) : k >= n => clients[poll_slots[k]].conn = polled[k]
    BY <1>6, Zenon DEF SInv, Polled, EventsReachTheirClient, PollSlot
  <2>2. ASSUME NEW k \in 1 .. Len(polled), k >= n'
        PROVE  clients'[poll_slots[k]].conn = polled[k]
    <3>1. k >= n /\ k # n
      BY <1>1, <1>6, <2>1, <2>2
    <3>2. poll_slots[k] \in Slots /\ poll_slots[k] # s
      BY <1>1, <2>1, <3>1, Zenon
    <3> QED
      BY <1>7, <2>1, <3>1, <3>2, Zenon
  <2> QED
    BY <1>6, <2>1, <2>2, Zenon DEF Polled, EventsReachTheirClient, PollSlot
<1>9. n' \in Nat /\ n' > 0
  BY <1>6 DEF SInv
<1> QED
  BY <1>5, <1>6, <1>8, <1>9, Zenon DEF SInv

LEMMA AcceptStep ==
  ASSUME SInv, Accept
  PROVE  SInv'
<1>1. PICK c \in queue : queue' = queue \ {c} /\ Admit(c)
  BY Zenon DEF Accept
<1>2. pc = "accept" /\ n' = n + 1 /\ UNCHANGED <<poll_slots, polled, knock, over, pc>>
  BY Zenon DEF Accept
<1>3. n' \in Nat /\ Polled' /\ pc' \in {"poll", "work", "clients", "accept", "down"} /\ ~(pc' = "clients")
  BY <1>2 DEF SInv, Polled
<1>4. queue' \subseteq Conns /\ c \in Conns /\ c \notin fds
  BY <1>1, Zenon DEF SInv
<1>5. CASE OpenSlots = Slots /\ UNCHANGED <<clients, fds>>
  <2>1. /\ clients' \in [Slots -> Client] /\ fds' \subseteq Conns
        /\ DescriptorsExact' /\ \A s \in Slots : HasRoom(clients'[s])
    BY <1>5, FrameS, Zenon
  <2>2. queue' \cap fds' = {}
    BY <1>1, <1>5, Zenon DEF SInv
  <2> QED
    BY <1>3, <1>4, <2>1, <2>2, Zenon DEF SInv
<1>6. ASSUME NEW s \in Slots, FirstFree(s), clients' = [clients EXCEPT ![s] = [Closed EXCEPT !.conn = c]],
             fds' = fds \cup {c}
      PROVE  SInv'
  <2> DEFINE d == [Closed EXCEPT !.conn = c]
  <2>1. d \in Client /\ d.conn = c /\ Open(d) /\ HasRoom(d)
    <3>1. Closed \in Client /\ Closed.used = 0
      BY ClosedIsClient, Zenon DEF Closed
    <3>2. c # None /\ 0 < Room
      BY <1>4, ServiceAssumption
    <3>3. d \in Client /\ d.conn = c /\ d.used = 0
      BY <1>4, <3>1, Zenon DEF Client
    <3> HIDE DEF d
    <3> QED
      BY <3>2, <3>3, Zenon DEF Open, HasRoom
  <2> HIDE DEF d
  <2>2. clients' = [clients EXCEPT ![s] = d] /\ clients \in [Slots -> Client]
    BY <1>6, Zenon DEF d, SInv
  <2>3. /\ clients' \in [Slots -> Client] /\ clients'[s] = d
        /\ \A t \in Slots \ {s} : clients'[t] = clients[t]
    BY <2>1, <2>2
  <2>4. OpenSlots' = OpenSlots \cup {s} /\ s \notin OpenSlots
    BY <1>6, <2>1, <2>3, Zenon DEF OpenSlots, FirstFree
  <2>5. \A t \in OpenSlots : clients'[t] = clients[t]
    BY <2>3, <2>4, Zenon DEF OpenSlots
  <2>6. DescriptorsExact'
    <3>1. DescriptorsExact
      BY Zenon DEF SInv
    <3> QED
      BY <1>4, <1>6, <2>1, <2>3, <2>4, <2>5, <3>1 DEF DescriptorsExact
  <2>7. \A t \in Slots : HasRoom(clients'[t])
    BY <2>1, <2>3, Zenon DEF SInv
  <2>8. queue' \cap fds' = {} /\ fds' \subseteq Conns
    BY <1>1, <1>4, <1>6, Zenon DEF SInv
  <2> QED
    BY <1>3, <1>4, <2>3, <2>6, <2>7, <2>8, Zenon DEF SInv
<1> QED
  BY <1>1, <1>5, <1>6, Zenon DEF Admit

LEMMA ExpireStep ==
  ASSUME SInv, NEW s \in Slots, Expire(s)
  PROVE  SInv'
<1> DEFINE d == [clients[s] EXCEPT !.late = TRUE]
<1>1. Open(clients[s]) /\ clients[s] \in Client /\ clients' = [clients EXCEPT ![s].late = TRUE]
  BY Zenon DEF Expire, SInv
<1>2. Turn(clients[s], d) /\ Open(d) /\ d.conn = clients[s].conn
  <2>1. /\ d \in Client /\ d.conn = clients[s].conn /\ d.len = clients[s].len
        /\ d.used = clients[s].used /\ d.sent = clients[s].sent
    BY <1>1, Zenon DEF Client
  <2>2. clients[s].sent >= clients[s].sent
    BY <1>1 DEF Client
  <2> HIDE DEF d
  <2> QED
    BY <1>1, <2>1, <2>2, Zenon DEF Turn, HasRoom, Open
<1>3. clients' = [clients EXCEPT ![s] = d]
  BY <1>1, Zenon DEF SInv
<1> HIDE DEF d
<1>4. UNCHANGED <<queue, fds, poll_slots, polled, knock, over, n, pc>>
  BY Zenon DEF Expire
<1>5. /\ clients' \in [Slots -> Client] /\ DescriptorsExact' /\ \A t \in Slots : HasRoom(clients'[t])
  <2>1. fds' = IF Open(d) THEN fds ELSE fds \ {clients[s].conn}
    BY <1>2, <1>4, Zenon
  <2> QED
    BY <1>1, <1>2, <1>3, <2>1, CloseKeeps, Zenon
<1>6. \A t \in Slots : clients'[t].conn = clients[t].conn
  BY <1>2, <1>3 DEF SInv
<1>7. Polled'
  BY <1>4, <1>6, FramePolled, Zenon DEF SInv
<1> QED
  BY <1>4, <1>5, <1>7, Zenon DEF SInv

LEMMA ServiceSteps == SInv /\ [Next]_vars => SInv'
<1> SUFFICES ASSUME SInv, [Next]_vars PROVE SInv'
  OBVIOUS
<1>1. CASE Dispatch
  <2>1. /\ UNCHANGED <<clients, queue, fds, poll_slots, polled>>
        /\ pc = "work" /\ n' = 1 /\ pc' = "clients"
    BY <1>1, Zenon DEF Dispatch
  <2>2. /\ clients' \in [Slots -> Client] /\ fds' \subseteq Conns
        /\ DescriptorsExact' /\ \A s \in Slots : HasRoom(clients'[s])
    BY <2>1, FrameS, Zenon
  <2>3. Polled'
    BY <2>1, Zenon DEF SInv, Polled, EventsReachTheirClient, PollSlot
  <2>4. n' \in Nat /\ n' > 0
    BY <2>1
  <2> QED
    BY <2>1, <2>2, <2>3, <2>4, Zenon DEF SInv
<1>2. CASE Served \/ Accepted
  <2>1. UNCHANGED <<clients, queue, fds>> /\ n' = 0 /\ pc' \in {"accept", "poll"}
    BY <1>2, Zenon DEF Served, Accepted
  <2>2. /\ clients' \in [Slots -> Client] /\ fds' \subseteq Conns
        /\ DescriptorsExact' /\ \A s \in Slots : HasRoom(clients'[s])
    BY <2>1, FrameS, Zenon
  <2>3. n' \in Nat /\ Polled'
    BY <2>1 DEF Polled
  <2> QED
    BY <2>1, <2>2, <2>3 DEF SInv
<1>3. CASE service_end
  <2>1. /\ clients' = [s \in Slots |-> Closed] /\ queue' = {} /\ pc' = "down" /\ n' = n
        /\ fds' = fds \ {clients[s].conn : s \in OpenSlots}
    BY <1>3, Zenon DEF service_end
  <2>2. clients' \in [Slots -> Client] /\ \A s \in Slots : ~Open(clients'[s])
    BY <2>1, ClosedIsClient, Zenon
  <2>3. OpenSlots' = {} /\ fds' = {}
    BY <2>1, <2>2, Zenon DEF OpenSlots, SInv, DescriptorsExact
  <2>4. DescriptorsExact' /\ \A s \in Slots : HasRoom(clients'[s])
    BY <2>1, <2>3, ClosedIsClient, Zenon DEF DescriptorsExact
  <2>5. Polled'
    BY <2>1 DEF Polled
  <2> QED
    BY <2>1, <2>2, <2>3, <2>4, <2>5 DEF SInv
<1>4. ASSUME NEW c \in Conns, Connect(c) PROVE SInv'
  <2>1. /\ UNCHANGED <<clients, fds, poll_slots, polled, knock, over, n, pc>>
        /\ c \notin fds /\ queue' = queue \cup {c}
    BY <1>4, Zenon DEF Connect
  <2>2. /\ clients' \in [Slots -> Client] /\ fds' \subseteq Conns
        /\ DescriptorsExact' /\ \A s \in Slots : HasRoom(clients'[s])
    BY <2>1, FrameS, Zenon
  <2>3. Polled'
    BY <2>1, FramePolled, Zenon DEF SInv
  <2>4. queue' \subseteq Conns /\ queue' \cap fds' = {}
    BY <2>1, Zenon DEF SInv
  <2> QED
    BY <2>1, <2>2, <2>3, <2>4, Zenon DEF SInv
<1>5. CASE UNCHANGED vars
  <2>1. UNCHANGED <<clients, queue, fds, poll_slots, polled, n, pc>>
    BY <1>5, Zenon DEF vars
  <2>2. /\ clients' \in [Slots -> Client] /\ fds' \subseteq Conns
        /\ DescriptorsExact' /\ \A s \in Slots : HasRoom(clients'[s])
    BY <2>1, FrameS, Zenon
  <2>3. Polled'
    BY <2>1, FramePolled, Zenon DEF SInv
  <2> QED
    BY <2>1, <2>2, <2>3, Zenon DEF SInv
<1> QED
  BY <1>1, <1>2, <1>3, <1>4, <1>5, PollStep, ServeStep, AcceptStep, ExpireStep, Zenon DEF Next, Loop

LEMMA ServiceInit == Init => SInv
<1> SUFFICES ASSUME Init PROVE SInv
  OBVIOUS
<1>1. clients \in [Slots -> Client] /\ \A s \in Slots : ~Open(clients[s])
  BY ClosedIsClient, Zenon DEF Init
<1>2. OpenSlots = {} /\ fds = {} /\ queue = {} /\ n = 0 /\ pc = "poll"
  BY <1>1, Zenon DEF Init, OpenSlots
<1>3. DescriptorsExact /\ \A s \in Slots : HasRoom(clients[s])
  BY <1>2, ClosedIsClient, Zenon DEF DescriptorsExact, Init
<1> QED
  BY <1>1, <1>2, <1>3 DEF SInv, Polled

-----------------------------------------------------------------------------
(* The theorems.                                                           *)

\* No descriptor of service.c leaks, is in two slots, or is closed twice.
THEOREM DescriptorsAreExact == Spec => []DescriptorsExact
<1>1. SInv => DescriptorsExact
  BY Zenon DEF SInv
<1> QED
  BY <1>1, ServiceInit, ServiceSteps, PTL DEF Spec

\* service_dispatch applies each event of poll to the connection it is about.
THEOREM EventsAreApplied == Spec => []EventsReachTheirClient
<1>1. SInv => EventsReachTheirClient
  BY Zenon DEF SInv, Polled, EventsReachTheirClient
<1> QED
  BY <1>1, ServiceInit, ServiceSteps, PTL DEF Spec

\* recv always has room, so its 0 is the end of the input.
THEOREM RecvHasRoom == Spec => []RoomToReceive
<1>1. SInv => RoomToReceive
  BY Zenon DEF SInv, RoomToReceive, HasRoom, OpenSlots
<1> QED
  BY <1>1, ServiceInit, ServiceSteps, PTL DEF Spec

\* A response, once there is one, is sent from front to end and never replaced.
THEOREM AnswersOnce == Spec => OneAnswer
<1> DEFINE Kept(s) == clients[s].len # None /\ Open(clients'[s]) =>
                        clients'[s].len = clients[s].len /\ clients'[s].sent >= clients[s].sent
<1>1. ASSUME SInv, Next, NEW s \in Slots PROVE Kept(s)
  <2>1. clients[s] \in Client /\ clients[s].sent \in Nat
    BY <1>1 DEF SInv, Client
  <2>2. clients[s].sent >= clients[s].sent
    BY <2>1
  <2>3. CASE clients' = clients
    BY <2>2, <2>3, Zenon
  <2>4. CASE Serve
    <3>1. PICK c : /\ Turn(clients[poll_slots[n]], c)
                   /\ clients' = [clients EXCEPT ![poll_slots[n]] = c]
      BY <1>1, <2>4, ServeTurn, Zenon
    <3>2. CASE s = poll_slots[n]
      <4>1. clients'[s] = c
        BY <1>1, <3>1, <3>2, Zenon DEF SInv
      <4> QED
        BY <3>1, <3>2, <4>1, ClosedIsClient, Zenon DEF Turn
    <3>3. CASE s # poll_slots[n]
      <4>1. clients'[s] = clients[s]
        BY <1>1, <3>1, <3>3, Zenon DEF SInv
      <4> QED
        BY <2>2, <4>1, Zenon
    <3> QED
      BY <3>2, <3>3, Zenon
  <2>5. ASSUME NEW t \in Slots, Expire(t) PROVE Kept(s)
    <3>1. clients' = [clients EXCEPT ![t].late = TRUE] /\ clients \in [Slots -> Client]
      BY <1>1, <2>5, Zenon DEF Expire, SInv
    <3>2. clients'[s].len = clients[s].len /\ clients'[s].sent = clients[s].sent
      BY <3>1 DEF Client
    <3> QED
      BY <2>2, <3>2, Zenon
  <2>6. ASSUME NEW c, Admit(c) PROVE Kept(s)
    <3>1. CASE UNCHANGED clients
      BY <2>2, <3>1, Zenon
    <3>2. ASSUME NEW t \in Slots, FirstFree(t), clients' = [clients EXCEPT ![t] = [Closed EXCEPT !.conn = c]]
          PROVE  Kept(s)
      <4>1. CASE s = t
        <5>1. ~Open(clients[s])
          BY <3>2, <4>1, Zenon DEF FirstFree, OpenSlots
        <5> QED
          BY <1>1, <5>1, Zenon DEF SInv, HasRoom
      <4>2. CASE s # t
        BY <1>1, <2>2, <3>2, <4>2, Zenon DEF SInv
      <4> QED
        BY <4>1, <4>2, Zenon
    <3> QED
      BY <2>6, <3>1, <3>2, Zenon DEF Admit
  <2>7. CASE service_end
    <3>1. clients'[s] = Closed
      BY <2>7, Zenon DEF service_end
    <3> QED
      BY <3>1, ClosedIsClient, Zenon
  <2> HIDE DEF Kept
  <2>8. UNCHANGED clients \/ Serve \/ (\E c : Admit(c)) \/ service_end \/ (\E t \in Slots : Expire(t))
    BY <1>1, Zenon DEF Next, Loop, Poll, Dispatch, Served, Accept, Accepted, Connect
  <2> QED
    BY <2>3, <2>4, <2>5, <2>6, <2>7, <2>8, Zenon
<1>2. SInv /\ [Next]_vars =>
        [\A s \in Slots :
           clients[s].len # None /\ Open(clients'[s]) =>
             /\ clients'[s].len = clients[s].len
             /\ clients'[s].sent >= clients[s].sent]_vars
  BY <1>1, Zenon
<1> QED
  BY <1>2, ServiceInit, ServiceSteps, PTL DEF Spec, OneAnswer

=============================================================================

------------------------------- MODULE Query --------------------------------
(***************************************************************************)
(* service_cmd.c: what the status API answers from the tables of           *)
(* provision.c.  A request is the sequence of its words; it is answered    *)
(* between two handlers, when pc is "idle".                                *)
(***************************************************************************)
EXTENDS Provision, Sequences

Invalid == [result |-> "INVALID", body |-> {}]
Found(body) == [result |-> "OK", body |-> body]
NotFound == [result |-> "NOTFOUND", body |-> {}]
Empty == [result |-> "NULL", body |-> {}]

\* Answers that say nothing about the tables (HELP, VERS, STAT, and QUIT's none).
Text == [result |-> "OK", body |-> {}]

\* The clients of a remote, sorted.
LMIP(r) == IF r \in tunnels THEN Found(macs[r]) ELSE NotFound

\* The remote of a client and its interface.
GTMC(m) == IF macIndex[m] # None THEN Found({<<macIndex[m], id[macIndex[m]]>>}) ELSE NotFound

\* Every tunnel with its interface.
STUN == IF tunnels = {} THEN Empty ELSE Found({<<r, id[r]>> : r \in tunnels})

\* An argument that is no address or, after valid_mac, no MAC is refused.
service_command(words) ==
  CASE Len(words) = 2 /\ words[1] = "LMIP" /\ words[2] \in Remotes -> LMIP(words[2])
    [] Len(words) = 2 /\ words[1] = "GTMC" /\ words[2] \in Macs -> GTMC(words[2])
    [] Len(words) = 1 /\ words[1] = "STUN" -> STUN
    [] Len(words) = 1 /\ words[1] \in {"VERS", "QUIT", "HELP", "STAT"} -> Text
    [] OTHER -> Invalid

-----------------------------------------------------------------------------
(* Properties.                                                             *)

Listed == service_command(<<"STUN">>).body
Clients(r) == service_command(<<"LMIP", r>>).body
Owner(m) == service_command(<<"GTMC", m>>).body

\* The three commands tell one story at any time, also after an incomplete rollback or
\* cleanup: every owner GTMC names is listed by STUN with the same interface and lists
\* the client in LMIP, and no interface is listed twice.
AnswersAgree ==
  /\ \A m \in Macs : \A e \in Owner(m) : e \in Listed /\ m \in Clients(e[1])
  /\ \A r \in Remotes : \A m \in Clients(r) : \E e \in Owner(m) : e[1] = r
  /\ \A r \in Remotes :
        (service_command(<<"LMIP", r>>).result = "OK") <=> \E e \in Listed : e[1] = r
  /\ \A d, e \in Listed : d[2] = e[2] => d = e

\* "Track immediately so a failed rollback remains visible and can be retried"
\* (provision.c:103): between two handlers every link, jump and permission the daemon
\* has put into the kernel belongs to a tunnel STUN lists, and every client the bridge
\* accepts is listed for it; but for a link whose deletion failed unnoticed
\* (BridgedIsFiltered).
LeftoversVisible ==
  pc = "idle" =>
    \A s \in Slots :
      LET listed == {e \in Listed : e[2] = s}
      IN  /\ link[s] \in Remotes => s \in missed \/ <<link[s], s>> \in listed
          /\ (\E h \in Hooks : jumps[s][h] > 0) => listed # {}
          /\ \A m \in Macs : acceptIn[s][m] > 0 \/ acceptOut[s][m] > 0
                => \E e \in listed : m \in Clients(e[1])

=============================================================================

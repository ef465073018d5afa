---------------------------- MODULE TCPServices ----------------------------
(***************************************************************************)
(* pkg/haproxy/types/tcpservices.go and tcpbackend.go: the TCP services of *)
(* ingresses and gateways, by port and then by hostname, and the TCP       *)
(* backends of the configmap, by port.  A service of a port is a backend   *)
(* or Unassigned; certificate and configuration belong to the port.        *)
(***************************************************************************)
EXTENDS Services

CONSTANTS Port, TCPHost

DefaultHost == "<default>"
Unassigned == <<>>

NewPort == [hosts |-> [h \in TCPHost |-> None], tls |-> "", conf |-> ""]

\* CreateTCPServices
CreateTCPServices == [items |-> [p \in Port |-> None], changed |-> FALSE]

\* acquireTCPPort and acquireHost
AcquireTCPService(s, host, port) ==
    LET item == IF s.items[port] = None THEN NewPort ELSE s.items[port]
    IN  IF item.hosts[host] # None THEN s
        ELSE [items |-> [s.items EXCEPT ![port] = [item EXCEPT !.hosts[host] = Unassigned]],
              changed |-> TRUE]

isEmpty(item) == \A h \in TCPHost : item.hosts[h] = None

\* Mutation: only a port that goes is a change.
RemoveServiceQuiet(s, host, port) ==
    LET item == [s.items[port] EXCEPT !.hosts[host] = None]
    IN  IF s.items[port] = None THEN s
        ELSE [items |-> [s.items EXCEPT ![port] = IF isEmpty(item) THEN None ELSE item],
              changed |-> s.changed \/ isEmpty(item)]

\* RemoveService: the port goes with its last service.
RemoveService(s, host, port) ==
    LET item == [s.items[port] EXCEPT !.hosts[host] = None]
    IN  IF s.items[port] = None THEN s
        ELSE [items |-> [s.items EXCEPT ![port] = IF isEmpty(item) THEN None ELSE item],
              changed |-> s.changed \/ s.items[port].hosts[host] # None
                          \/ host = DefaultHost \/ isEmpty(item)]

Commit(s) == [s EXCEPT !.changed = FALSE]

-----------------------------------------------------------------------------
(* tcpbackend.go                                                           *)

CreateTCPBackends == [items |-> <<>>, add |-> <<>>, del |-> <<>>]

\* Acquire and AddEndpoint: a port that is declared twice has the name of the
\* last service and the endpoints of both.  The items and the added ones are the
\* same objects.
AcquireBackendPort(b, port, name, eps, conf) ==
    LET old == IF port \in DOMAIN b.items THEN b.items[port].eps ELSE <<>>
        item == [name |-> name, eps |-> old \o eps, conf |-> conf]
    IN  [b EXCEPT !.items = Put(@, port, item), !.add = Put(@, port, item)]

\* RemoveAll
RemoveAllBackends(b) ==
    [b EXCEPT !.items = <<>>,
              !.del = [p \in DOMAIN b.items \cup DOMAIN @ |->
                         IF p \in DOMAIN b.items THEN b.items[p] ELSE @[p]]]

ChangedBackends(b) == b.add # b.del

CommitBackends(b) == [b EXCEPT !.add = <<>>, !.del = <<>>]
=============================================================================

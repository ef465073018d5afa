------------------------------ MODULE Services ------------------------------
(***************************************************************************)
(* pkg/converters/utils/services.go: the port of a service a reference     *)
(* means, and the addresses behind it.  A service is                       *)
(* [type, ports, subsets, names, pods, ann, balance]: the last two are     *)
(* annotations.  A port is                                                 *)
(* [name, target, targetNum, port, num]: texts and their numbers, 0 for a  *)
(* target that is a name.  A subset of its endpoints, or an endpoint       *)
(* slice, has ports [name, proto, num] and the                             *)
(* sequences ready and notReady of addresses; names are the addresses of   *)
(* an external name, None if the lookup fails; pods are those its selector *)
(* matches.  An address is a number.                                       *)
(***************************************************************************)
EXTENDS Integers, Sequences, FiniteSets, SequencesExt, TLC

CONSTANTS None

FirstOf(seq, Test(_)) ==
    LET first(found) == IF found = <<>> THEN None ELSE found[1] IN first(SelectSeq(seq, Test))

\* A name or a target port has precedence over the number of another port.
FindServicePort(svc, p) ==
    FirstOf(SelectSeq(svc.ports, LAMBDA port : port.name = p \/ port.target = p)
               \o SelectSeq(svc.ports, LAMBDA port : port.port = p),
            LAMBDA port : TRUE)

\* The number of a target port, or else the port of that name; 0 if there is none.
FindContainerPort(pod, svcPort) ==
    LET number(named) == IF named = None THEN 0 ELSE named.num
    IN  IF svcPort.targetNum > 0 THEN svcPort.targetNum
        ELSE number(FirstOf(pod.ports, LAMBDA p : p.name = svcPort.target))

matchPort(svcPort, epPort) ==
    epPort.proto = "TCP" /\ (svcPort.name = "" \/ svcPort.name = epPort.name)

newEndpoint(ip, num) == <<ip, num>>

Sorted(endpoints) ==
    SortSeq(endpoints, LAMBDA a, b : a[1] < b[1] \/ (a[1] = b[1] /\ a[2] < b[2]))

\* createEndpoints and createEndpointSlices: the addresses of each port that
\* matches.  kind is "ready" or "notReady".
createEndpoints(svc, svcPort, kind) ==
    LET of(ports, ips) ==
            FlattenSeq([n \in DOMAIN ports |->
               [k \in DOMAIN ips |-> newEndpoint(ips[k], ports[n].num)]])
    IN  FlattenSeq([n \in DOMAIN svc.subsets |->
           of(SelectSeq(svc.subsets[n].ports, LAMBDA p : matchPort(svcPort, p)), svc.subsets[n][kind])])

\* None if the name is not resolved.
createEndpointsExternalName(svc, svcPort) ==
    IF svc.names = None THEN None
    ELSE [n \in DOMAIN svc.names |-> newEndpoint(svc.names[n], svcPort.num)]

\* CreateEndpoints: the ready and the other addresses, None if they cannot be read.
CreateEndpoints(svc, svcPort) ==
    LET external == createEndpointsExternalName(svc, svcPort)
    IN  IF svc.type # "ExternalName"
        THEN [ready |-> Sorted(createEndpoints(svc, svcPort, "ready")),
              notReady |-> Sorted(createEndpoints(svc, svcPort, "notReady"))]
        ELSE IF external = None THEN None ELSE [ready |-> Sorted(external), notReady |-> <<>>]

\* isTerminatingPod, for a pod the selector of the service matches.
isTerminatingPod(pod) == pod.deleted /\ pod.reason # "NodeLost" /\ pod.ip # 0

GetTerminatingPods(svc) == SelectSeq(svc.pods, isTerminatingPod)

Put(f, k, v) == [x \in DOMAIN f \cup {k} |-> IF x = k THEN v ELSE f[x]]

Weighted(ready, drained, weight) ==
    [ep \in ready \cup drained |-> IF ep \in drained THEN 0 ELSE weight]

\* addEndpoints of the ingress converter: the weight of each address.  An address
\* that is drained has the weight 0, also if it was ready.
addEndpoints(svc, svcPort, drain, weight) ==
    LET pods == {pod \in Range(GetTerminatingPods(svc)) : FindContainerPort(pod, svcPort) > 0}
        added(eps) ==
            IF eps = None THEN <<>>
            ELSE Weighted(Range(eps.ready),
                          IF ~drain THEN {}
                          ELSE Range(eps.notReady) \cup
                               {newEndpoint(pod.ip, FindContainerPort(pod, svcPort)) : pod \in pods},
                          weight)
    IN  added(CreateEndpoints(svc, svcPort))
=============================================================================

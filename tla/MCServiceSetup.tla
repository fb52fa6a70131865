-------------------------- MODULE MCServiceSetup ---------------------------
(***************************************************************************)
(* Placements of P ranks for TLC: on one host with up to three NUMA nodes  *)
(* or on two hosts, the second of which may lack GPUs.                     *)
(***************************************************************************)
EXTENDS ServiceSetup

\* Nodes 0 and 1 share a socket, and so do 2 and 3.
Slit(a, b) == IF a = b THEN 10 ELSE IF a \div 2 = b \div 2 THEN 12 ELSE 32

\* Device k of a host has the id << 0, k >>.
Gpus(nodes) == [k \in DOMAIN nodes |-> << 0, k >>]

NodeLine(logical, os) == << [kind |-> "node", logical |-> logical, os |-> os] >>

\* What lstopo prints of devices on the given nodes: the devices of a node behind
\* the node, a device on node -1 not at all.
Listing(nodes) ==
    FlattenSeq([n \in 1 .. 3 |->
        NodeLine(n - 1, n - 1) \o
        FlattenSeq([k \in DOMAIN nodes |->
            IF nodes[k] = n - 1 THEN << [kind |-> "pci", id |-> << 0, k >>] >> ELSE << >>])])

\* Every device has the same id in another domain, as on boards with a PCI domain
\* for each of their GPUs.
ManyDomains ==
    NodeLine(0, 0) \o << [kind |-> "pci", id |-> << 0, 1 >>] >> \o
    NodeLine(1, 1) \o << [kind |-> "pci", id |-> << 1, 1 >>] >>

\* lstopo and the operating system number the nodes differently.
Renumbered ==
    NodeLine(0, 1) \o << [kind |-> "pci", id |-> << 0, 1 >>] >> \o
    NodeLine(1, 0) \o << [kind |-> "pci", id |-> << 0, 2 >>] >>

\* All ranks on one host; rank r sees the GPUs in visible[r].
OneHost(runtime, visible, lines) ==
    {[host |-> [r \in Procs |-> 0], numa |-> numa, runtime |-> runtime,
      visible |-> visible, lstopo |-> [h \in {0} |-> lines]] : numa \in [Procs -> 0 .. 2]}

All(ids) == [r \in Procs |-> ids]

\* The lower ranks see other GPUs than the others.
Different(lower, others) == [r \in Procs |-> IF r < 2 THEN lower ELSE others]

\* The ranks from split on are on the second host.
TwoHosts(split, first, second) ==
    {[host    |-> [r \in Procs |-> IF r < split THEN 0 ELSE 1],
      numa    |-> numa,
      runtime |-> "cuda",
      visible |-> [r \in Procs |-> Gpus(IF r < split THEN first ELSE second)],
      lstopo  |-> [h \in 0 .. 1 |-> Listing(IF h = 0 THEN first ELSE second)]] :
        numa \in [Procs -> -1 .. 1]}

AllPlacements ==
    UNION ({OneHost("cuda", All(Gpus(nodes)), Listing(nodes)) :
              nodes \in {<< >>, << 0 >>, << 1, 0 >>, << 0, 2 >>, << -1, 1 >>}}
           \cup {OneHost("cuda", Different(lower, Gpus(nodes)), Listing(nodes)) :
                   lower \in {<< >>, << << 0, 1 >> >>}, nodes \in {<< 1, 0 >>}}
           \cup {OneHost("veda", All(Gpus(<< 0, 1 >>)), Listing(<< 0, 1 >>)),
                 OneHost("none", All(Gpus(<< 0, 1 >>)), Listing(<< 0, 1 >>)),
                 OneHost("cuda", All(<< << 0, 1 >>, << 1, 1 >> >>), ManyDomains),
                 OneHost("cuda", All(Gpus(<< 0, 1 >>)), Renumbered)}
           \cup {TwoHosts(2, first, second) :
                   first \in {<< 1 >>, << 0, 1 >>}, second \in {<< >>, << 0 >>, << 1, 1, 0 >>}})
=============================================================================

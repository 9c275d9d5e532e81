--------------------------- MODULE MCConnections ---------------------------
(* A Human's connections, and what the Human sees of the Agents' messages,   *)
(* for TLC.  A view reads no row that pairing or OAuth writes, so a behaviour *)
(* runs one of the two: the states are the sum, not the product, of theirs.  *)
EXTENDS Connections, Orbit, TLC

Symmetry == UNION {Permutations(S) : S \in {Pairings, Sessions, Keys, Party}}

VARIABLE part

ConnectionsInit ==
    /\ part \in {"connections", "orbit"}
    /\ Init /\ OrbitInit
    /\ part # "orbit" =>
         log = << >> /\ own = {} /\ member = {} /\ role = [a \in Party |-> "none"]

ConnectionsNext ==
    /\ UNCHANGED part
    /\ \/ part = "connections" /\ Next /\ UNCHANGED orbitVars
       \/ part = "orbit" /\ OrbitNext /\ UNCHANGED vars

ConnectionsSpec ==
    ConnectionsInit /\ [][ConnectionsNext]_<<part, vars, orbitVars>>
=============================================================================

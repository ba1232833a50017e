--------------------------- MODULE SecureChannel ---------------------------
(***************************************************************************)
(* What the handshake of each profile promises to the code above it: per   *)
(* connection the master installs a content key no other session holds,    *)
(* the slave installs the master's, once, neither serves before the other  *)
(* holds the key, and a session that ends keeps no key.  In sections 6.2   *)
(* and 6.3 the master has the last word of the slave before it sends a     *)
(* request; in section 6.4 it serves, that is believes what it reads, only *)
(* with the answer.                                                        *)
(***************************************************************************)
CONSTANTS Conns,      \* connections
          NoKey,      \* an end without a content key
          MasterFirst \* TRUE: the slave serves no master that does not serve yet

VARIABLES mst,     \* mst[n]: "opening", "keyed", "ready" or "over"
          sst,     \* the same for the slave's end
          mkey,    \* mkey[n]: the content key of the master's end
          skey     \* skey[n]: the content key of the slave's end

vars == <<mst, sst, mkey, skey>>

Init ==
    /\ mst = [n \in Conns |-> "opening"]
    /\ sst = [n \in Conns |-> "opening"]
    /\ mkey = [n \in Conns |-> NoKey]
    /\ skey = [n \in Conns |-> NoKey]

HeldElsewhere(n, k) == \E i \in Conns \ {n} : mkey[i] = k \/ skey[i] = k

MasterInstalls(n) ==
    /\ mst[n] = "opening"
    /\ mkey'[n] # NoKey /\ ~HeldElsewhere(n, mkey'[n])
    /\ mst' = [mst EXCEPT ![n] = "keyed"]
    /\ mkey' = [mkey EXCEPT ![n] = mkey'[n]]
    /\ UNCHANGED <<sst, skey>>

(* If the master is gone, nobody holds the key the slave installs *)
SlaveInstalls(n) ==
    /\ sst[n] = "opening" /\ mst[n] \in {"keyed", "over"}
    /\ IF mst[n] = "keyed"
       THEN skey'[n] = mkey[n]
       ELSE skey'[n] # NoKey /\ ~HeldElsewhere(n, skey'[n])
    /\ sst' = [sst EXCEPT ![n] = "keyed"]
    /\ skey' = [skey EXCEPT ![n] = skey'[n]]
    /\ UNCHANGED <<mst, mkey>>

MasterServes(n) ==
    /\ mst[n] = "keyed" /\ sst[n] # "opening"
    /\ mst' = [mst EXCEPT ![n] = "ready"]
    /\ UNCHANGED <<sst, mkey, skey>>

SlaveServes(n) ==
    /\ sst[n] = "keyed" /\ (MasterFirst => mst[n] # "keyed")
    /\ sst' = [sst EXCEPT ![n] = "ready"]
    /\ UNCHANGED <<mst, mkey, skey>>

(* A side ends any of its sessions; a process that stops ends all of them *)
MasterEnds ==
    /\ UNCHANGED <<sst, skey>>
    /\ \E E \in SUBSET Conns :
        /\ mst' = [n \in Conns |-> IF n \in E THEN "over" ELSE mst[n]]
        /\ mkey' = [n \in Conns |-> IF n \in E THEN NoKey ELSE mkey[n]]
SlaveEnds ==
    /\ UNCHANGED <<mst, mkey>>
    /\ \E E \in SUBSET Conns :
        /\ sst' = [n \in Conns |-> IF n \in E THEN "over" ELSE sst[n]]
        /\ skey' = [n \in Conns |-> IF n \in E THEN NoKey ELSE skey[n]]

Next ==
    \/ \E n \in Conns : \/ MasterInstalls(n) \/ SlaveInstalls(n)
                        \/ MasterServes(n) \/ SlaveServes(n)
    \/ MasterEnds \/ SlaveEnds

Spec == Init /\ [][Next]_vars
=============================================================================

--------------------------- MODULE EmbeddedSlave ---------------------------
(***************************************************************************)
(* read_with_embedded_slave of the PSK web front end (web_frontend.py):    *)
(* the thread of an HTTP request opens a listener, starts a thread that    *)
(* plays the slave once, plays the master itself, and joins the other      *)
(* thread for ten seconds before it answers.                               *)
(*                                                                         *)
(* What the two say to each other is the subject of PskSession; here an    *)
(* exchange goes through, or either end raises.  Requests name one port.   *)
(*                                                                         *)
(* A name that ends in an underscore and a capitalised word belongs to a   *)
(* variant, with a plausible bug, of the definition named before that      *)
(* underscore; no specification uses it.                                   *)
(***************************************************************************)
EXTENDS Naturals

CONSTANT MaxReads   \* bound: requests, numbered as they begin
ASSUME EmbeddedAssumption == MaxReads \in Nat

Reads == 1..MaxReads

VARIABLES master,    \* the thread of each request
          slave,     \* the thread that plays the slave for it
          connected, \* requests whose create_connection succeeded
          listener   \* the listening socket of each request

embeddedVars == <<master, slave, connected, listener>>

EmbeddedInit ==
    /\ master = [r \in Reads |-> "none"] /\ slave = [r \in Reads |-> "none"]
    /\ connected = {} /\ listener = [r \in Reads |-> "closed"]

Raised == {"raised", "raised_uncaught"}
Answers == {"ok", "error", "no_answer"}

(* A listener that is closed while accept() waits on it holds the port on *)
PortBusy == \E r \in Reads : listener[r] \in {"open", "leaked"}

BeginRead(r) ==
    /\ master[r] = "none" /\ \A q \in 1..(r - 1) : master[q] # "none"
    /\ IF PortBusy
       THEN master' = [master EXCEPT ![r] = "error"] /\ UNCHANGED <<slave, listener>>
       ELSE /\ master' = [master EXCEPT ![r] = "connecting"]
            /\ slave' = [slave EXCEPT ![r] = "accepting"]
            /\ listener' = [listener EXCEPT ![r] = "open"]
    /\ UNCHANGED connected

(* The connection is made by the system, before accept() returns *)
ConnectRead(r) ==
    /\ master[r] = "connecting" /\ master' = [master EXCEPT ![r] = "exchanging"]
    /\ connected' = connected \cup {r}
    /\ UNCHANGED <<slave, listener>>

(* create_connection raises OSError, run_master_handshake and the rest       *)
(* ProtocolError or ValueError, or EOFError or InvalidTag, which do_POST    *)
(* does not catch                                                           *)
MasterRaises(r) ==
    /\ \/ master[r] = "connecting" /\ master' = [master EXCEPT ![r] = "raised"]
       \/ /\ master[r] = "exchanging"
          /\ \E how \in Raised : master' = [master EXCEPT ![r] = how]
    /\ UNCHANGED <<slave, connected, listener>>

MasterReads(r) ==
    /\ master[r] = "exchanging" /\ slave[r] \in {"sent", "done"}
    /\ master' = [master EXCEPT ![r] = "read"]
    /\ UNCHANGED <<slave, connected, listener>>

Accept(r) ==
    /\ slave[r] = "accepting" /\ r \in connected
    /\ slave' = [slave EXCEPT ![r] = "exchanging"]
    /\ listener' = [listener EXCEPT ![r] = IF @ = "leaked" THEN "closed" ELSE @]
    /\ UNCHANGED <<master, connected>>

(* The last record is sent; only then is slave_result filled in *)
SlaveSends(r) ==
    /\ slave[r] = "exchanging"
    /\ slave' = [slave EXCEPT ![r] = "sent"]
    /\ UNCHANGED <<master, connected, listener>>

SlaveFinishes(r) ==
    /\ slave[r] \in {"exchanging", "sent"}
    /\ slave' = [slave EXCEPT ![r] = IF @ = "sent" THEN "done" ELSE "failed"]
    /\ listener' = [listener EXCEPT ![r] = "closed"]
    /\ UNCHANGED <<master, connected>>

Outcome_Unchecked(r) ==
    IF master[r] = "raised_uncaught" THEN "no_answer"
    ELSE IF master[r] = "raised" \/ slave[r] = "failed" THEN "error" ELSE "ok"
Outcome(r) ==
    IF master[r] = "raised_uncaught" THEN "no_answer"
    ELSE IF master[r] = "raised" \/ slave[r] # "done" THEN "error" ELSE "ok"

(* thread.join(timeout=10): either the thread has ended, or time is up *)
Joins_Patiently(r) == slave[r] \in {"done", "failed"}
Joins(r) == slave[r] # "none"

(* listener.close() while accept() waits closes the descriptor, not the port *)
Released_Open(r) == listener[r]
Released(r) == IF slave[r] = "accepting" THEN "leaked" ELSE "closed"

JoinSlave(r) ==
    /\ master[r] \in Raised \cup {"read"} /\ Joins(r)
    /\ master' = [master EXCEPT ![r] = Outcome(r)]
    /\ listener' = [listener EXCEPT ![r] = Released(r)]
    /\ UNCHANGED <<slave, connected>>

ReadStep ==
    \E r \in Reads :
        \/ ConnectRead(r) \/ MasterRaises(r) \/ MasterReads(r) \/ JoinSlave(r)
        \/ Accept(r) \/ SlaveSends(r) \/ SlaveFinishes(r)
-----------------------------------------------------------------------------
EmbeddedTypeOK ==
    /\ master \in [Reads -> {"none", "connecting", "exchanging", "read"} \cup Raised \cup Answers]
    /\ slave \in [Reads -> {"none", "accepting", "exchanging", "sent", "done", "failed"}]
    /\ connected \in SUBSET Reads
    /\ listener \in [Reads -> {"closed", "open", "leaked"}]

(* OkMeansServed (web_frontend.py:136-163): a request that is answered with  *)
(* registers has the slave's half of the answer, which the slave's thread   *)
(* fills in after the record that the master was waiting for; and no        *)
(* request holds the port any more on account of it.                        *)
OkMeansServed ==
    \A r \in Reads : master[r] = "ok" => slave[r] = "done" /\ listener[r] = "closed"

(* LeaksUnconnected (web_frontend.py:133-134, 155-157): closing the listener *)
(* does not end an accept() that waits on it.  The port stays taken by a    *)
(* request that is over only if nobody connected, or accept() is about to   *)
(* return.                                                                  *)
LeaksUnconnected ==
    \A r \in Reads :
        master[r] \in Answers /\ listener[r] # "closed" => slave[r] = "accepting"
=============================================================================

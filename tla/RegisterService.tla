--------------------------- MODULE RegisterService ---------------------------
(***************************************************************************)
(* What the secure link promises the callers of read_registers and         *)
(* write_register.  A call takes effect on the slave's registers at most    *)
(* once, at one instant between its invocation and its return; its answer  *)
(* is the one computed at that instant.  A call that returns an error may  *)
(* have taken effect, or may still do so, but not once a later call has.   *)
(***************************************************************************)
EXTENDS RegisterBank

CONSTANTS Threads, Pdus

VARIABLES bank,    \* the registers
          call,    \* call[t]: [st, id, pdu, ans] of the call t has open
          late,    \* failed calls, [id, pdu], that may still take effect
          result,  \* result[t]: what the last call of t returned
          ids      \* number of calls invoked

vars == <<bank, call, late, result, ids>>

NoAnswer == Pdu(0, <<>>)
Error == [id |-> 0, ans |-> NoAnswer]
Idle == [st |-> "idle", id |-> 0, pdu |-> NoAnswer, ans |-> NoAnswer]

Init ==
    /\ bank = InitialBank
    /\ call = [t \in Threads |-> Idle]
    /\ late = {}
    /\ result = [t \in Threads |-> Error]
    /\ ids = 0

Invoke(t) == \E pdu \in Pdus :
    /\ call[t].st = "idle"
    /\ ids' = ids + 1
    /\ call' = [call EXCEPT ![t] = [st |-> "open", id |-> ids + 1, pdu |-> pdu,
                                    ans |-> NoAnswer]]
    /\ UNCHANGED <<bank, late, result>>

TakeEffect(t) ==
    /\ call[t].st = "open"
    /\ bank' = After(bank, call[t].pdu)
    /\ call' = [call EXCEPT ![t] = [st |-> "done", id |-> @.id, pdu |-> @.pdu,
                                    ans |-> Answer(bank, @.pdu)]]
    /\ late' = {}
    /\ UNCHANGED <<ids, result>>

LateEffect == \E c \in late :
    /\ bank' = After(bank, c.pdu)
    /\ late' \in SUBSET (late \ {c})
    /\ UNCHANGED <<call, ids, result>>

Return(t) ==
    /\ call[t].st = "done"
    /\ call' = [call EXCEPT ![t] = Idle]
    /\ result' = [result EXCEPT ![t] = [id |-> call[t].id, ans |-> call[t].ans]]
    /\ UNCHANGED <<bank, late, ids>>

Fail(t) ==
    /\ call[t].st \in {"open", "done"}
    /\ call' = [call EXCEPT ![t] = Idle]
    /\ \/ UNCHANGED late
       \/ /\ call[t].st = "open"
          /\ late' = late \cup {[id |-> call[t].id, pdu |-> call[t].pdu]}
    /\ result' = [result EXCEPT ![t] = Error]
    /\ UNCHANGED <<bank, ids>>

(* Failed calls are forgotten: their connection is gone *)
Forget ==
    /\ late' \in SUBSET late
    /\ UNCHANGED <<bank, call, result, ids>>

(* The slave process is started anew *)
Reset ==
    /\ bank' = InitialBank
    /\ UNCHANGED <<call, late, result, ids>>

Next ==
    \/ \E t \in Threads : Invoke(t) \/ TakeEffect(t) \/ Return(t) \/ Fail(t)
    \/ LateEffect \/ Forget \/ Reset

Spec == Init /\ [][Next]_vars
=============================================================================

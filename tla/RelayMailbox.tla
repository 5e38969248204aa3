----------------------------- MODULE RelayMailbox -----------------------------
(***************************************************************************)
(* What the relay promises its users about mail: for every receiver and    *)
(* sender one slot with the newest upload, at most Cap slots a receiver.   *)
(* Mail is placed once, is replaced by newer mail of the same sender,      *)
(* makes way for another sender's only in a full box, and otherwise goes   *)
(* when it is stale.  While there is stale mail the promise is weaker than *)
(* a user would expect: it may still take up room, and its removal may     *)
(* take along a whole box (Purge), mail that has come into the same slot   *)
(* (Sweep) or arriving mail (Mislay).  But mail that is gone never comes   *)
(* back.                                                                   *)
(***************************************************************************)
EXTENDS Naturals, FiniteSets

CONSTANTS Device, Mail, Cap, None

VARIABLES
  slot,     \* receiver -> sender -> the mail that can be fetched, or None
  used,     \* mail placed so far
  stale     \* mail whose time to live is over, or is none

vars == <<slot, used, stale>>

Full(box) == Cardinality({s \in Device : box[s] # None}) >= Cap

Init ==
  /\ slot = [r \in Device |-> [s \in Device |-> None]]
  /\ used = {}
  /\ stale = {}

\* Mail m of sender s reaches receiver r.  Stale mail may arrive and vanish at
\* once, taking the older mail it replaces with it.
Deliver(r, s, m) ==
  /\ m \notin used
  /\ used' = used \cup {m}
  /\ \E left \in {m} \cup {None : x \in stale \cap {m}} :
       \/ slot' = [slot EXCEPT ![r][s] = left]
       \/ \E t \in Device \ {s} :
            /\ Full(slot[r]) \/ stale # {}
            /\ slot[r][s] = None
            /\ slot' = [slot EXCEPT ![r][s] = left, ![r][t] = None]
  /\ UNCHANGED stale

Age ==
  /\ stale' \in SUBSET Mail
  /\ stale \subseteq stale'
  /\ UNCHANGED <<slot, used>>

Expire ==
  /\ \E gone \in SUBSET stale :
       slot' = [r \in Device |-> [s \in Device |->
                  IF slot[r][s] \in gone THEN None ELSE slot[r][s]]]
  /\ UNCHANGED <<used, stale>>

Purge ==
  /\ stale # {}
  /\ \E boxes \in SUBSET Device :
       slot' = [r \in Device |-> IF r \in boxes THEN [s \in Device |-> None]
                                 ELSE slot[r]]
  /\ UNCHANGED <<used, stale>>

\* The slot of one sender, though fresh mail has replaced the stale.
Sweep(r, s) ==
  /\ stale \cap used # {}
  /\ slot' = [slot EXCEPT ![r][s] = None]
  /\ UNCHANGED <<used, stale>>

Mislay(m) ==
  /\ stale # {}
  /\ m \notin used
  /\ used' = used \cup {m}
  /\ UNCHANGED <<slot, stale>>

Next ==
  \/ \E r, s \in Device, m \in Mail : Deliver(r, s, m)
  \/ \E r, s \in Device : Sweep(r, s)
  \/ \E m \in Mail : Mislay(m)
  \/ Age \/ Expire \/ Purge

Spec == Init /\ [][Next]_vars

\* Mail that has left a slot is never seen in any slot again.
NeverRedelivered ==
  [][\A m \in used, r, s \in Device : slot'[r][s] = m => slot[r][s] = m]_vars
=============================================================================

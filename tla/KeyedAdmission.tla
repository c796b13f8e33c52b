--------------------------- MODULE KeyedAdmission ---------------------------
(***************************************************************************)
(* What an idempotency key promises.  Attempts may bind it to operations   *)
(* and unbind it as they like until one of them is accepted, and that is   *)
(* the one the key is bound to.  From then on the key is settled: nobody   *)
(* else is accepted, nobody binds it anew or unbinds it, and whoever is    *)
(* answered is answered with the accepted operation or with an error -     *)
(* until the service forgets the key.                                      *)
(***************************************************************************)
CONSTANTS Attempt, Key, Op, NoOp, KeyOf, OpOf

VARIABLES
    bound,        \* the operation each key resolves to
    accepted,     \* the attempts that were accepted
    resolved,     \* the operation each attempt was answered with
    forgotten     \* the keys whose retention has passed

vars == <<bound, accepted, resolved, forgotten>>

Init ==
    /\ bound = [k \in Key |-> NoOp]
    /\ accepted = {}
    /\ resolved = [a \in Attempt |-> NoOp]
    /\ forgotten = {}

Settled(k) == k \notin forgotten /\ \E a \in accepted : KeyOf[a] = k

\* An error, whether or not the attempt got what it asked for.
Unanswered(a) == resolved' = [resolved EXCEPT ![a] = NoOp]

Rebind(a) ==
    /\ ~Settled(KeyOf[a])
    /\ \E o \in Op \cup {NoOp} : bound' = [bound EXCEPT ![KeyOf[a]] = o]
    /\ Unanswered(a) \/ UNCHANGED resolved
    /\ UNCHANGED <<accepted, forgotten>>

Accept(a) ==
    /\ ~Settled(KeyOf[a])
    /\ bound[KeyOf[a]] = OpOf[a]
    /\ accepted' = accepted \cup {a}
    /\ Unanswered(a) \/ resolved' = [resolved EXCEPT ![a] = OpOf[a]]
    /\ UNCHANGED <<bound, forgotten>>

Resolve(a) ==
    /\ bound[KeyOf[a]] # NoOp
    /\ resolved' = [resolved EXCEPT ![a] = bound[KeyOf[a]]]
    /\ UNCHANGED <<bound, accepted, forgotten>>

Refuse(a) ==
    /\ Unanswered(a)
    /\ UNCHANGED <<bound, accepted, forgotten>>

Forget(k) ==
    /\ bound' = [bound EXCEPT ![k] = NoOp]
    /\ forgotten' = forgotten \cup {k}
    /\ UNCHANGED <<accepted, resolved>>

Next ==
    \/ \E a \in Attempt : Rebind(a) \/ Accept(a) \/ Resolve(a) \/ Refuse(a)
    \/ \E k \in Key : Forget(k)

Spec == Init /\ [][Next]_vars
=============================================================================

----------------------------- MODULE Matchmaker -----------------------------
(***************************************************************************)
(* What the UDP rendezvous server promises, without datagrams, addresses,  *)
(* sessions and timeouts: clients ask for others, and a client that asks   *)
(* for one that waits for it is introduced to it.  A client that waits may *)
(* be forgotten at any time.  UdpServer implements this module.            *)
(***************************************************************************)
CONSTANT Clients

VARIABLES
    wants,      \* <<a, b>>: a waits for b
    introduced  \* <<a, b>>: a waited for b, and b's request just introduced them

vars == <<wants, introduced>>

WantsOf(a) == {w \in wants : w[1] = a}

Init == wants = {} /\ introduced = {}

\* a asks for ps.  Nobody of ps waits for it, so it waits; its earlier wants are void.
Ask(a, ps) ==
    /\ {a} \X ps \subseteq wants'
    /\ wants' \subseteq (wants \ WantsOf(a)) \cup ({a} \X ps)
    /\ \A p \in ps \ {a} : <<p, a>> \notin wants'
    /\ introduced' = {}

\* a asks for p, who waits for it: neither of them waits for the other one any more,
\* nor a for anybody.
Introduce(p, a) ==
    /\ <<p, a>> \in wants
    /\ wants' \subseteq wants \ (WantsOf(a) \cup {<<p, a>>})
    /\ introduced' = {<<p, a>>}

Forget ==
    /\ wants' \subseteq wants
    /\ introduced' = {}

Next ==
    \/ \E a \in Clients, ps \in SUBSET Clients : Ask(a, ps)
    \/ \E p, a \in Clients : Introduce(p, a)
    \/ Forget

Spec == Init /\ [][Next]_vars

=============================================================================

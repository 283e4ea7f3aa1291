----------------------------- MODULE PeerShaping -----------------------------
(***************************************************************************)
(* The speed of a plan where the kernel holds it: the tc classes, filters  *)
(* and policers of a node's WireGuard interface, which follow ADD_PEER and *)
(* REMOVE_PEER, and what the agent remembers of the interface.             *)
(***************************************************************************)
EXTENDS Happenings

CONSTANTS
    Holders,    \* devices
    Slots,      \* addresses of the pool; the last bits of each name its class
    Caps        \* speeds of the plans; a plan without one has None

VARIABLES
    root,       \* the interface has the root class and the ingress qdisc
    shape,      \* shape[i]: the speeds of an address's class and policer, and its filter
    rootReady,  \* the agent believes that the root is there
    peerAt,     \* peerAt[h]: the address of a device's peer, or None
    plan        \* plan[h]: the cap in the device's last ADD_PEER; "missed" if tc has failed

shapingVars == <<root, shape, rootReady, peerAt, plan>>

Bare == [class |-> None, steered |-> FALSE, policed |-> None]
Shaped(cap) == [class |-> cap, steered |-> TRUE, policed |-> cap]

ShapingInit ==
    /\ root = FALSE /\ rootReady = FALSE
    /\ shape = [i \in Slots |-> Bare]
    /\ peerAt = [h \in Holders |-> None] /\ plan = peerAt

\* Fault: the policer of the last tenant stays.
ClassOnly(s) == [s EXCEPT !.class = None, !.steered = FALSE]
\* clearPeerShaping: both filters, then the class; nothing to delete is no error.
Cleared(s) == Bare

\* Fault: a plan without a cap leaves tc alone.
Untouched(s) == s
\* applyPeerShaping with no cap removes what an earlier plan has left.
Unshaped(s) == Cleared(s)

\* Fault: the class of the address is there already.
IfNew(s, cap) == IF s.class = None THEN Shaped(cap) ELSE s
\* The class, the filter and the policer are replaced.
Replaced(s, cap) == Shaped(cap)

\* ADD_PEER. The root is made once; a root that is believed to be there is not looked for,
\* and where it is missing nothing can be attached.
AddsPeer(h, i, cap) ==
    /\ peerAt[h] = None /\ \A g \in Holders : peerAt[g] # i
    /\ peerAt' = [peerAt EXCEPT ![h] = i]
    /\ IF cap = None
       THEN /\ plan' = [plan EXCEPT ![h] = None]
            /\ shape' = [shape EXCEPT ![i] = Unshaped(@)]
            /\ UNCHANGED <<root, rootReady>> /\ Quiet
       ELSE \/ /\ root' = (root \/ ~rootReady) /\ rootReady' = TRUE
               /\ plan' = [plan EXCEPT ![h] = cap]
               /\ shape' = [shape EXCEPT ![i] = IF root' THEN Replaced(@, cap) ELSE @]
               /\ Quiet
            \/ /\ Happens("tc_fails")
               /\ plan' = [plan EXCEPT ![h] = "missed"]
               /\ shape' \in {[shape EXCEPT ![i] = s] :
                                 s \in {shape[i], [shape[i] EXCEPT !.class = cap],
                                        [shape[i] EXCEPT !.class = cap, !.policed = cap]}}
               /\ UNCHANGED <<root, rootReady>>

\* REMOVE_PEER names the address; the removal of a peer that the report found does not, and
\* leaves the class to the next tenant.
RemovesPeer(h, named) ==
    /\ peerAt[h] # None
    /\ peerAt' = [peerAt EXCEPT ![h] = None]
    /\ shape' = IF named THEN [shape EXCEPT ![peerAt[h]] = Cleared(@)] ELSE shape
    /\ UNCHANGED <<root, rootReady, plan>> /\ Quiet

\* The agent begins anew; the kernel keeps what it has.
ShaperRestarts ==
    /\ rootReady
    /\ Happens("agent_restart")
    /\ rootReady' = FALSE
    /\ UNCHANGED <<root, shape, peerAt, plan>>

\* The interface is made anew, with the node or under an agent that runs on.
InterfaceAnew ==
    /\ root /\ \E survives \in BOOLEAN :
                 /\ Happens(IF survives THEN "interface_anew" ELSE "node_reboot")
                 /\ rootReady' = survives
    /\ root' = FALSE /\ shape' = [i \in Slots |-> Bare]
    /\ peerAt' = [h \in Holders |-> None]
    /\ UNCHANGED plan

ShapingNext ==
    \/ \E h \in Holders :
          \/ \E i \in Slots, cap \in Caps \union {None} : AddsPeer(h, i, cap)
          \/ \E named \in BOOLEAN : RemovesPeer(h, named)
    \/ ShaperRestarts \/ InterfaceAnew

-----------------------------------------------------------------------------
\* Whoever is tenant of an address, a device gets the speed of its own plan in both
\* directions, and never that of the tenant before: not when the agent restarted in between,
\* nor when the address was given up without a word to tc.
OwnSpeed ==
    \A h \in Holders :
        (peerAt[h] # None /\ plan[h] # "missed") =>
            shape[peerAt[h]] = IF plan[h] = None THEN Bare ELSE Shaped(plan[h])
=============================================================================

------------------------------ MODULE AgentLink ------------------------------
(***************************************************************************)
(* What the session registry promises its callers, with the protocol that  *)
(* keeps the promise left out: an Agent has at most one link at a time, a  *)
(* barred Agent gets no new link and no message, and sending is one        *)
(* indivisible step that either puts the message on the link the Agent has *)
(* at that moment or fails without a trace.                                *)
(***************************************************************************)
CONSTANTS Agents, Chans, Senders, Owner, NoChan

VARIABLES
    link,     \* the Agent's current channel, or NoChan
    barred,   \* Agents that were disconnected for good
    target,   \* the Agent each sender sends to
    outcome,  \* "none" until the sender has its answer
    accepted  \* <<sender, channel>> for every message put on a link

vars == <<link, barred, target, outcome, accepted>>

Init ==
    /\ link = [a \in Agents |-> NoChan]
    /\ barred = {}
    /\ target \in [Senders -> Agents]
    /\ outcome = [p \in Senders |-> "none"]
    /\ accepted = {}

Open(c) ==
    /\ Owner[c] \notin barred
    /\ link' = [link EXCEPT ![Owner[c]] = c]
    /\ UNCHANGED <<barred, target, outcome, accepted>>

Lose(a) ==
    /\ link' = [link EXCEPT ![a] = NoChan]
    /\ UNCHANGED <<barred, target, outcome, accepted>>

Bar(a) ==
    /\ barred' = barred \cup {a}
    /\ UNCHANGED <<link, target, outcome, accepted>>

Accept(p) ==
    /\ outcome[p] = "none"
    /\ target[p] \notin barred
    /\ link[target[p]] # NoChan
    /\ accepted' = accepted \cup {<<p, link[target[p]]>>}
    /\ outcome' = [outcome EXCEPT ![p] = "ok"]
    /\ UNCHANGED <<link, barred, target>>

Reject(p) ==
    /\ outcome[p] = "none"
    /\ outcome' = [outcome EXCEPT ![p] = "failed"]
    /\ UNCHANGED <<link, barred, target, accepted>>

Next ==
    \/ \E c \in Chans : Open(c)
    \/ \E a \in Agents : Lose(a) \/ Bar(a)
    \/ \E p \in Senders : Accept(p) \/ Reject(p)

Spec == Init /\ [][Next]_vars
=============================================================================

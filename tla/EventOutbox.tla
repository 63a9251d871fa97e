----------------------------- MODULE EventOutbox -----------------------------
(***************************************************************************)
(* What an event uploader promises its callers, whatever the network does: *)
(* accepted events are delivered in the order of acceptance, each at most  *)
(* once and each settled in the end; one is lost only when the uploader is *)
(* closed, when it says so, or when it cannot be sent at all.              *)
(***************************************************************************)
EXTENDS Naturals, Sequences, FiniteSets

VARIABLES
    accepted,   \* how many events were accepted; they are 1..accepted
    delivered,  \* those whose delivery was acknowledged, in that order
    lost,       \* those given up
    unfit,      \* those that cannot be sent
    losses,     \* how often the uploader has said that it gave events up
    shut        \* the outbox is closed

outboxVars == <<accepted, delivered, lost, unfit, losses, shut>>

Delivered == {delivered[i] : i \in DOMAIN delivered}
Outstanding == (1..accepted) \ (Delivered \cup lost)

OutboxInit ==
    /\ accepted = 0 /\ delivered = <<>> /\ shut = FALSE
    /\ lost = {} /\ unfit = {} /\ losses = 0

\* Events of `left` that are given up in this step
Loses(left) ==
    /\ losses' \in {losses, losses + 1}
    /\ \E S \in SUBSET left :
        /\ S \subseteq unfit' \/ losses' > losses \/ shut'
        /\ lost' = lost \cup S

Accept ==
    /\ ~shut
    /\ accepted' \in Nat /\ accepted' > accepted
    /\ LET new == (accepted + 1)..accepted' IN
        /\ \E B \in SUBSET new : unfit' = unfit \cup B
        /\ Loses(Outstanding \cup new)
    /\ UNCHANGED <<delivered, shut>>

\* The next events, all older outstanding ones first
Deliver ==
    \E D \in (SUBSET Outstanding) \ {{}} :
        /\ \A d \in D, e \in Outstanding : e < d => e \in D
        /\ \E s \in [1..Cardinality(D) -> D] :
            /\ \A i, j \in DOMAIN s : i < j => s[i] < s[j]
            /\ delivered' = delivered \o s
        /\ UNCHANGED <<accepted, unfit, shut>>
        /\ Loses(Outstanding \ D)

GiveUp ==
    /\ UNCHANGED <<accepted, delivered, unfit, shut>>
    /\ Loses(Outstanding)
    /\ lost' # lost

Close ==
    /\ ~shut /\ shut' = TRUE
    /\ UNCHANGED <<accepted, delivered, unfit>>
    /\ Loses(Outstanding)

OutboxNext == Accept \/ Deliver \/ GiveUp \/ Close

OutboxSafety == OutboxInit /\ [][OutboxNext]_outboxVars
OutboxSpec == OutboxSafety /\ WF_outboxVars(Deliver \/ GiveUp)
=============================================================================

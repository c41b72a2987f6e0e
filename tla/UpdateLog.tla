------------------------------ MODULE UpdateLog ------------------------------
(***************************************************************************)
(* What a job's update stream promises its readers (docs/browser-contract, *)
(* "Ordered updates" and "Replay and acknowledgement"): sequences start at *)
(* 1 and grow without gaps, each item has one publication, overall         *)
(* progress never moves backwards, one terminal update ends the stream and *)
(* nothing is ever changed or appended after it.                           *)
(***************************************************************************)
EXTENDS Naturals, Sequences

CONSTANTS
    Items,      \* image regions or document blocks of the job
    Levels      \* values of the overall progress: naturals, 0 among them

VARIABLE log

TerminalKinds == {"complete", "failed", "cancelled"}
ItemKinds     == {"ready", "preserved"}

\* A draft is an update before it has its sequence number.
Drafts ==
    [kind : {"progress"}, overall : Levels]
        \cup [kind : ItemKinds, item : Items]
        \cup [kind : TerminalKinds]

IsTerminal(d) == d.kind \in TerminalKinds

\* The log has its terminal update, necessarily the last one.
Ended == log # <<>> /\ IsTerminal(log[Len(log)].draft)

Published(item) ==
    \E i \in DOMAIN log : log[i].draft.kind \in ItemKinds /\ log[i].draft.item = item

Reached(level) ==
    \A i \in DOMAIN log :
        log[i].draft.kind = "progress" => log[i].draft.overall <= level

\* A job is visible with its Queued update already in the log.
Init == log = <<[sequence |-> 1, draft |-> [kind |-> "progress", overall |-> 0]]>>

Publish(d) ==
    /\ ~Ended
    /\ d.kind \in ItemKinds => ~Published(d.item)
    /\ d.kind = "progress" => Reached(d.overall)
    /\ log' = Append(log, [sequence |-> Len(log) + 1, draft |-> d])

Next == \E d \in Drafts : Publish(d)

Spec == Init /\ [][Next]_log

=============================================================================

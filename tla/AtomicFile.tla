----------------------------- MODULE AtomicFile -----------------------------
(***************************************************************************)
(* What a saved store promises: the file holds the effects of some set of  *)
(* commands, a save adds a command to it in one step or not at all, and a  *)
(* command that was reported as saved is in the file for good.             *)
(***************************************************************************)
CONSTANT Commands

VARIABLES
    content,    \* the commands whose effects the file holds
    reported    \* the commands that ended without an error

Init == content = {} /\ reported = {}

Commit(c) ==
    /\ content' = content \cup {c}
    /\ UNCHANGED reported

Report(c) ==
    /\ c \in content
    /\ reported' = reported \cup {c}
    /\ UNCHANGED content

Next == \E c \in Commands : Commit(c) \/ Report(c)

Spec == Init /\ [][Next]_<<content, reported>>
=============================================================================

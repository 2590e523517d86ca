----------------------------- MODULE ChangeFeed -----------------------------
(***************************************************************************)
(* What the wal-listener promises to those who read the feed, without the  *)
(* replication protocol: each change of the log is published at least      *)
(* once, for the first time in the order of the log, and is acknowledged   *)
(* to the source only after that.  An acknowledgement may be taken back.   *)
(*                                                                         *)
(* A change is a record with the positions of its commit and of its row.   *)
(* The changes of one commit come together, in the order of their rows.    *)
(***************************************************************************)
EXTENDS Naturals

VARIABLES
    log,    \* the changes
    out,    \* those published so far
    acked   \* those the source may forget

feed == <<log, out, acked>>

Before(c, d) ==
    \/ c.commit < d.commit
    \/ c.commit = d.commit /\ c.at < d.at

\* Nothing is missing before a change of S.
Prefix(S) == S \subseteq log /\ \A c \in S, d \in log : Before(d, c) => d \in S

Init == log = {} /\ out = {} /\ acked = {}

\* Transactions commit, and their changes come after all others.
Commit ==
    /\ log \subseteq log' /\ log' # log
    /\ \A c \in log, d \in log' \ log : Before(c, d)
    /\ UNCHANGED <<out, acked>>

\* The next change is published for the first time.
Publish ==
    /\ \E c \in log \ out : out' = out \cup {c} /\ \A d \in log : Before(d, c) => d \in out
    /\ UNCHANGED <<log, acked>>

Acknowledge ==
    /\ acked' \subseteq out /\ Prefix(acked')
    /\ UNCHANGED <<log, out>>

Next == Commit \/ Publish \/ Acknowledge

Spec == Init /\ [][Next]_feed
=============================================================================

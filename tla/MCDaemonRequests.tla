-------------------------- MODULE MCDaemonRequests --------------------------
(* Small instances of DaemonRequests for TLC.                              *)
EXTENDS DaemonRequests

CONSTANTS w1, w2, r1

OwnIdentity == [w \in Workers |-> w]

\* the request matches every worker
Unlabelled == [r \in Requests |-> {}]
NoLabels   == [w \in Workers |-> {}]

Launches == [r \in Requests |-> "LAUNCH_RUN"]

\* a service account with the role of a launcher, which may not read what
\* another agent has claimed, an admin, and a viewer
User(name, service, role) == [name |-> name, service |-> service, role |-> role, grants |-> FALSE]
SomeDaemons == {User("daemon", TRUE, "launcher"), User("root", FALSE, "admin"),
                 User("vera", FALSE, "viewer")}

=============================================================================

--------------------------- MODULE ConnectionLife ---------------------------
(***************************************************************************)
(* What a connection's life is to the server and to the application        *)
(* (net/tcp_connection.h:21-35, net/tcp_server.cpp:28-37,52-98): it is     *)
(* established once, goes from Connecting to Disconnected without a step   *)
(* back, is reported up and down, and is handed from the server's map to   *)
(* its removal and to one connectDestroyed(), which comes last.            *)
(* TcpConnection is shown to implement it, and so does each connection of  *)
(* TcpServer.                                                              *)
(***************************************************************************)
EXTENDS Naturals

VARIABLES state,         \* state_; "none" before the connection is accepted
          polled,        \* its channel is in the poller
          ups, downs,    \* how often it has been reported up and down
          inMap,         \* the server's map holds it
          removing,      \* its removal is queued on the base loop
          establishing,  \* its connectEstablished() is queued on its loop
          destroying,    \* its connectDestroyed() is queued on its loop
          stopped        \* the base loop has returned and runs no more functors

vars == <<state, polled, ups, downs, inMap, removing, establishing, destroying, stopped>>

Open == {"Connected", "Disconnecting"}

\* Not accepted yet, or just accepted.
Init == /\ state \in {"none", "Connecting"}
        /\ inMap = (state = "Connecting") /\ establishing = (state = "Connecting")
        /\ polled = FALSE /\ ups = 0 /\ downs = 0
        /\ removing = FALSE /\ destroying = FALSE /\ stopped = FALSE

Accept == /\ state = "none" /\ ~stopped
          /\ state' = "Connecting" /\ inMap' = TRUE /\ establishing' = TRUE
          /\ UNCHANGED <<polled, ups, downs, removing, destroying, stopped>>

Establish == /\ establishing /\ state = "Connecting"
             /\ state' = "Connected" /\ polled' = TRUE /\ ups' = ups + 1
             /\ establishing' = FALSE
             /\ UNCHANGED <<downs, inMap, removing, destroying, stopped>>

\* shutdown() and forceClose() while it is up.
StartClosing == /\ state = "Connected" /\ polled
                /\ state' = "Disconnecting"
                /\ UNCHANGED <<polled, ups, downs, inMap, removing, establishing, destroying, stopped>>

\* handleClose(): the end of an open connection.  When the server is destroyed, a
\* connection that was already closing leaves the poller without being closed;
\* then its close finds no registration, makes one, and may be followed by another.
Close == /\ \/ state \in Open /\ (polled \/ stopped)
            \/ state = "Disconnected" /\ polled /\ stopped
         /\ state' = "Disconnected" /\ polled' = ~polled /\ downs' = downs + 1
         /\ removing' = TRUE
         /\ UNCHANGED <<ups, inMap, establishing, destroying, stopped>>

\* Only then does a late write register the channel again.
Reregister == /\ stopped /\ state = "Disconnecting" /\ ~polled
              /\ polled' = TRUE
              /\ UNCHANGED <<state, ups, downs, inMap, removing, establishing, destroying, stopped>>

\* removeConnectionInLoop() of a closed connection.
Remove == /\ removing /\ ~stopped /\ state = "Disconnected" /\ inMap /\ ~destroying
          /\ removing' = FALSE /\ inMap' = FALSE /\ destroying' = TRUE
          /\ UNCHANGED <<state, polled, ups, downs, establishing, stopped>>

Stop == /\ ~stopped
        /\ stopped' = TRUE
        /\ UNCHANGED <<state, polled, ups, downs, inMap, removing, establishing, destroying>>

\* ~TcpServer lets go of it, at once or later.
Drop == /\ inMap /\ ~destroying
        /\ inMap' = FALSE /\ destroying' = TRUE /\ stopped' = TRUE
        /\ UNCHANGED <<state, polled, ups, downs, removing, establishing>>

\* connectDestroyed()
Destroy == /\ destroying /\ ~establishing /\ ~inMap
           /\ destroying' = FALSE /\ polled' = FALSE
           /\ IF state = "Connected" THEN state' = "Disconnected" /\ downs' = downs + 1
                                     ELSE UNCHANGED <<state, downs>>
           /\ UNCHANGED <<ups, inMap, removing, establishing, stopped>>

Next == \/ Accept \/ Establish \/ StartClosing \/ Close \/ Reregister
        \/ Remove \/ Stop \/ Drop \/ Destroy

Spec == Init /\ [][Next]_vars

-----------------------------------------------------------------------------
\* Reported up once and, until the server is destroyed, down at most once; after
\* that at most twice.  A connection that is down was reported so.
ReportedDown ==
    /\ ups = (IF state \in {"none", "Connecting"} THEN 0 ELSE 1)
    /\ state = "Disconnected" <=> downs >= 1
    /\ downs <= 2 /\ (downs = 2 => stopped)

\* Nobody loses it: up to its end or its shutdown() the map holds it or its
\* connectDestroyed() is queued, and a closed one in the map has its removal queued.
HandedOn ==
    /\ establishing <=> state = "Connecting"
    /\ state \in {"Connecting", "Connected"} => inMap \/ destroying
    /\ state = "Disconnected" /\ inMap => removing
    /\ ~(inMap /\ destroying)
=============================================================================

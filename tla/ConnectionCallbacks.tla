------------------------- MODULE ConnectionCallbacks -------------------------
(***************************************************************************)
(* What a WowConnection promises its WowConnectionResponse, whatever the   *)
(* network threads do: one callback at a time; for each connect, WCConnected*)
(* or WCCantConnect at most once; data only while connected; and           *)
(* WCDisconnected at most once after that.  A connection that carries      *)
(* messages is disconnected only if it was told to.                        *)
(*                                                                         *)
(* WowConnection implements this, and NetClient relies on it.              *)
(***************************************************************************)
CONSTANTS
    Connections,
    Streams     \* the connections that also notice the end of the stream

VARIABLES
    told,       \* of a connection: the last thing that its owner knows
    calling,    \* connections whose owner is being called back
    ending      \* connections told to disconnect

callbackVars == <<told, calling, ending>>

Init ==
    /\ told = [c \in Connections |-> "nothing"]
    /\ calling = {}
    /\ ending = {}

\* When an owner may connect a connection.
MayConnect(c) == told[c] \in {"nothing", "disconnected"}

Connect(c) ==
    /\ told' = [told EXCEPT ![c] = "connecting"]
    /\ ending' = ending \ {c}
    /\ UNCHANGED calling

\* Has an effect on a connected connection only.
Disconnect(c) ==
    /\ ending' = IF told[c] = "connected" THEN ending \cup {c} ELSE ending
    /\ UNCHANGED <<told, calling>>

CallBack(c, event) ==
    /\ c \notin calling
    /\ CASE event \in {"connected", "cantConnect"} -> told[c] = "connecting"
         [] event = "ready" -> told[c] = "connected"
         [] event = "disconnected" -> /\ told[c] = "connected"
                                      /\ c \in Streams \cup ending
    /\ told' = [told EXCEPT ![c] = IF event = "ready" THEN @ ELSE event]
    /\ ending' = IF event = "disconnected" THEN ending \ {c} ELSE ending
    /\ calling' = calling \cup {c}

Return(c) ==
    /\ c \in calling
    /\ calling' = calling \ {c}
    /\ UNCHANGED <<told, ending>>

Next ==
    \E c \in Connections :
        \/ MayConnect(c) /\ Connect(c)
        \/ Disconnect(c)
        \/ \E event \in {"connected", "cantConnect", "ready", "disconnected"} :
               CallBack(c, event)
        \/ Return(c)

Spec == Init /\ [][Next]_callbackVars

=============================================================================

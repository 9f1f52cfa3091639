--------------------------- MODULE AbstractSession --------------------------
(***************************************************************************)
(* What the Python client promises about a connection: a private session,  *)
(* on which commands act one at a time and as a whole, or fail and leave   *)
(* it as it was; a fresh session after a reset.  The only way to lose a    *)
(* session is that somebody resets the server it is on, or that this       *)
(* server is started again.                                                *)
(***************************************************************************)
EXTENDS Naturals

CONSTANTS
  Connections,
  Servers,
  NoServer,      \* the server of a connection that is not made yet
  Tried,         \* the commands
  Fresh,         \* a session in which nothing was done
  Results(_, _)  \* for a session and a command, the outcomes: state and answer

VARIABLES
  server,   \* the server of a connection
  session,  \* the set of its session, which is empty when that is lost
  call,     \* its last command, how that ended and the answer
  wiping,   \* resets of servers that were asked for
  restarts  \* how often a server was started again

vars == <<server, session, call, wiping, restarts>>

NoCall == <<"none", <<>>, <<>>>>

Init ==
    /\ server = [c \in Connections |-> NoServer]
    /\ session = [c \in Connections |-> {Fresh}]
    /\ call = [c \in Connections |-> NoCall]
    /\ wiping = {}
    /\ restarts = 0

New(c) == /\ call' = [call EXCEPT ![c] = NoCall]
          /\ session' = [session EXCEPT ![c] = {Fresh}]

\* A process of its own that is left takes what it had to do with it.
Connect(c) ==
    /\ \E s \in Servers : server' = [server EXCEPT ![c] = s]
    /\ \A w \in wiping \ wiping' : w[2] = server[c]
    /\ \A w \in wiping' \ wiping : w[2] = server'[c]
    /\ New(c)
    /\ UNCHANGED restarts

Call(c) ==
    /\ server[c] # NoServer /\ call[c][1] # "sent"
    /\ \E r \in Tried : call' = [call EXCEPT ![c] = <<"sent", r, <<>>>>]
    /\ UNCHANGED <<server, wiping, restarts, session>>

Succeed(c) ==
    /\ call[c][1] = "sent" /\ call'[c][1] = "ok"
    /\ \E s \in session[c] : \E r \in Results(s, call[c][2]) :
         /\ call' = [call EXCEPT ![c] = <<"ok", <<>>, r.answer>>]
         /\ session' = [session EXCEPT ![c] = {r.state}]
    /\ UNCHANGED <<server, wiping, restarts>>

Fail(c) ==
    /\ call[c][1] = "sent"
    /\ call' = [call EXCEPT ![c] = <<"error", <<>>, <<>>>>]
    /\ UNCHANGED <<server, wiping, restarts, session>>

Reset(c) == call[c][1] # "sent" /\ New(c) /\ UNCHANGED <<server, wiping, restarts>>

ResetServer(c) ==
    /\ server[c] # NoServer
    /\ wiping \subseteq wiping' /\ \A w \in wiping' \ wiping : w[2] = server[c]
    /\ New(c)
    /\ UNCHANGED <<server, restarts>>

\* Of the connections to server s, any may lose its session.
MayLose(s) ==
    \E losers \in SUBSET {c \in Connections : server[c] = s} :
        session' = [c \in Connections |-> IF c \in losers THEN {} ELSE session[c]]

Wipe ==
    \E w \in wiping : /\ wiping' = wiping \ {w}
                      /\ UNCHANGED <<server, call, restarts>>
                      /\ MayLose(w[2])

Restart(s) ==
    /\ restarts' = restarts + 1
    /\ wiping' = {w \in wiping : w[2] # s}
    /\ call' = [c \in Connections |->
                  IF server[c] = s /\ call[c][1] = "sent"
                  THEN <<"error", <<>>, <<>>>> ELSE call[c]]
    /\ MayLose(s)
    /\ UNCHANGED server

Next ==
    \/ \E c \in Connections : Connect(c) \/ Call(c) \/ Succeed(c) \/ Fail(c)
                              \/ Reset(c) \/ ResetServer(c)
    \/ Wipe
    \/ \E s \in Servers : Restart(s)

Spec == Init /\ [][Next]_vars
=============================================================================
